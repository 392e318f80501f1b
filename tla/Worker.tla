------------------------------- MODULE Worker -------------------------------
(***************************************************************************)
(* One nginx worker and the connections it serves: each request of a       *)
(* client occupies a connection, and a second one to the peer it is passed *)
(* to, out of the worker_connections of a fixed array.  Every handler runs *)
(* to its end before the next event, so a handler is one action; what it   *)
(* may find (bytes, errors, full buffers) is a choice of the state it ends *)
(* in.  Requests have no body and are sent with one write.                 *)
(***************************************************************************)
EXTENDS Integers, Sequences, FiniteSets, SequencesExt

CONSTANTS
    Clients,       \* clients, each with at most one connection at a time
    ConnectionN,   \* worker_connections
    Peers          \* number of servers in the upstream block

ASSUME WorkerAssumption ==
    /\ IsFiniteSet(Clients)
    /\ ConnectionN \in Nat /\ ConnectionN > 2 /\ Peers \in Nat \ {0}

VARIABLES
    w,      \* connections, see Init
    mode    \* the loop: "run", "exiting" (ngx_exiting), "exited", "killed"

vars == <<w, mode>>

\* A client's connection that is not open
NoConn == [st |-> "none", timers |-> {}, tries |-> 0, peer |-> FALSE, up |-> FALSE]

\* The listening socket and the channel to the master have a connection each.
Init ==
    /\ w = [conn |-> [c \in Clients |-> NoConn],   \* handler and timers
            queue |-> <<>>,                        \* reusable_connections_queue
            free |-> ConnectionN - 2,              \* free_connection_n
            load |-> 0]                            \* the conns of all peers
    /\ mode = "run"

-----------------------------------------------------------------------------
(* Connections *)

Unqueue(v, c) == [v EXCEPT !.queue = RemoveFirst(@, c)]

\* ngx_reusable_connection(c, 1)
Reusable(v, c) == [v EXCEPT !.queue = <<c>> \o Unqueue(v, c).queue]

\* A connection waits in state st with the timers T.
Waits(v, c, st, T) == [v EXCEPT !.conn[c].st = st, !.conn[c].timers = T]

\* ngx_http_close_connection, ngx_close_connection
CloseConnection(v, c) ==
    [Unqueue(v, c) EXCEPT !.conn[c] = NoConn, !.free = @ + 1]

\* The connections of the sequence s are told to close, one after the other.
CloseEach(v, s) ==
    LET f[i \in 0..Len(s)] == IF i = 0 THEN v ELSE CloseConnection(f[i - 1], s[i])
    IN  f[Len(s)]

\* ngx_drain_connections: the oldest reusable connections are told to close,
\* which the three handlers that make a connection reusable all obey.
Drain(v) ==
    LET r == Len(v.queue)
        n == IF r \div 8 > 32 THEN 32 ELSE IF r < 16 THEN 1 ELSE r \div 8
    IN  IF v.free > ConnectionN \div 16 \/ r = 0 THEN v
        ELSE CloseEach(v, SubSeq(v.queue, r - n + 1, r))

\* Mutant: the peer is not forgotten when it is given back
FreePeerAgain(v, c) ==
    [v EXCEPT !.load = @ - 1, !.conn[c].tries = IF @ > 0 THEN @ - 1 ELSE 0]

\* u->peer.free and u->peer.sockaddr = NULL
FreePeer(v, c) ==
    IF ~v.conn[c].peer THEN v
    ELSE [v EXCEPT !.load = @ - 1, !.conn[c].peer = FALSE,
                   !.conn[c].tries = IF @ > 0 THEN @ - 1 ELSE 0]

\* ngx_close_connection(u->peer.connection)
CloseUpstream(v, c) ==
    IF ~v.conn[c].up THEN v
    ELSE [v EXCEPT !.free = @ + 1, !.conn[c].up = FALSE,
                   !.conn[c].timers = @ \ {"uread", "uwrite"}]

\* ngx_http_upstream_finalize_request up to what it does for the client; it is
\* also the request's cleanup handler.
FinalizeUpstream(v, c) ==
    [CloseUpstream(FreePeer(v, c), c) EXCEPT !.conn[c].tries = 0]

\* ngx_http_terminate_request, ngx_http_close_request, ngx_http_free_request
CloseRequest(v, c) == CloseConnection(FinalizeUpstream(v, c), c)

-----------------------------------------------------------------------------
(* The end of a request; operators in the plural are sets of outcomes *)

\* Mutant: a connection is kept alive in a worker that is shutting down
FinalizeConnectionsKept(v, c, keep) ==
    {CloseRequest(v, c)} \cup
    (IF keep THEN {Reusable(Waits(v, c, "idle", {"read"}), c)} ELSE {})

\* ngx_http_set_keepalive: the next request may be in the buffer (pipelined).
SetKeepalives(v, c) ==
    {Reusable(Waits(v, c, "idle", {"read"}), c), Waits(v, c, "posted", {})}

\* ngx_http_set_lingering_close
SetLingeringClose(v, c) == Reusable(Waits(v, c, "linger", {"read"}), c)

\* ngx_http_finalize_connection: closed, lingering, or kept alive.
FinalizeConnections(v, c, keep) ==
    {CloseRequest(v, c), SetLingeringClose(v, c)} \cup
    (IF keep /\ mode = "run" THEN SetKeepalives(v, c) ELSE {})

\* ngx_http_set_write_handler
SetWriteHandler(v, c) == Waits(v, c, "write", {"write"})

\* ngx_http_finalize_request of an answer (keep unless the connection has to be
\* closed after it): output may be left to write, the client may be gone.
Answers(v, c, keep) ==
    {SetWriteHandler(v, c)} \cup FinalizeConnections(v, c, keep)

\* The answer is nginx's own or the error page of an upstream that failed.
Fails(v, c) == Answers(FinalizeUpstream(v, c), c, TRUE)

-----------------------------------------------------------------------------
(* The upstream *)

GetPeer(v, c) == [v EXCEPT !.load = @ + 1, !.conn[c].peer = TRUE]

\* ngx_event_connect_peer when connect() fails at once: another peer is next.
Declined(v, c) ==
    LET d == Drain(GetPeer(v, c)) IN IF d.free = 0 THEN v ELSE FreePeer(d, c)

\* k peers decline one after the other.
DeclinedBy(v, c, k) ==
    LET f[i \in 0..k] == IF i = 0 THEN v ELSE Declined(f[i - 1], c) IN f[k]

\* Mutant: connecting is not timed
ConnectsUntimed(v, c) ==
    LET d == Drain(GetPeer(v, c)) IN
    IF d.free = 0 THEN Fails(d, c)
    ELSE {Waits([d EXCEPT !.free = @ - 1, !.conn[c].up = TRUE], c, "connect", {})}

\* ngx_http_upstream_connect: after k peers that declined, all tries are used,
\* no peer is live (NGX_BUSY), no connection is free (NGX_ERROR), or it waits.
Connects(v, c) == UNION {
    LET u == DeclinedBy(v, c, k)
        d == Drain(GetPeer(u, c))
    IN  IF u.conn[c].tries = 0 THEN Fails(u, c)
        ELSE Fails(u, c) \cup
             IF d.free = 0 THEN Fails(d, c)
             ELSE {Waits([d EXCEPT !.free = @ - 1, !.conn[c].up = TRUE],
                         c, "connect", {"uwrite"})}
    : k \in 0..v.conn[c].tries}

\* ngx_http_upstream_next: another peer, or the end if there are no more tries
\* or this failure is not to be retried.
Nexts(v, c) ==
    LET u == FreePeer(v, c) IN
    Fails(u, c) \cup
    (IF u.conn[c].tries = 0 THEN {} ELSE Connects(CloseUpstream(u, c), c))

\* ngx_event_pipe: it reads until the peer has no more (which is timed) or the
\* buffers are full, as they are only while the client takes nothing (likewise).
Piped(v, c) == {Waits(v, c, "relay", T) : T \in (SUBSET {"uread", "write"}) \ {{}}}

\* ngx_http_upstream_process_request: more to come, the complete answer, or one
\* the peer broke off, after which the connection is closed.
Relays(v, c) ==
    LET u == FinalizeUpstream(v, c) IN
    Piped(v, c) \cup Answers(u, c, TRUE) \cup Answers(u, c, FALSE)

-----------------------------------------------------------------------------
(* Requests *)

\* ngx_http_init_connection
InitConnection(v, c) == Reusable(Waits(v, c, "wait", {"read"}), c)

\* ngx_http_upstream_init, ngx_http_upstream_init_request (proxy_pass)
UpstreamInits(v, c) == Connects([v EXCEPT !.conn[c].tries = Peers], c)

\* ngx_http_process_request: the read timer is deleted, then the request is
\* answered (stub_status), refused or passed on.
ProcessRequests(v, c) ==
    LET u == [v EXCEPT !.conn[c].timers = {}] IN
    Answers(u, c, FALSE) \cup Answers(u, c, TRUE) \cup UpstreamInits(u, c)

\* Reading a request line and headers: not all of it has come (the timer is set
\* unless it is), it is malformed, or it is complete.
Reads(v, c) ==
    {Waits(v, c, "read", {"read"})}
      \cup Answers(v, c, FALSE) \cup ProcessRequests(v, c)

-----------------------------------------------------------------------------
(* Events *)

St(c) == w.conn[c].st

Alive == mode \in {"run", "exiting"}

\* The event of a connection in one of the states S is handled.
Handles(c, S, outcomes) ==
    /\ Alive /\ St(c) \in S
    /\ w' \in outcomes
    /\ UNCHANGED mode

\* Mutant: the worker does not notice that it has no connection left
AcceptUnchecked(c) ==
    /\ mode = "run" /\ St(c) = "none"
    /\ w' = InitConnection([Drain(w) EXCEPT !.free = @ - 1], c)
    /\ UNCHANGED mode

\* ngx_event_accept; without a connection the socket is closed.
Accept(c) ==
    /\ mode = "run" /\ St(c) = "none"
    /\ LET d == Drain(w) IN
         w' = IF d.free = 0 THEN d
              ELSE InitConnection([d EXCEPT !.free = @ - 1], c)
    /\ UNCHANGED mode

\* Mutant: a connection with a request stays reusable
WaitRequestQueued(c) ==
    Handles(c, {"wait"}, {Reusable(w, c), CloseConnection(w, c)} \cup Reads(w, c))

\* ngx_http_wait_request_handler: there is nothing to read after all, the client
\* has closed the connection, or the first bytes of a request have come.
WaitRequest(c) ==
    Handles(c, {"wait"},
            {Reusable(w, c), CloseConnection(w, c)} \cup Reads(Unqueue(w, c), c))

\* ngx_http_keepalive_handler: likewise, between two requests.
KeepaliveRequest(c) ==
    Handles(c, {"idle"}, {CloseConnection(w, c)} \cup Reads(Unqueue(w, c), c))

\* ngx_http_process_request_line, ngx_http_process_request_headers: the client
\* has closed the connection, or more has come.
ReadRequest(c) ==
    Handles(c, {"read"}, {CloseRequest(w, c)} \cup Reads(w, c))

\* The posted event of a pipelined request, whose first bytes have been read.
PostedRequest(c) == Handles(c, {"posted"}, Reads(w, c))

\* ngx_http_upstream_check_broken_connection: the client is gone, and with it
\* the request at the peer.
CheckBroken(c) ==
    Handles(c, {"connect", "header", "relay"}, {CloseRequest(w, c)})

\* ngx_http_test_reading, while the answer is being written
TestReading(c) == Handles(c, {"write"}, {CloseRequest(w, c)})

\* ngx_http_lingering_close_handler: what the client still sends is dropped until
\* it closes, or until the time for it is over.
Linger(c) == Handles(c, {"linger"}, {w, CloseRequest(w, c)})

\* ngx_http_upstream_send_request once the peer is connected
SendRequest(c) == Handles(c, {"connect"}, {Waits(w, c, "header", {"uread"})})

\* ngx_http_upstream_process_header: more to come, an answer (which is relayed as
\* far as it has come), or a peer that closes or answers with garbage.
ProcessHeader(c) ==
    Handles(c, {"header"}, {w} \cup Relays(w, c) \cup Nexts(w, c))

\* ngx_http_upstream_process_upstream: the peer has sent more or closes.
ProcessUpstream(c) == Handles(c, {"relay"}, Relays(w, c))

\* ngx_http_upstream_process_downstream: the client takes more.
ProcessDownstream(c) == Handles(c, {"relay"}, Relays(w, c))

\* ngx_http_upstream_send_request finds that the connection has failed.
ConnectError(c) == Handles(c, {"connect"}, Nexts(w, c))

\* ngx_http_writer: the rest of the answer is written (whether the request may
\* be followed by another one is not remembered).
Written(c) == Handles(c, {"write"}, FinalizeConnections(w, c, TRUE))

\* ngx_event_expire_timers: the handler is called with timedout set.
Timeout(c) == \E t \in w.conn[c].timers :
    /\ Alive
    /\ w' \in IF St(c) \in {"connect", "header"} THEN Nexts(w, c)
              ELSE IF t = "uread" THEN Answers(FinalizeUpstream(w, c), c, FALSE)
              ELSE {CloseRequest(w, c)}
    /\ UNCHANGED mode

\* No event is pending at the top of ngx_worker_process_cycle's loop.
Posted == \E c \in Clients : St(c) = "posted"

Idle == {c \in Clients : St(c) = "idle"}

\* ngx_quit: no more connections are accepted, idle ones are closed.
Quit ==
    /\ mode = "run" /\ ~Posted
    /\ mode' = "exiting"
    /\ w' = CloseEach([w EXCEPT !.free = @ + 1], SetToSeq(Idle))

\* ngx_event_no_timers_left and ngx_worker_process_exit
Exit ==
    /\ mode = "exiting" /\ ~Posted
    /\ \A c \in Clients : w.conn[c].timers = {}
    /\ mode' = "exited" /\ UNCHANGED w

\* ngx_terminate
Terminate ==
    /\ Alive /\ ~Posted /\ mode' = "killed" /\ UNCHANGED w

Events(c) ==
    \/ Accept(c) \/ WaitRequest(c) \/ KeepaliveRequest(c) \/ ReadRequest(c)
    \/ PostedRequest(c) \/ CheckBroken(c) \/ TestReading(c) \/ Linger(c)
    \/ SendRequest(c) \/ ConnectError(c) \/ ProcessHeader(c)
    \/ ProcessUpstream(c) \/ ProcessDownstream(c) \/ Written(c)

Next == (\E c \in Clients : Events(c) \/ Timeout(c)) \/ Quit \/ Exit \/ Terminate

\* A connection whose timer is set does not get rid of it for ever by setting it
\* again.  That is so as long as the handlers set timers again only for bytes that
\* arrive or leave, and requests and answers are finite.  Clients and peers need
\* not send or take anything.
Fairness == WF_vars(Exit) /\ \A c \in Clients : WF_vars(Timeout(c))

Spec == Init /\ [][Next]_vars /\ Fairness

-----------------------------------------------------------------------------
States == {"none", "wait", "read", "posted", "connect", "header", "relay",
           "write", "idle", "linger"}

\* Type invariant.
TypeOK ==
    /\ \A c \in Clients :
         /\ St(c) \in States
         /\ w.conn[c].timers \subseteq {"read", "write", "uread", "uwrite"}
         /\ w.conn[c].tries \in 0..Peers
         /\ w.conn[c].peer \in BOOLEAN /\ w.conn[c].up \in BOOLEAN
    /\ w.queue \in Seq(Clients) /\ w.free \in 0..ConnectionN /\ w.load \in Nat
    /\ mode \in {"run", "exiting", "exited", "killed"}

Open    == {c \in Clients : St(c) # "none"}
Proxied == {c \in Clients : St(c) \in {"connect", "header", "relay"}}

\* Whichever of errors, timeouts, retries, aborts, reuse and shutdown ends a
\* request, its connections go back to the free list and its peer is given back,
\* each once: the free list has what is not open, and the connections that the
\* balancer compares are those of the requests that are at a peer.
Accounted == Alive =>
    /\ \A c \in Clients : w.conn[c].up = w.conn[c].peer /\ w.conn[c].up = (c \in Proxied)
    /\ w.load = Cardinality(Proxied)
    /\ w.free + Cardinality(Open) + Cardinality(Proxied)
         = ConnectionN - (IF mode = "run" THEN 2 ELSE 1)

\* A worker that shuts down gracefully waits for timers, not for requests; no
\* handler ever leaves an open connection without one, so none is cut off ("open
\* socket left in connection").
QuietExit == mode = "exited" => Open = {}

Serving == Open \ {c \in Clients : St(c) \in {"wait", "idle", "linger"}}

\* A worker short of connections takes them from clients that wait or have been
\* answered: a connection with a request is closed only by its own handler, which
\* touches no other one but those it takes for itself.
ReuseSparesRequests ==
    [][\A c, d \in Clients :
         /\ c # d /\ c \in Serving /\ w'.conn[c].st = "none"
         /\ w'.conn[d] # w.conn[d]
         => d \in Open \ Serving /\ w'.conn[d].st = "none"]_vars

\* A worker told to quit ends, even if its clients and peers fall silent, provided
\* that no request or answer goes on for ever.
QuitDrains == mode = "exiting" ~> mode \in {"exited", "killed"}

=============================================================================
