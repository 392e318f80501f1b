------------------------------ MODULE LeastConn ------------------------------
(***************************************************************************)
(* The load balancer: one nginx worker that distributes requests over the  *)
(* servers of the upstream block AutoBurst writes, with the repository's   *)
(* own change to the least_conn module (src/nginx/src/http/modules/        *)
(* ngx_http_upstream_least_conn_module.c) on top of the peers of           *)
(* ngx_http_upstream_round_robin.c.                                        *)
(*                                                                         *)
(* A worker handles one event at a time, so picking a peer and giving it   *)
(* back are atomic, while the requests in flight interleave.  The server   *)
(* lines AutoBurst writes carry a weight and nothing else: there are no    *)
(* backup, down or max_conns peers, and the bit map rrp->tried is a set.   *)
(***************************************************************************)
EXTENDS Integers, Sequences, FiniteSets, FiniteSetsExt

CONSTANTS
  Weights,       \* the weight of each server, in the order of the block
  Requests,      \* request slots, each used again and again
  MaxFails,      \* max_fails (nginx's default is 1)
  FailTimeout,   \* fail_timeout
  MaxTime        \* bound of the clock

Peers == DOMAIN Weights

ASSUME BalancerAssumption ==
  /\ Weights \in Seq(Nat \ {0}) /\ Weights # <<>> /\ IsFiniteSet(Requests)
  /\ MaxFails \in Nat \ {0}
  /\ FailTimeout \in Nat /\ MaxTime \in Nat /\ FailTimeout < MaxTime

VARIABLES
  peers,     \* the ngx_http_upstream_rr_peer_t records, field by field
  now,       \* ngx_time()
  status,    \* of each request: "idle" or "sent"
  current,   \* rrp->current: the peer a request was sent to
  tried,     \* rrp->tried
  tries,     \* pc->tries
  lastUse    \* when each peer last was given a request or failed one (history)

requestVars == <<status, current, tried, tries>>
vars == <<peers, now, requestVars, lastUse>>

Single == Len(Weights) = 1

\* ngx_http_upstream_init_round_robin on the servers of the block
FreshPeers ==
  [conns            |-> [i \in Peers |-> 0],
   fails            |-> [i \in Peers |-> 0],
   accessed         |-> [i \in Peers |-> 0],
   checked          |-> [i \in Peers |-> 0],
   effective_weight |-> Weights,
   current_weight   |-> [i \in Peers |-> 0]]

Init ==
  /\ peers = FreshPeers
  /\ now = FailTimeout + 1
  /\ status = [r \in Requests |-> "idle"]
  /\ current = [r \in Requests |-> 0]
  /\ tried = [r \in Requests |-> {}]
  /\ tries = [r \in Requests |-> 0]
  /\ lastUse = [i \in Peers |-> 0]

-----------------------------------------------------------------------------
(* Picking a peer *)

\* a peer that failed too often rests for fail_timeout
Live(P, i) ==
  \/ P.fails[i] < MaxFails
  \/ now - P.checked[i] > FailTimeout

\* Mutant: each side is multiplied by its own weight
LessOwnWeight(P, i, k) ==
  (P.conns[i] + 1) * Weights[i] < (P.conns[k] + 1) * Weights[k]

\* Would i be less loaded than k, if each got one more request?
Less(P, i, k) ==
  (P.conns[i] + 1) * Weights[k] < (P.conns[k] + 1) * Weights[i]

\* The first pass keeps the first peer no later one is less loaded than
Best(P, E) ==
  CHOOSE i \in E : /\ \A k \in E : ~Less(P, k, i)
                   /\ \A k \in E : k < i => Less(P, i, k)

\* The peers from Best on that are tied with it: by the loads they have now
Tied(P, E) ==
  LET best == Best(P, E)
  IN  {i \in E : /\ i >= best
                 /\ P.conns[i] * Weights[best] = P.conns[best] * Weights[i]}

\* the first of the peers T with the greatest current weight
Heaviest(cw, T) ==
  CHOOSE i \in T : \A k \in T : cw[k] < cw[i] \/ (cw[k] = cw[i] /\ k >= i)

\* Mutant: the chosen peer pays its own weight only
SmoothNoTotal(P, T) ==
  LET cw   == [i \in Peers |-> P.current_weight[i] +
                 IF i \in T THEN P.effective_weight[i] ELSE 0]
      best == Heaviest(cw, T)
  IN  [best  |-> best,
       peers |-> [P EXCEPT !.current_weight =
                    [cw EXCEPT ![best] = @ - P.effective_weight[best]]]]

\* The second pass: smooth weighted round robin among the tied peers T
Smooth(P, T) ==
  LET cw    == [i \in Peers |-> P.current_weight[i] +
                  IF i \in T THEN P.effective_weight[i] ELSE 0]
      total == MapThenSumSet(LAMBDA i : P.effective_weight[i], T)
      best  == Heaviest(cw, T)
  IN  [best  |-> best,
       peers |-> [P EXCEPT
         !.current_weight = [cw EXCEPT ![best] = @ - total],
         !.effective_weight =
           [i \in Peers |-> IF i \in T /\ @[i] < Weights[i] THEN @[i] + 1 ELSE @[i]]]]

\* Mutant: the time of the trial is not noted
TakeUnchecked(P, i) == [P EXCEPT !.conns[i] = @ + 1]

\* the chosen peer: its check time and its connections
Take(P, i) ==
  [P EXCEPT !.checked[i] = IF now - @ > FailTimeout THEN now ELSE @,
            !.conns[i] = @ + 1]

\* ngx_http_upstream_get_least_conn_peer on the peers P, for a request that
\* has tried S: the peer, 0 for NGX_BUSY, and the peers afterwards
GetPeer(P, S) ==
  LET E == {i \in Peers \ S : Live(P, i)}
      T == Tied(P, E)
  IN  IF Single THEN [best |-> 1, peers |-> [P EXCEPT !.conns[1] = @ + 1]]
      ELSE IF E = {} THEN [best |-> 0, peers |-> P]
      ELSE LET pick == IF T = {Best(P, E)}
                       THEN [best |-> Best(P, E), peers |-> P]
                       ELSE Smooth(P, T)
           IN  [best |-> pick.best, peers |-> Take(pick.peers, pick.best)]

-----------------------------------------------------------------------------
(* Giving a peer back *)

\* Mutant: the effective weight may drop below 0
BlameUnfloored(P, i) ==
  [P EXCEPT !.fails[i] = @ + 1,
            !.accessed[i] = now,
            !.checked[i] = now,
            !.effective_weight[i] = @ - Weights[i] \div MaxFails]

\* what a failure does to the peer, besides the end of the connection
Blame(P, i) ==
  [P EXCEPT !.fails[i] = @ + 1,
            !.accessed[i] = now,
            !.checked[i] = now,
            !.effective_weight[i] =
              IF @ < Weights[i] \div MaxFails THEN 0
              ELSE @ - Weights[i] \div MaxFails]

\* Mutant: a failed connection is not given back
FreeOnSuccessOnly(P, i, failed) ==
  IF failed THEN Blame(P, i) ELSE [P EXCEPT !.conns[i] = @ - 1]

\* ngx_http_upstream_free_round_robin_peer
FreePeer(P, i, failed) ==
  LET Q == IF Single THEN P
           ELSE IF failed THEN Blame(P, i)
           ELSE IF P.accessed[i] < P.checked[i] THEN [P EXCEPT !.fails[i] = 0]
           ELSE P
  IN  [Q EXCEPT !.conns[i] = @ - 1]

-----------------------------------------------------------------------------
(* Requests *)

\* request r goes to the peer GetPeer picks, or ends when there is none
Connect(r, P, S, n) ==
  LET pick == GetPeer(P, S) IN
    /\ peers' = pick.peers
    /\ status' = [status EXCEPT ![r] = IF pick.best = 0 THEN "idle" ELSE "sent"]
    /\ current' = [current EXCEPT ![r] = pick.best]
    /\ tried' = [tried EXCEPT ![r] =
                   IF pick.best = 0 THEN {}
                   ELSE IF Single THEN S ELSE S \cup {pick.best}]
    /\ tries' = [tries EXCEPT ![r] = IF pick.best = 0 THEN 0 ELSE n]
    /\ lastUse' = [i \in Peers |->
                     IF i = pick.best \/ (status[r] = "sent" /\ i = current[r])
                     THEN now ELSE lastUse[i]]

Finalize(r, P) ==
  /\ peers' = P
  /\ status' = [status EXCEPT ![r] = "idle"]
  /\ current' = [current EXCEPT ![r] = 0]
  /\ tried' = [tried EXCEPT ![r] = {}]
  /\ tries' = [tries EXCEPT ![r] = 0]

\* ngx_http_upstream_init_round_robin_peer and the first connect
Arrive(r) ==
  /\ status[r] = "idle"
  /\ Connect(r, peers, {}, Len(Weights))
  /\ UNCHANGED now

\* the answer was passed on (or the client left): the peer is given back
Finish(r) ==
  /\ status[r] = "sent"
  /\ Finalize(r, FreePeer(peers, current[r], FALSE))
  /\ UNCHANGED <<now, lastUse>>

\* ngx_http_upstream_next after an error or a timeout, no more tries or a
\* request that must not be sent twice
GiveUp(r) ==
  /\ status[r] = "sent"
  /\ Finalize(r, FreePeer(peers, current[r], TRUE))
  /\ lastUse' = [lastUse EXCEPT ![current[r]] = now]
  /\ UNCHANGED now

\* the same with tries left: the next peer is picked at once
Retry(r) ==
  /\ status[r] = "sent" /\ ~Single /\ tries[r] > 1
  /\ Connect(r, FreePeer(peers, current[r], TRUE), tried[r], tries[r] - 1)
  /\ UNCHANGED now

Tick ==
  /\ now < MaxTime
  /\ now' = now + 1
  /\ UNCHANGED <<peers, requestVars, lastUse>>

Next ==
  \/ \E r \in Requests : Arrive(r) \/ Finish(r) \/ GiveUp(r) \/ Retry(r)
  \/ Tick

Spec == Init /\ [][Next]_vars

-----------------------------------------------------------------------------
(* Properties *)

\* Type invariant; an effective weight never exceeds the configured one and
\* never goes below 0.
TypeOK ==
  /\ peers.conns \in [Peers -> 0..Cardinality(Requests)]
  /\ peers.fails \in [Peers -> Nat]
  /\ peers.accessed \in [Peers -> 0..MaxTime]
  /\ peers.checked \in [Peers -> 0..MaxTime]
  /\ \A i \in Peers : peers.effective_weight[i] \in 0..Weights[i]
  /\ peers.current_weight \in [Peers -> Int]
  /\ now \in 0..MaxTime
  /\ status \in [Requests -> {"idle", "sent"}]
  /\ current \in [Requests -> Peers \cup {0}]
  /\ tried \in [Requests -> SUBSET Peers]
  /\ tries \in [Requests -> 0..Len(Weights)]
  /\ lastUse \in [Peers -> 0..MaxTime]

\* peer->conns is the number of requests the peer is working on, through
\* failures and retries: no connection is lost and none counted twice.
ConnsAreRequests ==
  \A i \in Peers :
    peers.conns[i] = Cardinality({r \in Requests : status[r] = "sent" /\ current[r] = i})

\* Smooth weighted round robin neither creates nor loses weight: whatever
\* ties, failures and recoveries there were, the current weights sum to 0.
SmoothWeightsBalance ==
  MapThenSumSet(LAMBDA i : peers.current_weight[i], Peers) = 0

Given(r) ==
  status'[r] = "sent" /\ (status[r] = "idle" \/ current'[r] # current[r])

\* A request is never given to a peer that is, before taking it, as loaded for
\* its weight as another available peer would be after taking it, or more.
NeverOverloads ==
  [][\A r \in Requests : Given(r) =>
       LET i == current'[r] IN
         \A k \in Peers \ tried'[r] : Live(peers', k) =>
           (peers'.conns[i] - 1) * Weights[k] < (peers'.conns[k] + 1) * Weights[i]]_vars

\* A peer that failed max_fails times gets at most one trial request per
\* fail_timeout, counted from its last request or failure, however many
\* requests are waiting for a peer.
OneTrialPerTimeout ==
  [][\A r \in Requests : Given(r) /\ ~Single /\ peers.fails[current'[r]] >= MaxFails =>
       now - lastUse[current'[r]] > FailTimeout]_vars

=============================================================================
