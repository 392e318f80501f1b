---------------------------- MODULE Worker_proofs ----------------------------
(***************************************************************************)
(* Proofs about one nginx worker, for any number of clients, connections   *)
(* and peers.  Inside a handler the connection it works on is on its way   *)
(* from one state to another; Mid is what holds of the others meanwhile.   *)
(***************************************************************************)
EXTENDS Worker, SequenceTheorems, SetFacts, TLAPS

Timers  == {"read", "write", "uread", "uwrite"}
Waiting == {"wait", "idle", "linger"}
AtPeer  == {"connect", "header", "relay"}

Conn  == [st : States, timers : SUBSET Timers, tries : 0..Peers, peer : BOOLEAN, up : BOOLEAN]
World == [conn : [Clients -> Conn], queue : Seq(Clients), free : Nat, load : Int]

\* A connection between two events: at a peer or not, and timed unless closed or posted
Sound(q) ==
    /\ q.up = q.peer /\ q.up = (q.st \in AtPeer)
    /\ q.timers = {} <=> q.st \in {"none", "posted"}
    /\ "uread" \in q.timers => q.st \in AtPeer

\* The reusable queue has each connection that may be reused once.
Queued(v, c) == c \in Range(v.queue) <=> v.conn[c].st \in Waiting

OpenBut(v, c)    == {d \in Clients \ {c} : v.conn[d].st # "none"}
ProxiedBut(v, c) == {d \in Clients \ {c} : v.conn[d].st \in AtPeer}

One(b) == IF b THEN 1 ELSE 0

\* A connection other than c's is as it was in o, or was reused.
Spared(o, v, c) == \A d \in Clients \ {c} :
    v.conn[d] = o.conn[d] \/ (o.conn[d].st \in Waiting /\ v.conn[d] = NoConn)

\* A handler that began in o is at work on c: k connections are there for the
\* others and for c's peer.
Mid(v, c, k, o) ==
    /\ v \in World /\ IsInjective(v.queue)
    /\ \A d \in Clients \ {c} : Sound(v.conn[d]) /\ Queued(v, d)
    /\ v.load = Cardinality(ProxiedBut(v, c)) + One(v.conn[c].peer)
    /\ v.free + Cardinality(OpenBut(v, c)) + Cardinality(ProxiedBut(v, c))
         + One(v.conn[c].up) = k
    /\ Spared(o, v, c)

OpenIn(v)    == {d \in Clients : v.conn[d].st # "none"}
ProxiedIn(v) == {d \in Clients : v.conn[d].st \in AtPeer}

\* Between two events, with k connections for clients and peers
Full(v, k) ==
    /\ v \in World /\ IsInjective(v.queue)
    /\ \A d \in Clients : Sound(v.conn[d]) /\ Queued(v, d)
    /\ v.load = Cardinality(ProxiedIn(v))
    /\ v.free + Cardinality(OpenIn(v)) + Cardinality(ProxiedIn(v)) = k

\* The inductive invariant
WorkerInv ==
    /\ mode \in {"run", "exiting", "exited", "killed"}
    /\ \E k \in {ConnectionN - 2, ConnectionN - 1} :
         Full(w, k) /\ (Alive => k = ConnectionN - (IF mode = "run" THEN 2 ELSE 1))
    /\ QuietExit

-----------------------------------------------------------------------------
(* One connection *)

\* The fields of a connection
LEMMA ConnFields ==
  ASSUME NEW q \in Conn
  PROVE  /\ q.st \in States /\ q.timers \in SUBSET Timers /\ q.tries \in 0..Peers
         /\ q.peer \in BOOLEAN /\ q.up \in BOOLEAN
  BY DEF Conn

\* A connection that is not open is sound.
LEMMA NoConnFields ==
  /\ NoConn \in Conn /\ NoConn.st = "none" /\ ~NoConn.peer /\ ~NoConn.up /\ NoConn.timers = {}
  /\ Sound(NoConn)
<1>1. 0 \in 0..Peers
  BY WorkerAssumption
<1>2. NoConn.st = "none" /\ NoConn.peer = FALSE /\ NoConn.up = FALSE /\ NoConn.timers = {}
  BY DEF NoConn
<1>3. NoConn \in Conn
  BY <1>1 DEF NoConn, Conn, States
<1>4. Sound(NoConn)
  <2>1. ("none" \in AtPeer) = FALSE
    BY DEF AtPeer
  <2>2. QED
    BY <1>2, <2>1 DEF Sound
<1>5. QED
  BY <1>2, <1>3, <1>4

\* The fields of the state
LEMMA WorldFields ==
  ASSUME NEW v \in World
  PROVE  /\ v.conn \in [Clients -> Conn] /\ v.queue \in Seq(Clients)
         /\ v.free \in Nat /\ v.load \in Int
         /\ \A c \in Clients : v.conn[c] \in Conn
  BY DEF World

\* One connection is replaced, and the counters and the queue are given.
Put(v, c, q, s, f, l) ==
    [v EXCEPT !.conn = [v.conn EXCEPT ![c] = q], !.queue = s, !.free = f, !.load = l]

\* What Put replaces and keeps
LEMMA PutParts ==
  ASSUME NEW v \in World, NEW c \in Clients, NEW q \in Conn, NEW s \in Seq(Clients),
         NEW f \in Nat, NEW l \in Int
  PROVE  LET u == Put(v, c, q, s, f, l) IN
         /\ u \in World /\ u.conn[c] = q /\ \A d \in Clients \ {c} : u.conn[d] = v.conn[d]
         /\ u.queue = s /\ u.free = f /\ u.load = l
  BY DEF World, Put

\* The sets that are counted are finite.
LEMMA ClientSets ==
  ASSUME NEW v, NEW c
  PROVE  /\ IsFiniteSet(OpenBut(v, c)) /\ Cardinality(OpenBut(v, c)) \in Nat
         /\ IsFiniteSet(ProxiedBut(v, c)) /\ Cardinality(ProxiedBut(v, c)) \in Nat
         /\ IsFiniteSet(OpenIn(v)) /\ Cardinality(OpenIn(v)) \in Nat
         /\ IsFiniteSet(ProxiedIn(v)) /\ Cardinality(ProxiedIn(v)) \in Nat
<1>1. \A S \in SUBSET Clients : IsFiniteSet(S) /\ Cardinality(S) \in Nat
  BY WorkerAssumption, FS_Subset, FS_CardinalityType
<1>2. /\ OpenBut(v, c) \in SUBSET Clients /\ ProxiedBut(v, c) \in SUBSET Clients
      /\ OpenIn(v) \in SUBSET Clients /\ ProxiedIn(v) \in SUBSET Clients
  BY DEF OpenBut, ProxiedBut, OpenIn, ProxiedIn
<1>3. QED
  BY <1>1, <1>2

\* What the counts are with and without c
LEMMA CountOne ==
  ASSUME NEW v, NEW c \in Clients
  PROVE  /\ Cardinality(OpenIn(v)) = Cardinality(OpenBut(v, c)) + One(v.conn[c].st # "none")
         /\ Cardinality(ProxiedIn(v)) = Cardinality(ProxiedBut(v, c)) + One(v.conn[c].st \in AtPeer)
<1>1. /\ OpenIn(v) = IF v.conn[c].st # "none" THEN OpenBut(v, c) \cup {c} ELSE OpenBut(v, c)
      /\ ProxiedIn(v) = IF v.conn[c].st \in AtPeer THEN ProxiedBut(v, c) \cup {c} ELSE ProxiedBut(v, c)
  BY DEF OpenIn, OpenBut, ProxiedIn, ProxiedBut
<1>2. c \notin OpenBut(v, c) /\ c \notin ProxiedBut(v, c)
  BY DEF OpenBut, ProxiedBut
<1>3. /\ Cardinality(OpenBut(v, c) \cup {c}) = Cardinality(OpenBut(v, c)) + 1
      /\ Cardinality(ProxiedBut(v, c) \cup {c}) = Cardinality(ProxiedBut(v, c)) + 1
  BY <1>2, ClientSets, FS_AddElement
<1>4. QED
  BY <1>1, <1>3, ClientSets DEF One

-----------------------------------------------------------------------------
(* The queue *)

\* ngx_queue_remove
LEMMA QueueRemove ==
  ASSUME NEW s \in Seq(Clients), IsInjective(s), NEW c
  PROVE  LET t == RemoveFirst(s, c) IN
         t \in Seq(Clients) /\ IsInjective(t) /\ Range(t) = Range(s) \ {c}
<1> DEFINE n == Len(s)
<1>0. DOMAIN s = 1..n /\ n \in Nat /\ \A i \in 1..n : s[i] \in Clients
  BY LenProperties, ElementOfSeq
<1>1. CASE \A i \in 1..n : s[i] # c
  <2>1. RemoveFirst(s, c) = s
    BY <1>1 DEF RemoveFirst
  <2>2. c \notin Range(s)
    BY <1>0, <1>1 DEF Range
  <2>3. QED
    BY <2>1, <2>2
<1>2. ASSUME NEW k \in 1..n, s[k] = c
      PROVE  LET t == RemoveFirst(s, c) IN
             t \in Seq(Clients) /\ IsInjective(t) /\ Range(t) = Range(s) \ {c}
  <2>1. \A i \in 1..n : s[i] = c => i = k
    BY <1>0, <1>2 DEF IsInjective
  <2>2. {i \in 1..Len(s) : s[i] = c} = {k}
    BY <1>2, <2>1
  <2>3. SelectInSeq(s, LAMBDA v : v = c) = k
    <3>1. Min({k}) = k
      BY DEF Min
    <3>2. QED
      BY <2>2, <3>1 DEF SelectInSeq
  <2> DEFINE t == RemoveAt(s, k)
  <2>4. RemoveFirst(s, c) = t
    BY <1>2, <2>3 DEF RemoveFirst
  <2>5. n - 1 \in Nat
    BY <1>0
  <2>6. t \in Seq(Clients)
    BY <1>0, <1>2 DEF RemoveAt
  <2>7. DOMAIN t = 1..(n - 1) /\ \A i \in 1..(n - 1) : t[i] = IF i < k THEN s[i] ELSE s[i + 1]
    <3> DEFINE a == SubSeq(s, 1, k - 1)
               b == SubSeq(s, k + 1, n)
    <3>1. a \in Seq(Clients) /\ Len(a) = k - 1 /\ \A i \in 1..(k - 1) : a[i] = s[i]
      BY <1>0, <1>2
    <3>2. b \in Seq(Clients) /\ Len(b) = n - k /\ \A i \in 1..(n - k) : b[i] = s[k + i]
      <4>1. \A i \in (k + 1)..n : s[i] \in Clients
        BY <1>0, <1>2
      <4>2. /\ b \in Seq(Clients) /\ Len(b) = IF k + 1 <= n THEN n - (k + 1) + 1 ELSE 0
            /\ \A i \in 1..(n - (k + 1) + 1) : b[i] = s[(k + 1) + i - 1]
        BY <1>0, <1>2, <4>1, SubSeqProperties
      <4> HIDE DEF b
      <4>3. n - (k + 1) + 1 = n - k /\ \A i \in 1..(n - k) : (k + 1) + i - 1 = k + i
        BY <1>0, <1>2
      <4>4. Len(b) = n - k
        <5>1. n \in Int /\ k \in Int /\ k <= n
          BY <1>0, <1>2
        <5> HIDE DEF n
        <5>2. (IF k + 1 <= n THEN n - (k + 1) + 1 ELSE 0) = n - k
          BY <5>1
        <5>3. QED
          BY <4>2, <5>2
      <4>5. ASSUME NEW i \in 1..(n - k) PROVE b[i] = s[k + i]
        <5>1. b[i] = s[(k + 1) + i - 1]
          BY <4>2, <4>3
        <5>2. QED
          BY <4>3, <5>1
      <4>6. QED
        BY <4>2, <4>4, <4>5
    <3>3. t = a \o b
      BY DEF RemoveAt
    <3> HIDE DEF a, b
    <3>4. /\ DOMAIN t = 1..(Len(a) + Len(b))
          /\ \A i \in 1..(Len(a) + Len(b)) : t[i] = IF i <= Len(a) THEN a[i] ELSE b[i - Len(a)]
      <4>1. t \in Seq(Clients) /\ Len(t) = Len(a) + Len(b)
        BY <3>1, <3>2, <3>3, ConcatProperties
      <4>2. \A i \in 1..(Len(a) + Len(b)) : t[i] = IF i <= Len(a) THEN a[i] ELSE b[i - Len(a)]
        BY <3>1, <3>2, <3>3, ConcatProperties
      <4> HIDE DEF t
      <4>3. QED
        BY <4>1, <4>2, LenProperties
    <3> HIDE DEF t
    <3>5. DOMAIN t = 1..(n - 1)
      BY <1>0, <3>1, <3>2, <3>4
    <3>6. ASSUME NEW i \in 1..(n - 1) PROVE t[i] = IF i < k THEN s[i] ELSE s[i + 1]
      <4>1. CASE i < k
        <5>1. i \in 1..(k - 1) /\ i \in 1..(Len(a) + Len(b)) /\ i <= Len(a)
          BY <1>0, <3>1, <3>2, <4>1
        <5>2. t[i] = a[i]
          BY <3>4, <5>1
        <5>3. QED
          BY <3>1, <4>1, <5>1, <5>2
      <4>2. CASE ~(i < k)
        <5>1. i - (k - 1) \in 1..(n - k) /\ k + (i - (k - 1)) = i + 1
          BY <1>0, <1>2, <4>2
        <5>2. t[i] = b[i - (k - 1)]
          BY <1>0, <3>1, <3>2, <3>4, <4>2
        <5>3. QED
          BY <3>2, <4>2, <5>1, <5>2
      <4>3. QED
        BY <4>1, <4>2
    <3>7. QED
      BY <3>5, <3>6
  <2> HIDE DEF t
  <2>8. IsInjective(t)
    <3>1. SUFFICES ASSUME NEW i \in 1..(n - 1), NEW j \in 1..(n - 1), t[i] = t[j] PROVE i = j
      BY <2>7 DEF IsInjective
    <3>2. \A x, y \in 1..n : s[x] = s[y] => x = y
      BY <1>0 DEF IsInjective
    <3>3. i \in 1..n /\ i + 1 \in 1..n /\ j \in 1..n /\ j + 1 \in 1..n
      BY <1>0
    <3>4. QED
      BY <2>7, <3>1, <3>2, <3>3
  <2>9. Range(t) = Range(s) \ {c}
    <3>1. ASSUME NEW i \in 1..(n - 1) PROVE t[i] \in Range(s) /\ t[i] # c
      <4>1. i \in 1..n /\ i + 1 \in 1..n
        BY <1>0
      <4>2. QED
        BY <1>0, <2>1, <2>7, <4>1 DEF Range
    <3>2. ASSUME NEW i \in 1..n, s[i] # c PROVE s[i] \in Range(t)
      <4>1. CASE i < k
        <5>1. i \in 1..(n - 1) /\ t[i] = s[i]
          BY <1>0, <2>7, <4>1
        <5>2. QED
          BY <2>7, <5>1 DEF Range
      <4>2. CASE ~(i < k)
        <5>1. i - 1 \in 1..(n - 1) /\ ~(i - 1 < k) /\ (i - 1) + 1 = i
          BY <1>0, <1>2, <3>2, <4>2
        <5>2. t[i - 1] = s[i]
          BY <2>7, <5>1
        <5>3. QED
          BY <2>7, <5>1, <5>2 DEF Range
      <4>3. QED
        BY <4>1, <4>2
    <3>3. QED
      BY <1>0, <2>7, <3>1, <3>2 DEF Range
  <2>10. QED
    BY <2>4, <2>6, <2>8, <2>9
<1>3. QED
  BY <1>1, <1>2

\* ngx_queue_insert_head
LEMMA QueueInsert ==
  ASSUME NEW s \in Seq(Clients), IsInjective(s), NEW c \in Clients, c \notin Range(s)
  PROVE  LET t == <<c>> \o s IN
         t \in Seq(Clients) /\ IsInjective(t) /\ Range(t) = Range(s) \cup {c}
<1> DEFINE n == Len(s)
           t == <<c>> \o s
<1>0. DOMAIN s = 1..n /\ n \in Nat
  BY LenProperties
<1>1. t \in Seq(Clients) /\ DOMAIN t = 1..(n + 1)
      /\ \A i \in 1..(n + 1) : t[i] = IF i = 1 THEN c ELSE s[i - 1]
  BY <1>0
<1>2. \A i \in 1..n : s[i] \in Range(s)
  BY <1>0 DEF Range
<1> HIDE DEF t
<1>3. IsInjective(t)
  <2>1. SUFFICES ASSUME NEW i \in 1..(n + 1), NEW j \in 1..(n + 1), t[i] = t[j] PROVE i = j
    BY <1>1 DEF IsInjective
  <2>2. \A x, y \in 1..n : s[x] = s[y] => x = y
    BY <1>0 DEF IsInjective
  <2>3. /\ i # 1 => i - 1 \in 1..n
        /\ j # 1 => j - 1 \in 1..n
    BY <1>0
  <2>4. QED
    BY <1>1, <1>2, <2>1, <2>2, <2>3
<1>4. Range(t) = Range(s) \cup {c}
  <2>1. ASSUME NEW i \in 1..n PROVE s[i] \in Range(t)
    <3>1. i + 1 \in 1..(n + 1) /\ i + 1 # 1 /\ (i + 1) - 1 = i
      BY <1>0
    <3>2. t[i + 1] = s[i]
      BY <1>1, <3>1
    <3>3. QED
      BY <1>1, <3>1, <3>2 DEF Range
  <2>2. c \in Range(t)
    <3>1. 1 \in 1..(n + 1)
      BY <1>0
    <3>2. QED
      BY <1>1, <3>1 DEF Range
  <2>3. ASSUME NEW i \in 1..(n + 1) PROVE t[i] \in Range(s) \cup {c}
    <3>1. i # 1 => i - 1 \in 1..n
      BY <1>0
    <3>2. QED
      BY <1>1, <1>2, <3>1
  <2>4. QED
    BY <1>0, <1>1, <2>1, <2>2, <2>3 DEF Range
<1>5. QED
  BY <1>1, <1>3, <1>4 DEF t

-----------------------------------------------------------------------------
(* What the operators do to c, and that they leave the others alone *)

\* u differs from v in c's connection, the queue and the counters only.
OnlyAt(v, u, c) ==
    /\ u \in World /\ IsInjective(u.queue)
    /\ \A d \in Clients \ {c} : /\ u.conn[d] = v.conn[d]
                                /\ d \in Range(u.queue) <=> d \in Range(v.queue)

\* ngx_queue_remove
LEMMA UnqueueParts ==
  ASSUME NEW v \in World, IsInjective(v.queue), NEW c \in Clients
  PROVE  LET u == Unqueue(v, c) IN
         /\ OnlyAt(v, u, c) /\ u.conn = v.conn /\ u.free = v.free /\ u.load = v.load
         /\ c \notin Range(u.queue)
<1> DEFINE s == RemoveFirst(v.queue, c)
           u == Unqueue(v, c)
<1>1. s \in Seq(Clients) /\ IsInjective(s) /\ Range(s) = Range(v.queue) \ {c}
  BY WorldFields, QueueRemove
<1>2. u = [v EXCEPT !.queue = s]
  BY DEF Unqueue
<1> HIDE DEF s, u
<1>3. u \in World /\ u.queue = s /\ u.conn = v.conn /\ u.free = v.free /\ u.load = v.load
  BY <1>1, <1>2 DEF World
<1>4. QED
  BY <1>1, <1>3 DEF OnlyAt, u

\* ngx_reusable_connection(c, 1)
LEMMA ReusableParts ==
  ASSUME NEW v \in World, IsInjective(v.queue), NEW c \in Clients
  PROVE  LET u == Reusable(v, c) IN
         /\ OnlyAt(v, u, c) /\ u.conn = v.conn /\ u.free = v.free /\ u.load = v.load
         /\ c \in Range(u.queue)
<1> DEFINE s == Unqueue(v, c).queue
           t == <<c>> \o s
           u == Reusable(v, c)
<1>1. s \in Seq(Clients) /\ IsInjective(s) /\ Range(s) = Range(v.queue) \ {c}
  BY WorldFields, QueueRemove DEF Unqueue, World
<1>2. u = [v EXCEPT !.queue = t]
  BY DEF Reusable
<1> HIDE DEF s, u
<1>3. t \in Seq(Clients) /\ IsInjective(t) /\ Range(t) = Range(s) \cup {c}
  BY <1>1, QueueInsert
<1> HIDE DEF t
<1>4. u \in World /\ u.queue = t /\ u.conn = v.conn /\ u.free = v.free /\ u.load = v.load
  BY <1>2, <1>3 DEF World
<1>5. QED
  BY <1>1, <1>3, <1>4 DEF OnlyAt, u

\* A handler and timers are set.
LEMMA WaitsParts ==
  ASSUME NEW v \in World, IsInjective(v.queue), NEW c \in Clients,
         NEW st \in States, NEW T \in SUBSET Timers
  PROVE  LET u == Waits(v, c, st, T) IN
         /\ OnlyAt(v, u, c) /\ u.queue = v.queue /\ u.free = v.free /\ u.load = v.load
         /\ u.conn[c].st = st /\ u.conn[c].timers = T
         /\ u.conn[c].peer = v.conn[c].peer /\ u.conn[c].up = v.conn[c].up
<1> DEFINE q == [v.conn[c] EXCEPT !.st = st, !.timers = T]
           u == Waits(v, c, st, T)
<1>1. v.conn[c] \in Conn
  BY WorldFields
<1>2. /\ q \in Conn /\ q.st = st /\ q.timers = T
      /\ q.peer = v.conn[c].peer /\ q.up = v.conn[c].up
  BY <1>1 DEF Conn
<1>3. u = [v EXCEPT !.conn = [v.conn EXCEPT ![c] = q]]
  BY DEF Waits, World, Conn
<1> HIDE DEF q, u
<1>4. /\ u \in World /\ u.conn[c] = q /\ \A d \in Clients \ {c} : u.conn[d] = v.conn[d]
      /\ u.queue = v.queue /\ u.free = v.free /\ u.load = v.load
  BY <1>2, <1>3 DEF World
<1>5. QED
  BY <1>2, <1>4 DEF OnlyAt, u

\* ngx_close_connection
LEMMA CloseParts ==
  ASSUME NEW v \in World, IsInjective(v.queue), NEW c \in Clients
  PROVE  LET u == CloseConnection(v, c) IN
         /\ OnlyAt(v, u, c) /\ u.free = v.free + 1 /\ u.load = v.load
         /\ u.conn[c] = NoConn /\ c \notin Range(u.queue)
<1> DEFINE x == Unqueue(v, c)
           u == CloseConnection(v, c)
<1>1. /\ OnlyAt(v, x, c) /\ x.conn = v.conn /\ x.free = v.free /\ x.load = v.load
      /\ c \notin Range(x.queue)
  BY UnqueueParts
<1>2. x \in World
  BY <1>1 DEF OnlyAt
<1>3. u = Put(x, c, NoConn, x.queue, x.free + 1, x.load)
  <2>1. u = [x EXCEPT !.conn = [x.conn EXCEPT ![c] = NoConn], !.free = x.free + 1]
    BY DEF CloseConnection
  <2> HIDE DEF x, u
  <2>2. QED
    BY <1>2, <2>1 DEF World, Put
<1> HIDE DEF x, u
<1>4. /\ u \in World /\ u.conn[c] = NoConn /\ \A d \in Clients \ {c} : u.conn[d] = x.conn[d]
      /\ u.queue = x.queue /\ u.free = x.free + 1 /\ u.load = x.load
  <2>1. x.load \in Int /\ x.free + 1 \in Nat /\ x.queue \in Seq(Clients)
    BY <1>2, WorldFields
  <2>2. QED
    BY <1>2, <1>3, <2>1, NoConnFields, PutParts
<1>5. QED
  BY <1>1, <1>4 DEF OnlyAt, u

\* u->peer.free: the peer counts one connection less, if there is one.
LEMMA FreePeerParts ==
  ASSUME NEW v \in World, IsInjective(v.queue), NEW c \in Clients
  PROVE  LET u == FreePeer(v, c) IN
         /\ OnlyAt(v, u, c) /\ u.queue = v.queue /\ u.free = v.free
         /\ u.load = v.load - One(v.conn[c].peer) /\ ~u.conn[c].peer
         /\ u.conn[c].up = v.conn[c].up /\ u.conn[c].st = v.conn[c].st
<1> DEFINE u == FreePeer(v, c)
           n == IF v.conn[c].tries > 0 THEN v.conn[c].tries - 1 ELSE 0
           q == [v.conn[c] EXCEPT !.peer = FALSE, !.tries = n]
<1>1. v.conn[c] \in Conn /\ v.load \in Int
  BY WorldFields
<1>2. CASE ~v.conn[c].peer
  <2>1. u = v
    BY <1>2 DEF FreePeer
  <2>2. v.load - One(v.conn[c].peer) = v.load
    BY <1>1, <1>2 DEF One
  <2>3. QED
    BY <1>2, <2>1, <2>2 DEF OnlyAt
<1>3. CASE v.conn[c].peer
  <2>1. n \in 0..Peers
    BY <1>1, ConnFields, WorkerAssumption
  <2> HIDE DEF n
  <2>2. q \in Conn /\ q.peer = FALSE /\ q.up = v.conn[c].up /\ q.st = v.conn[c].st
    BY <1>1, <2>1 DEF Conn
  <2>3. u = Put(v, c, q, v.queue, v.free, v.load - 1)
    BY <1>3 DEF FreePeer, World, Conn, Put, n
  <2> HIDE DEF q, u
  <2>4. /\ u \in World /\ u.conn[c] = q /\ \A d \in Clients \ {c} : u.conn[d] = v.conn[d]
        /\ u.queue = v.queue /\ u.free = v.free /\ u.load = v.load - 1
    <3>1. v.load - 1 \in Int /\ v.free \in Nat /\ v.queue \in Seq(Clients)
      BY WorldFields
    <3>2. QED
      BY <2>2, <2>3, <3>1, PutParts
  <2>5. v.load - One(v.conn[c].peer) = v.load - 1
    BY <1>3 DEF One
  <2>6. QED
    BY <2>2, <2>4, <2>5 DEF OnlyAt, u
<1>4. QED
  BY <1>2, <1>3

\* The connection to the peer is free, if there is one.
LEMMA CloseUpstreamParts ==
  ASSUME NEW v \in World, IsInjective(v.queue), NEW c \in Clients
  PROVE  LET u == CloseUpstream(v, c) IN
         /\ OnlyAt(v, u, c) /\ u.queue = v.queue /\ u.load = v.load
         /\ u.free = v.free + One(v.conn[c].up) /\ ~u.conn[c].up
         /\ u.conn[c].peer = v.conn[c].peer /\ u.conn[c].st = v.conn[c].st
<1> DEFINE u == CloseUpstream(v, c)
           T == v.conn[c].timers \ {"uread", "uwrite"}
           q == [v.conn[c] EXCEPT !.up = FALSE, !.timers = T]
<1>1. v.conn[c] \in Conn /\ v.free \in Nat
  BY WorldFields
<1>2. CASE ~v.conn[c].up
  <2>1. u = v
    BY <1>2 DEF CloseUpstream
  <2>2. v.free + One(v.conn[c].up) = v.free
    BY <1>1, <1>2 DEF One
  <2>3. QED
    BY <1>2, <2>1, <2>2 DEF OnlyAt
<1>3. CASE v.conn[c].up
  <2>1. q \in Conn /\ q.up = FALSE /\ q.peer = v.conn[c].peer /\ q.st = v.conn[c].st
    BY <1>1 DEF Conn
  <2>2. u = Put(v, c, q, v.queue, v.free + 1, v.load)
    BY <1>3 DEF CloseUpstream, World, Conn, Put
  <2> HIDE DEF q, u
  <2>3. /\ u \in World /\ u.conn[c] = q /\ \A d \in Clients \ {c} : u.conn[d] = v.conn[d]
        /\ u.queue = v.queue /\ u.free = v.free + 1 /\ u.load = v.load
    <3>1. v.load \in Int /\ v.free + 1 \in Nat /\ v.queue \in Seq(Clients)
      BY WorldFields
    <3>2. QED
      BY <2>1, <2>2, <3>1, PutParts
  <2>4. v.free + One(v.conn[c].up) = v.free + 1
    BY <1>3 DEF One
  <2>5. QED
    BY <2>1, <2>3, <2>4 DEF OnlyAt, u
<1>4. QED
  BY <1>2, <1>3

\* The peer counts one connection more.
LEMMA GetPeerParts ==
  ASSUME NEW v \in World, IsInjective(v.queue), NEW c \in Clients
  PROVE  LET u == GetPeer(v, c) IN
         /\ OnlyAt(v, u, c) /\ u.queue = v.queue /\ u.free = v.free /\ u.load = v.load + 1
         /\ u.conn[c].peer /\ u.conn[c].up = v.conn[c].up /\ u.conn[c].st = v.conn[c].st
<1> DEFINE u == GetPeer(v, c)
           q == [v.conn[c] EXCEPT !.peer = TRUE]
<1>1. v.conn[c] \in Conn
  BY WorldFields
<1>2. q \in Conn /\ q.peer = TRUE /\ q.up = v.conn[c].up /\ q.st = v.conn[c].st
  BY <1>1 DEF Conn
<1>3. u = Put(v, c, q, v.queue, v.free, v.load + 1)
  BY DEF GetPeer, World, Conn, Put
<1> HIDE DEF q, u
<1>4. /\ u \in World /\ u.conn[c] = q /\ \A d \in Clients \ {c} : u.conn[d] = v.conn[d]
      /\ u.queue = v.queue /\ u.free = v.free /\ u.load = v.load + 1
  <2>1. v.load + 1 \in Int /\ v.free \in Nat /\ v.queue \in Seq(Clients)
    BY WorldFields
  <2>2. QED
    BY <1>2, <1>3, <2>1, PutParts
<1>5. QED
  BY <1>2, <1>4 DEF OnlyAt, u

-----------------------------------------------------------------------------
(* Inside a handler *)

\* From v to u the counters follow c's peer, and j connections are gained.
Balanced(v, u, c, j) ==
    /\ u.load = v.load - One(v.conn[c].peer) + One(u.conn[c].peer)
    /\ u.free = v.free + One(v.conn[c].up) - One(u.conn[c].up) + j

\* What holds inside a handler is kept by a change to c alone.
LEMMA MidKept ==
  ASSUME NEW c \in Clients, NEW v, NEW k \in Int, NEW o, Mid(v, c, k, o), NEW j \in Int,
         NEW u, OnlyAt(v, u, c), Balanced(v, u, c, j)
  PROVE  Mid(u, c, k + j, o)
<1> DEFINE O == Cardinality(OpenBut(v, c))
           P == Cardinality(ProxiedBut(v, c))
<1>1. OpenBut(u, c) = OpenBut(v, c) /\ ProxiedBut(u, c) = ProxiedBut(v, c)
  BY DEF OnlyAt, OpenBut, ProxiedBut
<1>2. O \in Nat /\ P \in Nat
  BY ClientSets
<1>3. v \in World /\ u \in World
  BY DEF Mid, OnlyAt
<1>4. /\ v.load = P + One(v.conn[c].peer)
      /\ v.free + O + P + One(v.conn[c].up) = k
  BY DEF Mid
<1>5. /\ One(v.conn[c].peer) \in Int /\ One(u.conn[c].peer) \in Int
      /\ One(v.conn[c].up) \in Int /\ One(u.conn[c].up) \in Int
  BY DEF One
<1>6. v.free \in Int /\ v.load \in Int
  BY <1>3, WorldFields
<1>7. /\ u.load = Cardinality(ProxiedBut(u, c)) + One(u.conn[c].peer)
      /\ u.free + Cardinality(OpenBut(u, c)) + Cardinality(ProxiedBut(u, c))
           + One(u.conn[c].up) = k + j
  <2> HIDE DEF O, P
  <2>1. u.load = P + One(u.conn[c].peer)
    BY <1>2, <1>4, <1>5, <1>6 DEF Balanced
  <2>2. u.free + O + P + One(u.conn[c].up) = k + j
    BY <1>2, <1>4, <1>5, <1>6 DEF Balanced
  <2>3. QED
    BY <1>1, <2>1, <2>2 DEF O, P
<1>8. \A d \in Clients \ {c} : Sound(u.conn[d]) /\ Queued(u, d)
  BY DEF Mid, OnlyAt, Queued
<1>9. Spared(o, u, c)
  BY DEF Mid, OnlyAt, Spared
<1>10. QED
  BY <1>3, <1>7, <1>8, <1>9 DEF Mid, OnlyAt

\* The same when nothing is gained
LEMMA MidSame ==
  ASSUME NEW c \in Clients, NEW v, NEW k \in Int, NEW o, Mid(v, c, k, o),
         NEW u, OnlyAt(v, u, c), Balanced(v, u, c, 0)
  PROVE  Mid(u, c, k, o)
<1>1. Mid(u, c, k + 0, o)
  BY MidKept
<1>2. k + 0 = k
  OBVIOUS
<1>3. QED
  BY <1>1, <1>2

\* A handler starts; k leaves out the connection it works on.
LEMMA Enter ==
  ASSUME NEW c \in Clients, NEW v, NEW k \in Int, Full(v, k)
  PROVE  Mid(v, c, k - One(v.conn[c].st # "none"), v)
<1> DEFINE O == Cardinality(OpenBut(v, c))
           P == Cardinality(ProxiedBut(v, c))
           h == One(v.conn[c].st # "none")
           a == One(v.conn[c].st \in AtPeer)
<1>1. O \in Nat /\ P \in Nat /\ h \in Int /\ a \in Int /\ v.free \in Int
  BY ClientSets, WorldFields DEF One, Full
<1>2. v.load = P + a /\ v.free + (O + h) + (P + a) = k
  BY CountOne DEF Full
<1>3. One(v.conn[c].peer) = a /\ One(v.conn[c].up) = a
  BY DEF Full, Sound
<1>4. v.free + O + P + a = k - h
  <2> HIDE DEF O, P, h, a
  <2>1. QED
    BY <1>1, <1>2
<1>5. Spared(v, v, c)
  BY DEF Spared
<1>6. QED
  BY <1>2, <1>3, <1>4, <1>5 DEF Full, Mid

\* It ends: c has a connection, or none.
LEMMA Leave ==
  ASSUME NEW c \in Clients, NEW v, NEW k \in Int, NEW o, Mid(v, c, k, o),
         Sound(v.conn[c]), Queued(v, c)
  PROVE  Full(v, k + One(v.conn[c].st # "none")) /\ Spared(o, v, c)
<1> DEFINE O == Cardinality(OpenBut(v, c))
           P == Cardinality(ProxiedBut(v, c))
           h == One(v.conn[c].st # "none")
           a == One(v.conn[c].st \in AtPeer)
<1>1. O \in Nat /\ P \in Nat /\ h \in Int /\ a \in Int /\ v.free \in Int
  BY ClientSets, WorldFields DEF One, Mid
<1>2. One(v.conn[c].peer) = a /\ One(v.conn[c].up) = a
  BY DEF Sound
<1>3. v.load = P + a /\ v.free + O + P + a = k
  BY <1>2 DEF Mid
<1>4. v.free + (O + h) + (P + a) = k + h
  <2> HIDE DEF O, P, h, a
  <2>1. QED
    BY <1>1, <1>3
<1>5. Cardinality(OpenIn(v)) = O + h /\ Cardinality(ProxiedIn(v)) = P + a
  BY CountOne
<1>6. \A d \in Clients : Sound(v.conn[d]) /\ Queued(v, d)
  BY DEF Mid
<1>7. QED
  BY <1>3, <1>4, <1>5, <1>6 DEF Mid, Full

\* A handler that began in o may end in u.
Good(u, c, k, o) == Full(u, k + 1) /\ Spared(o, u, c)

\* The types of what a handler reads
LEMMA MidWorld ==
  ASSUME NEW c \in Clients, NEW v, NEW k, NEW o, Mid(v, c, k, o)
  PROVE  /\ v \in World /\ IsInjective(v.queue) /\ v.free \in Nat /\ v.load \in Int
         /\ v.conn[c] \in Conn /\ v.conn[c].peer \in BOOLEAN /\ v.conn[c].up \in BOOLEAN
<1>1. v \in World /\ IsInjective(v.queue)
  BY DEF Mid
<1>2. v.free \in Nat /\ v.load \in Int /\ v.conn[c] \in Conn
  BY <1>1, WorldFields
<1>3. QED
  BY <1>1, <1>2, ConnFields

\* The operators above keep Mid, beginning with ngx_queue_remove.
LEMMA MidUnqueue ==
  ASSUME NEW c \in Clients, NEW v, NEW k \in Int, NEW o, Mid(v, c, k, o)
  PROVE  LET u == Unqueue(v, c) IN
         Mid(u, c, k, o) /\ u.conn = v.conn /\ c \notin Range(u.queue)
<1> DEFINE u == Unqueue(v, c)
<1>1. /\ OnlyAt(v, u, c) /\ u.conn = v.conn /\ u.free = v.free /\ u.load = v.load
      /\ c \notin Range(u.queue)
  BY MidWorld, UnqueueParts
<1> HIDE DEF u
<1>2. Balanced(v, u, c, 0)
  BY <1>1, MidWorld DEF One, Balanced
<1>3. Mid(u, c, k, o)
  BY <1>1, <1>2, MidSame
<1>4. QED
  BY <1>1, <1>3 DEF u

\* The peer is given back.
LEMMA MidFreePeer ==
  ASSUME NEW c \in Clients, NEW v, NEW k \in Int, NEW o, Mid(v, c, k, o)
  PROVE  LET u == FreePeer(v, c) IN
         /\ Mid(u, c, k, o) /\ ~u.conn[c].peer /\ u.conn[c].up = v.conn[c].up
         /\ u.queue = v.queue /\ u.conn[c].st = v.conn[c].st
<1> DEFINE u == FreePeer(v, c)
<1>1. /\ OnlyAt(v, u, c) /\ u.queue = v.queue /\ u.free = v.free
      /\ u.load = v.load - One(v.conn[c].peer) /\ ~u.conn[c].peer
      /\ u.conn[c].up = v.conn[c].up /\ u.conn[c].st = v.conn[c].st
  BY MidWorld, FreePeerParts
<1> HIDE DEF u
<1>2. Balanced(v, u, c, 0)
  BY <1>1, MidWorld DEF One, Balanced
<1>3. Mid(u, c, k, o)
  BY <1>1, <1>2, MidSame
<1>4. QED
  BY <1>1, <1>3 DEF u

\* Its connection is closed.
LEMMA MidCloseUpstream ==
  ASSUME NEW c \in Clients, NEW v, NEW k \in Int, NEW o, Mid(v, c, k, o)
  PROVE  LET u == CloseUpstream(v, c) IN
         /\ Mid(u, c, k, o) /\ ~u.conn[c].up /\ u.conn[c].peer = v.conn[c].peer
         /\ u.queue = v.queue /\ u.conn[c].st = v.conn[c].st
<1> DEFINE u == CloseUpstream(v, c)
<1>1. /\ OnlyAt(v, u, c) /\ u.queue = v.queue /\ u.load = v.load
      /\ u.free = v.free + One(v.conn[c].up) /\ ~u.conn[c].up
      /\ u.conn[c].peer = v.conn[c].peer /\ u.conn[c].st = v.conn[c].st
  BY MidWorld, CloseUpstreamParts
<1> HIDE DEF u
<1>2. Balanced(v, u, c, 0)
  BY <1>1, MidWorld DEF One, Balanced
<1>3. Mid(u, c, k, o)
  BY <1>1, <1>2, MidSame
<1>4. QED
  BY <1>1, <1>3 DEF u

\* A peer is chosen.
LEMMA MidGetPeer ==
  ASSUME NEW c \in Clients, NEW v, NEW k \in Int, NEW o, Mid(v, c, k, o), ~v.conn[c].peer
  PROVE  LET u == GetPeer(v, c) IN
         /\ Mid(u, c, k, o) /\ u.conn[c].peer /\ u.conn[c].up = v.conn[c].up
         /\ u.queue = v.queue /\ u.conn[c].st = v.conn[c].st
<1> DEFINE u == GetPeer(v, c)
<1>1. /\ OnlyAt(v, u, c) /\ u.queue = v.queue /\ u.free = v.free /\ u.load = v.load + 1
      /\ u.conn[c].peer /\ u.conn[c].up = v.conn[c].up /\ u.conn[c].st = v.conn[c].st
  BY MidWorld, GetPeerParts
<1> HIDE DEF u
<1>2. Balanced(v, u, c, 0)
  BY <1>1, MidWorld DEF One, Balanced
<1>3. Mid(u, c, k, o)
  BY <1>1, <1>2, MidSame
<1>4. QED
  BY <1>1, <1>3 DEF u

\* c's connection becomes q.
Touched(v, c, q) == [v EXCEPT !.conn = [v.conn EXCEPT ![c] = q]]

\* Only c's tries or timers change.
LEMMA MidTouched ==
  ASSUME NEW c \in Clients, NEW v, NEW k \in Int, NEW o, Mid(v, c, k, o),
         NEW q \in Conn, q.peer = v.conn[c].peer, q.up = v.conn[c].up,
         NEW u, u = Touched(v, c, q)
  PROVE  Mid(u, c, k, o) /\ u.conn[c] = q /\ u.queue = v.queue
<1>1. v \in World /\ IsInjective(v.queue)
  BY MidWorld
<1>2. /\ u \in World /\ u.conn[c] = q /\ \A d \in Clients \ {c} : u.conn[d] = v.conn[d]
      /\ u.queue = v.queue /\ u.free = v.free /\ u.load = v.load
  BY <1>1 DEF World, Touched
<1>3. OnlyAt(v, u, c)
  BY <1>1, <1>2 DEF OnlyAt
<1>4. Balanced(v, u, c, 0)
  BY <1>2, MidWorld DEF One, Balanced
<1>5. Mid(u, c, k, o)
  BY <1>3, <1>4, MidSame
<1>6. QED
  BY <1>2, <1>5

\* ngx_http_upstream_finalize_request gives back the peer and its connection.
LEMMA MidFinalize ==
  ASSUME NEW c \in Clients, NEW v, NEW k \in Int, NEW o, Mid(v, c, k, o)
  PROVE  LET u == FinalizeUpstream(v, c) IN
         /\ Mid(u, c, k, o) /\ ~u.conn[c].peer /\ ~u.conn[c].up
         /\ u.queue = v.queue /\ u.conn[c].st = v.conn[c].st
<1> DEFINE x == FreePeer(v, c)
           y == CloseUpstream(x, c)
           q == [y.conn[c] EXCEPT !.tries = 0]
           u == FinalizeUpstream(v, c)
<1>1. Mid(x, c, k, o) /\ ~x.conn[c].peer /\ x.queue = v.queue /\ x.conn[c].st = v.conn[c].st
  BY MidFreePeer
<1> HIDE DEF x
<1>2. /\ Mid(y, c, k, o) /\ ~y.conn[c].up /\ y.conn[c].peer = x.conn[c].peer
      /\ y.queue = x.queue /\ y.conn[c].st = x.conn[c].st
  BY <1>1, MidCloseUpstream
<1>3. y.conn[c] \in Conn
  BY <1>2, MidWorld
<1>4. q \in Conn /\ q.peer = y.conn[c].peer /\ q.up = y.conn[c].up /\ q.st = y.conn[c].st
  BY <1>3, WorkerAssumption DEF Conn
<1>5. u = Touched(y, c, q)
  BY <1>2, MidWorld DEF FinalizeUpstream, World, Conn, Touched, x
<1> HIDE DEF y, q, u
<1>6. Mid(u, c, k, o) /\ u.conn[c] = q /\ u.queue = y.queue
  BY <1>2, <1>4, <1>5, MidTouched
<1>7. QED
  BY <1>1, <1>2, <1>4, <1>6 DEF u

-----------------------------------------------------------------------------
(* How a handler may leave c *)

\* The connection is closed.
LEMMA CloseGood ==
  ASSUME NEW c \in Clients, NEW v, NEW k \in Int, NEW o, Mid(v, c, k, o),
         ~v.conn[c].peer, ~v.conn[c].up
  PROVE  Good(CloseConnection(v, c), c, k, o)
<1> DEFINE u == CloseConnection(v, c)
<1>1. /\ OnlyAt(v, u, c) /\ u.free = v.free + 1 /\ u.load = v.load
      /\ u.conn[c] = NoConn /\ c \notin Range(u.queue)
  BY MidWorld, CloseParts
<1> HIDE DEF u
<1>2. u.conn[c].st = "none" /\ ~u.conn[c].peer /\ ~u.conn[c].up /\ Sound(u.conn[c])
  BY <1>1, NoConnFields
<1>3. Balanced(v, u, c, 1)
  BY <1>1, <1>2, MidWorld DEF One, Balanced
<1>4. Mid(u, c, k + 1, o)
  BY <1>1, <1>3, MidKept
<1>5. Queued(u, c)
  BY <1>1, <1>2 DEF Queued, Waiting
<1>6. Full(u, (k + 1) + One(u.conn[c].st # "none")) /\ Spared(o, u, c)
  BY <1>2, <1>4, <1>5, Leave
<1>7. (k + 1) + One(u.conn[c].st # "none") = k + 1
  BY <1>2 DEF One
<1>8. QED
  BY <1>6, <1>7 DEF Good, u

\* c may wait in st, out of the queue, with the timers T.
Settles(v, c, st, T) ==
    /\ c \notin Range(v.queue) /\ st \notin Waiting \cup {"none"}
    /\ v.conn[c].up = v.conn[c].peer /\ v.conn[c].up = (st \in AtPeer)
    /\ T = {} <=> st = "posted"
    /\ "uread" \in T => st \in AtPeer

\* c waits for an event with a request.
LEMMA WaitsGood ==
  ASSUME NEW c \in Clients, NEW v, NEW k \in Int, NEW o, Mid(v, c, k, o),
         NEW st \in States, NEW T \in SUBSET Timers, Settles(v, c, st, T)
  PROVE  Good(Waits(v, c, st, T), c, k, o)
<1> DEFINE u == Waits(v, c, st, T)
<1>1. /\ OnlyAt(v, u, c) /\ u.queue = v.queue /\ u.free = v.free /\ u.load = v.load
      /\ u.conn[c].st = st /\ u.conn[c].timers = T
      /\ u.conn[c].peer = v.conn[c].peer /\ u.conn[c].up = v.conn[c].up
  BY MidWorld, WaitsParts
<1> HIDE DEF u
<1>2. Balanced(v, u, c, 0)
  BY <1>1, MidWorld DEF One, Balanced
<1>3. Mid(u, c, k, o)
  BY <1>1, <1>2, MidSame
<1>4. Queued(u, c)
  BY <1>1 DEF Queued, Settles
<1>5. Sound(u.conn[c])
  BY <1>1 DEF Sound, Settles
<1>6. Full(u, k + One(u.conn[c].st # "none")) /\ Spared(o, u, c)
  BY <1>3, <1>4, <1>5, Leave
<1>7. k + One(u.conn[c].st # "none") = k + 1
  BY <1>1 DEF One, Settles
<1>8. QED
  BY <1>6, <1>7 DEF Good, u

\* It waits without a request, at the head of the queue.
LEMMA ReusableGood ==
  ASSUME NEW c \in Clients, NEW v, NEW k \in Int, NEW o, Mid(v, c, k, o),
         ~v.conn[c].peer, ~v.conn[c].up, NEW st \in Waiting
  PROVE  Good(Reusable(Waits(v, c, st, {"read"}), c), c, k, o)
<1> DEFINE T == {"read"}
           x == Waits(v, c, st, T)
           u == Reusable(x, c)
<1>0. st \in States /\ T \in SUBSET Timers /\ T # {} /\ "uread" \notin T /\ st \notin {"none", "posted"}
  BY DEF Waiting, States, Timers
<1>a. (st \in AtPeer) = FALSE
  BY DEF Waiting, AtPeer
<1> HIDE DEF T
<1>1. /\ OnlyAt(v, x, c) /\ x.free = v.free /\ x.load = v.load
      /\ x.conn[c].st = st /\ x.conn[c].timers = T
      /\ x.conn[c].peer = v.conn[c].peer /\ x.conn[c].up = v.conn[c].up
  BY <1>0, MidWorld, WaitsParts
<1> HIDE DEF x
<1>2. /\ OnlyAt(x, u, c) /\ u.conn = x.conn /\ u.free = x.free /\ u.load = x.load
      /\ c \in Range(u.queue)
  BY <1>1, ReusableParts DEF OnlyAt
<1> HIDE DEF u
<1>3. OnlyAt(v, u, c)
  BY <1>1, <1>2 DEF OnlyAt
<1>4. Balanced(v, u, c, 0)
  BY <1>1, <1>2, MidWorld DEF One, Balanced
<1>5. Mid(u, c, k, o)
  BY <1>3, <1>4, MidSame
<1>6. Queued(u, c)
  BY <1>1, <1>2 DEF Queued
<1>7. Sound(u.conn[c])
  <2>1. v.conn[c].peer = FALSE /\ v.conn[c].up = FALSE
    BY MidWorld
  <2>2. u.conn[c].peer = FALSE /\ u.conn[c].up = FALSE
    BY <1>1, <1>2, <2>1
  <2>3. u.conn[c].st = st /\ u.conn[c].timers = T
    BY <1>1, <1>2
  <2>4. QED
    BY <1>0, <1>a, <2>2, <2>3 DEF Sound
<1>8. Full(u, k + One(u.conn[c].st # "none")) /\ Spared(o, u, c)
  BY <1>5, <1>6, <1>7, Leave
<1>9. k + One(u.conn[c].st # "none") = k + 1
  BY <1>0, <1>1, <1>2 DEF One
<1>10. QED
  BY <1>8, <1>9 DEF Good, u, x, T

\* The request is dropped, with what it holds.
LEMMA CloseRequestGood ==
  ASSUME NEW c \in Clients, NEW v, NEW k \in Int, NEW o, Mid(v, c, k, o)
  PROVE  Good(CloseRequest(v, c), c, k, o)
<1> DEFINE u == FinalizeUpstream(v, c)
<1>1. Mid(u, c, k, o) /\ ~u.conn[c].peer /\ ~u.conn[c].up
  BY MidFinalize
<1> HIDE DEF u
<1>2. Good(CloseConnection(u, c), c, k, o)
  BY <1>1, CloseGood
<1>3. QED
  BY <1>2 DEF CloseRequest, u

\* c's request holds no peer and is out of the queue.
Ready(v, c, k, o) ==
    Mid(v, c, k, o) /\ ~v.conn[c].peer /\ ~v.conn[c].up /\ c \notin Range(v.queue)

\* After ngx_http_upstream_finalize_request the request can be answered.
LEMMA FinalizeReady ==
  ASSUME NEW c \in Clients, NEW v, NEW k \in Int, NEW o, Mid(v, c, k, o),
         c \notin Range(v.queue)
  PROVE  Ready(FinalizeUpstream(v, c), c, k, o)
<1> DEFINE u == FinalizeUpstream(v, c)
<1>1. Mid(u, c, k, o) /\ ~u.conn[c].peer /\ ~u.conn[c].up /\ u.queue = v.queue
  BY MidFinalize
<1> HIDE DEF u
<1>2. QED
  BY <1>1 DEF Ready, u

\* However an answer ends: written, closed, lingering, kept alive, pipelined.
LEMMA AnswersGood ==
  ASSUME NEW c \in Clients, NEW v, NEW k \in Int, NEW o, Ready(v, c, k, o),
         NEW keep, NEW u \in Answers(v, c, keep)
  PROVE  Good(u, c, k, o)
<1>1. Mid(v, c, k, o) /\ ~v.conn[c].peer /\ ~v.conn[c].up /\ c \notin Range(v.queue)
  BY DEF Ready
<1>2. v.conn[c].peer = FALSE /\ v.conn[c].up = FALSE
  BY <1>1, MidWorld
<1>3. "idle" \in Waiting /\ "linger" \in Waiting
  BY DEF Waiting
<1>4. Good(CloseRequest(v, c), c, k, o)
  BY <1>1, CloseRequestGood
<1>5. Good(Reusable(Waits(v, c, "linger", {"read"}), c), c, k, o)
  BY <1>1, <1>3, ReusableGood
<1>6. Good(Reusable(Waits(v, c, "idle", {"read"}), c), c, k, o)
  BY <1>1, <1>3, ReusableGood
<1>7. Good(Waits(v, c, "posted", {}), c, k, o)
  <2>1. "posted" \in States /\ "posted" \notin Waiting \cup {"none"} /\ {} \in SUBSET Timers
    BY DEF States, Waiting
  <2>2. ("posted" \in AtPeer) = FALSE
    BY DEF AtPeer
  <2>3. QED
    BY <1>1, <1>2, <2>1, <2>2, WaitsGood DEF Settles
<1>8. Good(Waits(v, c, "write", {"write"}), c, k, o)
  <2>1. "write" \in States /\ "write" \notin Waiting \cup {"none"} /\ {"write"} \in SUBSET Timers
        /\ {"write"} # {} /\ "write" # "posted" /\ "uread" \notin {"write"}
    BY DEF States, Waiting, Timers
  <2>2. ("write" \in AtPeer) = FALSE
    BY DEF AtPeer
  <2> DEFINE T == {"write"}
  <2> HIDE DEF T
  <2>3. Good(Waits(v, c, "write", T), c, k, o)
    BY <1>1, <1>2, <2>1, <2>2, WaitsGood DEF T, Settles
  <2>4. QED
    BY <2>3 DEF T
<1>9. u \in {Waits(v, c, "write", {"write"}), CloseRequest(v, c),
             Reusable(Waits(v, c, "linger", {"read"}), c),
             Reusable(Waits(v, c, "idle", {"read"}), c), Waits(v, c, "posted", {})}
  BY DEF Answers, SetWriteHandler, FinalizeConnections, SetLingeringClose, SetKeepalives
<1>10. QED
  BY <1>4, <1>5, <1>6, <1>7, <1>8, <1>9

\* The same when the upstream has failed
LEMMA FailsGood ==
  ASSUME NEW c \in Clients, NEW v, NEW k \in Int, NEW o, Mid(v, c, k, o),
         c \notin Range(v.queue), NEW u \in Fails(v, c)
  PROVE  Good(u, c, k, o)
<1> DEFINE x == FinalizeUpstream(v, c)
<1>1. Ready(x, c, k, o)
  BY FinalizeReady
<1>2. u \in Answers(x, c, TRUE)
  BY DEF Fails
<1> HIDE DEF x
<1>3. QED
  BY <1>1, <1>2, AnswersGood

-----------------------------------------------------------------------------
(* Connections that are told to close, one after the other *)

\* The defining equation of the function in CloseEach
IsClosing(f, v, s, n) ==
    f = [i \in 0..n |-> IF i = 0 THEN v ELSE CloseConnection(f[i - 1], s[i])]

\* The function that CloseEach defines exists.
LEMMA ClosingExists ==
  ASSUME NEW v, NEW s
  PROVE  \A n \in Nat : \E f : IsClosing(f, v, s, n)
<1> DEFINE Has(n) == \E f : IsClosing(f, v, s, n)
           X == {n \in Nat : ~Has(n)}
<1>1. SUFFICES ASSUME X # {} PROVE FALSE
  OBVIOUS
<1>2. PICK n \in X : \A m \in X : n <= m
  <2>1. X \in SUBSET Nat
    OBVIOUS
  <2> HIDE DEF X
  <2>2. QED
    BY <1>1, <2>1, LeastNumber
<1>3. n # 0
  <2> DEFINE f == [i \in 0..0 |-> v]
  <2>1. IsClosing(f, v, s, 0)
    <3>1. \A i \in 0..0 : i = 0
      OBVIOUS
    <3>2. QED
      BY <3>1 DEF IsClosing
  <2> HIDE DEF f
  <2>2. Has(0)
    BY <2>1
  <2>3. QED
    BY <1>2, <2>2
<1>4. n - 1 \in Nat /\ Has(n - 1)
  <2>1. n \in Nat /\ n - 1 \in Nat /\ ~(n <= n - 1)
    BY <1>3
  <2> HIDE DEF Has
  <2>2. QED
    BY <1>2, <2>1
<1>5. PICK f : IsClosing(f, v, s, n - 1)
  BY <1>4
<1> DEFINE g == [i \in 0..n |-> IF i = n THEN CloseConnection(f[n - 1], s[n]) ELSE f[i]]
<1>6. /\ \A i \in 0..(n - 1) : f[i] = IF i = 0 THEN v ELSE CloseConnection(f[i - 1], s[i])
      /\ \A i \in 0..n : g[i] = IF i = n THEN CloseConnection(f[n - 1], s[n]) ELSE f[i]
      /\ g = [i \in 0..n |-> g[i]]
  BY <1>5 DEF IsClosing
<1> HIDE DEF g
<1>7. ASSUME NEW i \in 0..n PROVE g[i] = IF i = 0 THEN v ELSE CloseConnection(g[i - 1], s[i])
  <2>0. n \in Nat
    OBVIOUS
  <2>1. CASE i = n
    <3>1. n - 1 \in 0..n /\ n - 1 # n
      BY <1>3, <2>0
    <3>2. g[n - 1] = f[n - 1]
      BY <1>6, <3>1
    <3>3. QED
      BY <1>3, <1>6, <2>1, <3>2
  <2>2. CASE i # n
    <3>1. i \in 0..(n - 1)
      BY <2>0, <2>2
    <3>2. g[i] = IF i = 0 THEN v ELSE CloseConnection(f[i - 1], s[i])
      BY <1>6, <2>2, <3>1
    <3>3. i # 0 => i - 1 \in 0..n /\ i - 1 # n
      BY <2>0
    <3>4. i # 0 => g[i - 1] = f[i - 1]
      BY <1>6, <3>3
    <3>5. QED
      BY <3>2, <3>4
  <2>3. QED
    BY <2>1, <2>2
<1>8. IsClosing(g, v, s, n)
  BY <1>6, <1>7 DEF IsClosing
<1>9. Has(n)
  BY <1>8
<1>10. QED
  BY <1>2, <1>9

\* f has the states between v and CloseEach(v, s).
ClosesBy(f, v, s) ==
    /\ f[0] = v /\ CloseEach(v, s) = f[Len(s)]
    /\ \A i \in 1..Len(s) : f[i] = CloseConnection(f[i - 1], s[i])

\* One connection is closed after the other.
LEMMA CloseEachSteps ==
  ASSUME NEW v, NEW s, Len(s) \in Nat
  PROVE  \E f : ClosesBy(f, v, s)
<1> DEFINE n == Len(s)
           f == CHOOSE g : IsClosing(g, v, s, n)
<1>1. CloseEach(v, s) = f[n]
  BY DEF CloseEach, IsClosing
<1>2. IsClosing(f, v, s, n)
  BY ClosingExists
<1> HIDE DEF f
<1>3. \A i \in 0..n : f[i] = IF i = 0 THEN v ELSE CloseConnection(f[i - 1], s[i])
  BY <1>2 DEF IsClosing
<1>4. f[0] = v
  BY <1>3
<1>5. ASSUME NEW i \in 1..n PROVE f[i] = CloseConnection(f[i - 1], s[i])
  <2>1. i \in 0..n /\ i # 0
    OBVIOUS
  <2>2. QED
    BY <1>3, <2>1
<1>6. QED
  BY <1>1, <1>4, <1>5 DEF ClosesBy

\* A connection other than c's that waits in the queue is reused.
LEMMA CloseOther ==
  ASSUME NEW c \in Clients, NEW v, NEW k \in Int, NEW o, Mid(v, c, k, o),
         NEW d \in Clients \ {c}, d \in Range(v.queue)
  PROVE  LET u == CloseConnection(v, d) IN
         /\ Mid(u, c, k, o) /\ u.conn[c] = v.conn[c]
         /\ \A e \in Clients : e # d => (e \in Range(u.queue) <=> e \in Range(v.queue))
<1> DEFINE u == CloseConnection(v, d)
           O == Cardinality(OpenBut(v, c))
           P == Cardinality(ProxiedBut(v, c))
<1>1. /\ OnlyAt(v, u, d) /\ u.free = v.free + 1 /\ u.load = v.load
      /\ u.conn[d] = NoConn /\ d \notin Range(u.queue)
  BY MidWorld, CloseParts
<1> HIDE DEF u
<1>2. u \in World /\ IsInjective(u.queue)
  BY <1>1 DEF OnlyAt
<1>3. \A e \in Clients \ {d} : /\ u.conn[e] = v.conn[e]
                               /\ e \in Range(u.queue) <=> e \in Range(v.queue)
  BY <1>1 DEF OnlyAt
<1>4. v.conn[d].st \in Waiting
  BY DEF Mid, Queued
<1>5. u.conn[d].st = "none" /\ Sound(u.conn[d])
  BY <1>1, NoConnFields
<1>6. \A e \in Clients \ {c} : Sound(u.conn[e]) /\ Queued(u, e)
  <2>1. ASSUME NEW e \in Clients \ {c}, e # d PROVE Sound(u.conn[e]) /\ Queued(u, e)
    BY <1>3, <2>1 DEF Mid, Queued
  <2>2. Queued(u, d)
    BY <1>1, <1>5 DEF Queued, Waiting
  <2>3. QED
    BY <1>5, <2>1, <2>2
<1>7. ProxiedBut(u, c) = ProxiedBut(v, c)
  <2>1. v.conn[d].st \notin AtPeer /\ u.conn[d].st \notin AtPeer
    BY <1>4, <1>5 DEF Waiting, AtPeer
  <2>2. QED
    BY <1>3, <2>1 DEF ProxiedBut
<1>8. OpenBut(u, c) = OpenBut(v, c) \ {d} /\ d \in OpenBut(v, c)
  <2>1. v.conn[d].st # "none"
    BY <1>4 DEF Waiting
  <2>2. QED
    BY <1>3, <1>5, <2>1 DEF OpenBut
<1>9. Cardinality(OpenBut(u, c)) = O - 1
  BY <1>8, ClientSets, FS_RemoveElement
<1>10. O \in Nat /\ P \in Nat /\ v.free \in Nat
  BY ClientSets, MidWorld
<1>11. u.conn[c] = v.conn[c]
  BY <1>3
<1>12. u.free + Cardinality(OpenBut(u, c)) + Cardinality(ProxiedBut(u, c)) + One(u.conn[c].up) = k
  <2>1. v.free + O + P + One(v.conn[c].up) = k
    BY DEF Mid
  <2>2. One(v.conn[c].up) \in Int
    BY DEF One
  <2> HIDE DEF O, P
  <2>3. (v.free + 1) + (O - 1) + P + One(v.conn[c].up) = k
    BY <1>10, <2>1, <2>2
  <2>4. Cardinality(ProxiedBut(u, c)) = P /\ Cardinality(OpenBut(u, c)) = O - 1
    BY <1>7, <1>9 DEF P
  <2>5. QED
    BY <1>1, <1>11, <2>3, <2>4
<1>13. u.load = Cardinality(ProxiedBut(u, c)) + One(u.conn[c].peer)
  BY <1>1, <1>7, <1>11 DEF Mid
<1>14. Spared(o, u, c)
  <2>1. Spared(o, v, c)
    BY DEF Mid
  <2>2. v.conn[d] # NoConn
    BY <1>4, NoConnFields DEF Waiting
  <2>3. o.conn[d].st \in Waiting
    BY <1>4, <2>1, <2>2 DEF Spared
  <2>4. QED
    BY <1>1, <1>3, <2>1, <2>3 DEF Spared
<1>15. Mid(u, c, k, o)
  BY <1>2, <1>6, <1>12, <1>13, <1>14 DEF Mid
<1>16. QED
  BY <1>3, <1>11, <1>15 DEF u

\* Some of the connections in the queue are reused for c.
LEMMA MidCloseEach ==
  ASSUME NEW c \in Clients, NEW v, NEW k \in Int, NEW o, Mid(v, c, k, o),
         c \notin Range(v.queue), NEW s, Len(s) \in Nat,
         \A j \in 1..Len(s) : s[j] \in Range(v.queue),
         \A i, j \in 1..Len(s) : s[i] = s[j] => i = j
  PROVE  LET u == CloseEach(v, s) IN
         Mid(u, c, k, o) /\ u.conn[c] = v.conn[c] /\ c \notin Range(u.queue)
<1> DEFINE n == Len(s)
<1>0. PICK f : ClosesBy(f, v, s)
  BY CloseEachSteps
<1>1. /\ f[0] = v /\ CloseEach(v, s) = f[n]
      /\ \A i \in 1..n : f[i] = CloseConnection(f[i - 1], s[i])
  BY <1>0 DEF ClosesBy
<1> DEFINE Ok(i) == /\ Mid(f[i], c, k, o) /\ f[i].conn[c] = v.conn[c]
                    /\ c \notin Range(f[i].queue)
                    /\ \A j \in 1..n : j > i => s[j] \in Range(f[i].queue)
           X == {i \in 0..n : ~Ok(i)}
<1>2. ASSUME X # {} PROVE FALSE
  <2>1. X \in SUBSET Nat
    OBVIOUS
  <2>2. PICK i \in X : \A j \in X : i <= j
    <3> HIDE DEF X
    <3>1. QED
      BY <1>2, <2>1, LeastNumber
  <2>3. i \in 0..n /\ ~Ok(i)
    OBVIOUS
  <2>4. Ok(0)
    BY <1>1
  <2>5. i - 1 \in 0..n /\ i \in 1..n /\ ~(i <= i - 1)
    <3>1. i # 0
      BY <2>3, <2>4
    <3>2. QED
      BY <2>3, <3>1
  <2>6. Ok(i - 1)
    <3> HIDE DEF Ok
    <3>1. QED
      BY <2>2, <2>5
  <2> DEFINE x == f[i - 1]
             d == s[i]
             u == CloseConnection(x, d)
  <2>7. /\ Mid(x, c, k, o) /\ x.conn[c] = v.conn[c] /\ c \notin Range(x.queue)
        /\ \A j \in 1..n : j > i - 1 => s[j] \in Range(x.queue)
    BY <2>6
  <2>8. f[i] = u
    BY <1>1, <2>5
  <2> HIDE DEF x, Ok
  <2>9. d \in Range(x.queue)
    <3>1. i > i - 1
      BY <2>5
    <3>2. QED
      BY <2>5, <2>7, <3>1
  <2>10. \A e \in Range(x.queue) : e \in Clients
    <3>1. x.queue \in Seq(Clients)
      BY <2>7, MidWorld, WorldFields
    <3>2. QED
      BY <3>1 DEF Range
  <2>11. d \in Clients \ {c}
    BY <2>7, <2>9, <2>10
  <2> HIDE DEF d
  <2>12. /\ Mid(u, c, k, o) /\ u.conn[c] = x.conn[c]
         /\ \A e \in Clients : e # d => (e \in Range(u.queue) <=> e \in Range(x.queue))
    BY <2>7, <2>9, <2>11, CloseOther
  <2> HIDE DEF u
  <2>13. c \notin Range(u.queue)
    BY <2>7, <2>11, <2>12
  <2>14. ASSUME NEW j \in 1..n, j > i PROVE s[j] \in Range(u.queue)
    <3>1. j > i - 1 /\ j # i
      BY <2>5, <2>14
    <3>2. s[j] \in Range(x.queue) /\ s[j] # d
      BY <2>5, <2>7, <3>1 DEF d
    <3>3. QED
      BY <2>10, <2>12, <3>2
  <2>15. Ok(i)
    <3>1. Mid(u, c, k, o) /\ u.conn[c] = v.conn[c] /\ c \notin Range(u.queue)
          /\ \A j \in 1..n : j > i => s[j] \in Range(u.queue)
      BY <2>7, <2>12, <2>13, <2>14
    <3>2. QED
      BY <2>8, <3>1 DEF Ok
  <2>16. QED
    BY <2>3, <2>15
<1>3. Ok(n)
  <2>1. n \in 0..n
    OBVIOUS
  <2> HIDE DEF Ok
  <2>2. QED
    BY <1>2, <2>1
<1>4. QED
  BY <1>1, <1>3

\* ngx_drain_connections: the last n of the queue
LEMMA MidDrain ==
  ASSUME NEW c \in Clients, NEW v, NEW k \in Int, NEW o, Mid(v, c, k, o),
         c \notin Range(v.queue)
  PROVE  LET u == Drain(v) IN
         Mid(u, c, k, o) /\ u.conn[c] = v.conn[c] /\ c \notin Range(u.queue)
<1> DEFINE q == v.queue
           r == Len(q)
           n == IF r \div 8 > 32 THEN 32 ELSE IF r < 16 THEN 1 ELSE r \div 8
           s == SubSeq(q, r - n + 1, r)
<1>1. q \in Seq(Clients) /\ r \in Nat /\ DOMAIN q = 1..r /\ \A i, j \in 1..r : q[i] = q[j] => i = j
  <2>1. q \in Seq(Clients) /\ IsInjective(q)
    BY MidWorld, WorldFields
  <2>2. r \in Nat /\ DOMAIN q = 1..r
    BY <2>1, LenProperties
  <2>3. QED
    BY <2>1, <2>2 DEF IsInjective
<1>2. CASE v.free > ConnectionN \div 16 \/ r = 0
  <2>1. Drain(v) = v
    BY <1>2 DEF Drain
  <2>2. QED
    BY <2>1
<1>3. CASE ~(v.free > ConnectionN \div 16 \/ r = 0)
  <2>1. Drain(v) = CloseEach(v, s)
    BY <1>3 DEF Drain
  <2> HIDE DEF q, r
  <2>2. n \in Nat /\ n >= 1 /\ n <= r
    BY <1>1, <1>3
  <2> HIDE DEF n
  <2>3. \A i \in (r - n + 1)..r : i \in 1..r /\ q[i] \in Clients
    <3>1. \A i \in (r - n + 1)..r : i \in 1..r
      BY <1>1, <2>2
    <3>2. \A i \in 1..r : q[i] \in Clients
      BY <1>1, ElementOfSeq DEF r
    <3>3. QED
      BY <3>1, <3>2
  <2>4. /\ Len(s) = r - (r - n + 1) + 1
        /\ \A i \in 1..(r - (r - n + 1) + 1) : s[i] = q[(r - n + 1) + i - 1]
    <3>1. r - n + 1 \in Int /\ r \in Int /\ r - n + 1 <= r
      BY <1>1, <2>2
    <3> DEFINE m == r - n + 1
    <3>2. \A i \in m..r : q[i] \in Clients
      BY <2>3
    <3> HIDE DEF m
    <3>3. /\ Len(SubSeq(q, m, r)) = IF m <= r THEN r - m + 1 ELSE 0
          /\ \A i \in 1..(r - m + 1) : SubSeq(q, m, r)[i] = q[m + i - 1]
      BY <3>1, <3>2, SubSeqProperties DEF m
    <3>4. QED
      BY <3>1, <3>3 DEF m
  <2>5. r - (r - n + 1) + 1 = n /\ \A i \in 1..n : (r - n + 1) + i - 1 = (r - n) + i /\ (r - n) + i \in 1..r
    BY <1>1, <2>2
  <2> HIDE DEF s
  <2>6. Len(s) = n
    BY <2>4, <2>5
  <2>7. ASSUME NEW i \in 1..n PROVE s[i] = q[(r - n) + i] /\ (r - n) + i \in 1..r
    <3>1. s[i] = q[(r - n + 1) + i - 1]
      BY <2>4, <2>5
    <3>2. QED
      BY <2>5, <3>1
  <2>8. \A j \in 1..Len(s) : s[j] \in Range(q)
    BY <1>1, <2>6, <2>7 DEF Range
  <2>9. ASSUME NEW i \in 1..Len(s), NEW j \in 1..Len(s), s[i] = s[j] PROVE i = j
    <3>1. (r - n) + i = (r - n) + j
      BY <1>1, <2>6, <2>7, <2>9
    <3>2. QED
      BY <1>1, <2>2, <2>6, <3>1
  <2>10. Len(s) \in Nat
    BY <2>2, <2>6
  <2> DEFINE u == CloseEach(v, s)
  <2>11. Mid(u, c, k, o) /\ u.conn[c] = v.conn[c] /\ c \notin Range(u.queue)
    BY <2>8, <2>9, <2>10, MidCloseEach DEF q
  <2> HIDE DEF u
  <2>12. QED
    BY <2>1, <2>11 DEF u
<1>4. QED
  BY <1>2, <1>3

-----------------------------------------------------------------------------
(* Peers *)

\* A peer is chosen, and a connection to it looked for.
LEMMA MidGetDrain ==
  ASSUME NEW c \in Clients, NEW v, NEW k \in Int, NEW o, Ready(v, c, k, o)
  PROVE  LET d == Drain(GetPeer(v, c)) IN
         /\ Mid(d, c, k, o) /\ d.conn[c].peer /\ ~d.conn[c].up /\ c \notin Range(d.queue)
<1> DEFINE x == GetPeer(v, c)
           d == Drain(x)
<1>1. Mid(v, c, k, o) /\ ~v.conn[c].peer /\ ~v.conn[c].up /\ c \notin Range(v.queue)
  BY DEF Ready
<1>2. /\ Mid(x, c, k, o) /\ x.conn[c].peer /\ x.conn[c].up = v.conn[c].up
      /\ x.queue = v.queue
  BY <1>1, MidGetPeer
<1> HIDE DEF x
<1>3. c \notin Range(x.queue)
  BY <1>1, <1>2
<1>4. Mid(d, c, k, o) /\ d.conn[c] = x.conn[c] /\ c \notin Range(d.queue)
  BY <1>2, <1>3, MidDrain
<1> HIDE DEF d
<1>5. QED
  BY <1>1, <1>2, <1>4 DEF d, x

\* A peer that declines leaves nothing behind ...
LEMMA DeclinedReady ==
  ASSUME NEW c \in Clients, NEW v, NEW k \in Int, NEW o, Ready(v, c, k, o)
  PROVE  Ready(Declined(v, c), c, k, o)
<1> DEFINE d == Drain(GetPeer(v, c))
           u == FreePeer(d, c)
<1>1. Mid(d, c, k, o) /\ ~d.conn[c].up /\ c \notin Range(d.queue)
  BY MidGetDrain
<1>2. Declined(v, c) = IF d.free = 0 THEN v ELSE u
  BY DEF Declined
<1> HIDE DEF d
<1>3. /\ Mid(u, c, k, o) /\ ~u.conn[c].peer /\ u.conn[c].up = d.conn[c].up
      /\ u.queue = d.queue
  BY <1>1, MidFreePeer
<1> HIDE DEF u
<1>4. Ready(u, c, k, o)
  BY <1>1, <1>3 DEF Ready
<1>5. QED
  BY <1>2, <1>4

\* The defining equation of the function in DeclinedBy
IsDeclining(f, v, c, n) ==
    f = [i \in 0..n |-> IF i = 0 THEN v ELSE Declined(f[i - 1], c)]

\* Likewise the one of DeclinedBy.
LEMMA DecliningExists ==
  ASSUME NEW v, NEW c
  PROVE  \A n \in Nat : \E f : IsDeclining(f, v, c, n)
<1> DEFINE Has(n) == \E f : IsDeclining(f, v, c, n)
           X == {n \in Nat : ~Has(n)}
<1>1. SUFFICES ASSUME X # {} PROVE FALSE
  OBVIOUS
<1>2. PICK n \in X : \A m \in X : n <= m
  <2>1. X \in SUBSET Nat
    OBVIOUS
  <2> HIDE DEF X
  <2>2. QED
    BY <1>1, <2>1, LeastNumber
<1>3. n # 0
  <2> DEFINE f == [i \in 0..0 |-> v]
  <2>1. IsDeclining(f, v, c, 0)
    <3>1. \A i \in 0..0 : i = 0
      OBVIOUS
    <3>2. QED
      BY <3>1 DEF IsDeclining
  <2> HIDE DEF f
  <2>2. Has(0)
    BY <2>1
  <2>3. QED
    BY <1>2, <2>2
<1>4. n - 1 \in Nat /\ Has(n - 1)
  <2>1. n \in Nat /\ n - 1 \in Nat /\ ~(n <= n - 1)
    BY <1>3
  <2> HIDE DEF Has
  <2>2. QED
    BY <1>2, <2>1
<1>5. PICK f : IsDeclining(f, v, c, n - 1)
  BY <1>4
<1> DEFINE g == [i \in 0..n |-> IF i = n THEN Declined(f[n - 1], c) ELSE f[i]]
<1>6. /\ \A i \in 0..(n - 1) : f[i] = IF i = 0 THEN v ELSE Declined(f[i - 1], c)
      /\ \A i \in 0..n : g[i] = IF i = n THEN Declined(f[n - 1], c) ELSE f[i]
      /\ g = [i \in 0..n |-> g[i]]
  BY <1>5 DEF IsDeclining
<1> HIDE DEF g
<1>7. ASSUME NEW i \in 0..n PROVE g[i] = IF i = 0 THEN v ELSE Declined(g[i - 1], c)
  <2>0. n \in Nat
    OBVIOUS
  <2>1. CASE i = n
    <3>1. n - 1 \in 0..n /\ n - 1 # n
      BY <1>3, <2>0
    <3>2. g[n - 1] = f[n - 1]
      BY <1>6, <3>1
    <3>3. QED
      BY <1>3, <1>6, <2>1, <3>2
  <2>2. CASE i # n
    <3>1. i \in 0..(n - 1)
      BY <2>0, <2>2
    <3>2. g[i] = IF i = 0 THEN v ELSE Declined(f[i - 1], c)
      BY <1>6, <2>2, <3>1
    <3>3. i # 0 => i - 1 \in 0..n /\ i - 1 # n
      BY <2>0
    <3>4. i # 0 => g[i - 1] = f[i - 1]
      BY <1>6, <3>3
    <3>5. QED
      BY <3>2, <3>4
  <2>3. QED
    BY <2>1, <2>2
<1>8. IsDeclining(g, v, c, n)
  BY <1>6, <1>7 DEF IsDeclining
<1>9. Has(n)
  BY <1>8
<1>10. QED
  BY <1>2, <1>9

\* ... and neither do several.
LEMMA DeclinedByReady ==
  ASSUME NEW c \in Clients, NEW v, NEW k \in Int, NEW o, Ready(v, c, k, o), NEW n \in Nat
  PROVE  Ready(DeclinedBy(v, c, n), c, k, o)
<1> DEFINE f == CHOOSE g : IsDeclining(g, v, c, n)
           Ok(i) == Ready(f[i], c, k, o)
           X == {i \in 0..n : ~Ok(i)}
<1>1. DeclinedBy(v, c, n) = f[n]
  BY DEF DeclinedBy, IsDeclining
<1>2. IsDeclining(f, v, c, n)
  BY DecliningExists
<1> HIDE DEF f
<1>3. \A i \in 0..n : f[i] = IF i = 0 THEN v ELSE Declined(f[i - 1], c)
  BY <1>2 DEF IsDeclining
<1>4. ASSUME X # {} PROVE FALSE
  <2>1. X \in SUBSET Nat
    OBVIOUS
  <2>2. PICK i \in X : \A j \in X : i <= j
    <3> HIDE DEF X
    <3>1. QED
      BY <1>4, <2>1, LeastNumber
  <2>3. i \in 0..n /\ ~Ok(i)
    OBVIOUS
  <2>4. i # 0
    BY <1>3, <2>3
  <2>5. i - 1 \in 0..n /\ ~(i <= i - 1)
    BY <2>3, <2>4
  <2>6. Ok(i - 1)
    <3> HIDE DEF Ok
    <3>1. QED
      BY <2>2, <2>5
  <2> DEFINE x == f[i - 1]
  <2>7. Ready(x, c, k, o)
    BY <2>6
  <2> HIDE DEF x
  <2>8. Ready(Declined(x, c), c, k, o)
    BY <2>7, DeclinedReady
  <2>9. f[i] = Declined(x, c)
    BY <1>3, <2>3, <2>4 DEF x
  <2>10. QED
    BY <2>3, <2>8, <2>9
<1>5. Ok(n)
  <2>1. n \in 0..n
    OBVIOUS
  <2> HIDE DEF Ok
  <2>2. QED
    BY <1>4, <2>1
<1>6. QED
  BY <1>1, <1>5

\* A free connection is taken for the peer.
Takes(d, c) == [d EXCEPT !.free = @ - 1, !.conn[c].up = TRUE]

\* ngx_get_connection
LEMMA TakesParts ==
  ASSUME NEW v \in World, IsInjective(v.queue), NEW c \in Clients, v.free # 0
  PROVE  LET u == Takes(v, c) IN
         /\ OnlyAt(v, u, c) /\ u.queue = v.queue /\ u.free = v.free - 1 /\ u.load = v.load
         /\ u.conn[c].up = TRUE /\ u.conn[c].peer = v.conn[c].peer
<1> DEFINE u == Takes(v, c)
           q == [v.conn[c] EXCEPT !.up = TRUE]
<1>1. v.conn[c] \in Conn
  BY WorldFields
<1>2. q \in Conn /\ q.up = TRUE /\ q.peer = v.conn[c].peer
  BY <1>1 DEF Conn
<1>3. u = Put(v, c, q, v.queue, v.free - 1, v.load)
  BY DEF Takes, World, Conn, Put
<1> HIDE DEF q, u
<1>4. /\ u \in World /\ u.conn[c] = q /\ \A d \in Clients \ {c} : u.conn[d] = v.conn[d]
      /\ u.queue = v.queue /\ u.free = v.free - 1 /\ u.load = v.load
  <2>1. v.load \in Int /\ v.free - 1 \in Nat /\ v.queue \in Seq(Clients)
    BY WorldFields
  <2>2. QED
    BY <1>2, <1>3, <2>1, PutParts
<1>5. QED
  BY <1>2, <1>4 DEF OnlyAt, u

\* The connection is counted as the one of c's peer.
LEMMA MidTakes ==
  ASSUME NEW c \in Clients, NEW v, NEW k \in Int, NEW o, Mid(v, c, k, o),
         v.conn[c].up = FALSE, v.free # 0
  PROVE  LET u == Takes(v, c) IN
         /\ Mid(u, c, k, o) /\ u.queue = v.queue
         /\ u.conn[c].up = TRUE /\ u.conn[c].peer = v.conn[c].peer
<1> DEFINE u == Takes(v, c)
<1>1. /\ OnlyAt(v, u, c) /\ u.queue = v.queue /\ u.free = v.free - 1 /\ u.load = v.load
      /\ u.conn[c].up = TRUE /\ u.conn[c].peer = v.conn[c].peer
  BY MidWorld, TakesParts
<1> HIDE DEF u
<1>2. Balanced(v, u, c, 0)
  BY <1>1, MidWorld DEF One, Balanced
<1>3. Mid(u, c, k, o)
  BY <1>1, <1>2, MidSame
<1>4. QED
  BY <1>1, <1>3 DEF u

\* ngx_http_upstream_connect waits for the peer.
LEMMA ConnectGood ==
  ASSUME NEW c \in Clients, NEW d, NEW k \in Int, NEW o, Mid(d, c, k, o),
         d.conn[c].peer, ~d.conn[c].up, c \notin Range(d.queue), d.free # 0
  PROVE  Good(Waits(Takes(d, c), c, "connect", {"uwrite"}), c, k, o)
<1> DEFINE u == Takes(d, c)
<1>1. d.conn[c].peer = TRUE /\ d.conn[c].up = FALSE
  BY MidWorld
<1>2. /\ Mid(u, c, k, o) /\ u.queue = d.queue
      /\ u.conn[c].up = TRUE /\ u.conn[c].peer = d.conn[c].peer
  BY <1>1, MidTakes
<1> HIDE DEF u
<1>3. "connect" \in States /\ {"uwrite"} \in SUBSET Timers
  BY DEF States, Timers
<1>4. Settles(u, c, "connect", {"uwrite"})
  <2>1. u.conn[c].up = TRUE /\ u.conn[c].peer = TRUE
    BY <1>1, <1>2
  <2>2. ("connect" \in AtPeer) = TRUE
    BY DEF AtPeer
  <2>3. c \notin Range(u.queue) /\ "connect" \notin Waiting \cup {"none"}
    BY <1>2 DEF Waiting
  <2>4. {"uwrite"} = {} <=> "connect" = "posted"
    OBVIOUS
  <2>5. QED
    BY <2>1, <2>2, <2>3, <2>4 DEF Settles
<1> DEFINE T == {"uwrite"}
<1> HIDE DEF T
<1>5. Good(Waits(u, c, "connect", T), c, k, o)
  BY <1>2, <1>3, <1>4, WaitsGood DEF T
<1>6. QED
  BY <1>5 DEF T, u

\* ngx_http_upstream_connect
LEMMA ConnectsGood ==
  ASSUME NEW c \in Clients, NEW v, NEW k \in Int, NEW o, Ready(v, c, k, o),
         NEW u \in Connects(v, c)
  PROVE  Good(u, c, k, o)
<1>1. PICK n \in 0..v.conn[c].tries :
        LET x == DeclinedBy(v, c, n)
            d == Drain(GetPeer(x, c))
        IN  \/ u \in Fails(x, c)
            \/ d.free = 0 /\ u \in Fails(d, c)
            \/ d.free # 0 /\ u = Waits(Takes(d, c), c, "connect", {"uwrite"})
  BY DEF Connects, Takes
<1> DEFINE x == DeclinedBy(v, c, n)
           d == Drain(GetPeer(x, c))
<1>2. n \in Nat
  <2>1. v.conn[c].tries \in 0..Peers
    BY MidWorld, ConnFields DEF Ready
  <2>2. QED
    BY <2>1
<1>3. Ready(x, c, k, o)
  BY <1>2, DeclinedByReady
<1> HIDE DEF x
<1>4. Mid(d, c, k, o) /\ d.conn[c].peer /\ ~d.conn[c].up /\ c \notin Range(d.queue)
  BY <1>3, MidGetDrain
<1> HIDE DEF d
<1>5. CASE u \in Fails(x, c)
  BY <1>3, <1>5, FailsGood DEF Ready
<1>6. CASE u \in Fails(d, c)
  BY <1>4, <1>6, FailsGood
<1>7. CASE d.free # 0 /\ u = Waits(Takes(d, c), c, "connect", {"uwrite"})
  BY <1>4, <1>7, ConnectGood
<1>8. QED
  BY <1>1, <1>5, <1>6, <1>7 DEF d, x

\* ngx_http_upstream_next
LEMMA NextsGood ==
  ASSUME NEW c \in Clients, NEW v, NEW k \in Int, NEW o, Mid(v, c, k, o),
         c \notin Range(v.queue), NEW u \in Nexts(v, c)
  PROVE  Good(u, c, k, o)
<1> DEFINE x == FreePeer(v, c)
           y == CloseUpstream(x, c)
<1>1. Mid(x, c, k, o) /\ ~x.conn[c].peer /\ x.queue = v.queue
  BY MidFreePeer
<1>2. u \in Fails(x, c) \/ u \in Connects(y, c)
  BY DEF Nexts
<1> HIDE DEF x
<1>3. /\ Mid(y, c, k, o) /\ ~y.conn[c].up /\ y.conn[c].peer = x.conn[c].peer
      /\ y.queue = x.queue
  BY <1>1, MidCloseUpstream
<1> HIDE DEF y
<1>4. Ready(y, c, k, o) /\ c \notin Range(x.queue)
  BY <1>1, <1>3 DEF Ready
<1>5. CASE u \in Fails(x, c)
  BY <1>1, <1>4, <1>5, FailsGood
<1>6. CASE u \in Connects(y, c)
  BY <1>4, <1>6, ConnectsGood
<1>7. QED
  BY <1>2, <1>5, <1>6

\* A handler of a request at a peer leaves it there.
LEMMA StaysGood ==
  ASSUME NEW c \in Clients, NEW v, NEW k \in Int, NEW o, Mid(v, c, k, o),
         c \notin Range(v.queue), v.conn[c].peer = TRUE, v.conn[c].up = TRUE,
         NEW st \in AtPeer, NEW T \in SUBSET Timers, T # {}
  PROVE  Good(Waits(v, c, st, T), c, k, o)
<1>1. (st \in AtPeer) = TRUE
  OBVIOUS
<1>2. st \in States /\ st \notin Waiting \cup {"none"} /\ st # "posted"
  BY DEF AtPeer, States, Waiting
<1>3. Settles(v, c, st, T)
  BY <1>1, <1>2 DEF Settles
<1>4. QED
  BY <1>2, <1>3, WaitsGood

\* ngx_http_upstream_process_request
LEMMA RelaysGood ==
  ASSUME NEW c \in Clients, NEW v, NEW k \in Int, NEW o, Mid(v, c, k, o),
         c \notin Range(v.queue), v.conn[c].peer = TRUE, v.conn[c].up = TRUE,
         NEW u \in Relays(v, c)
  PROVE  Good(u, c, k, o)
<1> DEFINE x == FinalizeUpstream(v, c)
<1>1. u \in Piped(v, c) \/ u \in Answers(x, c, TRUE) \/ u \in Answers(x, c, FALSE)
  BY DEF Relays
<1>2. Ready(x, c, k, o)
  BY FinalizeReady
<1> HIDE DEF x
<1>3. CASE u \in Piped(v, c)
  <2>1. PICK T \in (SUBSET {"uread", "write"}) \ {{}} : u = Waits(v, c, "relay", T)
    BY <1>3 DEF Piped
  <2>2. T \in SUBSET Timers /\ T # {} /\ "relay" \in AtPeer
    BY DEF Timers, AtPeer
  <2>3. Good(Waits(v, c, "relay", T), c, k, o)
    BY <2>2, StaysGood
  <2>4. QED
    BY <2>1, <2>3
<1>4. CASE u \in Answers(x, c, TRUE) \/ u \in Answers(x, c, FALSE)
  BY <1>2, <1>4, AnswersGood
<1>5. QED
  BY <1>1, <1>3, <1>4

\* ngx_http_process_request
LEMMA ProcessRequestsGood ==
  ASSUME NEW c \in Clients, NEW v, NEW k \in Int, NEW o, Ready(v, c, k, o),
         NEW u \in ProcessRequests(v, c)
  PROVE  Good(u, c, k, o)
<1> DEFINE p == [v.conn[c] EXCEPT !.timers = {}]
           x == [v EXCEPT !.conn[c].timers = {}]
           q == [x.conn[c] EXCEPT !.tries = Peers]
           y == [x EXCEPT !.conn[c].tries = Peers]
<1>1. Mid(v, c, k, o) /\ v \in World /\ v.conn[c] \in Conn
  BY MidWorld DEF Ready
<1>2. p \in Conn /\ p.peer = v.conn[c].peer /\ p.up = v.conn[c].up
  BY <1>1 DEF Conn
<1>3. x = Touched(v, c, p)
  BY <1>1 DEF Touched, World, Conn
<1>4. u \in Answers(x, c, FALSE) \/ u \in Answers(x, c, TRUE) \/ u \in Connects(y, c)
  BY DEF ProcessRequests, UpstreamInits
<1> HIDE DEF p, x
<1>5. Mid(x, c, k, o) /\ x.conn[c] = p /\ x.queue = v.queue
  BY <1>1, <1>2, <1>3, MidTouched
<1>6. Ready(x, c, k, o)
  BY <1>2, <1>5 DEF Ready
<1>7. x \in World /\ x.conn[c] \in Conn
  BY <1>5, MidWorld
<1>8. q \in Conn /\ q.peer = x.conn[c].peer /\ q.up = x.conn[c].up
  BY <1>7, WorkerAssumption DEF Conn
<1>9. y = Touched(x, c, q)
  BY <1>7 DEF Touched, World, Conn
<1> HIDE DEF q, y
<1>10. Mid(y, c, k, o) /\ y.conn[c] = q /\ y.queue = x.queue
  BY <1>5, <1>8, <1>9, MidTouched
<1>11. Ready(y, c, k, o)
  BY <1>6, <1>8, <1>10 DEF Ready
<1>12. QED
  BY <1>4, <1>6, <1>11, AnswersGood, ConnectsGood

\* ngx_http_process_request_line, ngx_http_process_request_headers
LEMMA ReadsGood ==
  ASSUME NEW c \in Clients, NEW v, NEW k \in Int, NEW o, Ready(v, c, k, o),
         NEW u \in Reads(v, c)
  PROVE  Good(u, c, k, o)
<1>1. u = Waits(v, c, "read", {"read"}) \/ u \in Answers(v, c, FALSE) \/ u \in ProcessRequests(v, c)
  BY DEF Reads
<1> DEFINE T == {"read"}
<1>2. Mid(v, c, k, o) /\ v.conn[c].peer = FALSE /\ v.conn[c].up = FALSE
  BY MidWorld DEF Ready
<1>3. "read" \in States /\ T \in SUBSET Timers /\ T # {} /\ "uread" \notin T
  BY DEF States, Timers
<1>4. (u = Waits(v, c, "read", {"read"})) => u = Waits(v, c, "read", T)
  OBVIOUS
<1> HIDE DEF T
<1>5. Settles(v, c, "read", T)
  <2>1. ("read" \in AtPeer) = FALSE /\ "read" \notin Waiting \cup {"none"} /\ "read" # "posted"
    BY DEF AtPeer, Waiting
  <2>2. c \notin Range(v.queue)
    BY DEF Ready
  <2>3. QED
    BY <1>2, <1>3, <2>1, <2>2 DEF Settles
<1>6. Good(Waits(v, c, "read", T), c, k, o)
  BY <1>2, <1>3, <1>5, WaitsGood
<1>7. QED
  BY <1>1, <1>4, <1>6, AnswersGood, ProcessRequestsGood

-----------------------------------------------------------------------------
(* Events *)

\* The event of an open connection begins.
LEMMA EventMid ==
  ASSUME NEW t \in Int, Full(w, t), NEW c \in Clients, St(c) # "none"
  PROVE  Mid(w, c, t - 1, w) /\ Sound(w.conn[c]) /\ Queued(w, c) /\ w.conn[c] \in Conn
<1>1. Mid(w, c, t - One(w.conn[c].st # "none"), w)
  BY Enter
<1>2. One(w.conn[c].st # "none") = 1
  BY DEF One, St
<1>3. Mid(w, c, t - 1, w)
  BY <1>1, <1>2
<1>4. QED
  BY <1>3, MidWorld DEF Full

\* What a good end of a handler is for the worker
LEMMA GoodFull ==
  ASSUME NEW t \in Int, NEW u, NEW c, NEW o, Good(u, c, t - 1, o)
  PROVE  Full(u, t) /\ Spared(o, u, c)
<1>1. t - 1 + 1 = t
  OBVIOUS
<1>2. QED
  BY <1>1 DEF Good

\* Nothing has happened after all.
LEMMA SameGood ==
  ASSUME NEW t \in Int, NEW v, Full(v, t), NEW c
  PROVE  Good(v, c, t - 1, v)
<1>1. t - 1 + 1 = t
  OBVIOUS
<1>2. Spared(v, v, c)
  BY DEF Spared
<1>3. QED
  BY <1>1, <1>2 DEF Good

\* A waiting connection becomes the newest in the queue.
LEMMA RequeueGood ==
  ASSUME NEW c \in Clients, NEW v, NEW k \in Int, NEW o, Mid(v, c, k, o),
         Sound(v.conn[c]), v.conn[c].st \in Waiting
  PROVE  Good(Reusable(v, c), c, k, o)
<1> DEFINE u == Reusable(v, c)
<1>1. /\ OnlyAt(v, u, c) /\ u.conn = v.conn /\ u.free = v.free /\ u.load = v.load
      /\ c \in Range(u.queue)
  BY MidWorld, ReusableParts
<1> HIDE DEF u
<1>2. Balanced(v, u, c, 0)
  BY <1>1, MidWorld DEF One, Balanced
<1>3. Mid(u, c, k, o)
  BY <1>1, <1>2, MidSame
<1>4. Queued(u, c) /\ Sound(u.conn[c])
  BY <1>1 DEF Queued
<1>5. Full(u, k + One(u.conn[c].st # "none")) /\ Spared(o, u, c)
  BY <1>3, <1>4, Leave
<1>6. One(u.conn[c].st # "none") = 1
  BY <1>1 DEF One, Waiting
<1>7. QED
  BY <1>5, <1>6 DEF Good, u

\* The next request begins: the connection is not reusable any more.
LEMMA UnqueueReady ==
  ASSUME NEW c \in Clients, NEW v, NEW k \in Int, NEW o, Mid(v, c, k, o),
         Sound(v.conn[c]), v.conn[c].st \notin AtPeer
  PROVE  Ready(Unqueue(v, c), c, k, o) /\ ~v.conn[c].peer /\ ~v.conn[c].up
<1> DEFINE u == Unqueue(v, c)
<1>1. Mid(u, c, k, o) /\ u.conn = v.conn /\ c \notin Range(u.queue)
  BY MidUnqueue
<1> HIDE DEF u
<1>2. ~v.conn[c].peer /\ ~v.conn[c].up
  BY DEF Sound
<1>3. QED
  BY <1>1, <1>2 DEF Ready, u

\* What the state of a connection says about it between two events
LEMMA SoundAtPeer ==
  ASSUME NEW q, Sound(q), q.st \in AtPeer
  PROVE  q.peer = TRUE /\ q.up = TRUE /\ q.st \notin Waiting /\ q.st # "none"
<1>1. (q.st \in AtPeer) = TRUE
  OBVIOUS
<1>2. q.peer = TRUE /\ q.up = TRUE
  BY <1>1 DEF Sound
<1>3. q.st \notin Waiting /\ q.st # "none"
  BY DEF AtPeer, Waiting
<1>4. QED
  BY <1>2, <1>3

\* A connection that has been answered or waits
LEMMA SoundApart ==
  ASSUME NEW q, Sound(q), q.st \notin AtPeer
  PROVE  ~q.peer /\ ~q.up
  BY DEF Sound

\* The event of a connection without a request
LEMMA WaitingStep ==
  ASSUME NEW t \in Int, Full(w, t), NEW c \in Clients,
         WaitRequest(c) \/ KeepaliveRequest(c) \/ Linger(c)
  PROVE  Good(w', c, t - 1, w) /\ Alive /\ mode' = mode
<1> DEFINE x == Unqueue(w, c)
           k == t - 1
<1>1. /\ Alive /\ mode' = mode /\ St(c) \in Waiting
      /\ w' = w \/ w' = Reusable(w, c) \/ w' = CloseConnection(w, c) \/ w' \in Reads(x, c)
         \/ w' = CloseRequest(w, c)
  BY DEF WaitRequest, KeepaliveRequest, Linger, Handles, Waiting
<1>2. St(c) # "none" /\ St(c) \notin AtPeer
  BY <1>1 DEF Waiting, AtPeer
<1>3. k \in Int /\ Mid(w, c, k, w) /\ Sound(w.conn[c])
  BY <1>2, EventMid
<1> HIDE DEF x
<1>4. Ready(x, c, k, w) /\ ~w.conn[c].peer /\ ~w.conn[c].up
  BY <1>2, <1>3, UnqueueReady DEF x, St
<1> HIDE DEF k
<1>5. Good(w, c, k, w)
  BY SameGood DEF k
<1>6. Good(Reusable(w, c), c, k, w)
  BY <1>1, <1>3, RequeueGood DEF St
<1>7. Good(CloseConnection(w, c), c, k, w)
  BY <1>3, <1>4, CloseGood
<1>8. Good(CloseRequest(w, c), c, k, w)
  BY <1>3, CloseRequestGood
<1>9. ASSUME NEW u \in Reads(x, c) PROVE Good(u, c, k, w)
  BY <1>3, <1>4, ReadsGood
<1>10. Good(w', c, k, w)
  BY <1>1, <1>5, <1>6, <1>7, <1>8, <1>9
<1>11. QED
  BY <1>1, <1>10 DEF k

\* The event of a connection with a request that is not at a peer
LEMMA ServingStep ==
  ASSUME NEW t \in Int, Full(w, t), NEW c \in Clients,
         ReadRequest(c) \/ PostedRequest(c) \/ TestReading(c) \/ Written(c)
  PROVE  Good(w', c, t - 1, w) /\ Alive /\ mode' = mode
<1> DEFINE k == t - 1
<1>1. /\ Alive /\ mode' = mode /\ St(c) \in {"read", "posted", "write"}
      /\ w' = CloseRequest(w, c) \/ w' \in Reads(w, c) \/ w' \in Answers(w, c, TRUE)
  BY DEF ReadRequest, PostedRequest, TestReading, Written, Handles, Answers
<1>2. St(c) # "none" /\ St(c) \notin AtPeer /\ St(c) \notin Waiting
  BY <1>1 DEF Waiting, AtPeer
<1>3. k \in Int /\ Mid(w, c, k, w) /\ Sound(w.conn[c]) /\ Queued(w, c)
  BY <1>2, EventMid
<1>4. Ready(w, c, k, w)
  <2>1. ~w.conn[c].peer /\ ~w.conn[c].up
    BY <1>2, <1>3, SoundApart DEF St
  <2>2. c \notin Range(w.queue)
    BY <1>2, <1>3 DEF Queued, St
  <2>3. QED
    BY <1>3, <2>1, <2>2 DEF Ready
<1> HIDE DEF k
<1>5. Good(CloseRequest(w, c), c, k, w)
  BY <1>3, CloseRequestGood
<1>6. ASSUME NEW u \in Reads(w, c) PROVE Good(u, c, k, w)
  BY <1>3, <1>4, ReadsGood
<1>7. ASSUME NEW u \in Answers(w, c, TRUE) PROVE Good(u, c, k, w)
  BY <1>3, <1>4, AnswersGood
<1>8. Good(w', c, k, w)
  BY <1>1, <1>5, <1>6, <1>7
<1>9. QED
  BY <1>1, <1>8 DEF k

\* The event of a request that is at a peer
LEMMA PeerStep ==
  ASSUME NEW t \in Int, Full(w, t), NEW c \in Clients,
         CheckBroken(c) \/ SendRequest(c) \/ ConnectError(c) \/ ProcessHeader(c)
         \/ ProcessUpstream(c) \/ ProcessDownstream(c)
  PROVE  Good(w', c, t - 1, w) /\ Alive /\ mode' = mode
<1> DEFINE k == t - 1
<1>1. /\ Alive /\ mode' = mode /\ St(c) \in AtPeer
      /\ w' = w \/ w' = CloseRequest(w, c) \/ w' = Waits(w, c, "header", {"uread"})
         \/ w' \in Relays(w, c) \/ w' \in Nexts(w, c)
  BY DEF CheckBroken, SendRequest, ConnectError, ProcessHeader, ProcessUpstream,
         ProcessDownstream, Handles, AtPeer
<1>2. St(c) # "none" /\ St(c) \notin Waiting
  BY <1>1 DEF Waiting, AtPeer
<1>3. k \in Int /\ Mid(w, c, k, w) /\ Sound(w.conn[c]) /\ Queued(w, c)
  BY <1>2, EventMid
<1>4. w.conn[c].peer = TRUE /\ w.conn[c].up = TRUE
  BY <1>1, <1>3, SoundAtPeer DEF St
<1>5. c \notin Range(w.queue)
  BY <1>2, <1>3 DEF Queued, St
<1> HIDE DEF k
<1>6. Good(w, c, k, w)
  BY SameGood DEF k
<1>7. Good(CloseRequest(w, c), c, k, w)
  BY <1>3, CloseRequestGood
<1>8. Good(Waits(w, c, "header", {"uread"}), c, k, w)
  <2> DEFINE T == {"uread"}
  <2>1. T \in SUBSET Timers /\ T # {} /\ "header" \in AtPeer
    BY DEF Timers, AtPeer
  <2> HIDE DEF T
  <2>2. Good(Waits(w, c, "header", T), c, k, w)
    BY <1>3, <1>4, <1>5, <2>1, StaysGood
  <2>3. QED
    BY <2>2 DEF T
<1>9. ASSUME NEW u \in Relays(w, c) PROVE Good(u, c, k, w)
  BY <1>3, <1>4, <1>5, RelaysGood
<1>10. ASSUME NEW u \in Nexts(w, c) PROVE Good(u, c, k, w)
  BY <1>3, <1>5, NextsGood
<1>11. Good(w', c, k, w)
  BY <1>1, <1>6, <1>7, <1>8, <1>9, <1>10
<1>12. QED
  BY <1>1, <1>11 DEF k

\* A timer of c goes off.
LEMMA TimeoutStep ==
  ASSUME NEW t \in Int, Full(w, t), NEW c \in Clients, Timeout(c)
  PROVE  Good(w', c, t - 1, w) /\ Alive /\ mode' = mode
<1> DEFINE k == t - 1
           x == FinalizeUpstream(w, c)
<1>1. PICK e \in w.conn[c].timers :
        /\ Alive /\ mode' = mode
        /\ \/ St(c) \in {"connect", "header"} /\ w' \in Nexts(w, c)
           \/ e = "uread" /\ w' \in Answers(x, c, FALSE)
           \/ w' = CloseRequest(w, c)
  BY DEF Timeout
<1>2. Sound(w.conn[c]) /\ Queued(w, c)
  BY DEF Full
<1>3. St(c) # "none"
  BY <1>1, <1>2 DEF Sound, St
<1>4. k \in Int /\ Mid(w, c, k, w)
  BY <1>3, EventMid
<1>5. St(c) \in AtPeer => c \notin Range(w.queue)
  BY <1>2 DEF Queued, St, AtPeer, Waiting
<1> HIDE DEF k, x
<1>6. CASE St(c) \in {"connect", "header"} /\ w' \in Nexts(w, c)
  <2>1. St(c) \in AtPeer
    BY <1>6 DEF AtPeer
  <2>2. ASSUME NEW u \in Nexts(w, c) PROVE Good(u, c, k, w)
    BY <1>4, <1>5, <2>1, NextsGood
  <2>3. QED
    BY <1>1, <1>6, <2>2 DEF k
<1>7. CASE e = "uread" /\ w' \in Answers(x, c, FALSE)
  <2>1. St(c) \in AtPeer
    BY <1>1, <1>2, <1>7 DEF Sound, St
  <2>2. Ready(x, c, k, w)
    BY <1>4, <1>5, <2>1, FinalizeReady DEF x
  <2>3. ASSUME NEW u \in Answers(x, c, FALSE) PROVE Good(u, c, k, w)
    BY <1>4, <2>2, AnswersGood
  <2>4. QED
    BY <1>1, <1>7, <2>3 DEF k
<1>8. CASE w' = CloseRequest(w, c)
  <2>1. Good(CloseRequest(w, c), c, k, w)
    BY <1>4, CloseRequestGood
  <2>2. QED
    BY <1>1, <1>8, <2>1 DEF k
<1>9. QED
  BY <1>1, <1>6, <1>7, <1>8

\* A new client: a connection is found, perhaps by closing another one, or not.
LEMMA AcceptStep ==
  ASSUME NEW t \in Int, Full(w, t), NEW c \in Clients, Accept(c)
  PROVE  Full(w', t) /\ Spared(w, w', c) /\ mode = "run" /\ mode' = mode
<1> DEFINE d == Drain(w)
           x == [d EXCEPT !.free = @ - 1]
<1>1. /\ mode = "run" /\ mode' = mode /\ St(c) = "none"
      /\ w' = IF d.free = 0 THEN d ELSE Reusable(Waits(x, c, "wait", {"read"}), c)
  BY DEF Accept, InitConnection
<1>2. Sound(w.conn[c]) /\ c \notin Range(w.queue) /\ ~w.conn[c].peer /\ ~w.conn[c].up
  <2>1. Sound(w.conn[c]) /\ Queued(w, c)
    BY DEF Full
  <2>2. w.conn[c].st \notin AtPeer /\ w.conn[c].st \notin Waiting
    BY <1>1 DEF St, AtPeer, Waiting
  <2>3. QED
    BY <2>1, <2>2, SoundApart DEF Queued
<1>3. Mid(w, c, t, w)
  <2>1. Mid(w, c, t - One(w.conn[c].st # "none"), w)
    BY Enter
  <2>2. t - One(w.conn[c].st # "none") = t
    BY <1>1 DEF One, St
  <2>3. QED
    BY <2>1, <2>2
<1>4. Mid(d, c, t, w) /\ d.conn[c] = w.conn[c] /\ c \notin Range(d.queue)
  BY <1>2, <1>3, MidDrain
<1> HIDE DEF d
<1>5. CASE d.free = 0
  <2>1. Sound(d.conn[c]) /\ Queued(d, c) /\ d.conn[c].st = "none"
    BY <1>1, <1>2, <1>4 DEF Queued, St, Waiting
  <2>2. Full(d, t + One(d.conn[c].st # "none")) /\ Spared(w, d, c)
    BY <1>4, <2>1, Leave
  <2>3. t + One(d.conn[c].st # "none") = t
    BY <2>1 DEF One
  <2>4. QED
    BY <1>1, <1>5, <2>2, <2>3
<1>6. CASE d.free # 0
  <2>1. d \in World /\ IsInjective(d.queue) /\ d.free \in Nat
    BY <1>4, MidWorld
  <2>2. x \in World /\ x.conn = d.conn /\ x.queue = d.queue /\ x.free = d.free - 1 /\ x.load = d.load
    BY <1>6, <2>1 DEF World
  <2> HIDE DEF x
  <2>3. OnlyAt(d, x, c)
    BY <2>1, <2>2 DEF OnlyAt
  <2>4. Balanced(d, x, c, -1)
    BY <1>4, <2>2, MidWorld DEF Balanced, One
  <2>5. Mid(x, c, t + (-1), w)
    BY <1>4, <2>3, <2>4, MidKept
  <2>6. t + (-1) = t - 1 /\ t - 1 \in Int /\ "wait" \in Waiting
    BY DEF Waiting
  <2>7. Mid(x, c, t - 1, w) /\ ~x.conn[c].peer /\ ~x.conn[c].up
    BY <1>2, <1>4, <2>2, <2>5, <2>6
  <2>8. Good(Reusable(Waits(x, c, "wait", {"read"}), c), c, t - 1, w)
    BY <2>6, <2>7, ReusableGood
  <2>9. w' = Reusable(Waits(x, c, "wait", {"read"}), c)
    BY <1>1, <1>6
  <2>10. Good(w', c, t - 1, w)
    BY <2>8, <2>9
  <2>11. QED
    BY <1>1, <2>10, GoodFull
<1>7. QED
  BY <1>5, <1>6

-----------------------------------------------------------------------------
(* The end of a worker *)

\* SetToSeq has each element of a finite set once.
LEMMA SetToSeqParts ==
  ASSUME NEW S, IsFiniteSet(S)
  PROVE  LET s == SetToSeq(S) IN
         /\ Len(s) \in Nat /\ \A i \in 1..Len(s) : s[i] \in S
         /\ \A i, j \in 1..Len(s) : s[i] = s[j] => i = j
<1> DEFINE n == Cardinality(S)
           s == SetToSeq(S)
<1>1. n \in Nat
  BY FS_CardinalityType
<1>2. PICK f \in Bijection(1..n, S) : TRUE
  <2>1. PICK m \in Nat : ExistsBijection(1..m, S)
    BY FS_NatBijection
  <2>2. m = n
    BY <2>1, FS_CountingElements
  <2>3. QED
    BY <2>1, <2>2 DEF ExistsBijection
<1>3. f \in [1..n -> S] /\ \A i, j \in 1..n : f[i] = f[j] => i = j
  <2>1. f \in Injection(1..n, S)
    BY <1>2 DEF Bijection
  <2>2. QED
    BY <2>1 DEF Injection, IsInjective
<1>4. IsInjective(f)
  <2>1. DOMAIN f = 1..n
    BY <1>3
  <2>2. QED
    BY <1>3, <2>1 DEF IsInjective
<1>5. s \in [1..n -> S] /\ IsInjective(s)
  <2>1. s = CHOOSE g \in [1..n -> S] : IsInjective(g)
    BY DEF SetToSeq
  <2>2. \E g \in [1..n -> S] : IsInjective(g)
    BY <1>3, <1>4
  <2> HIDE DEF s, n
  <2>3. QED
    BY <2>1, <2>2
<1> HIDE DEF s, n
<1>6. DOMAIN s = 1..n /\ s \in Seq(S) /\ Len(s) = n
  BY <1>1, <1>5
<1>7. QED
  BY <1>1, <1>5, <1>6 DEF IsInjective, s

\* Every connection is as it was, or was closed while it waited.
SparedAll(o, v) == \A d \in Clients :
    v.conn[d] = o.conn[d] \/ (o.conn[d].st \in Waiting /\ v.conn[d] = NoConn)

\* ngx_quit: the idle connections are closed; the listening socket is free too.
LEMMA QuitStep ==
  ASSUME NEW t \in Int, Full(w, t), Quit
  PROVE  Full(w', t + 1) /\ SparedAll(w, w') /\ mode = "run" /\ mode' = "exiting"
<1> DEFINE v == [w EXCEPT !.free = @ + 1]
           s == SetToSeq(Idle)
           n == Len(s)
<1>1. mode = "run" /\ mode' = "exiting" /\ w' = CloseEach(v, s)
  BY DEF Quit
<1>2. IsFiniteSet(Idle)
  BY WorkerAssumption, FS_Subset DEF Idle
<1>3. /\ n \in Nat /\ \A i \in 1..n : s[i] \in Idle
      /\ \A i, j \in 1..n : s[i] = s[j] => i = j
  BY <1>2, SetToSeqParts
<1>4. Full(v, t + 1) /\ v.conn = w.conn
  <2>1. w \in World
    BY DEF Full
  <2>2. v \in World /\ v.conn = w.conn /\ v.queue = w.queue /\ v.load = w.load /\ v.free = w.free + 1
    BY <2>1 DEF World
  <2> HIDE DEF v
  <2>3. OpenIn(v) = OpenIn(w) /\ ProxiedIn(v) = ProxiedIn(w)
    BY <2>2 DEF OpenIn, ProxiedIn
  <2>4. v.free + Cardinality(OpenIn(v)) + Cardinality(ProxiedIn(v)) = t + 1
    <3>1. w.free + Cardinality(OpenIn(w)) + Cardinality(ProxiedIn(w)) = t
      BY DEF Full
    <3>2. w.free \in Int /\ Cardinality(OpenIn(w)) \in Int /\ Cardinality(ProxiedIn(w)) \in Int
      BY <2>1, WorldFields, ClientSets
    <3>3. QED
      BY <2>2, <2>3, <3>1, <3>2
  <2>5. QED
    BY <2>2, <2>3, <2>4 DEF Full, Queued
<1> HIDE DEF s, v
<1>5. PICK f : ClosesBy(f, v, s)
  BY <1>3, CloseEachSteps
<1>6. /\ f[0] = v /\ CloseEach(v, s) = f[n]
      /\ \A i \in 1..n : f[i] = CloseConnection(f[i - 1], s[i])
  BY <1>5 DEF ClosesBy
<1> HIDE DEF n
<1> DEFINE Ok(i) == /\ Full(f[i], t + 1) /\ SparedAll(w, f[i])
                    /\ \A j \in 1..n : j > i => f[i].conn[s[j]].st = "idle"
           X == {i \in 0..n : ~Ok(i)}
<1>7. ASSUME X # {} PROVE FALSE
  <2>1. X \in SUBSET Nat
    BY <1>3
  <2>2. PICK i \in X : \A j \in X : i <= j
    <3> HIDE DEF X
    <3>1. QED
      BY <1>7, <2>1, LeastNumber
  <2>3. i \in 0..n /\ ~Ok(i)
    OBVIOUS
  <2>4. Ok(0)
    BY <1>3, <1>4, <1>6 DEF SparedAll, Idle, St
  <2>5. i - 1 \in 0..n /\ i \in 1..n /\ ~(i <= i - 1)
    <3>1. i # 0
      BY <2>3, <2>4
    <3>2. QED
      BY <1>3, <2>3, <3>1
  <2>6. Ok(i - 1)
    <3> HIDE DEF Ok
    <3>1. QED
      BY <2>2, <2>5
  <2> DEFINE x == f[i - 1]
             d == s[i]
             u == CloseConnection(x, d)
  <2>7. /\ Full(x, t + 1) /\ SparedAll(w, x)
        /\ \A j \in 1..n : j > i - 1 => x.conn[s[j]].st = "idle"
    BY <2>6
  <2>8. f[i] = u
    BY <1>6, <2>5
  <2> HIDE DEF x, Ok
  <2>9. d \in Clients /\ x.conn[d].st = "idle" /\ w.conn[d].st = "idle"
    <3>1. i > i - 1
      BY <2>5
    <3>2. QED
      BY <1>3, <2>5, <2>7, <3>1 DEF Idle, St
  <2>10. \A j \in 1..n : s[j] \in Clients
    BY <1>3 DEF Idle
  <2>11. \A j \in 1..n : j # i => s[j] # d
    BY <1>3, <2>5
  <2> HIDE DEF d
  <2>12. Mid(x, d, t, x) /\ ~x.conn[d].peer /\ ~x.conn[d].up
    <3>1. Mid(x, d, (t + 1) - One(x.conn[d].st # "none"), x)
      BY <2>7, <2>9, Enter
    <3>2. (t + 1) - One(x.conn[d].st # "none") = t
      BY <2>9 DEF One
    <3>3. x.conn[d].st \notin AtPeer
      BY <2>9 DEF AtPeer
    <3>4. Sound(x.conn[d])
      BY <2>7, <2>9 DEF Full
    <3>5. ~x.conn[d].peer /\ ~x.conn[d].up
      BY <3>3, <3>4, SoundApart
    <3>6. QED
      BY <3>1, <3>2, <3>5
  <2>13. Full(u, t + 1)
    <3>1. Good(u, d, t, x)
      BY <2>9, <2>12, CloseGood
    <3>2. QED
      BY <3>1 DEF Good
  <2>14. u.conn[d] = NoConn /\ \A e \in Clients \ {d} : u.conn[e] = x.conn[e]
    <3>1. OnlyAt(x, u, d) /\ u.conn[d] = NoConn
      BY <2>9, <2>12, MidWorld, CloseParts
    <3>2. QED
      BY <3>1 DEF OnlyAt
  <2> HIDE DEF u
  <2>15. SparedAll(w, u)
    BY <2>7, <2>9, <2>14 DEF SparedAll, Waiting
  <2>16. ASSUME NEW j \in 1..n, j > i PROVE u.conn[s[j]].st = "idle"
    <3>1. j > i - 1 /\ j # i
      BY <2>5, <2>16
    <3>2. x.conn[s[j]].st = "idle" /\ s[j] # d /\ s[j] \in Clients
      BY <2>7, <2>10, <2>11, <3>1
    <3>3. QED
      BY <2>14, <3>2
  <2>17. Ok(i)
    <3>1. /\ Full(u, t + 1) /\ SparedAll(w, u)
          /\ \A j \in 1..n : j > i => u.conn[s[j]].st = "idle"
      BY <2>13, <2>15, <2>16
    <3>2. QED
      BY <2>8, <3>1 DEF Ok
  <2>18. QED
    BY <2>3, <2>17
<1>8. Ok(n)
  <2>1. n \in 0..n
    BY <1>3
  <2> HIDE DEF Ok
  <2>2. QED
    BY <1>7, <2>1
<1>9. Full(f[n], t + 1) /\ SparedAll(w, f[n]) /\ w' = f[n]
  BY <1>1, <1>6, <1>8
<1>10. QED
  BY <1>1, <1>9

-----------------------------------------------------------------------------
(* The inductive invariant *)

\* The connections that are there for clients and peers
Total == ConnectionN - (IF mode = "run" THEN 2 ELSE 1)

\* It is one of two numbers.
LEMMA TotalParts ==
  /\ Total \in Int /\ Total \in {ConnectionN - 2, ConnectionN - 1}
  /\ ConnectionN \in Int
  BY WorkerAssumption DEF Total

\* A step of a worker that is alive, seen from the clients
LEMMA EventStep ==
  ASSUME NEW t \in Int, Full(w, t), NEW c \in Clients, Events(c) \/ Timeout(c)
  PROVE  Full(w', t) /\ Spared(w, w', c) /\ Alive /\ mode' = mode
<1>1. CASE Accept(c)
  BY <1>1, AcceptStep DEF Alive
<1>2. CASE WaitRequest(c) \/ KeepaliveRequest(c) \/ Linger(c)
  <2>1. Good(w', c, t - 1, w) /\ Alive /\ mode' = mode
    BY <1>2, WaitingStep
  <2>2. QED
    BY <2>1, GoodFull
<1>3. CASE ReadRequest(c) \/ PostedRequest(c) \/ TestReading(c) \/ Written(c)
  <2>1. Good(w', c, t - 1, w) /\ Alive /\ mode' = mode
    BY <1>3, ServingStep
  <2>2. QED
    BY <2>1, GoodFull
<1>4. CASE CheckBroken(c) \/ SendRequest(c) \/ ConnectError(c) \/ ProcessHeader(c)
           \/ ProcessUpstream(c) \/ ProcessDownstream(c)
  <2>1. Good(w', c, t - 1, w) /\ Alive /\ mode' = mode
    BY <1>4, PeerStep
  <2>2. QED
    BY <2>1, GoodFull
<1>5. CASE Timeout(c)
  <2>1. Good(w', c, t - 1, w) /\ Alive /\ mode' = mode
    BY <1>5, TimeoutStep
  <2>2. QED
    BY <2>1, GoodFull
<1>6. QED
  BY <1>1, <1>2, <1>3, <1>4, <1>5 DEF Events

\* A worker begins with the invariant.
LEMMA InitInv == Init => WorkerInv
<1> SUFFICES ASSUME Init PROVE WorkerInv
  OBVIOUS
<1>1. w = [conn |-> [c \in Clients |-> NoConn], queue |-> <<>>, free |-> ConnectionN - 2, load |-> 0]
      /\ mode = "run"
  BY DEF Init
<1>2. w \in World /\ w.queue = <<>> /\ w.free = ConnectionN - 2 /\ w.load = 0
      /\ \A c \in Clients : w.conn[c] = NoConn
  <2>1. ConnectionN - 2 \in Nat /\ <<>> \in Seq(Clients) /\ 0 \in Int
    BY WorkerAssumption
  <2>2. [c \in Clients |-> NoConn] \in [Clients -> Conn]
    BY NoConnFields
  <2>3. QED
    BY <1>1, <2>1, <2>2 DEF World
<1>3. IsInjective(w.queue) /\ Range(w.queue) = {}
  BY <1>2 DEF IsInjective, Range
<1>4. \A c \in Clients : Sound(w.conn[c]) /\ Queued(w, c) /\ w.conn[c].st = "none"
  BY <1>2, <1>3, NoConnFields DEF Queued, Waiting
<1>5. OpenIn(w) = {} /\ ProxiedIn(w) = {}
  BY <1>4 DEF OpenIn, ProxiedIn, AtPeer
<1>6. Cardinality({}) = 0
  BY FS_EmptySet
<1>7. Full(w, ConnectionN - 2)
  <2>1. w.free + 0 + 0 = ConnectionN - 2
    BY <1>2, WorkerAssumption
  <2>2. w.load = Cardinality(ProxiedIn(w))
    BY <1>2, <1>5, <1>6
  <2>3. w.free + Cardinality(OpenIn(w)) + Cardinality(ProxiedIn(w)) = ConnectionN - 2
    BY <1>5, <1>6, <2>1
  <2>4. QED
    BY <1>2, <1>3, <1>4, <2>2, <2>3 DEF Full
<1>8. QED
  BY <1>1, <1>7 DEF WorkerInv, QuietExit

\* Every step keeps the invariant, and touches of the other clients' connections
\* only those without a request.
LEMMA NextInv ==
  ASSUME WorkerInv, [Next]_vars
  PROVE  /\ WorkerInv'
         /\ \/ \E c \in Clients : Spared(w, w', c)
            \/ SparedAll(w, w')
<1>1. PICK k \in {ConnectionN - 2, ConnectionN - 1} :
        Full(w, k) /\ (Alive => k = ConnectionN - (IF mode = "run" THEN 2 ELSE 1))
  BY DEF WorkerInv
<1>2. k \in Int /\ ConnectionN \in Int
  BY TotalParts
<1>3. ASSUME NEW c \in Clients, Events(c) \/ Timeout(c)
      PROVE  WorkerInv' /\ Spared(w, w', c)
  <2>1. Full(w', k) /\ Spared(w, w', c) /\ Alive /\ mode' = mode
    BY <1>1, <1>2, <1>3, EventStep
  <2>2. k = ConnectionN - (IF mode' = "run" THEN 2 ELSE 1) /\ mode' \in {"run", "exiting"}
    BY <1>1, <2>1 DEF Alive
  <2>3. QED
    BY <2>1, <2>2 DEF WorkerInv, QuietExit
<1>4. CASE Quit
  <2>1. Full(w', k + 1) /\ SparedAll(w, w') /\ mode = "run" /\ mode' = "exiting"
    BY <1>1, <1>2, <1>4, QuitStep
  <2>2. k + 1 = ConnectionN - 1
    BY <1>1, <1>2, <2>1 DEF Alive
  <2>3. Full(w', ConnectionN - 1)
    BY <2>1, <2>2
  <2>4. WorkerInv'
    BY <2>1, <2>3 DEF WorkerInv, QuietExit
  <2>5. QED
    BY <2>1, <2>4
<1>5. CASE Exit
  <2>1. mode' = "exited" /\ w' = w /\ ~Posted /\ \A c \in Clients : w.conn[c].timers = {}
    BY <1>5 DEF Exit
  <2>2. ASSUME NEW c \in Clients PROVE w.conn[c].st = "none"
    <3>1. Sound(w.conn[c])
      BY <1>1 DEF Full
    <3>2. w.conn[c].st # "posted"
      BY <2>1 DEF Posted, St
    <3>3. QED
      BY <2>1, <3>1, <3>2 DEF Sound
  <2>3. QuietExit'
    BY <2>1, <2>2 DEF QuietExit, Open, St
  <2>4. Full(w', k)
    BY <1>1, <2>1
  <2>5. WorkerInv'
    BY <2>1, <2>3, <2>4 DEF WorkerInv, Alive
  <2>6. SparedAll(w, w')
    BY <2>1 DEF SparedAll
  <2>7. QED
    BY <2>5, <2>6
<1>6. CASE Terminate
  <2>1. mode' = "killed" /\ w' = w
    BY <1>6 DEF Terminate
  <2>2. Full(w', k)
    BY <1>1, <2>1
  <2>3. WorkerInv'
    BY <2>1, <2>2 DEF WorkerInv, Alive, QuietExit
  <2>4. SparedAll(w, w')
    BY <2>1 DEF SparedAll
  <2>5. QED
    BY <2>3, <2>4
<1>7. CASE UNCHANGED vars
  <2>1. w' = w /\ mode' = mode
    BY <1>7 DEF vars
  <2>2. WorkerInv'
    BY <2>1 DEF WorkerInv, Alive, QuietExit, Open, St
  <2>3. SparedAll(w, w')
    BY <2>1 DEF SparedAll
  <2>4. QED
    BY <2>2, <2>3
<1>8. QED
  BY <1>3, <1>4, <1>5, <1>6, <1>7 DEF Next

\* What the invariant says, in the terms of the model
LEMMA InvMeans ==
  ASSUME WorkerInv
  PROVE  TypeOK /\ Accounted /\ QuietExit
<1>1. PICK k \in {ConnectionN - 2, ConnectionN - 1} :
        Full(w, k) /\ (Alive => k = ConnectionN - (IF mode = "run" THEN 2 ELSE 1))
  BY DEF WorkerInv
<1>2. Open = OpenIn(w) /\ Proxied = ProxiedIn(w)
  BY DEF Open, OpenIn, Proxied, ProxiedIn, St, AtPeer
<1>3. w \in World /\ \A c \in Clients : Sound(w.conn[c]) /\ w.conn[c] \in Conn
  BY <1>1, WorldFields DEF Full
<1>4. w.load = Cardinality(Proxied) /\ w.free + Cardinality(Open) + Cardinality(Proxied) = k
  BY <1>1, <1>2 DEF Full
<1>5. Cardinality(Open) \in Nat /\ Cardinality(Proxied) \in Nat
  BY <1>2, ClientSets
<1>6. TypeOK
  <2>1. ASSUME NEW c \in Clients
        PROVE  /\ St(c) \in States
               /\ w.conn[c].timers \subseteq {"read", "write", "uread", "uwrite"}
               /\ w.conn[c].tries \in 0..Peers
               /\ w.conn[c].peer \in BOOLEAN /\ w.conn[c].up \in BOOLEAN
    BY <1>3, ConnFields DEF St, Timers
  <2>2. w.queue \in Seq(Clients) /\ w.free \in Nat
    BY <1>3, WorldFields
  <2>3. w.free \in 0..ConnectionN
    BY <1>1, <1>4, <1>5, <2>2, TotalParts
  <2>4. w.load \in Nat
    BY <1>4, <1>5
  <2>5. mode \in {"run", "exiting", "exited", "killed"}
    BY DEF WorkerInv
  <2>6. QED
    BY <2>1, <2>2, <2>3, <2>4, <2>5 DEF TypeOK
<1>7. Accounted
  <2>1. ASSUME NEW c \in Clients
        PROVE  w.conn[c].up = w.conn[c].peer /\ w.conn[c].up = (c \in Proxied)
    <3>1. (c \in Proxied) = (w.conn[c].st \in AtPeer)
      BY DEF Proxied, St, AtPeer
    <3>2. QED
      BY <1>3, <3>1 DEF Sound
  <2>2. Alive => w.free + Cardinality(Open) + Cardinality(Proxied)
                   = ConnectionN - (IF mode = "run" THEN 2 ELSE 1)
    BY <1>1, <1>4
  <2>3. QED
    BY <1>4, <2>1, <2>2 DEF Accounted
<1>8. QED
  BY <1>6, <1>7 DEF WorkerInv

\* The invariant always holds.
LEMMA InvHolds == Spec => []WorkerInv
<1>1. WorkerInv /\ [Next]_vars => WorkerInv'
  BY NextInv
<1>2. QED
  BY InitInv, <1>1, PTL DEF Spec

-----------------------------------------------------------------------------
(* Theorems *)

\* The counters stay in their ranges: free_connection_n is never below zero nor
\* above worker_connections, and no peer has a negative number of connections.
THEOREM TypeCorrect == Spec => []TypeOK
<1>1. WorkerInv => TypeOK
  BY InvMeans
<1>2. QED
  BY InvHolds, <1>1, PTL

\* However requests end (ngx_http_upstream_finalize_request, _next, _connect,
\* ngx_drain_connections, ngx_close_idle_connections), their connections and their
\* peers are given back once.
THEOREM ConnectionsCorrect == Spec => []Accounted
<1>1. WorkerInv => Accounted
  BY InvMeans
<1>2. QED
  BY InvHolds, <1>1, PTL

\* ngx_worker_process_exit of a graceful shutdown finds no open connection.
THEOREM ExitCorrect == Spec => []QuietExit
<1>1. WorkerInv => QuietExit
  BY InvMeans
<1>2. QED
  BY InvHolds, <1>1, PTL

\* ngx_drain_connections takes no connection from a request of another client.
THEOREM ReuseCorrect == Spec => ReuseSparesRequests
<1> DEFINE Spares == \A c, d \in Clients :
             /\ c # d /\ c \in Serving /\ w'.conn[c].st = "none"
             /\ w'.conn[d] # w.conn[d]
             => d \in Open \ Serving /\ w'.conn[d].st = "none"
<1>1. ASSUME WorkerInv, [Next]_vars PROVE Spares
  <2>1. SUFFICES ASSUME NEW c \in Clients, NEW d \in Clients, c # d, c \in Serving,
                        w'.conn[c].st = "none", w'.conn[d] # w.conn[d]
                 PROVE  d \in Open \ Serving /\ w'.conn[d].st = "none"
    OBVIOUS
  <2>2. w.conn[c].st # "none" /\ w.conn[c].st \notin Waiting
    BY <2>1 DEF Serving, Open, St, Waiting
  <2>3. ASSUME w.conn[d].st \in Waiting, w'.conn[d] = NoConn
        PROVE  d \in Open \ Serving /\ w'.conn[d].st = "none"
    BY <2>3, NoConnFields DEF Serving, Open, St, Waiting
  <2>4. CASE \E e \in Clients : Spared(w, w', e)
    <3>1. PICK e \in Clients : Spared(w, w', e)
      BY <2>4
    <3>2. c = e
      <4>1. SUFFICES ASSUME c # e PROVE FALSE
        OBVIOUS
      <4>2. w'.conn[c] = w.conn[c] \/ w.conn[c].st \in Waiting
        BY <3>1, <4>1 DEF Spared
      <4>3. QED
        BY <2>1, <2>2, <4>2
    <3>3. w.conn[d].st \in Waiting /\ w'.conn[d] = NoConn
      BY <2>1, <3>1, <3>2 DEF Spared
    <3>4. QED
      BY <2>3, <3>3
  <2>5. CASE SparedAll(w, w')
    <3>1. w.conn[d].st \in Waiting /\ w'.conn[d] = NoConn
      BY <2>1, <2>5 DEF SparedAll
    <3>2. QED
      BY <2>3, <3>1
  <2>6. QED
    BY <1>1, <2>4, <2>5, NextInv
<1>2. WorkerInv /\ [Next]_vars => [Spares]_vars
  BY <1>1
<1>3. QED
  BY InvHolds, <1>2, PTL DEF Spec, ReuseSparesRequests
=============================================================================
