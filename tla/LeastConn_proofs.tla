--------------------------- MODULE LeastConn_proofs ---------------------------
(***************************************************************************)
(* Proofs about the modified least_conn balancer, for any number of        *)
(* servers with any weights, any max_fails and fail_timeout and any number *)
(* of requests in flight.                                                  *)
(***************************************************************************)
EXTENDS LeastConn, SequenceTheorems, SetFacts, TLAPS

LEMMA PeersFacts ==
  /\ Peers = 1..Len(Weights) /\ Len(Weights) \in Nat \ {0}
  /\ Peers \subseteq Nat /\ 0 \notin Peers /\ 1 \in Peers /\ IsFiniteSet(Peers)
  /\ \A i \in Peers : Weights[i] \in Nat /\ Weights[i] > 0
<1>1. Peers = 1..Len(Weights) /\ Len(Weights) \in Nat /\ Len(Weights) # 0
  BY BalancerAssumption, EmptySeq, LenProperties DEF Peers
<1>2. \A i \in Peers : Weights[i] \in Nat \ {0}
  BY <1>1, BalancerAssumption, ElementOfSeq
<1>3. IsFiniteSet(Peers)
  BY <1>1, FS_Interval
<1>4. QED
  BY <1>1, <1>2, <1>3

-----------------------------------------------------------------------------
(* The two passes of the selection *)

\* The peers as the selection works on them
PeersOK(P) ==
  /\ P \in [conns : [Peers -> Int], fails : [Peers -> Nat],
            accessed : [Peers -> 0..MaxTime], checked : [Peers -> 0..MaxTime],
            effective_weight : [Peers -> Nat], current_weight : [Peers -> Int]]
  /\ \A i \in Peers : P.effective_weight[i] <= Weights[i]

\* Cross multiplication with positive weights: if a/u <= b/v and b/v < c/w, then
\* a/u < c/w.
LEMMA CrossMultiply ==
  ASSUME NEW a \in Int, NEW b \in Int, NEW c \in Int,
         NEW u \in Nat, u > 0, NEW v \in Nat, v > 0, NEW w \in Nat, w > 0,
         a * v <= b * u, b * w < c * v
  PROVE  a * w < c * u
<1>1. (a * v) * w <= (b * u) * w
  OBVIOUS
<1>2. (b * w) * u < (c * v) * u
  OBVIOUS
<1>3. (b * u) * w = (b * w) * u
  OBVIOUS
<1>4. (a * w) * v = (a * v) * w /\ (c * u) * v = (c * v) * u
  OBVIOUS
<1>5. (a * w) * v < (c * u) * v
  <2> DEFINE p == (a * v) * w
             q == (b * w) * u
             r == (c * v) * u
  <2>1. p \in Int /\ q \in Int /\ r \in Int
    OBVIOUS
  <2>2. p <= q /\ q < r
    BY <1>1, <1>2, <1>3
  <2>3. p < r
    <3> HIDE DEF p, q, r
    <3> QED BY <2>1, <2>2
  <2>4. QED
    BY <1>4, <2>3
<1>6. ASSUME a * w >= c * u PROVE FALSE
  <2> DEFINE x == a * w
             y == c * u
  <2>1. x \in Int /\ y \in Int
    OBVIOUS
  <2>2. x * v >= y * v
    <3>1. x >= y
      BY <1>6
    <3> HIDE DEF x, y
    <3>2. QED
      BY <2>1, <3>1
  <2>3. QED
    BY <1>5, <2>1, <2>2
<1>7. QED
  BY <1>6

\* Less is a strict weak order.
LEMMA LessOrder ==
  ASSUME NEW P, PeersOK(P), NEW i \in Peers, NEW j \in Peers, NEW k \in Peers
  PROVE  /\ ~Less(P, i, i)
         /\ Less(P, i, j) => ~Less(P, j, i)
         /\ ~Less(P, j, i) /\ Less(P, j, k) => Less(P, i, k)
         /\ Less(P, i, j) /\ Less(P, j, k) => Less(P, i, k)
<1> DEFINE a(x) == P.conns[x] + 1
<1>1. a(i) \in Int /\ a(j) \in Int /\ a(k) \in Int
  BY DEF PeersOK
<1>2. /\ Weights[i] \in Nat /\ Weights[i] > 0 /\ Weights[j] \in Nat /\ Weights[j] > 0
      /\ Weights[k] \in Nat /\ Weights[k] > 0
  BY PeersFacts
<1>3. \A x, y \in Peers : Less(P, x, y) <=> a(x) * Weights[y] < a(y) * Weights[x]
  BY DEF Less
<1> HIDE DEF a
<1>4. ~Less(P, j, i) /\ Less(P, j, k) => Less(P, i, k)
  <2> SUFFICES ASSUME ~(a(j) * Weights[i] < a(i) * Weights[j]),
                      a(j) * Weights[k] < a(k) * Weights[j]
               PROVE  a(i) * Weights[k] < a(k) * Weights[i]
    BY <1>3
  <2>1. a(i) * Weights[j] <= a(j) * Weights[i]
    BY <1>1, <1>2
  <2>2. QED
    BY <1>1, <1>2, <2>1, CrossMultiply
<1>5. Less(P, i, j) => ~Less(P, j, i)
  <2>1. a(i) * Weights[j] \in Int /\ a(j) * Weights[i] \in Int
    BY <1>1, <1>2
  <2>2. QED
    BY <1>3, <2>1
<1>6. ~Less(P, i, i)
  <2>1. a(i) * Weights[i] \in Int
    BY <1>1, <1>2
  <2>2. QED
    BY <1>3, <2>1
<1>7. QED
  BY <1>4, <1>5, <1>6

\* The first pass finds a peer: the first of the least loaded.
LEMMA BestIsLeast ==
  ASSUME NEW P, PeersOK(P), NEW E \in SUBSET Peers, E # {}
  PROVE  Best(P, E) \in E /\ \A k \in E : ~Less(P, k, Best(P, E))
<1> DEFINE Below(i) == {k \in E : Less(P, k, i)}
           T == {Below(i) : i \in E}
           L == {i \in E : Below(i) = {}}
<1>1. L # {}
  <2>1. T \in SUBSET FiniteSubsetsOf(E) /\ T # {}
    <3>1. FiniteSubsetsOf(E) = SUBSET E
      BY FS_FiniteSubsetsOfFinite, FS_Subset, PeersFacts
    <3>2. \A i \in E : Below(i) \in SUBSET E
      OBVIOUS
    <3> HIDE DEF Below
    <3>3. QED
      BY <3>1, <3>2
  <2>2. PICK X \in T : \A Y \in T : Y \subseteq X => Y = X
    <3> HIDE DEF T
    <3> QED BY <2>1, LeastSet
  <2>3. PICK i \in E : X = Below(i)
    OBVIOUS
  <2>4. ASSUME NEW k \in Below(i) PROVE FALSE
    <3>1. k \in E /\ Less(P, k, i)
      OBVIOUS
    <3>2. Below(k) \subseteq Below(i)
      BY <3>1, LessOrder
    <3>3. k \notin Below(k)
      BY <3>1, LessOrder
    <3>4. Below(k) \in T
      BY <3>1
    <3> HIDE DEF Below, T
    <3>5. QED
      BY <2>2, <2>3, <2>4, <3>2, <3>3, <3>4
  <2>5. Below(i) = {}
    <3> HIDE DEF Below
    <3> QED BY <2>4
  <2>6. QED
    BY <2>5
<1>2. PICK i \in L : \A j \in L : i <= j
  <2>1. L \in SUBSET Nat
    BY PeersFacts
  <2> HIDE DEF L
  <2>2. QED
    BY <1>1, <2>1, LeastNumber
<1>3. i \in E /\ i \in Nat /\ \A k \in E : ~Less(P, k, i)
  BY PeersFacts
<1>4. \A k \in E : k < i => Less(P, i, k)
  <2> SUFFICES ASSUME NEW k \in E, k < i PROVE Less(P, i, k)
    OBVIOUS
  <2>1. k \in Nat /\ ~(i <= k)
    BY <1>3, PeersFacts
  <2>2. k \notin L
    BY <1>2, <2>1
  <2>3. PICK j \in E : Less(P, j, k)
    BY <2>2
  <2>4. ~Less(P, j, i)
    BY <1>3
  <2>5. QED
    BY <1>3, <2>3, <2>4, LessOrder
<1>5. QED
  BY <1>3, <1>4 DEF Best

\* The second pass finds one too.
LEMMA HeaviestIsTied ==
  ASSUME NEW cw \in [Peers -> Int], NEW T \in SUBSET Peers, T # {}
  PROVE  Heaviest(cw, T) \in T
<1> DEFINE V == {cw[i] : i \in T}
<1>1. V \in SUBSET Int /\ V # {}
  OBVIOUS
<1>2. IsFiniteSet(V)
  <2>1. [i \in T |-> cw[i]] \in Surjection(T, V)
    BY DEF Surjection
  <2>2. IsFiniteSet(T)
    BY FS_Subset, PeersFacts
  <2>3. QED
    BY <2>1, <2>2, FS_Surjection
<1>3. PICK v \in V : \A y \in V : v >= y
  <2> HIDE DEF V
  <2> QED BY <1>1, <1>2, GreatestNumber
<1> DEFINE H == {i \in T : cw[i] = v}
<1>4. H \in SUBSET Nat /\ H # {}
  BY PeersFacts
<1>5. PICK i \in H : \A j \in H : i <= j
  <2> HIDE DEF H
  <2> QED BY <1>4, LeastNumber
<1>6. i \in T /\ \A k \in T : cw[k] < cw[i] \/ (cw[k] = cw[i] /\ k >= i)
  <2> SUFFICES ASSUME NEW k \in T PROVE cw[k] < cw[i] \/ (cw[k] = cw[i] /\ k >= i)
    OBVIOUS
  <2>1. cw[k] \in Int /\ cw[i] \in Int /\ cw[i] >= cw[k] /\ k \in Nat /\ i \in Nat
    BY <1>3, PeersFacts
  <2>2. CASE cw[k] = cw[i]
    BY <1>5, <2>1, <2>2
  <2>3. CASE cw[k] # cw[i]
    BY <2>1, <2>3
  <2>4. QED
    BY <2>2, <2>3
<1>7. QED
  BY <1>6 DEF Heaviest

\* Changing one element of a sum.
LEMMA SumOneChanged ==
  ASSUME NEW f \in [Peers -> Int], NEW i \in Peers, NEW d \in Int
  PROVE  Sum([f EXCEPT ![i] = @ - d], Peers) = Sum(f, Peers) - d
<1> DEFINE h == [f EXCEPT ![i] = @ - d]
           e == [x \in {i} |-> -d]
           R == {i}
<1>1. R \in SUBSET Peers /\ (\A x \in Peers : f[x] \in Int) /\ (\A x \in R : e[x] \in Int)
  OBVIOUS
<1>2. \A x \in Peers : h[x] = f[x] + IF x \in R THEN e[x] ELSE 0
  OBVIOUS
<1>3. IsFiniteSet(R) /\ i \in R /\ R \ {i} = {} /\ e[i] = -d /\ IsFiniteSet(Peers)
  BY FS_Singleton, PeersFacts
<1> HIDE DEF h, e, R
<1>4. Sum(h, Peers) = Sum(f, Peers) + Sum(e, R)
  BY <1>1, <1>2, <1>3, SumRaise
<1>5. Sum(e, R) = e[i] + Sum(e, R \ {i})
  BY <1>1, <1>3, SumRemove
<1>6. Sum(e, R) = -d
  BY <1>3, <1>5, SumOfNone
<1>7. Sum(f, Peers) \in Int
  BY <1>1, <1>3, SumIsInt
<1>8. Sum(h, Peers) = Sum(f, Peers) - d
  BY <1>4, <1>6, <1>7
<1>9. QED
  BY <1>8 DEF h

\* What the second pass does to the peers: weights move among the tied ones,
\* and nothing else changes.
LEMMA SmoothMoves ==
  ASSUME NEW P, PeersOK(P), NEW T \in SUBSET Peers, T # {}
  PROVE  LET g == Smooth(P, T) IN
         /\ g.best \in T /\ PeersOK(g.peers)
         /\ g.peers.conns = P.conns /\ g.peers.fails = P.fails
         /\ g.peers.accessed = P.accessed /\ g.peers.checked = P.checked
         /\ Sum(g.peers.current_weight, Peers) = Sum(P.current_weight, Peers)
<1> DEFINE f     == P.current_weight
           e     == P.effective_weight
           cw    == [i \in Peers |-> f[i] + IF i \in T THEN e[i] ELSE 0]
           total == Sum(e, T)
           best  == Heaviest(cw, T)
           cw2   == [cw EXCEPT ![best] = @ - total]
           ew2   == [i \in Peers |-> IF i \in T /\ e[i] < Weights[i] THEN e[i] + 1 ELSE e[i]]
           Q     == [P EXCEPT !.current_weight = cw2, !.effective_weight = ew2]
<1>1. Smooth(P, T) = [best |-> best, peers |-> Q]
  BY DEF Smooth, Sum, MapThenSumSet, MapThenFoldSet
<1>2. f \in [Peers -> Int] /\ e \in [Peers -> Nat] /\ \A i \in Peers : e[i] <= Weights[i]
  BY DEF PeersOK
<1>3. cw \in [Peers -> Int]
  BY <1>2
<1>4. best \in T /\ best \in Peers
  <2> HIDE DEF cw
  <2> QED BY <1>3, HeaviestIsTied
<1>5. total \in Int
  <2>1. \A x \in T : e[x] \in Int
    BY <1>2
  <2>2. IsFiniteSet(T)
    BY FS_Subset, PeersFacts
  <2> HIDE DEF e
  <2>3. QED
    BY <2>1, <2>2, SumIsInt
<1>6. Sum(cw, Peers) = Sum(f, Peers) + total
  <2>1. \A x \in Peers : f[x] \in Int
    BY <1>2
  <2>2. \A x \in T : e[x] \in Int
    BY <1>2
  <2>3. \A x \in Peers : cw[x] = f[x] + IF x \in T THEN e[x] ELSE 0
    OBVIOUS
  <2>4. IsFiniteSet(Peers)
    BY PeersFacts
  <2> HIDE DEF cw, f, e
  <2>5. QED
    BY <2>1, <2>2, <2>3, <2>4, SumRaise
<1>7. Sum(cw2, Peers) = Sum(cw, Peers) - total
  <2> HIDE DEF cw, best, total
  <2> QED BY <1>3, <1>4, <1>5, SumOneChanged
<1>8. Sum(cw2, Peers) = Sum(f, Peers)
  <2>1. Sum(f, Peers) \in Int
    <3>1. \A x \in Peers : f[x] \in Int
      BY <1>2
    <3> HIDE DEF f
    <3>2. QED
      BY <3>1, PeersFacts, SumIsInt
  <2> HIDE DEF f, cw2, cw, total
  <2>2. QED
    BY <1>5, <1>6, <1>7, <2>1
<1>9. cw2 \in [Peers -> Int]
  <2> HIDE DEF cw, best, total
  <2> QED BY <1>3, <1>4, <1>5
<1>10. ew2 \in [Peers -> Nat] /\ \A i \in Peers : ew2[i] <= Weights[i]
  BY <1>2, PeersFacts
<1> HIDE DEF cw2, ew2, best, f, e, cw, total
<1>11. /\ PeersOK(Q) /\ Q.conns = P.conns /\ Q.fails = P.fails
       /\ Q.accessed = P.accessed /\ Q.checked = P.checked /\ Q.current_weight = cw2
  BY <1>9, <1>10 DEF PeersOK
<1> HIDE DEF Q
<1>12. QED
  BY <1>1, <1>4, <1>8, <1>11 DEF f

\* The peer the selection ends with, and what it leaves of the peers.
Picked(P, S, g) ==
  /\ g.best \in Peers /\ PeersOK(g.peers)
  /\ g.peers.conns = [P.conns EXCEPT ![g.best] = @ + 1]
  /\ g.peers.fails = P.fails /\ g.peers.accessed = P.accessed
  /\ \A i \in Peers \ {g.best} : g.peers.checked[i] = P.checked[i]
  /\ Sum(g.peers.current_weight, Peers) = Sum(P.current_weight, Peers)
  /\ ~Single =>
       /\ g.best \notin S /\ Live(P, g.best)
       /\ g.peers.checked[g.best] = IF now - P.checked[g.best] > FailTimeout
                                    THEN now ELSE P.checked[g.best]

\* The two passes together: the chosen peer is one of the least loaded, or tied
\* with one by the load it has now.
LEMMA PassesPick ==
  ASSUME NEW P, PeersOK(P), NEW E \in SUBSET Peers, E # {}
  PROVE  LET best == Best(P, E)
             T    == Tied(P, E)
             g    == IF T = {best} THEN [best |-> best, peers |-> P] ELSE Smooth(P, T)
         IN  /\ g.best \in T /\ T \subseteq E /\ PeersOK(g.peers)
             /\ g.peers.conns = P.conns /\ g.peers.fails = P.fails
             /\ g.peers.accessed = P.accessed /\ g.peers.checked = P.checked
             /\ Sum(g.peers.current_weight, Peers) = Sum(P.current_weight, Peers)
<1> DEFINE best == Best(P, E)
           T    == Tied(P, E)
<1>1. best \in E /\ best \in Peers
  BY BestIsLeast
<1>2. T \subseteq E /\ best \in T
  <2>1. best >= best /\ P.conns[best] * Weights[best] = P.conns[best] * Weights[best]
    BY <1>1, PeersFacts
  <2>2. QED
    BY <1>1, <2>1 DEF Tied
<1>3. T \in SUBSET Peers /\ T # {}
  BY <1>2
<1> HIDE DEF best, T
<1>4. CASE T = {best}
  BY <1>2, <1>4 DEF best, T
<1>5. CASE T # {best}
  BY <1>2, <1>3, <1>5, SmoothMoves DEF best, T
<1>6. QED
  BY <1>4, <1>5

\* The chosen peer's connection and check time.
LEMMA TakeTakes ==
  ASSUME NEW P, PeersOK(P), NEW i \in Peers, now \in 0..MaxTime
  PROVE  LET Q == Take(P, i) IN
         /\ PeersOK(Q) /\ Q.conns = [P.conns EXCEPT ![i] = @ + 1]
         /\ Q.fails = P.fails /\ Q.accessed = P.accessed
         /\ Q.current_weight = P.current_weight
         /\ \A k \in Peers \ {i} : Q.checked[k] = P.checked[k]
         /\ Q.checked[i] = IF now - P.checked[i] > FailTimeout THEN now ELSE P.checked[i]
<1> DEFINE cs == [P.conns EXCEPT ![i] = @ + 1]
           ch == [P.checked EXCEPT ![i] = IF now - @ > FailTimeout THEN now ELSE @]
           Q  == [P EXCEPT !.checked = ch, !.conns = cs]
<1>1. Take(P, i) = Q
  BY DEF Take, PeersOK
<1>2. cs \in [Peers -> Int] /\ ch \in [Peers -> 0..MaxTime]
  BY DEF PeersOK
<1>3. /\ \A k \in Peers \ {i} : ch[k] = P.checked[k]
      /\ ch[i] = IF now - P.checked[i] > FailTimeout THEN now ELSE P.checked[i]
  BY DEF PeersOK
<1> HIDE DEF cs, ch
<1>4. /\ PeersOK(Q) /\ Q.conns = cs /\ Q.checked = ch /\ Q.fails = P.fails
      /\ Q.accessed = P.accessed /\ Q.current_weight = P.current_weight
  BY <1>2 DEF PeersOK
<1> HIDE DEF Q
<1>5. QED
  BY <1>1, <1>3, <1>4 DEF cs

\* GetPeer, unless it answers NGX_BUSY.
LEMMA GetPeerPicks ==
  ASSUME NEW P, PeersOK(P), NEW S, now \in 0..MaxTime
  PROVE  LET g == GetPeer(P, S) IN
         \/ g.best = 0 /\ g.peers = P /\ ~Single
         \/ Picked(P, S, g)
<1> DEFINE E == {i \in Peers \ S : Live(P, i)}
           g == GetPeer(P, S)
<1>1. CASE Single
  <2> DEFINE cs == [P.conns EXCEPT ![1] = @ + 1]
             Q  == [P EXCEPT !.conns = cs]
  <2>1. g = [best |-> 1, peers |-> Q]
    BY <1>1 DEF GetPeer, PeersOK
  <2>2. cs \in [Peers -> Int]
    BY PeersFacts DEF PeersOK
  <2> HIDE DEF cs
  <2>3. /\ PeersOK(Q) /\ Q.conns = cs /\ Q.checked = P.checked /\ Q.fails = P.fails
        /\ Q.accessed = P.accessed /\ Q.current_weight = P.current_weight
    BY <2>2 DEF PeersOK
  <2> HIDE DEF Q
  <2>4. QED
    BY <1>1, <2>1, <2>3, PeersFacts DEF Picked, cs
<1>2. CASE ~Single /\ E = {}
  BY <1>2 DEF GetPeer
<1>3. CASE ~Single /\ E # {}
  <2> DEFINE best == Best(P, E)
             T    == Tied(P, E)
             p    == IF T = {best} THEN [best |-> best, peers |-> P] ELSE Smooth(P, T)
             Q    == Take(p.peers, p.best)
  <2>1. g = [best |-> p.best, peers |-> Q]
    BY <1>3 DEF GetPeer
  <2>2. /\ p.best \in E /\ PeersOK(p.peers)
        /\ p.peers.conns = P.conns /\ p.peers.fails = P.fails
        /\ p.peers.accessed = P.accessed /\ p.peers.checked = P.checked
        /\ Sum(p.peers.current_weight, Peers) = Sum(P.current_weight, Peers)
    <3>1. E \in SUBSET Peers
      OBVIOUS
    <3> HIDE DEF E
    <3>2. QED
      BY <1>3, <3>1, PassesPick
  <2>3. p.best \in Peers \ S /\ Live(P, p.best)
    BY <2>2
  <2> HIDE DEF p, E, g
  <2>4. /\ PeersOK(Q) /\ Q.conns = [P.conns EXCEPT ![p.best] = @ + 1]
        /\ Q.fails = P.fails /\ Q.accessed = P.accessed
        /\ Q.current_weight = p.peers.current_weight
        /\ \A k \in Peers \ {p.best} : Q.checked[k] = P.checked[k]
        /\ Q.checked[p.best] = IF now - P.checked[p.best] > FailTimeout
                               THEN now ELSE P.checked[p.best]
    BY <2>2, <2>3, TakeTakes
  <2> HIDE DEF Q
  <2>5. Picked(P, S, g)
    BY <2>1, <2>2, <2>3, <2>4 DEF Picked
  <2>6. QED
    BY <2>5 DEF g
<1>4. QED
  BY <1>1, <1>2, <1>3

\* What the selection promises: the chosen peer has, for its weight, less
\* than any other that was available would have with one request more.
LEMMA GetPeerNoOverload ==
  ASSUME NEW P, PeersOK(P), NEW S, now \in 0..MaxTime, ~Single,
         GetPeer(P, S).best # 0, NEW k \in Peers \ S, Live(P, k)
  PROVE  LET i == GetPeer(P, S).best IN
         P.conns[i] * Weights[k] < (P.conns[k] + 1) * Weights[i]
<1> DEFINE E    == {j \in Peers \ S : Live(P, j)}
           best == Best(P, E)
           T    == Tied(P, E)
           p    == IF T = {best} THEN [best |-> best, peers |-> P] ELSE Smooth(P, T)
           i    == p.best
<1>1. k \in E /\ E \in SUBSET Peers /\ E # {}
  OBVIOUS
<1>2. GetPeer(P, S).best = i
  <2>1. GetPeer(P, S) = [best |-> p.best, peers |-> Take(p.peers, p.best)]
    BY <1>1 DEF GetPeer
  <2> HIDE DEF p
  <2>2. QED
    BY <2>1
<1> HIDE DEF E
<1>3. i \in T /\ T \subseteq E
  BY <1>1, PassesPick
<1>4. best \in E /\ ~Less(P, k, best)
  BY <1>1, BestIsLeast
<1>5. i \in Peers /\ P.conns[i] * Weights[best] = P.conns[best] * Weights[i]
  BY <1>1, <1>3 DEF Tied
<1> HIDE DEF best, p
<1>6. /\ P.conns[i] \in Int /\ P.conns[k] \in Int /\ P.conns[best] \in Int
      /\ Weights[i] \in Nat /\ Weights[i] > 0 /\ Weights[k] \in Nat /\ Weights[k] > 0
      /\ Weights[best] \in Nat /\ Weights[best] > 0
  BY <1>1, <1>4, <1>5, PeersFacts DEF PeersOK
<1>7. ~((P.conns[k] + 1) * Weights[best] < (P.conns[best] + 1) * Weights[k])
  BY <1>4 DEF Less
<1>8. ASSUME NEW a \in Int, NEW b \in Int, NEW c \in Int,
             NEW u \in Nat, u > 0, NEW v \in Nat, v > 0, NEW w \in Nat, w > 0,
             a * v = b * u, ~((c + 1) * v < (b + 1) * w)
      PROVE  a * w < (c + 1) * u
  <2>1. b * w < (c + 1) * v
    <3>1. (b + 1) * w = b * w + w
      OBVIOUS
    <3>2. b * w \in Int /\ (c + 1) * v \in Int /\ (b + 1) * w \in Int
      OBVIOUS
    <3> DEFINE x == b * w
               y == (c + 1) * v
               z == (b + 1) * w
    <3>3. ~(y < z) /\ z = x + w /\ x \in Int /\ y \in Int
      BY <1>8, <3>1, <3>2
    <3>4. x < y
      <4> HIDE DEF x, y, z
      <4> QED BY <1>8, <3>3
    <3>5. QED
      BY <3>4
  <2>2. a * v <= b * u
    <3>1. a * v \in Int
      OBVIOUS
    <3>2. QED
      BY <1>8, <3>1
  <2>3. c + 1 \in Int
    OBVIOUS
  <2>4. QED
    BY <1>8, <2>1, <2>2, <2>3, CrossMultiply
<1>9. P.conns[i] * Weights[k] < (P.conns[k] + 1) * Weights[i]
  BY <1>5, <1>6, <1>7, <1>8
<1>10. QED
  BY <1>2, <1>9

-----------------------------------------------------------------------------
(* Giving a peer back *)

\* ngx_http_upstream_free_round_robin_peer touches the one peer, and always
\* returns its connection.
LEMMA FreePeerFrees ==
  ASSUME NEW P, PeersOK(P), NEW i \in Peers, NEW failed \in BOOLEAN, now \in 0..MaxTime
  PROVE  LET Q == FreePeer(P, i, failed) IN
         /\ PeersOK(Q) /\ Q.conns = [P.conns EXCEPT ![i] = @ - 1]
         /\ Q.current_weight = P.current_weight
         /\ \A k \in Peers \ {i} : Q.fails[k] = P.fails[k] /\ Q.checked[k] = P.checked[k]
         /\ IF failed /\ ~Single THEN Q.checked[i] = now
            ELSE Q.checked[i] = P.checked[i] /\ Q.fails[i] \in {P.fails[i], 0}
<1> DEFINE step == Weights[i] \div MaxFails
           cs == [P.conns EXCEPT ![i] = @ - 1]
           fs == [P.fails EXCEPT ![i] = @ + 1]
           ac == [P.accessed EXCEPT ![i] = now]
           ch == [P.checked EXCEPT ![i] = now]
           ew == [P.effective_weight EXCEPT ![i] = IF @ < step THEN 0 ELSE @ - step]
           f0 == [P.fails EXCEPT ![i] = 0]
           B  == [P EXCEPT !.fails = fs, !.accessed = ac, !.checked = ch,
                           !.effective_weight = ew]
           R  == [P EXCEPT !.fails = f0]
           Free(X) == [X EXCEPT !.conns = cs]
<1>1. Blame(P, i) = B
  BY DEF Blame, PeersOK
<1>2. \/ FreePeer(P, i, failed) = Free(P) /\ (failed => Single)
      \/ FreePeer(P, i, failed) = Free(R) /\ ~failed
      \/ FreePeer(P, i, failed) = Free(B) /\ failed /\ ~Single
  <2>1. P.conns = R.conns /\ P.conns = B.conns
    BY DEF PeersOK
  <2>2. [P EXCEPT !.fails[i] = 0] = R
    BY DEF PeersOK
  <2>3. \A X : [X EXCEPT !.conns[i] = @ - 1] = [X EXCEPT !.conns = [X.conns EXCEPT ![i] = @ - 1]]
    OBVIOUS
  <2> HIDE DEF R, B
  <2>4. QED
    BY <1>1, <2>1, <2>2, <2>3 DEF FreePeer
<1>3. step \in Nat
  <2>1. Weights[i] \in Nat /\ MaxFails \in Nat /\ MaxFails > 0
    BY PeersFacts, BalancerAssumption
  <2>2. QED
    BY <2>1
<1> HIDE DEF step
<1>4. /\ cs \in [Peers -> Int] /\ fs \in [Peers -> Nat] /\ f0 \in [Peers -> Nat]
      /\ ac \in [Peers -> 0..MaxTime] /\ ch \in [Peers -> 0..MaxTime]
  BY DEF PeersOK
<1>5. ew \in [Peers -> Nat] /\ \A k \in Peers : ew[k] <= Weights[k]
  <2>1. \A k \in Peers : P.effective_weight[k] \in Nat /\ P.effective_weight[k] <= Weights[k]
    BY DEF PeersOK
  <2>2. P.effective_weight \in [Peers -> Nat]
    BY DEF PeersOK
  <2>3. \A k \in Peers : ew[k] \in Nat /\ ew[k] <= Weights[k]
    BY <1>3, <2>1, <2>2, PeersFacts
  <2>4. QED
    BY <2>2, <2>3
<1>6. /\ \A k \in Peers \ {i} : fs[k] = P.fails[k] /\ f0[k] = P.fails[k] /\ ch[k] = P.checked[k]
      /\ f0[i] = 0 /\ ch[i] = now
  BY DEF PeersOK
<1> HIDE DEF cs, fs, f0, ac, ch, ew
<1>7. /\ PeersOK(Free(P)) /\ Free(P).conns = cs
      /\ Free(P).current_weight = P.current_weight
      /\ Free(P).fails = P.fails /\ Free(P).checked = P.checked
  BY <1>4 DEF PeersOK
<1>8. /\ PeersOK(Free(R)) /\ Free(R).conns = cs
      /\ Free(R).current_weight = P.current_weight
      /\ Free(R).fails = f0 /\ Free(R).checked = P.checked
  BY <1>4 DEF PeersOK
<1>9. /\ PeersOK(Free(B)) /\ Free(B).conns = cs
      /\ Free(B).current_weight = P.current_weight
      /\ Free(B).fails = fs /\ Free(B).checked = ch
  BY <1>4, <1>5 DEF PeersOK
<1> HIDE DEF Free, R, B
<1>10. CASE FreePeer(P, i, failed) = Free(P) /\ (failed => Single)
  BY <1>10, <1>7 DEF cs
<1>11. CASE FreePeer(P, i, failed) = Free(R) /\ ~failed
  BY <1>11, <1>8, <1>6 DEF cs
<1>12. CASE FreePeer(P, i, failed) = Free(B) /\ failed /\ ~Single
  BY <1>12, <1>9, <1>6 DEF cs
<1>13. QED
  BY <1>2, <1>10, <1>11, <1>12

-----------------------------------------------------------------------------
(* The inductive invariant *)

\* The requests peer i is working on
Using(i) == {r \in Requests : status[r] = "sent" /\ current[r] = i}

\* The types of everything but the peers
RequestsOK ==
  /\ now \in 0..MaxTime
  /\ status \in [Requests -> {"idle", "sent"}]
  /\ current \in [Requests -> Peers \cup {0}]
  /\ tried \in [Requests -> SUBSET Peers]
  /\ tries \in [Requests -> 0..Len(Weights)]
  /\ lastUse \in [Peers -> 0..MaxTime]

\* A request in flight has a peer, which is among those it has tried
SentHasPeer ==
  \A r \in Requests : status[r] = "sent" =>
    current[r] \in Peers /\ (Single \/ current[r] \in tried[r])

\* A peer that failed too often has been checked since its last use
CheckedSinceUse ==
  ~Single => \A i \in Peers : peers.fails[i] >= MaxFails => lastUse[i] <= peers.checked[i]

BalancerInv ==
  /\ PeersOK(peers) /\ RequestsOK /\ SentHasPeer
  /\ \A i \in Peers : peers.conns[i] = Cardinality(Using(i))
  /\ Sum(peers.current_weight, Peers) = 0
  /\ CheckedSinceUse

LEMMA UsingFinite ==
  ASSUME NEW i
  PROVE  /\ IsFiniteSet(Using(i)) /\ Cardinality(Using(i)) \in Nat
         /\ Cardinality(Using(i)) <= Cardinality(Requests)
         /\ Cardinality(Requests) \in Nat
  BY FS_Subset, FS_CardinalityType, BalancerAssumption DEF Using

\* The count of a peer when a request leaves it ...
LEMMA WithoutRequest ==
  ASSUME BalancerInv, NEW r \in Requests, status[r] = "sent", NEW i \in Peers
  PROVE  [peers.conns EXCEPT ![current[r]] = @ - 1][i] = Cardinality(Using(i) \ {r})
<1>1. /\ current[r] \in Peers /\ peers.conns \in [Peers -> Int]
      /\ peers.conns[i] = Cardinality(Using(i))
  BY DEF BalancerInv, SentHasPeer, PeersOK
<1>2. Cardinality(Using(i) \ {r}) = IF r \in Using(i) THEN Cardinality(Using(i)) - 1
                                    ELSE Cardinality(Using(i))
  BY UsingFinite, FS_RemoveElement
<1>3. r \in Using(i) <=> current[r] = i
  BY DEF Using
<1>4. QED
  BY <1>1, <1>2, <1>3

\* ... and when none does.
LEMMA WithoutIdle ==
  ASSUME NEW r \in Requests, status[r] = "idle", NEW i
  PROVE  Using(i) \ {r} = Using(i)
  BY DEF Using

\* A request gets a peer, or ends: what every peer counts besides it is all that
\* has to be known of the peers.
LEMMA ConnectStep ==
  ASSUME BalancerInv, NEW r \in Requests, NEW P, NEW S \in SUBSET Peers,
         NEW n \in 0..Len(Weights), Connect(r, P, S, n), UNCHANGED now, PeersOK(P),
         \A i \in Peers : P.conns[i] = Cardinality(Using(i) \ {r}),
         Sum(P.current_weight, Peers) = 0,
         ~Single => \A i \in Peers : P.fails[i] >= MaxFails =>
           (IF status[r] = "sent" /\ i = current[r] THEN now ELSE lastUse[i]) <= P.checked[i]
  PROVE  BalancerInv'
<1> DEFINE g == GetPeer(P, S)
<1>1. /\ peers' = g.peers /\ now' = now
      /\ status' = [status EXCEPT ![r] = IF g.best = 0 THEN "idle" ELSE "sent"]
      /\ current' = [current EXCEPT ![r] = g.best]
      /\ tried' = [tried EXCEPT ![r] = IF g.best = 0 THEN {}
                                       ELSE IF Single THEN S ELSE S \cup {g.best}]
      /\ tries' = [tries EXCEPT ![r] = IF g.best = 0 THEN 0 ELSE n]
      /\ lastUse' = [i \in Peers |->
                       IF i = g.best \/ (status[r] = "sent" /\ i = current[r])
                       THEN now ELSE lastUse[i]]
  BY DEF Connect
<1>2. \/ g.best = 0 /\ g.peers = P /\ ~Single
      \/ Picked(P, S, g)
  BY GetPeerPicks DEF BalancerInv, RequestsOK
<1> HIDE DEF g
<1>3. PeersOK(g.peers) /\ g.best \in Peers \cup {0} /\ 0 \notin Peers
      /\ Sum(g.peers.current_weight, Peers) = 0
  BY <1>2, PeersFacts DEF Picked
<1>4. RequestsOK'
  <2>1. RequestsOK
    BY DEF BalancerInv
  <2>2. now' \in 0..MaxTime /\ status' \in [Requests -> {"idle", "sent"}]
    BY <1>1, <2>1 DEF RequestsOK
  <2>3. current' \in [Requests -> Peers \cup {0}]
    BY <1>1, <1>3, <2>1 DEF RequestsOK
  <2>4. tried' \in [Requests -> SUBSET Peers]
    <3>1. (IF g.best = 0 THEN {} ELSE IF Single THEN S ELSE S \cup {g.best}) \in SUBSET Peers
      BY <1>3
    <3>2. QED
      BY <1>1, <2>1, <3>1 DEF RequestsOK
  <2>5. tries' \in [Requests -> 0..Len(Weights)]
    BY <1>1, <2>1, PeersFacts DEF RequestsOK
  <2>6. lastUse' \in [Peers -> 0..MaxTime]
    BY <1>1, <2>1 DEF RequestsOK
  <2>7. QED
    BY <2>2, <2>3, <2>4, <2>5, <2>6 DEF RequestsOK
<1>5. SentHasPeer'
  <2> SUFFICES ASSUME NEW q \in Requests, status'[q] = "sent"
               PROVE  current'[q] \in Peers /\ (Single \/ current'[q] \in tried'[q])
    BY DEF SentHasPeer
  <2>1. CASE q = r
    BY <1>1, <1>3, <2>1 DEF BalancerInv, RequestsOK
  <2>2. CASE q # r
    BY <1>1, <2>2 DEF BalancerInv, RequestsOK, SentHasPeer
  <2>3. QED
    BY <2>1, <2>2
<1>6. ASSUME NEW i \in Peers
      PROVE  g.peers.conns[i] = Cardinality(Using(i)')
  <2>1. Using(i)' = IF i = g.best THEN (Using(i) \ {r}) \cup {r} ELSE Using(i) \ {r}
    <3>1. \A q \in Requests : q # r => status'[q] = status[q] /\ current'[q] = current[q]
      BY <1>1 DEF BalancerInv, RequestsOK
    <3>2. current'[r] = g.best /\ (status'[r] = "sent" <=> g.best # 0)
      BY <1>1 DEF BalancerInv, RequestsOK
    <3>3. i # 0
      BY <1>3
    <3>4. QED
      BY <3>1, <3>2, <3>3 DEF Using
  <2>2. /\ IsFiniteSet(Using(i) \ {r}) /\ Cardinality(Using(i) \ {r}) \in Nat
        /\ Cardinality((Using(i) \ {r}) \cup {r}) = Cardinality(Using(i) \ {r}) + 1
    <3>1. IsFiniteSet(Using(i) \ {r})
      BY UsingFinite, FS_RemoveElement
    <3>2. QED
      BY <3>1, FS_AddElement, FS_CardinalityType
  <2>3. P.conns \in [Peers -> Int] /\ P.conns[i] = Cardinality(Using(i) \ {r})
    BY DEF PeersOK
  <2>4. CASE g.best = 0
    <3>1. i # g.best /\ g.peers = P
      BY <1>2, <1>3, <2>4 DEF Picked
    <3>2. QED
      BY <2>1, <2>3, <3>1
  <2>5. CASE g.best # 0
    <3>1. g.peers.conns = [P.conns EXCEPT ![g.best] = @ + 1]
      BY <1>2, <2>5 DEF Picked
    <3>2. QED
      BY <2>1, <2>2, <2>3, <3>1
  <2>6. QED
    BY <2>4, <2>5
<1>7. CheckedSinceUse'
  <2> SUFFICES ASSUME ~Single, NEW i \in Peers, g.peers.fails[i] >= MaxFails
               PROVE  lastUse'[i] <= g.peers.checked[i]
    BY <1>1 DEF CheckedSinceUse
  <2>1. g.peers.fails = P.fails
    BY <1>2 DEF Picked
  <2>2. (IF status[r] = "sent" /\ i = current[r] THEN now ELSE lastUse[i]) <= P.checked[i]
    BY <2>1
  <2>3. CASE i = g.best
    <3>1. Live(P, i) /\ Picked(P, S, g)
      BY <1>2, <1>3, <2>3 DEF Picked
    <3>2. MaxFails \in Nat /\ P.fails[i] \in Nat /\ ~(P.fails[i] < MaxFails)
      BY <2>1, BalancerAssumption DEF PeersOK
    <3>3. now - P.checked[i] > FailTimeout
      BY <3>1, <3>2 DEF Live
    <3>4. g.peers.checked[i] = now /\ lastUse'[i] = now
      BY <1>1, <2>3, <3>1, <3>3 DEF Picked
    <3>5. QED
      BY <3>4 DEF BalancerInv, RequestsOK
  <2>4. CASE i # g.best
    <3>1. g.peers.checked[i] = P.checked[i]
      BY <1>2, <2>4 DEF Picked
    <3>2. lastUse'[i] = IF status[r] = "sent" /\ i = current[r] THEN now ELSE lastUse[i]
      BY <1>1, <2>4
    <3>3. QED
      BY <2>2, <3>1, <3>2
  <2>5. QED
    BY <2>3, <2>4
<1>8. \A i \in Peers : peers'.conns[i] = Cardinality(Using(i)')
  BY <1>1, <1>6
<1>9. QED
  BY <1>1, <1>3, <1>4, <1>5, <1>7, <1>8 DEF BalancerInv, PeersOK

LEMMA ArriveStep ==
  ASSUME BalancerInv, NEW r \in Requests, Arrive(r)
  PROVE  BalancerInv'
<1>1. status[r] = "idle" /\ Connect(r, peers, {}, Len(Weights)) /\ UNCHANGED now
  BY DEF Arrive
<1>2. \A i \in Peers : peers.conns[i] = Cardinality(Using(i) \ {r})
  BY <1>1, WithoutIdle DEF BalancerInv
<1>3. Len(Weights) \in 0..Len(Weights) /\ {} \in SUBSET Peers
  BY PeersFacts
<1>4. ~Single => \A i \in Peers : peers.fails[i] >= MaxFails =>
        (IF status[r] = "sent" /\ i = current[r] THEN now ELSE lastUse[i]) <= peers.checked[i]
  BY <1>1 DEF BalancerInv, CheckedSinceUse
<1>5. PeersOK(peers) /\ Sum(peers.current_weight, Peers) = 0
  BY DEF BalancerInv
<1>6. QED
  BY <1>1, <1>2, <1>3, <1>4, <1>5, ConnectStep

\* What FreePeer leaves of the peers when request r gives its peer back.
LEMMA FreedPeers ==
  ASSUME BalancerInv, NEW r \in Requests, status[r] = "sent", NEW failed \in BOOLEAN
  PROVE  LET Q == FreePeer(peers, current[r], failed) IN
         /\ current[r] \in Peers
         /\ PeersOK(Q) /\ Sum(Q.current_weight, Peers) = 0
         /\ \A i \in Peers : Q.conns[i] = Cardinality(Using(i) \ {r})
         /\ ~Single => \A i \in Peers : Q.fails[i] >= MaxFails =>
              (IF failed /\ i = current[r] THEN now ELSE lastUse[i]) <= Q.checked[i]
<1> DEFINE c == current[r]
           Q == FreePeer(peers, c, failed)
<1>1. c \in Peers /\ now \in 0..MaxTime /\ PeersOK(peers)
  BY DEF BalancerInv, SentHasPeer, RequestsOK
<1>2. /\ PeersOK(Q) /\ Q.conns = [peers.conns EXCEPT ![c] = @ - 1]
      /\ Q.current_weight = peers.current_weight
      /\ \A k \in Peers \ {c} : Q.fails[k] = peers.fails[k] /\ Q.checked[k] = peers.checked[k]
      /\ IF failed /\ ~Single THEN Q.checked[c] = now
         ELSE Q.checked[c] = peers.checked[c] /\ Q.fails[c] \in {peers.fails[c], 0}
  <2> HIDE DEF c
  <2> QED BY <1>1, FreePeerFrees
<1>3. \A i \in Peers : Q.conns[i] = Cardinality(Using(i) \ {r})
  BY <1>2, WithoutRequest
<1> HIDE DEF Q
<1>4. ASSUME ~Single, NEW i \in Peers, Q.fails[i] >= MaxFails
      PROVE  (IF failed /\ i = c THEN now ELSE lastUse[i]) <= Q.checked[i]
  <2>1. peers.fails[i] >= MaxFails => lastUse[i] <= peers.checked[i]
    BY <1>4 DEF BalancerInv, CheckedSinceUse
  <2>2. CASE i # c
    BY <1>2, <1>4, <2>1, <2>2
  <2>3. CASE i = c /\ failed
    BY <1>1, <1>2, <1>4, <2>3
  <2>4. CASE i = c /\ ~failed
    <3>1. MaxFails \in Nat \ {0} /\ ~(0 >= MaxFails)
      BY BalancerAssumption
    <3>2. QED
      BY <1>2, <1>4, <2>1, <2>4, <3>1
  <2>5. QED
    BY <2>2, <2>3, <2>4
<1>5. Sum(Q.current_weight, Peers) = 0
  BY <1>2 DEF BalancerInv
<1>6. QED
  BY <1>1, <1>2, <1>3, <1>4, <1>5 DEF Q

LEMMA RetryStep ==
  ASSUME BalancerInv, NEW r \in Requests, Retry(r)
  PROVE  BalancerInv'
<1> DEFINE Q == FreePeer(peers, current[r], TRUE)
<1>1. /\ status[r] = "sent" /\ tries[r] > 1
      /\ Connect(r, Q, tried[r], tries[r] - 1) /\ UNCHANGED now
  BY DEF Retry
<1>2. /\ PeersOK(Q) /\ Sum(Q.current_weight, Peers) = 0
      /\ \A i \in Peers : Q.conns[i] = Cardinality(Using(i) \ {r})
      /\ ~Single => \A i \in Peers : Q.fails[i] >= MaxFails =>
           (IF i = current[r] THEN now ELSE lastUse[i]) <= Q.checked[i]
  BY <1>1, FreedPeers
<1>3. tries[r] - 1 \in 0..Len(Weights) /\ tried[r] \in SUBSET Peers
  BY <1>1, PeersFacts DEF BalancerInv, RequestsOK
<1> HIDE DEF Q
<1>4. QED
  BY <1>1, <1>2, <1>3, ConnectStep

\* A request that ends gives its peer back and keeps none.
LEMMA FinalizeStep ==
  ASSUME BalancerInv, NEW r \in Requests, status[r] = "sent", NEW Q,
         Finalize(r, Q), UNCHANGED now, PeersOK(Q), Sum(Q.current_weight, Peers) = 0,
         \A i \in Peers : Q.conns[i] = Cardinality(Using(i) \ {r}),
         lastUse' \in [Peers -> 0..MaxTime],
         ~Single => \A i \in Peers : Q.fails[i] >= MaxFails => lastUse'[i] <= Q.checked[i]
  PROVE  BalancerInv'
<1>1. /\ peers' = Q /\ now' = now /\ status' = [status EXCEPT ![r] = "idle"]
      /\ current' = [current EXCEPT ![r] = 0] /\ tried' = [tried EXCEPT ![r] = {}]
      /\ tries' = [tries EXCEPT ![r] = 0]
  BY DEF Finalize
<1>2. RequestsOK'
  BY <1>1, PeersFacts DEF BalancerInv, RequestsOK
<1>3. SentHasPeer'
  BY <1>1 DEF BalancerInv, RequestsOK, SentHasPeer
<1>4. \A i \in Peers : Using(i)' = Using(i) \ {r}
  BY <1>1 DEF Using, BalancerInv, RequestsOK
<1>5. \A i \in Peers : peers'.conns[i] = Cardinality(Using(i)')
  BY <1>1, <1>4
<1>6. CheckedSinceUse'
  BY <1>1 DEF CheckedSinceUse
<1>7. QED
  BY <1>1, <1>2, <1>3, <1>5, <1>6 DEF BalancerInv, PeersOK

LEMMA FinishStep ==
  ASSUME BalancerInv, NEW r \in Requests, Finish(r)
  PROVE  BalancerInv'
<1> DEFINE Q == FreePeer(peers, current[r], FALSE)
<1>1. status[r] = "sent" /\ Finalize(r, Q) /\ UNCHANGED <<now, lastUse>>
  BY DEF Finish
<1>2. /\ PeersOK(Q) /\ Sum(Q.current_weight, Peers) = 0
      /\ \A i \in Peers : Q.conns[i] = Cardinality(Using(i) \ {r})
      /\ ~Single => \A i \in Peers : Q.fails[i] >= MaxFails => lastUse[i] <= Q.checked[i]
  BY <1>1, FreedPeers
<1> HIDE DEF Q
<1>3. lastUse' = lastUse /\ lastUse' \in [Peers -> 0..MaxTime]
  BY <1>1 DEF BalancerInv, RequestsOK
<1>4. QED
  BY <1>1, <1>2, <1>3, FinalizeStep

LEMMA GiveUpStep ==
  ASSUME BalancerInv, NEW r \in Requests, GiveUp(r)
  PROVE  BalancerInv'
<1> DEFINE Q == FreePeer(peers, current[r], TRUE)
<1>1. /\ status[r] = "sent" /\ Finalize(r, Q) /\ UNCHANGED now
      /\ lastUse' = [lastUse EXCEPT ![current[r]] = now]
  BY DEF GiveUp
<1>2. /\ PeersOK(Q) /\ Sum(Q.current_weight, Peers) = 0 /\ current[r] \in Peers
      /\ \A i \in Peers : Q.conns[i] = Cardinality(Using(i) \ {r})
      /\ ~Single => \A i \in Peers : Q.fails[i] >= MaxFails =>
           (IF i = current[r] THEN now ELSE lastUse[i]) <= Q.checked[i]
  BY <1>1, FreedPeers
<1> HIDE DEF Q
<1>3. /\ lastUse' \in [Peers -> 0..MaxTime]
      /\ \A i \in Peers : lastUse'[i] = IF i = current[r] THEN now ELSE lastUse[i]
  BY <1>1, <1>2 DEF BalancerInv, RequestsOK
<1>4. ~Single => \A i \in Peers : Q.fails[i] >= MaxFails => lastUse'[i] <= Q.checked[i]
  BY <1>2, <1>3
<1>5. QED
  BY <1>1, <1>2, <1>3, <1>4, FinalizeStep

LEMMA BalancerStep == BalancerInv /\ [Next]_vars => BalancerInv'
<1> SUFFICES ASSUME BalancerInv, [Next]_vars PROVE BalancerInv'
  OBVIOUS
<1>1. ASSUME NEW r \in Requests, Arrive(r) \/ Finish(r) \/ GiveUp(r) \/ Retry(r)
      PROVE  BalancerInv'
  BY <1>1, ArriveStep, FinishStep, GiveUpStep, RetryStep
<1>2. ASSUME UNCHANGED <<peers, requestVars, lastUse>>, now' \in 0..MaxTime
      PROVE  BalancerInv'
  <2>1. \A i : Using(i)' = Using(i)
    BY <1>2 DEF Using, requestVars
  <2>2. QED
    BY <1>2, <2>1
       DEF BalancerInv, PeersOK, RequestsOK, SentHasPeer, CheckedSinceUse, requestVars
<1>3. CASE Tick
  <2>1. now' \in 0..MaxTime
    BY <1>3, BalancerAssumption DEF Tick, BalancerInv, RequestsOK
  <2>2. QED
    BY <1>2, <1>3, <2>1 DEF Tick
<1>4. CASE UNCHANGED vars
  BY <1>2, <1>4 DEF vars, BalancerInv, RequestsOK
<1>5. QED
  BY <1>1, <1>3, <1>4 DEF Next

LEMMA BalancerInit == Init => BalancerInv
<1> SUFFICES ASSUME Init PROVE BalancerInv
  OBVIOUS
<1>1. Weights \in [Peers -> Nat] /\ \A i \in Peers : Weights[i] <= Weights[i]
  <2>1. Weights = [i \in Peers |-> Weights[i]]
    BY BalancerAssumption DEF Peers
  <2>2. \A i \in Peers : Weights[i] \in Nat
    BY PeersFacts
  <2>3. Weights \in [Peers -> Nat]
    BY <2>1, <2>2
  <2>4. QED
    BY <2>2, <2>3
<1>2. PeersOK(peers)
  BY <1>1, BalancerAssumption DEF Init, FreshPeers, PeersOK
<1>3. RequestsOK
  BY BalancerAssumption, PeersFacts DEF Init, RequestsOK
<1>4. SentHasPeer
  BY DEF Init, SentHasPeer
<1>5. ASSUME NEW i \in Peers PROVE peers.conns[i] = Cardinality(Using(i))
  <2>1. Using(i) = {}
    BY DEF Init, Using
  <2>2. QED
    BY <2>1, FS_EmptySet DEF Init, FreshPeers
<1>6. Sum(peers.current_weight, Peers) = 0
  <2>1. \A x \in Peers : peers.current_weight[x] = 0
    BY DEF Init, FreshPeers
  <2>2. QED
    BY <2>1, PeersFacts, SumOfZeros
<1>7. CheckedSinceUse
  BY BalancerAssumption DEF Init, FreshPeers, CheckedSinceUse
<1>8. QED
  BY <1>2, <1>3, <1>4, <1>5, <1>6, <1>7 DEF BalancerInv

LEMMA BalancerInvariant == Spec => []BalancerInv
  BY BalancerInit, BalancerStep, PTL DEF Spec

-----------------------------------------------------------------------------
(* The theorems *)

\* The types; get_least_conn_peer and free_round_robin_peer keep every effective
\* weight between 0 and the configured one.
THEOREM TypeCorrect == Spec => []TypeOK
<1>1. BalancerInv => TypeOK
  <2> SUFFICES ASSUME BalancerInv PROVE TypeOK
    OBVIOUS
  <2>1. peers.conns \in [Peers -> 0..Cardinality(Requests)]
    <3>1. peers.conns \in [Peers -> Int]
      BY DEF BalancerInv, PeersOK
    <3>2. \A i \in Peers : peers.conns[i] \in 0..Cardinality(Requests)
      BY UsingFinite DEF BalancerInv
    <3>3. QED
      BY <3>1, <3>2
  <2>2. \A i \in Peers : peers.effective_weight[i] \in 0..Weights[i]
    BY PeersFacts DEF BalancerInv, PeersOK
  <2>3. QED
    BY <2>1, <2>2 DEF TypeOK, BalancerInv, PeersOK, RequestsOK
<1>2. QED
  BY <1>1, BalancerInvariant, PTL

\* peer->conns counts exactly the requests a peer is working on, however
\* requests fail, are retried and end.
THEOREM ConnsCorrect == Spec => []ConnsAreRequests
<1>1. BalancerInv => ConnsAreRequests
  BY DEF BalancerInv, ConnsAreRequests, Using
<1>2. QED
  BY <1>1, BalancerInvariant, PTL

\* The current weights of the smooth round robin always sum to 0, whatever set
\* of peers is tied and however their effective weights drop and recover.
THEOREM SmoothCorrect == Spec => []SmoothWeightsBalance
<1>1. BalancerInv => SmoothWeightsBalance
  BY DEF BalancerInv, SmoothWeightsBalance, Sum, MapThenSumSet, MapThenFoldSet
<1>2. QED
  BY <1>1, BalancerInvariant, PTL

\* What Arrive and Retry have in common: the peers the selection starts from, P,
\* and the tried peers S.
LEMMA GivenByConnect ==
  ASSUME BalancerInv, [Next]_vars, NEW r \in Requests, Given(r)
  PROVE  \E P, S, n :
           /\ Connect(r, P, S, n) /\ UNCHANGED now /\ PeersOK(P)
           /\ \/ P = peers /\ S = {}
              \/ P = FreePeer(peers, current[r], TRUE) /\ S = tried[r]
                 /\ status[r] = "sent" /\ ~Single
<1>1. CASE UNCHANGED vars \/ Tick
  BY <1>1 DEF Given, vars, requestVars, Tick
<1>2. ASSUME NEW q \in Requests, Arrive(q) \/ Finish(q) \/ GiveUp(q) \/ Retry(q)
      PROVE  q = r /\ (Arrive(r) \/ Retry(r))
  <2>1. status' = [status EXCEPT ![q] = status'[q]] /\ current' = [current EXCEPT ![q] = current'[q]]
    BY <1>2 DEF Arrive, Finish, GiveUp, Retry, Connect, Finalize, BalancerInv, RequestsOK
  <2>2. q = r
    BY <2>1 DEF Given, BalancerInv, RequestsOK
  <2>3. ~Finish(r) /\ ~GiveUp(r)
    BY DEF Finish, GiveUp, Finalize, Given, BalancerInv, RequestsOK
  <2>4. QED
    BY <1>2, <2>2, <2>3
<1>3. CASE Arrive(r)
  BY <1>3 DEF Arrive, BalancerInv
<1>4. CASE Retry(r)
  <2>1. PeersOK(FreePeer(peers, current[r], TRUE))
    BY <1>4, FreedPeers DEF Retry
  <2>2. QED
    BY <1>4, <2>1 DEF Retry
<1>5. QED
  BY <1>1, <1>2, <1>3, <1>4 DEF Next

\* The peer of such a step and the peers it leaves.
LEMMA GivenPeer ==
  ASSUME BalancerInv, NEW r \in Requests, Given(r), NEW P, NEW S, NEW n,
         Connect(r, P, S, n), UNCHANGED now, PeersOK(P)
  PROVE  /\ current'[r] = GetPeer(P, S).best /\ current'[r] # 0
         /\ peers' = GetPeer(P, S).peers
         /\ Picked(P, S, GetPeer(P, S))
         /\ tried'[r] = IF Single THEN S ELSE S \cup {current'[r]}
<1> DEFINE g == GetPeer(P, S)
<1>1. /\ peers' = g.peers /\ current'[r] = g.best
      /\ status'[r] = IF g.best = 0 THEN "idle" ELSE "sent"
      /\ tried'[r] = IF g.best = 0 THEN {} ELSE IF Single THEN S ELSE S \cup {g.best}
  BY DEF Connect, BalancerInv, RequestsOK
<1>2. g.best # 0
  BY <1>1 DEF Given
<1>3. Picked(P, S, g)
  BY <1>2, GetPeerPicks DEF BalancerInv, RequestsOK
<1>4. QED
  BY <1>1, <1>2, <1>3

\* get_least_conn_peer never gives a request to a peer that is as loaded for its
\* weight as another available one would be with one request more.
THEOREM LoadCorrect == Spec => NeverOverloads
<1> DEFINE A == \A r \in Requests : Given(r) =>
                  LET i == current'[r] IN
                    \A k \in Peers \ tried'[r] : Live(peers', k) =>
                      (peers'.conns[i] - 1) * Weights[k] < (peers'.conns[k] + 1) * Weights[i]
<1>1. BalancerInv /\ [Next]_vars => A
  <2> SUFFICES ASSUME BalancerInv, [Next]_vars, NEW r \in Requests, Given(r),
                      NEW k \in Peers \ tried'[r], Live(peers', k)
               PROVE  (peers'.conns[current'[r]] - 1) * Weights[k]
                        < (peers'.conns[k] + 1) * Weights[current'[r]]
    OBVIOUS
  <2>1. PICK P, S, n : Connect(r, P, S, n) /\ UNCHANGED now /\ PeersOK(P)
    BY GivenByConnect
  <2>a. /\ current'[r] = GetPeer(P, S).best /\ current'[r] # 0
        /\ peers' = GetPeer(P, S).peers
        /\ Picked(P, S, GetPeer(P, S))
        /\ tried'[r] = IF Single THEN S ELSE S \cup {current'[r]}
    BY <2>1, GivenPeer
  <2> DEFINE g == GetPeer(P, S)
             i == current'[r]
  <2>2. /\ i = g.best /\ i # 0 /\ peers' = g.peers /\ Picked(P, S, g)
        /\ tried'[r] = IF Single THEN S ELSE S \cup {i}
    BY <2>a
  <2> HIDE DEF g, i
  <2>3. /\ i \in Peers /\ peers'.conns = [P.conns EXCEPT ![i] = @ + 1]
        /\ peers'.fails = P.fails /\ P.conns \in [Peers -> Int]
        /\ \A j \in Peers \ {i} : peers'.checked[j] = P.checked[j]
    BY <2>1, <2>2 DEF Picked, PeersOK
  <2>4. CASE Single
    <3>1. k = i
      <4>1. Len(Weights) = 1
        BY <2>4 DEF Single
      <4>2. QED
        BY <2>3, <4>1, PeersFacts
    <3>2. Weights[i] \in Nat /\ Weights[i] > 0 /\ peers'.conns[i] \in Int
      BY <2>3, PeersFacts
    <3>3. \A c \in Int : \A w \in Nat : w > 0 => (c - 1) * w < (c + 1) * w
      <4> SUFFICES ASSUME NEW c \in Int, NEW w \in Nat, w > 0
                   PROVE  (c - 1) * w < (c + 1) * w
        OBVIOUS
      <4>1. (c + 1) * w = (c - 1) * w + 2 * w /\ (c - 1) * w \in Int
        OBVIOUS
      <4>2. QED
        BY <4>1
    <3>4. QED
      BY <3>1, <3>2, <3>3 DEF i
  <2>5. CASE ~Single
    <3>1. k \in Peers \ S /\ k # i
      BY <2>2, <2>5
    <3>2. Live(P, k)
      BY <2>1, <2>3, <3>1 DEF Live
    <3>3. peers'.conns[i] - 1 = P.conns[i] /\ peers'.conns[k] = P.conns[k]
      BY <2>3, <3>1
    <3>4. P.conns[i] * Weights[k] < (P.conns[k] + 1) * Weights[i]
      BY <2>1, <2>2, <2>5, <3>1, <3>2, GetPeerNoOverload DEF g, BalancerInv, RequestsOK
    <3>5. QED
      BY <3>3, <3>4 DEF i
  <2>6. QED
    BY <2>4, <2>5
<1> HIDE DEF A
<1>2. QED
  <2>1. BalancerInv /\ [Next]_vars => [A]_vars
    BY <1>1
  <2>2. Spec => [][A]_vars
    BY <2>1, BalancerInvariant, PTL DEF Spec
  <2>3. QED
    BY <2>2 DEF NeverOverloads, A

\* A peer that failed max_fails times is tried at most once per fail_timeout,
\* for any number of requests looking for a peer at the same time.
THEOREM TrialCorrect == Spec => OneTrialPerTimeout
<1> DEFINE A == \A r \in Requests :
                  Given(r) /\ ~Single /\ peers.fails[current'[r]] >= MaxFails =>
                    now - lastUse[current'[r]] > FailTimeout
<1>1. BalancerInv /\ [Next]_vars => A
  <2> SUFFICES ASSUME BalancerInv, [Next]_vars, NEW r \in Requests, Given(r), ~Single,
                      peers.fails[current'[r]] >= MaxFails
               PROVE  now - lastUse[current'[r]] > FailTimeout
    OBVIOUS
  <2>1. PICK P, S, n :
          /\ Connect(r, P, S, n) /\ UNCHANGED now /\ PeersOK(P)
          /\ \/ P = peers /\ S = {}
             \/ P = FreePeer(peers, current[r], TRUE) /\ S = tried[r]
                /\ status[r] = "sent" /\ ~Single
    BY GivenByConnect
  <2> DEFINE g == GetPeer(P, S)
             i == current'[r]
  <2>2. i = g.best /\ i # 0 /\ Picked(P, S, g)
    BY <2>1, GivenPeer
  <2> HIDE DEF g, i
  <2>3. i \in Peers /\ i \notin S /\ Live(P, i)
    BY <2>2 DEF Picked
  <2>4. P.fails[i] = peers.fails[i] /\ P.checked[i] = peers.checked[i]
    <3>1. CASE P = peers
      BY <3>1
    <3>2. CASE P = FreePeer(peers, current[r], TRUE) /\ S = tried[r] /\ status[r] = "sent"
      <4>1. current[r] \in Peers /\ i # current[r]
        BY <2>3, <3>2 DEF BalancerInv, SentHasPeer
      <4>2. PeersOK(peers) /\ now \in 0..MaxTime /\ TRUE \in BOOLEAN
        BY DEF BalancerInv, RequestsOK
      <4> DEFINE c == current[r]
                 Q == FreePeer(peers, c, TRUE)
      <4>3. \A k \in Peers \ {c} :
              Q.fails[k] = peers.fails[k] /\ Q.checked[k] = peers.checked[k]
        <5> HIDE DEF c
        <5> QED BY <4>1, <4>2, FreePeerFrees DEF c
      <4> HIDE DEF Q
      <4>4. P = Q
        BY <3>2 DEF Q
      <4>5. QED
        BY <2>3, <4>1, <4>3, <4>4
    <3>3. QED
      BY <2>1, <3>1, <3>2
  <2>5. /\ peers.fails[i] \in Nat /\ peers.checked[i] \in Nat /\ lastUse[i] \in Nat
        /\ now \in Nat /\ MaxFails \in Nat /\ FailTimeout \in Nat
    BY <2>3, BalancerAssumption DEF BalancerInv, PeersOK, RequestsOK
  <2>6. peers.fails[i] >= MaxFails
    BY DEF i
  <2>7. now - peers.checked[i] > FailTimeout
    BY <2>3, <2>4, <2>5, <2>6 DEF Live
  <2>8. lastUse[i] <= peers.checked[i]
    BY <2>3, <2>6 DEF BalancerInv, CheckedSinceUse
  <2>9. now - lastUse[i] > FailTimeout
    BY <2>5, <2>7, <2>8
  <2>10. QED
    BY <2>9 DEF i
<1> HIDE DEF A
<1>2. QED
  <2>1. BalancerInv /\ [Next]_vars => [A]_vars
    BY <1>1
  <2>2. Spec => [][A]_vars
    BY <2>1, BalancerInvariant, PTL DEF Spec
  <2>3. QED
    BY <2>2 DEF OneTrialPerTimeout, A

=============================================================================
