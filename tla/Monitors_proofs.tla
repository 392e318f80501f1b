--------------------------- MODULE Monitors_proofs ---------------------------
(***************************************************************************)
(* Proofs about the two measurements of the main loop, for any number of   *)
(* requests, any failures of a reading, any load and any length of time.   *)
(***************************************************************************)
EXTENDS MCMonitors, SequenceTheorems, SetFacts, TLAPS

-----------------------------------------------------------------------------
(* The arrival rate *)

\* What a reading leaves for the next: after a successful one the counter is
\* ahead of prevReqs by exactly the client requests since then.
CounterInv ==
  /\ counter \in Int /\ prevReqs \in Int /\ arrived \in Int
  /\ goodReads \in 0..2
  /\ goodReads >= 1 => counter = prevReqs + arrived
  /\ ArrivalsExact

LEMMA CounterStep == CounterInv /\ [Requests!Next]_requestVars => CounterInv'
<1> SUFFICES ASSUME CounterInv, [Requests!Next]_requestVars PROVE CounterInv'
  OBVIOUS
<1> USE DEF CounterInv, ArrivalsExact, Requests!ArrivalsExact
<1>1. CASE Requests!Serve
  BY <1>1 DEF Requests!Serve
<1>2. CASE Requests!ReadOk
  BY <1>2 DEF Requests!ReadOk, Requests!Use, Requests!Difference
<1>3. CASE Requests!ReadUnreached
  BY <1>3 DEF Requests!ReadUnreached, Requests!Use, Requests!modulePrevReqs
<1>4. CASE Requests!ReadLost
  BY <1>4 DEF Requests!ReadLost, Requests!Use, Requests!modulePrevReqs
<1>5. CASE UNCHANGED requestVars
  BY <1>5 DEF requestVars
<1>6. QED
  BY <1>1, <1>2, <1>3, <1>4, <1>5 DEF Requests!Next

\* The difference the main loop takes of two successful getNumberOfReqs readings
\* is the number of client requests between them, whatever readings failed
\* before, and wherever they failed.
THEOREM ArrivalsCorrect == Requests!Spec => []ArrivalsExact
<1>1. Requests!Init => CounterInv
  BY DEF Requests!Init, CounterInv, ArrivalsExact, Requests!ArrivalsExact
<1>2. CounterInv => ArrivalsExact
  BY DEF CounterInv
<1>3. CounterInv /\ [Requests!Next]_(Requests!vars) => CounterInv'
  BY CounterStep DEF Requests!vars, requestVars
<1>4. QED
  BY <1>1, <1>2, <1>3, PTL DEF Requests!Spec

-----------------------------------------------------------------------------
(* The credit *)

\* The greatest change of a minute, earned or spent
Steepest == Max({IF c < 0 THEN -c ELSE c : c \in Changes})

LEMMA SteepestBounds ==
  ASSUME NEW c \in Changes
  PROVE  Steepest \in Nat /\ c \in -Steepest..Steepest
<1> DEFINE abs == [x \in Changes |-> IF x < 0 THEN -x ELSE x]
           A   == {IF x < 0 THEN -x ELSE x : x \in Changes}
<1>1. \A x \in Changes : x \in Int
  BY CreditAssumption
<1>2. A \in SUBSET Nat /\ A \in SUBSET Int /\ abs[c] \in A
  BY <1>1
<1>3. IsFiniteSet(A)
  <2>1. abs \in Surjection(Changes, A)
    BY DEF Surjection
  <2>2. QED
    BY <2>1, FS_Surjection, CreditAssumption
<1>4. Max(A) \in A /\ Max(A) >= abs[c]
  <2>1. A # {}
    BY <1>2
  <2> HIDE DEF A, abs
  <2>2. QED
    BY <1>2, <1>3, <2>1, MaxIsGreatest
<1>5. Steepest = Max(A)
  BY DEF Steepest
<1>6. abs[c] = (IF c < 0 THEN -c ELSE c) /\ c \in Int
  BY <1>1
<1> HIDE DEF A, abs
<1>7. Steepest \in Nat /\ Steepest >= abs[c]
  BY <1>2, <1>4, <1>5
<1>8. QED
  BY <1>6, <1>7

\* The newest balance CloudWatch has is the one of the last full period, and the
\* balance has drifted from it for as many minutes as have passed since.
PublishedInv ==
  /\ now \in Nat /\ balance \in Nat
  /\ published \in Seq([at : Nat, credit : Nat])
  /\ published # <<>> =>
       LET p == published[Len(published)] IN
         /\ p.at = now - (now % Period)
         /\ Changes # {}
         /\ \/ now % Period = 0 /\ balance = p.credit
            \/ now % Period = 1 /\ balance - p.credit \in -Steepest..Steepest
            \/ now % Period = 2 /\ balance - p.credit \in -(2 * Steepest)..(2 * Steepest)
            \/ now % Period = 3 /\ balance - p.credit \in -(3 * Steepest)..(3 * Steepest)
            \/ now % Period = 4 /\ balance - p.credit \in -(4 * Steepest)..(4 * Steepest)

LEMMA LastPublished ==
  ASSUME PublishedInv, published # <<>>
  PROVE  /\ Len(published) \in DOMAIN published
         /\ published[Len(published)] \in [at : Nat, credit : Nat]
<1>1. published \in Seq([at : Nat, credit : Nat]) /\ Len(published) \in 1..Len(published)
  BY EmptySeq, LenProperties DEF PublishedInv
<1>2. QED
  BY <1>1, ElementOfSeq, LenProperties

LEMMA PublishedStep == PublishedInv /\ [Next]_vars => PublishedInv'
<1> SUFFICES ASSUME PublishedInv, [Next]_vars PROVE PublishedInv'
  OBVIOUS
<1>1. CASE UNCHANGED vars
  BY <1>1 DEF PublishedInv, vars
<1>2. CASE Next
  <2>1. PICK c \in Changes : Minute(c)
    BY <1>2 DEF Next
  <2>2. Steepest \in Nat /\ c \in -Steepest..Steepest
    BY SteepestBounds
  <2>3. now' = now + 1 /\ balance' = NonNegative(balance + c) /\ now \in Nat /\ balance \in Nat
    BY <2>1 DEF Minute, PublishedInv
  <2>4. now' \in Nat /\ balance' \in Nat /\ balance' - balance \in -Steepest..Steepest
    BY <2>2, <2>3 DEF NonNegative
  <2>5. CASE now' % 5 = 0
    <3> DEFINE p == [at |-> now', credit |-> balance']
    <3>1. published' = Append(published, p) /\ p \in [at : Nat, credit : Nat]
      BY <2>1, <2>4, <2>5 DEF Minute, Period
    <3>2. /\ published' \in Seq([at : Nat, credit : Nat])
          /\ published'[Len(published')] = p
      <4> HIDE DEF p
      <4> QED BY <3>1, AppendProperties, LenProperties DEF PublishedInv
    <3>3. /\ published'[Len(published')].at = now' - (now' % 5)
          /\ published'[Len(published')].credit = balance'
      <4>1. p.at = now' /\ p.credit = balance'
        OBVIOUS
      <4> HIDE DEF p
      <4>2. now' = now' - (now' % 5)
        <5>1. now' \in Nat
          BY <2>4
        <5>2. \A n \in Nat : n % 5 = 0 => n = n - (n % 5)
          OBVIOUS
        <5>3. QED
          BY <2>5, <5>1, <5>2
      <4>3. QED
        BY <3>2, <4>1, <4>2
    <3> HIDE DEF p
    <3>4. QED
      BY <2>4, <2>5, <3>2, <3>3 DEF PublishedInv, Period
  <2>6. CASE now' % 5 # 0
    <3>1. published' = published
      BY <2>1, <2>6 DEF Minute, Period
    <3>2. CASE published = <<>>
      BY <2>4, <3>1, <3>2 DEF PublishedInv
    <3>3. CASE published # <<>>
      <4> DEFINE p == published[Len(published)]
      <4>1. p.credit \in Nat /\ p.at \in Nat
        <5>1. p \in [at : Nat, credit : Nat]
          BY <3>3, LastPublished
        <5>2. QED
          BY <5>1
      <4>2. now' % 5 = (now % 5) + 1
        BY <2>3, <2>6
      <4>3. now % 5 \in 0..4
        BY <2>3
      <4>4. /\ p.at = now - (now % 5)
            /\ \/ now % 5 = 0 /\ balance = p.credit
               \/ now % 5 = 1 /\ balance - p.credit \in -Steepest..Steepest
               \/ now % 5 = 2 /\ balance - p.credit \in -(2 * Steepest)..(2 * Steepest)
               \/ now % 5 = 3 /\ balance - p.credit \in -(3 * Steepest)..(3 * Steepest)
        BY <3>3, <4>2, <2>6, <4>3, <2>3 DEF PublishedInv, Period
      <4> HIDE DEF p
      <4>5. /\ p.at = now' - (now' % 5)
            /\ \/ now' % 5 = 1 /\ balance' - p.credit \in -Steepest..Steepest
               \/ now' % 5 = 2 /\ balance' - p.credit \in -(2 * Steepest)..(2 * Steepest)
               \/ now' % 5 = 3 /\ balance' - p.credit \in -(3 * Steepest)..(3 * Steepest)
               \/ now' % 5 = 4 /\ balance' - p.credit \in -(4 * Steepest)..(4 * Steepest)
        BY <2>2, <2>3, <2>4, <4>1, <4>2, <4>4
      <4>6. QED
        BY <2>4, <3>1, <4>5 DEF PublishedInv, Period, p
    <3>4. QED
      BY <3>2, <3>3
  <2>7. QED
    BY <2>5, <2>6
<1>3. QED
  BY <1>1, <1>2

\* Of the datapoints in the window getMetricStats takes the last of all, and no
\* utilization is added to it.
LEMMA CreditIsLastPublished ==
  ASSUME PublishedInv, HasData
  PROVE  published # <<>> /\ getCredit = published[Len(published)].credit
<1>1. published # <<>> /\ Len(published) \in Nat /\ DOMAIN published = 1..Len(published)
  BY EmptySeq, LenProperties DEF HasData, InWindow, PublishedInv
<1>2. Len(published) \in InWindow
  <2>1. published[Len(published)].at = now - (now % 5) /\ now % 5 \in 0..4 /\ now \in Nat
    BY <1>1 DEF PublishedInv, Period
  <2>2. Len(published) \in DOMAIN published
    BY <1>1, LastPublished
  <2>3. published[Len(published)].at >= now - 10
    BY <2>1
  <2>4. QED
    BY <2>2, <2>3 DEF InWindow, Window
<1>3. Max(InWindow) = Len(published)
  <2>1. \A i \in InWindow : i \in 1..Len(published)
    BY <1>1 DEF InWindow
  <2>2. \A i \in InWindow : Len(published) >= i
    BY <1>1, <2>1
  <2>3. \A x \in InWindow : (\A y \in InWindow : x >= y) => x = Len(published)
    BY <1>1, <1>2, <2>1
  <2>4. QED
    BY <1>2, <2>2, <2>3 DEF Max
<1>4. latest_CPU = {}
  BY DEF latest_CPU, Matches, StrftimeStamp
<1> DEFINE base == published[Len(published)].credit
           Step(s, rest) == NonNegative(rest + utilization[Max(s)].change)
           IsFold(g) == g = [s \in SUBSET {} |->
                               IF s = {} THEN base ELSE Step(s, g[s \ {Max(s)}])]
<1>5. getCredit = (CHOOSE g : IsFold(g))[{}]
  BY <1>3, <1>4 DEF getCredit, getMetricStats, NewestOf, MapThenFoldSet
<1>6. IsFold([s \in SUBSET {} |-> base])
  <2> HIDE DEF Step, base
  <2> QED OBVIOUS
<1>7. \A g : IsFold(g) => g[{}] = base
  <2> HIDE DEF Step, base
  <2> QED OBVIOUS
<1> HIDE DEF IsFold, base
<1>8. IsFold(CHOOSE g : IsFold(g))
  BY <1>6
<1>9. QED
  BY <1>1, <1>5, <1>7, <1>8 DEF base

\* getCredit never differs from the balance by more than four minutes can change
\* it, for any sequence of loads.
THEOREM CreditCorrect == Spec => []CreditNearlyCurrent
<1>1. Init => PublishedInv
  BY CreditAssumption, EmptySeq DEF Init, PublishedInv
<1>2. PublishedInv => CreditNearlyCurrent
  <2> SUFFICES ASSUME PublishedInv, HasData
               PROVE  balance - getCredit \in -Drift..Drift
    BY DEF CreditNearlyCurrent
  <2> DEFINE p == published[Len(published)]
  <2>1. published # <<>> /\ getCredit = p.credit
    BY CreditIsLastPublished
  <2>2. p.credit \in Nat
    <3>1. p \in [at : Nat, credit : Nat]
      BY <2>1, LastPublished
    <3>2. QED
      BY <3>1
  <2>3. Steepest \in Nat
    BY <2>1, SteepestBounds DEF PublishedInv
  <2>4. Drift = 4 * Steepest
    BY DEF Drift, Steepest, Period
  <2>5. /\ balance \in Nat
        /\ \/ balance = p.credit
           \/ balance - p.credit \in -Steepest..Steepest
           \/ balance - p.credit \in -(2 * Steepest)..(2 * Steepest)
           \/ balance - p.credit \in -(3 * Steepest)..(3 * Steepest)
           \/ balance - p.credit \in -(4 * Steepest)..(4 * Steepest)
    BY <2>1 DEF PublishedInv
  <2> HIDE DEF p
  <2>6. QED
    BY <2>1, <2>2, <2>3, <2>4, <2>5
<1>3. QED
  BY <1>1, <1>2, PublishedStep, PTL DEF Spec

=============================================================================
