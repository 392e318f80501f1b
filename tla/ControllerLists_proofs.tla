------------------------ MODULE ControllerLists_proofs ------------------------
(***************************************************************************)
(* The controller moves instances between seven lists.  Proved here, for   *)
(* any fleet: no instance is lost or handed out twice, machines are off    *)
(* exactly where they should be, and the bills follow the rentals.         *)
(***************************************************************************)
EXTENDS Controller_proofs, FiniteSetTheorems

-----------------------------------------------------------------------------
(* What the list operations do to the elements *)

\* append of a new element
LEMMA AppendMoves ==
  ASSUME NEW S, NEW s \in Seq(S), NEW x \in S
  PROVE  /\ Range(Append(s, x)) = Range(s) \cup {x}
         /\ IsInjective(s) /\ x \notin Range(s) => IsInjective(Append(s, x))
<1>0. DOMAIN s = 1..Len(s) /\ Len(s) \in Nat
  BY LenProperties
<1>1. /\ DOMAIN Append(s, x) = 1..(Len(s) + 1)
      /\ \A k \in 1..Len(s) : Append(s, x)[k] = s[k]
      /\ Append(s, x)[Len(s) + 1] = x
  BY AppendProperties, LenProperties
<1>2. \A k \in 1..(Len(s) + 1) : k \in 1..Len(s) \/ k = Len(s) + 1
  BY <1>0
<1>3. Range(Append(s, x)) = Range(s) \cup {x}
  BY RangeFacts
<1>4. ASSUME IsInjective(s), x \notin Range(s)
      PROVE  IsInjective(Append(s, x))
  <2>1. \A k \in 1..Len(s) : s[k] # x
    BY <1>0, <1>4 DEF Range
  <2>2. QED
    BY <1>0, <1>1, <1>2, <1>4, <2>1 DEF IsInjective
<1>5. QED
  BY <1>3, <1>4

\* list.pop(k) removes exactly the element at that index
LEMMA WithoutMoves ==
  ASSUME NEW S, NEW s \in Seq(S), IsInjective(s), NEW k \in Nat, k < Len(s)
  PROVE  /\ s[k + 1] \in Range(s)
         /\ Range(Without(s, k)) = Range(s) \ {s[k + 1]}
         /\ IsInjective(Without(s, k))
<1> DEFINE n == Len(s)
           t == Without(s, k)
<1>0. DOMAIN s = 1..n /\ n \in Nat
  BY LenProperties
<1>1. /\ DOMAIN t = 1..(n - 1)
      /\ \A m \in 1..(n - 1) : t[m] = IF m <= k THEN s[m] ELSE s[m + 1]
  BY DEF Without
<1>2. k + 1 \in 1..n
  BY <1>0
<1>3. \A m \in 1..n : m # k + 1 =>
        \E l \in 1..(n - 1) : t[l] = s[m]
  <2> SUFFICES ASSUME NEW m \in 1..n, m # k + 1
               PROVE  \E l \in 1..(n - 1) : t[l] = s[m]
    OBVIOUS
  <2>1. CASE m <= k
    <3>1. m \in 1..(n - 1) /\ t[m] = s[m]
      BY <1>0, <1>1, <2>1
    <3>2. QED
      BY <3>1
  <2>2. CASE m > k
    <3>1. m - 1 \in 1..(n - 1) /\ ~(m - 1 <= k) /\ (m - 1) + 1 = m
      BY <1>0, <2>2
    <3>2. QED
      BY <1>1, <3>1
  <2>3. QED
    BY <1>0, <2>1, <2>2
<1>4. \A m \in 1..(n - 1) : \E l \in 1..n : l # k + 1 /\ t[m] = s[l]
                                             /\ l = IF m <= k THEN m ELSE m + 1
  BY <1>0, <1>1
<1> HIDE DEF n, t
<1>5. Range(t) = Range(s) \ {s[k + 1]}
  <2>1. ASSUME NEW m \in 1..(n - 1)
        PROVE  t[m] \in Range(s) \ {s[k + 1]}
    <3>1. PICK l \in 1..n : l # k + 1 /\ t[m] = s[l]
      BY <1>4
    <3>2. s[l] # s[k + 1]
      BY <1>0, <1>2, <3>1 DEF IsInjective
    <3>3. QED
      BY <1>0, <3>1, <3>2 DEF Range
  <2>2. ASSUME NEW m \in 1..n, s[m] # s[k + 1]
        PROVE  s[m] \in Range(t)
    <3>1. PICK l \in 1..(n - 1) : t[l] = s[m]
      BY <1>3, <2>2
    <3>2. QED
      BY <1>1, <3>1 DEF Range
  <2>3. Range(t) = {t[m] : m \in 1..(n - 1)} /\ Range(s) = {s[m] : m \in 1..n}
    BY <1>0, <1>1 DEF Range
  <2>4. QED
    BY <2>1, <2>2, <2>3
<1>6. IsInjective(t)
  <2> SUFFICES ASSUME NEW m1 \in 1..(n - 1), NEW m2 \in 1..(n - 1), t[m1] = t[m2]
               PROVE  m1 = m2
    BY <1>1 DEF IsInjective
  <2>1. PICK l1 \in 1..n : t[m1] = s[l1] /\ l1 = IF m1 <= k THEN m1 ELSE m1 + 1
    BY <1>4
  <2>2. PICK l2 \in 1..n : t[m2] = s[l2] /\ l2 = IF m2 <= k THEN m2 ELSE m2 + 1
    BY <1>4
  <2>3. l1 = l2
    BY <1>0, <2>1, <2>2 DEF IsInjective
  <2>4. QED
    BY <1>0, <2>1, <2>2, <2>3
<1>7. QED
  BY <1>0, <1>2, <1>5, <1>6 DEF Range, t

\* taking the first element
LEMMA TailMoves ==
  ASSUME NEW S, NEW s \in Seq(S), IsInjective(s), s # <<>>
  PROVE  /\ Head(s) \in Range(s) /\ Head(s) \in S /\ Tail(s) \in Seq(S)
         /\ Range(Tail(s)) = Range(s) \ {Head(s)}
         /\ IsInjective(Tail(s))
<1>0. DOMAIN s = 1..Len(s) /\ Len(s) \in Nat /\ Len(s) >= 1 /\ Head(s) = s[1]
  BY LenProperties, EmptySeq
<1>1. /\ DOMAIN Tail(s) = 1..(Len(s) - 1)
      /\ \A k \in 1..(Len(s) - 1) : Tail(s)[k] = s[k + 1]
  BY <1>0, HeadTailProperties, LenProperties
<1>2. Tail(s) = Without(s, 0)
  <2> DEFINE t == Tail(s)
  <2>1. t \in Seq(S) /\ DOMAIN t = 1..(Len(s) - 1)
    BY <1>1, HeadTailProperties
  <2> HIDE DEF t
  <2>2. t = [k \in 1..(Len(s) - 1) |-> t[k]]
    <3>1. t \in [1..Len(t) -> S] /\ DOMAIN t = 1..Len(t)
      BY <2>1, LenProperties
    <3>2. QED
      BY <2>1, <3>1
  <2>3. \A k \in 1..(Len(s) - 1) : t[k] = IF k <= 0 THEN s[k] ELSE s[k + 1]
    BY <1>1 DEF t
  <2>4. QED
    BY <2>2, <2>3 DEF Without, t
<1>3. /\ s[0 + 1] \in Range(s)
      /\ Range(Without(s, 0)) = Range(s) \ {s[0 + 1]}
      /\ IsInjective(Without(s, 0))
  <2>1. 0 \in Nat /\ 0 < Len(s)
    BY <1>0
  <2>2. QED
    BY <2>1, WithoutMoves
<1>4. s[0 + 1] = Head(s)
  BY <1>0
<1>5. Head(s) \in S /\ Tail(s) \in Seq(S)
  BY HeadTailProperties
<1>6. QED
  BY <1>2, <1>3, <1>4, <1>5

\* a sort keeps the elements apart
LEMMA PermuteMoves ==
  ASSUME NEW S, NEW s \in Seq(S), IsInjective(s),
         NEW p \in Bijection(DOMAIN s, DOMAIN s)
  PROVE  Range(Permute(s, p)) = Range(s) /\ IsInjective(Permute(s, p))
<1>1. /\ p \in [DOMAIN s -> DOMAIN s]
      /\ \A m, n \in DOMAIN s : p[m] = p[n] => m = n
  BY DEF Bijection, Injection, IsInjective
<1>2. IsInjective(Permute(s, p))
  BY <1>1 DEF Permute, IsInjective
<1>3. QED
  BY <1>2, PermuteType

\* nums[:n] and nums[n:]
LEMMA SplitMoves ==
  ASSUME NEW S, NEW s \in Seq(S), IsInjective(s), NEW n \in 0..Len(s)
  PROVE  /\ IsInjective(SubSeq(s, 1, n)) /\ IsInjective(SubSeq(s, n + 1, Len(s)))
         /\ Range(SubSeq(s, 1, n)) \cup Range(SubSeq(s, n + 1, Len(s))) = Range(s)
         /\ Range(SubSeq(s, 1, n)) \cap Range(SubSeq(s, n + 1, Len(s))) = {}
<1> DEFINE s1 == SubSeq(s, 1, n)
           s2 == SubSeq(s, n + 1, Len(s))
<1>0. /\ DOMAIN s = 1..Len(s) /\ Len(s) \in Nat /\ n \in Nat /\ n <= Len(s)
  BY LenProperties
<1>1. \A k \in 1..Len(s) : s[k] \in S
  BY ElementOfSeq
<1>2. DOMAIN s1 = 1..n /\ \A k \in 1..n : s1[k] = s[k]
  BY <1>0
<1>3. /\ DOMAIN s2 = 1..(Len(s) - n)
      /\ \A k \in 1..(Len(s) - n) : s2[k] = s[n + k]
  BY <1>0
<1> HIDE DEF s1, s2
<1>4. IsInjective(s1)
  BY <1>0, <1>2 DEF IsInjective
<1>5. IsInjective(s2)
  <2> SUFFICES ASSUME NEW k \in 1..(Len(s) - n), NEW m \in 1..(Len(s) - n),
                      s2[k] = s2[m]
               PROVE  k = m
    BY <1>3 DEF IsInjective
  <2>1. n + k \in DOMAIN s /\ n + m \in DOMAIN s /\ s[n + k] = s[n + m]
    BY <1>0, <1>3
  <2>2. n + k = n + m
    BY <2>1 DEF IsInjective
  <2>3. QED
    BY <1>0, <2>2
<1>6. Range(s1) \subseteq Range(s) /\ Range(s2) \subseteq Range(s)
  <2>1. \A k \in 1..n : s1[k] = s[k] /\ k \in DOMAIN s
    BY <1>0, <1>2
  <2>2. \A k \in 1..(Len(s) - n) : s2[k] = s[n + k] /\ n + k \in DOMAIN s
    BY <1>0, <1>3
  <2>3. Range(s1) \subseteq Range(s)
    BY <1>2, <2>1 DEF Range
  <2>4. Range(s2) \subseteq Range(s)
    BY <1>3, <2>2 DEF Range
  <2>5. QED
    BY <2>3, <2>4
<1>7. Range(s) \subseteq Range(s1) \cup Range(s2)
  <2> SUFFICES ASSUME NEW k \in 1..Len(s)
               PROVE  s[k] \in Range(s1) \cup Range(s2)
    BY <1>0 DEF Range
  <2>1. CASE k <= n
    BY <1>0, <1>2, <2>1 DEF Range
  <2>2. CASE k > n
    <3>1. k - n \in 1..(Len(s) - n) /\ s2[k - n] = s[k]
      BY <1>0, <1>3, <2>2
    <3>2. QED
      BY <1>3, <3>1 DEF Range
  <2>3. QED
    BY <1>0, <2>1, <2>2
<1>8. Range(s1) \cap Range(s2) = {}
  <2> SUFFICES ASSUME NEW k \in 1..n, NEW m \in 1..(Len(s) - n), s1[k] = s2[m]
               PROVE  FALSE
    BY <1>2, <1>3 DEF Range
  <2>1. k \in 1..Len(s) /\ n + m \in 1..Len(s) /\ k # n + m /\ s[k] = s[n + m]
    BY <1>0, <1>2, <1>3
  <2>2. QED
    BY <1>0, <2>1 DEF IsInjective
<1>9. QED
  BY <1>4, <1>5, <1>6, <1>7, <1>8 DEF s1, s2

\* the empty list
LEMMA EmptyMoves == Range(<<>>) = {} /\ IsInjective(<<>>)
  BY DEF Range, IsInjective

-----------------------------------------------------------------------------
(* Each instance is in one list *)

\* EachInstanceInOneList, list by list
Apart(s1, s2, s3, s4, s5, s6, s7) ==
  /\ IsInjective(s1) /\ IsInjective(s2) /\ IsInjective(s3) /\ IsInjective(s4)
  /\ IsInjective(s5) /\ IsInjective(s6) /\ IsInjective(s7)
  /\ Range(s1) \cap (Range(s2) \cup Range(s3) \cup Range(s4) \cup Range(s5)
                       \cup Range(s6) \cup Range(s7)) = {}
  /\ Range(s2) \cap (Range(s3) \cup Range(s4) \cup Range(s5) \cup Range(s6)
                       \cup Range(s7)) = {}
  /\ Range(s3) \cap (Range(s4) \cup Range(s5) \cup Range(s6) \cup Range(s7)) = {}
  /\ Range(s4) \cap (Range(s5) \cup Range(s6) \cup Range(s7)) = {}
  /\ Range(s5) \cap (Range(s6) \cup Range(s7)) = {}
  /\ Range(s6) \cap Range(s7) = {}
  /\ Range(s1) \cup Range(s2) \cup Range(s3) \cup Range(s4) \cup Range(s5)
       \cup Range(s6) \cup Range(s7) = Instances

\* the two ways to say it agree
LEMMA ApartLists ==
  ASSUME NEW s1, NEW s2, NEW s3, NEW s4, NEW s5, NEW s6, NEW s7
  PROVE  LET l == <<s1, s2, s3, s4, s5, s6, s7>> IN
         Apart(s1, s2, s3, s4, s5, s6, s7) <=>
           /\ \A m \in DOMAIN l : IsInjective(l[m])
           /\ \A m, n \in DOMAIN l : m # n => Range(l[m]) \cap Range(l[n]) = {}
           /\ UNION {Range(l[m]) : m \in DOMAIN l} = Instances
<1> DEFINE l == <<s1, s2, s3, s4, s5, s6, s7>>
<1>1. /\ DOMAIN l = {1, 2, 3, 4, 5, 6, 7}
      /\ l[1] = s1 /\ l[2] = s2 /\ l[3] = s3 /\ l[4] = s4 /\ l[5] = s5
      /\ l[6] = s6 /\ l[7] = s7
  OBVIOUS
<1> HIDE DEF l
<1>2. UNION {Range(l[m]) : m \in DOMAIN l} =
        Range(s1) \cup Range(s2) \cup Range(s3) \cup Range(s4) \cup Range(s5)
          \cup Range(s6) \cup Range(s7)
  BY <1>1
<1>3. (\A m \in DOMAIN l : IsInjective(l[m])) <=>
        /\ IsInjective(s1) /\ IsInjective(s2) /\ IsInjective(s3) /\ IsInjective(s4)
        /\ IsInjective(s5) /\ IsInjective(s6) /\ IsInjective(s7)
  BY <1>1
<1>4. ASSUME Apart(s1, s2, s3, s4, s5, s6, s7), NEW m \in DOMAIN l,
             NEW n \in DOMAIN l, m # n
      PROVE  Range(l[m]) \cap Range(l[n]) = {}
  BY <1>1, <1>4 DEF Apart
<1>5. ASSUME \A m, n \in DOMAIN l : m # n => Range(l[m]) \cap Range(l[n]) = {}
      PROVE  /\ Range(s1) \cap (Range(s2) \cup Range(s3) \cup Range(s4) \cup Range(s5)
                       \cup Range(s6) \cup Range(s7)) = {}
             /\ Range(s2) \cap (Range(s3) \cup Range(s4) \cup Range(s5) \cup Range(s6)
                       \cup Range(s7)) = {}
             /\ Range(s3) \cap (Range(s4) \cup Range(s5) \cup Range(s6) \cup Range(s7)) = {}
             /\ Range(s4) \cap (Range(s5) \cup Range(s6) \cup Range(s7)) = {}
             /\ Range(s5) \cap (Range(s6) \cup Range(s7)) = {}
             /\ Range(s6) \cap Range(s7) = {}
  <2>1. /\ Range(s1) \cap Range(s2) = {} /\ Range(s1) \cap Range(s3) = {}
        /\ Range(s1) \cap Range(s4) = {} /\ Range(s1) \cap Range(s5) = {}
        /\ Range(s1) \cap Range(s6) = {} /\ Range(s1) \cap Range(s7) = {}
    BY <1>1, <1>5
  <2>2. /\ Range(s2) \cap Range(s3) = {} /\ Range(s2) \cap Range(s4) = {}
        /\ Range(s2) \cap Range(s5) = {} /\ Range(s2) \cap Range(s6) = {}
        /\ Range(s2) \cap Range(s7) = {}
    BY <1>1, <1>5
  <2>3. /\ Range(s3) \cap Range(s4) = {} /\ Range(s3) \cap Range(s5) = {}
        /\ Range(s3) \cap Range(s6) = {} /\ Range(s3) \cap Range(s7) = {}
        /\ Range(s4) \cap Range(s5) = {} /\ Range(s4) \cap Range(s6) = {}
        /\ Range(s4) \cap Range(s7) = {}
    BY <1>1, <1>5
  <2>4. /\ Range(s5) \cap Range(s6) = {} /\ Range(s5) \cap Range(s7) = {}
        /\ Range(s6) \cap Range(s7) = {}
    BY <1>1, <1>5
  <2>5. QED
    BY <2>1, <2>2, <2>3, <2>4
<1>6. QED
  BY <1>2, <1>3, <1>4, <1>5 DEF Apart, l

\* the lists of the state
AllApart == Apart(onD, bur, curr_onD, curr_bur, sorting,
                  stopped_instances_pending, stopped_instances)

\* AllApart is EachInstanceInOneList, before and after a step
LEMMA AllApartIsOneList ==
  (AllApart <=> EachInstanceInOneList) /\ (AllApart' <=> EachInstanceInOneList')
  BY ApartLists DEF AllApart, EachInstanceInOneList, Lists

-----------------------------------------------------------------------------
(* What each step that moves instances does to the sets of elements *)

\* everything the moves rely on
ListInv == TypeOK /\ Indices /\ ListsInPlace /\ AllApart

\* the types of the lists
LEMMA ListKinds ==
  ASSUME TypeOK
  PROVE  /\ onD \in Seq(OnDemand) /\ curr_onD \in Seq(OnDemand)
         /\ bur \in Seq(Burstable) /\ curr_bur \in Seq(Burstable)
         /\ sorting \in Seq(Burstable)
         /\ stopped_instances_pending \in Seq(Burstable)
         /\ stopped_instances \in Seq(Instances)
         /\ OnDemand \subseteq Instances /\ Burstable \subseteq Instances
         /\ OnDemand \cap Burstable = {}
         /\ Range(onD) \subseteq OnDemand /\ Range(curr_onD) \subseteq OnDemand
         /\ Range(bur) \subseteq Burstable /\ Range(curr_bur) \subseteq Burstable
         /\ Range(sorting) \subseteq Burstable
         /\ Range(stopped_instances_pending) \subseteq Burstable
         /\ Range(stopped_instances) \subseteq Instances
<1>1. ASSUME NEW S, NEW s \in Seq(S) PROVE Range(s) \subseteq S
  BY <1>1, ElementOfSeq, LenProperties DEF Range
<1>2. QED
  BY <1>1, WikiAssumption DEF TypeOK, ListTypes, Instances

\* setStartUpNodes splits both pools
LEMMA StartUpMoves ==
  ASSUME ListInv, SetStartUpNodes
  PROVE  /\ AllApart'
         /\ Range(onD') \cup Range(curr_onD') = Range(onD)
         /\ Range(bur') \cup Range(curr_bur') = Range(bur)
         /\ Range(curr_onD) = {} /\ Range(curr_bur) = {}
         /\ UNCHANGED <<sorting, stopped_instances_pending, stopped_instances>>
<1>1. /\ onD \in Seq(OnDemand) /\ bur \in Seq(Burstable)
      /\ InitOnD \in 0..Len(onD) /\ InitBur \in 0..Len(bur)
      /\ curr_onD = <<>> /\ curr_bur = <<>>
  BY ListKinds, ConfigAssumption
     DEF ListInv, SetStartUpNodes, MainAt, Indices, ListsInPlace
<1>2. IsInjective(onD) /\ IsInjective(bur)
  BY DEF ListInv, AllApart, Apart
<1>3. /\ IsInjective(onD') /\ IsInjective(curr_onD')
      /\ Range(onD') \cup Range(curr_onD') = Range(onD)
      /\ Range(onD') \cap Range(curr_onD') = {}
  BY <1>1, <1>2, SplitMoves DEF SetStartUpNodes
<1>4. /\ IsInjective(bur') /\ IsInjective(curr_bur')
      /\ Range(bur') \cup Range(curr_bur') = Range(bur)
      /\ Range(bur') \cap Range(curr_bur') = {}
  BY <1>1, <1>2, SplitMoves DEF SetStartUpNodes
<1>5. UNCHANGED <<sorting, stopped_instances_pending, stopped_instances>>
  BY DEF SetStartUpNodes
<1>6. Range(curr_onD) = {} /\ Range(curr_bur) = {}
  BY <1>1, EmptyMoves
<1>7. AllApart'
  BY <1>3, <1>4, <1>5, <1>6 DEF ListInv, AllApart, Apart
<1>8. QED
  BY <1>3, <1>4, <1>5, <1>6, <1>7

\* a drained instance is condemned
LEMMA DrainStopMoves ==
  ASSUME ListInv, DrainStop
  PROVE  LET i == stopped_instances_pending[j + 1] IN
         /\ AllApart'
         /\ i \in Range(stopped_instances_pending)
         /\ Range(stopped_instances_pending')
              = Range(stopped_instances_pending) \ {i}
         /\ Range(stopped_instances') = Range(stopped_instances) \cup {i}
         /\ UNCHANGED <<onD, bur, curr_onD, curr_bur, sorting>>
<1> DEFINE i == stopped_instances_pending[j + 1]
<1>1. /\ stopped_instances_pending \in Seq(Burstable)
      /\ stopped_instances \in Seq(Instances)
      /\ Range(stopped_instances_pending) \subseteq Instances
      /\ IsInjective(stopped_instances_pending) /\ IsInjective(stopped_instances)
  BY ListKinds DEF ListInv, AllApart, Apart
<1>2. j \in Nat /\ j < Len(stopped_instances_pending)
  BY <1>1, LenProperties DEF ListInv, DrainStop, MainAt, Indices, TypeOK, LocalTypes
<1>3. /\ i \in Range(stopped_instances_pending)
      /\ Range(stopped_instances_pending') = Range(stopped_instances_pending) \ {i}
      /\ IsInjective(stopped_instances_pending')
  BY <1>1, <1>2, WithoutMoves DEF DrainStop
<1>4. i \in Instances /\ i \notin Range(stopped_instances)
  BY <1>1, <1>3 DEF ListInv, AllApart, Apart
<1>5. /\ Range(stopped_instances') = Range(stopped_instances) \cup {i}
      /\ IsInjective(stopped_instances')
  BY <1>1, <1>4, AppendMoves DEF DrainStop
<1>6. UNCHANGED <<onD, bur, curr_onD, curr_bur, sorting>>
  BY DEF DrainStop
<1> HIDE DEF i
<1>7. AllApart'
  BY <1>3, <1>5, <1>6 DEF ListInv, AllApart, Apart
<1>8. QED
  BY <1>3, <1>5, <1>6, <1>7 DEF i

\* a condemned instance goes back to its pool
LEMMA RetireMoves ==
  ASSUME ListInv, Retire
  PROVE  LET i == Head(stopped_instances) IN
         /\ AllApart'
         /\ i \in Range(stopped_instances)
         /\ Range(stopped_instances') = Range(stopped_instances) \ {i}
         /\ Range(onD') \cup Range(bur') = Range(onD) \cup Range(bur) \cup {i}
         /\ UNCHANGED <<curr_onD, curr_bur, sorting, stopped_instances_pending>>
<1> DEFINE i == Head(stopped_instances)
<1>1. /\ stopped_instances \in Seq(Instances) /\ IsInjective(stopped_instances)
      /\ onD \in Seq(OnDemand) /\ IsInjective(onD)
      /\ bur \in Seq(Burstable) /\ IsInjective(bur)
  BY ListKinds DEF ListInv, AllApart, Apart
<1>2. stopped_instances # <<>>
  BY <1>1, EmptySeq DEF ListInv, Retire, MainAt, Indices, TypeOK, LocalTypes
<1>3. /\ i \in Range(stopped_instances) /\ i \in Instances
      /\ Range(stopped_instances') = Range(stopped_instances) \ {i}
      /\ IsInjective(stopped_instances')
  BY <1>1, <1>2, TailMoves DEF Retire
<1>4. i \notin Range(onD) /\ i \notin Range(bur)
  BY <1>3 DEF ListInv, AllApart, Apart
<1>5. UNCHANGED <<curr_onD, curr_bur, sorting, stopped_instances_pending>>
  BY DEF Retire, inUseVars
<1>6. BackToPool(i)
  BY DEF Retire
<1> HIDE DEF i
<1>7. CASE i \in Burstable
  <2>1. Range(bur') = Range(bur) \cup {i} /\ IsInjective(bur') /\ onD' = onD
    BY <1>1, <1>4, <1>6, <1>7, AppendMoves DEF BackToPool
  <2>2. AllApart'
    BY <1>3, <1>5, <2>1 DEF ListInv, AllApart, Apart
  <2>3. QED
    BY <1>3, <1>5, <2>1, <2>2 DEF i
<1>8. CASE i \notin Burstable
  <2>0. i \in OnDemand
    BY <1>3, <1>8 DEF Instances
  <2>1. Range(onD') = Range(onD) \cup {i} /\ IsInjective(onD') /\ bur' = bur
    BY <1>1, <1>4, <1>6, <1>8, <2>0, AppendMoves DEF BackToPool
  <2>2. AllApart'
    BY <1>3, <1>5, <2>1 DEF ListInv, AllApart, Apart
  <2>3. QED
    BY <1>3, <1>5, <2>1, <2>2 DEF i
<1>9. QED
  BY <1>7, <1>8

\* an on-demand instance leaves its pool
LEMMA StartOnDMoves ==
  ASSUME ListInv, StartOnD
  PROVE  LET i == Head(onD) IN
         /\ AllApart'
         /\ onD # <<>> /\ i \in Range(onD) /\ i \notin Range(curr_onD)
         /\ Range(onD') = Range(onD) \ {i}
         /\ Range(curr_onD') = Range(curr_onD) \cup {i}
         /\ UNCHANGED <<bur, curr_bur, sorting, stopped_instances_pending, stopped_instances>>
<1> DEFINE i == Head(onD)
<1>1. /\ onD \in Seq(OnDemand) /\ IsInjective(onD)
      /\ curr_onD \in Seq(OnDemand) /\ IsInjective(curr_onD)
      /\ OnDemand \subseteq OnDemand
  BY ListKinds DEF ListInv, AllApart, Apart
<1>2. onD # <<>>
  BY <1>1, EmptySeq, LenProperties DEF StartOnD, ListInv, TypeOK, LocalTypes
<1>3. /\ i \in Range(onD) /\ i \in OnDemand
      /\ Range(onD') = Range(onD) \ {i}
      /\ IsInjective(onD')
  BY <1>1, <1>2, TailMoves DEF StartOnD
<1>4. i \notin Range(curr_onD)
  BY <1>3 DEF ListInv, AllApart, Apart
<1>5. /\ Range(curr_onD') = Range(curr_onD) \cup {i}
      /\ IsInjective(curr_onD')
  BY <1>1, <1>3, <1>4, AppendMoves DEF StartOnD
<1>6. UNCHANGED <<bur, curr_bur, sorting, stopped_instances_pending, stopped_instances>>
  BY DEF StartOnD
<1> HIDE DEF i
<1>7. AllApart'
  BY <1>3, <1>5, <1>6 DEF ListInv, AllApart, Apart
<1>8. QED
  BY <1>2, <1>3, <1>4, <1>5, <1>6, <1>7 DEF i

\* an on-demand instance is condemned
LEMMA StopOnDMoves ==
  ASSUME ListInv, StopOnD
  PROVE  LET i == Head(curr_onD) IN
         /\ AllApart'
         /\ curr_onD # <<>> /\ i \in Range(curr_onD) /\ i \notin Range(stopped_instances)
         /\ Range(curr_onD') = Range(curr_onD) \ {i}
         /\ Range(stopped_instances') = Range(stopped_instances) \cup {i}
         /\ UNCHANGED <<onD, bur, curr_bur, sorting, stopped_instances_pending>>
<1> DEFINE i == Head(curr_onD)
<1>1. /\ curr_onD \in Seq(OnDemand) /\ IsInjective(curr_onD)
      /\ stopped_instances \in Seq(Instances) /\ IsInjective(stopped_instances)
      /\ OnDemand \subseteq Instances
  BY ListKinds DEF ListInv, AllApart, Apart
<1>2. curr_onD # <<>>
  BY <1>1, EmptySeq, LenProperties DEF StopOnD, ListInv, TypeOK, LocalTypes
<1>3. /\ i \in Range(curr_onD) /\ i \in Instances
      /\ Range(curr_onD') = Range(curr_onD) \ {i}
      /\ IsInjective(curr_onD')
  BY <1>1, <1>2, TailMoves DEF StopOnD
<1>4. i \notin Range(stopped_instances)
  BY <1>3 DEF ListInv, AllApart, Apart
<1>5. /\ Range(stopped_instances') = Range(stopped_instances) \cup {i}
      /\ IsInjective(stopped_instances')
  BY <1>1, <1>3, <1>4, AppendMoves DEF StopOnD
<1>6. UNCHANGED <<onD, bur, curr_bur, sorting, stopped_instances_pending>>
  BY DEF StopOnD
<1> HIDE DEF i
<1>7. AllApart'
  BY <1>3, <1>5, <1>6 DEF ListInv, AllApart, Apart
<1>8. QED
  BY <1>2, <1>3, <1>4, <1>5, <1>6, <1>7 DEF i

\* a draining instance is taken back
LEMMA ReuseMoves ==
  ASSUME ListInv, ReuseDraining
  PROVE  LET i == Head(stopped_instances_pending) IN
         /\ AllApart'
         /\ stopped_instances_pending # <<>> /\ i \in Range(stopped_instances_pending) /\ i \notin Range(curr_bur)
         /\ Range(stopped_instances_pending') = Range(stopped_instances_pending) \ {i}
         /\ Range(curr_bur') = Range(curr_bur) \cup {i}
         /\ UNCHANGED <<onD, bur, curr_onD, sorting, stopped_instances>>
<1> DEFINE i == Head(stopped_instances_pending)
<1>1. /\ stopped_instances_pending \in Seq(Burstable) /\ IsInjective(stopped_instances_pending)
      /\ curr_bur \in Seq(Burstable) /\ IsInjective(curr_bur)
      /\ Burstable \subseteq Burstable
  BY ListKinds DEF ListInv, AllApart, Apart
<1>2. stopped_instances_pending # <<>>
  BY <1>1, EmptySeq, LenProperties DEF ReuseDraining, ListInv, TypeOK, LocalTypes
<1>3. /\ i \in Range(stopped_instances_pending) /\ i \in Burstable
      /\ Range(stopped_instances_pending') = Range(stopped_instances_pending) \ {i}
      /\ IsInjective(stopped_instances_pending')
  BY <1>1, <1>2, TailMoves DEF ReuseDraining
<1>4. i \notin Range(curr_bur)
  BY <1>3 DEF ListInv, AllApart, Apart
<1>5. /\ Range(curr_bur') = Range(curr_bur) \cup {i}
      /\ IsInjective(curr_bur')
  BY <1>1, <1>3, <1>4, AppendMoves DEF ReuseDraining
<1>6. UNCHANGED <<onD, bur, curr_onD, sorting, stopped_instances>>
  BY DEF ReuseDraining, poolVars
<1> HIDE DEF i
<1>7. AllApart'
  BY <1>3, <1>5, <1>6 DEF ListInv, AllApart, Apart
<1>8. QED
  BY <1>2, <1>3, <1>4, <1>5, <1>6, <1>7 DEF i

\* a burstable instance leaves its pool
LEMMA StartBurMoves ==
  ASSUME ListInv, StartBur
  PROVE  LET i == Head(bur) IN
         /\ AllApart'
         /\ bur # <<>> /\ i \in Range(bur) /\ i \notin Range(curr_bur)
         /\ Range(bur') = Range(bur) \ {i}
         /\ Range(curr_bur') = Range(curr_bur) \cup {i}
         /\ UNCHANGED <<onD, curr_onD, sorting, stopped_instances_pending, stopped_instances>>
<1> DEFINE i == Head(bur)
<1>1. /\ bur \in Seq(Burstable) /\ IsInjective(bur)
      /\ curr_bur \in Seq(Burstable) /\ IsInjective(curr_bur)
      /\ Burstable \subseteq Burstable
  BY ListKinds DEF ListInv, AllApart, Apart
<1>2. bur # <<>>
  BY <1>1, EmptySeq, LenProperties DEF StartBur, ListInv, TypeOK, LocalTypes
<1>3. /\ i \in Range(bur) /\ i \in Burstable
      /\ Range(bur') = Range(bur) \ {i}
      /\ IsInjective(bur')
  BY <1>1, <1>2, TailMoves DEF StartBur
<1>4. i \notin Range(curr_bur)
  BY <1>3 DEF ListInv, AllApart, Apart
<1>5. /\ Range(curr_bur') = Range(curr_bur) \cup {i}
      /\ IsInjective(curr_bur')
  BY <1>1, <1>3, <1>4, AppendMoves DEF StartBur
<1>6. UNCHANGED <<onD, curr_onD, sorting, stopped_instances_pending, stopped_instances>>
  BY DEF StartBur
<1> HIDE DEF i
<1>7. AllApart'
  BY <1>3, <1>5, <1>6 DEF ListInv, AllApart, Apart
<1>8. QED
  BY <1>2, <1>3, <1>4, <1>5, <1>6, <1>7 DEF i

\* a burstable instance starts to drain
LEMMA DrainBurMoves ==
  ASSUME ListInv, DrainBur
  PROVE  LET i == Head(curr_bur) IN
         /\ AllApart'
         /\ curr_bur # <<>> /\ i \in Range(curr_bur) /\ i \notin Range(stopped_instances_pending)
         /\ Range(curr_bur') = Range(curr_bur) \ {i}
         /\ Range(stopped_instances_pending') = Range(stopped_instances_pending) \cup {i}
         /\ UNCHANGED <<onD, bur, curr_onD, sorting, stopped_instances>>
<1> DEFINE i == Head(curr_bur)
<1>1. /\ curr_bur \in Seq(Burstable) /\ IsInjective(curr_bur)
      /\ stopped_instances_pending \in Seq(Burstable) /\ IsInjective(stopped_instances_pending)
      /\ Burstable \subseteq Burstable
  BY ListKinds DEF ListInv, AllApart, Apart
<1>2. curr_bur # <<>>
  BY <1>1, EmptySeq, LenProperties DEF DrainBur, ListInv, TypeOK, LocalTypes
<1>3. /\ i \in Range(curr_bur) /\ i \in Burstable
      /\ Range(curr_bur') = Range(curr_bur) \ {i}
      /\ IsInjective(curr_bur')
  BY <1>1, <1>2, TailMoves DEF DrainBur
<1>4. i \notin Range(stopped_instances_pending)
  BY <1>3 DEF ListInv, AllApart, Apart
<1>5. /\ Range(stopped_instances_pending') = Range(stopped_instances_pending) \cup {i}
      /\ IsInjective(stopped_instances_pending')
  BY <1>1, <1>3, <1>4, AppendMoves DEF DrainBur
<1>6. UNCHANGED <<onD, bur, curr_onD, sorting, stopped_instances>>
  BY DEF DrainBur, poolVars
<1> HIDE DEF i
<1>7. AllApart'
  BY <1>3, <1>5, <1>6 DEF ListInv, AllApart, Apart
<1>8. QED
  BY <1>2, <1>3, <1>4, <1>5, <1>6, <1>7 DEF i

\* a sort, whole or in two halves, keeps the instances that serve or drain
LEMMA SortMoves ==
  ASSUME ListInv, RefreshPending \/ SortBegin \/ SortEnd \/ SortAtOnce
  PROVE  /\ AllApart'
         /\ Range(stopped_instances_pending') = Range(stopped_instances_pending)
         /\ Range(curr_bur') \cup Range(sorting') = Range(curr_bur) \cup Range(sorting)
         /\ UNCHANGED <<onD, bur, curr_onD, stopped_instances>>
<1>1. /\ curr_bur \in Seq(Burstable) /\ IsInjective(curr_bur)
      /\ sorting \in Seq(Burstable) /\ IsInjective(sorting)
      /\ stopped_instances_pending \in Seq(Burstable)
      /\ IsInjective(stopped_instances_pending)
  BY ListKinds DEF ListInv, AllApart, Apart
<1>2. CASE RefreshPending
  <2>1. PICK p \in Bijection(DOMAIN stopped_instances_pending,
                             DOMAIN stopped_instances_pending) :
          stopped_instances_pending' = Permute(stopped_instances_pending, p)
    BY <1>2 DEF RefreshPending, SortOrders
  <2>2. /\ Range(stopped_instances_pending') = Range(stopped_instances_pending)
        /\ IsInjective(stopped_instances_pending')
    BY <1>1, <2>1, PermuteMoves
  <2>3. UNCHANGED <<onD, bur, curr_onD, curr_bur, sorting, stopped_instances>>
    BY <1>2 DEF RefreshPending, poolVars
  <2>4. QED
    BY <2>2, <2>3 DEF ListInv, AllApart, Apart
<1>3. CASE SortBegin
  <2>1. sorting = <<>> /\ sorting' = curr_bur /\ curr_bur' = <<>> /\ PreemptSort
    BY <1>3 DEF SortBegin, MainAt, ListInv, ListsInPlace
  <2>2. UNCHANGED <<onD, bur, curr_onD, stopped_instances_pending, stopped_instances>>
    BY <1>3 DEF SortBegin, poolVars
  <2>3. /\ Range(sorting) = {} /\ Range(sorting') = Range(curr_bur)
        /\ Range(curr_bur') = {} /\ IsInjective(sorting') /\ IsInjective(curr_bur')
    BY <1>1, <2>1, EmptyMoves
  <2>4. QED
    BY <2>1, <2>2, <2>3 DEF ListInv, AllApart, Apart
<1>4. CASE SortEnd
  <2>1. curr_bur = <<>> /\ sorting' = <<>>
    BY <1>4 DEF SortEnd, MainAt, ListInv, ListsInPlace
  <2>2. PICK p \in Bijection(DOMAIN sorting, DOMAIN sorting) :
          curr_bur' = Permute(sorting, p)
    BY <1>4 DEF SortEnd, SortOrders
  <2>3. UNCHANGED <<onD, bur, curr_onD, stopped_instances_pending, stopped_instances>>
    BY <1>4 DEF SortEnd, poolVars
  <2>4. /\ Range(curr_bur') = Range(sorting) /\ IsInjective(curr_bur')
    BY <1>1, <2>2, PermuteMoves
  <2>5. /\ Range(curr_bur) = {} /\ Range(sorting') = {} /\ IsInjective(sorting')
    BY <2>1, EmptyMoves
  <2>6. QED
    BY <2>3, <2>4, <2>5 DEF ListInv, AllApart, Apart
<1>5. CASE SortAtOnce
  <2>1. PICK p \in Bijection(DOMAIN curr_bur, DOMAIN curr_bur) :
          curr_bur' = Permute(curr_bur, p)
    BY <1>5 DEF SortAtOnce, SortOrders
  <2>2. UNCHANGED <<onD, bur, curr_onD, sorting, stopped_instances_pending,
                    stopped_instances>>
    BY <1>5 DEF SortAtOnce, poolVars
  <2>3. Range(curr_bur') = Range(curr_bur) /\ IsInjective(curr_bur')
    BY <1>1, <2>1, PermuteMoves
  <2>4. QED
    BY <2>2, <2>3 DEF ListInv, AllApart, Apart
<1>6. QED
  BY <1>2, <1>3, <1>4, <1>5

\* the steps that move or sort
Moving == \/ SetStartUpNodes \/ DrainStop \/ Retire \/ StartOnD \/ StopOnD
          \/ ReuseDraining \/ StartBur \/ DrainBur
          \/ RefreshPending \/ SortBegin \/ SortEnd \/ SortAtOnce

\* every other step leaves the lists as they are
LEMMA OthersKeepLists ==
  ASSUME [Next]_vars, ~Moving
  PROVE  UNCHANGED <<onD, bur, curr_onD, curr_bur, sorting,
                     stopped_instances_pending, stopped_instances>>
<1> USE DEF poolVars, inUseVars, Moving
<1>1. CASE MainStartUp
  BY <1>1 DEF MainStartUp, StopUnused, BlockUnused, InitWeight, FirstConf,
     StartClient, StartShortTerm, OpenCost
<1>2. CASE MainRetires
  BY <1>2 DEF MainRetires, LoopTest, ReadDrainCredit, DrainKeep, StopRetired,
     BlockStopped, RetireDone, FetchCredit, Estimate
<1>3. CASE MainOnD
  BY <1>3 DEF MainOnD, ScaleOnD, StartOnDDone, BlockOnD, StopOnDDone
<1>4. CASE MainBur
  BY <1>4 DEF MainBur, ScaleBur, StartBurDone, BlockBur, RefreshBur, DrainBurEnter,
     DrainBurDone
<1>5. CASE MainEnds
  BY <1>5 DEF MainEnds, Join, Shutdown, CloseCost, WriteCost
<1>6. CASE Short
  BY <1>6 DEF Short, ShortLoopTest, GetLatency, Optimize, Reweigh, Update
<1>7. CASE ClientEnds \/ (\E i \in Instances : MachineSettles(i)) \/ UNCHANGED vars
  BY <1>7 DEF ClientEnds, MachineSettles, vars
<1>8. QED
  BY <1>1, <1>2, <1>3, <1>4, <1>5, <1>6, <1>7 DEF Next, Main, Ended

\* what list.sort holds is put back, and nothing else is in its way
LEMMA InPlaceStep ==
  ASSUME ListInv, [Next]_vars
  PROVE  ListsInPlace'
<1> USE DEF MainAt, ListsInPlace, poolVars, inUseVars
<1>0. /\ mainPc = "setStartUp" => curr_onD = <<>> /\ curr_bur = <<>>
      /\ mainPc # "sortEnd" => sorting = <<>>
      /\ mainPc = "sortEnd" => curr_bur = <<>>
      /\ sorting # <<>> => PreemptSort
  BY DEF ListInv
<1>1. CASE SortBegin
  BY <1>1 DEF SortBegin
<1>2. CASE SortEnd
  BY <1>2 DEF SortEnd
\* the other steps of the main thread leave the sort alone
<1>3. ASSUME mainPc # "sortEnd", mainPc' \notin {"sortEnd", "setStartUp"},
             UNCHANGED sorting
      PROVE  ListsInPlace'
  BY <1>0, <1>3
<1>4. CASE MainStartUp
  BY <1>3, <1>4 DEF MainStartUp, SetStartUpNodes, StopUnused, BlockUnused,
     InitWeight, FirstConf, StartClient, StartShortTerm, OpenCost
<1>5. CASE MainRetires
  BY <1>3, <1>5 DEF MainRetires, LoopTest, ReadDrainCredit, DrainStop, DrainKeep,
     StopRetired, BlockStopped, Retire, RetireDone, FetchCredit, Estimate
<1>6. CASE MainOnD
  BY <1>3, <1>6 DEF MainOnD, ScaleOnD, StartOnD, StartOnDDone, BlockOnD, StopOnD,
     StopOnDDone
<1>7. CASE MainBur /\ ~SortBegin /\ ~SortEnd
  BY <1>3, <1>7 DEF MainBur, ScaleBur, RefreshPending, ReuseDraining, StartBur,
     StartBurDone, BlockBur, RefreshBur, SortAtOnce, DrainBurEnter, DrainBur,
     DrainBurDone
<1>8. CASE MainEnds
  BY <1>3, <1>8 DEF MainEnds, Join, Shutdown, CloseCost, WriteCost
<1>9. CASE Short \/ ClientEnds \/ (\E i \in Instances : MachineSettles(i))
           \/ UNCHANGED vars
  <2>1. UNCHANGED <<mainPc, curr_onD, curr_bur, sorting>>
    BY <1>9 DEF Short, ShortLoopTest, GetLatency, Optimize, Reweigh, Update,
       ClientEnds, MachineSettles, vars, threadVars
  <2>2. QED
    BY <1>0, <2>1
<1>10. QED
  BY <1>1, <1>2, <1>4, <1>5, <1>6, <1>7, <1>8, <1>9 DEF Next, Main, Ended

\* Every step keeps the lists apart.
LEMMA ListStep ==
  ASSUME ListInv, [Next]_vars
  PROVE  ListInv'
<1>1. TypeOK' /\ Indices'
  BY TypeStep DEF ListInv
<1>2. AllApart'
  <2>1. CASE Moving
    BY <2>1, StartUpMoves, DrainStopMoves, RetireMoves, StartOnDMoves, StopOnDMoves,
       ReuseMoves, StartBurMoves, DrainBurMoves, SortMoves DEF Moving
  <2>2. CASE ~Moving
    BY <2>2, OthersKeepLists DEF ListInv, AllApart, Apart
  <2>3. QED
    BY <2>1, <2>2
<1>3. QED
  BY <1>1, <1>2, InPlaceStep DEF ListInv

\* At the start all instances are in their pools.
LEMMA ListInit == Init => ListInv
<1> SUFFICES ASSUME Init PROVE ListInv
  OBVIOUS
<1>1. TypeOK /\ Indices
  BY TypeInit
<1>2. ListsInPlace
  BY DEF Init, ListsInPlace
<1>3. AllApart
  <2>1. /\ onD = WikiOnD /\ bur = WikiBur
        /\ curr_onD = <<>> /\ curr_bur = <<>> /\ sorting = <<>>
        /\ stopped_instances_pending = <<>> /\ stopped_instances = <<>>
    BY DEF Init
  <2>2. QED
    BY <2>1, EmptyMoves, WikiAssumption
       DEF AllApart, Apart, Instances, OnDemand, Burstable
<1>4. QED
  BY <1>1, <1>2, <1>3 DEF ListInv

\* ListInv is an invariant.
LEMMA ListInvariant == Spec => []ListInv
<1>1. ListInv /\ [Next]_vars => ListInv'
  BY ListStep
<1>2. QED
  BY ListInit, <1>1, PTL DEF Spec

\* EachInstanceInOneList: for any fleet, through every scaling step, thread
\* switch and sort, each instance is in exactly one list, once.
THEOREM ListsCorrect == Spec => []EachInstanceInOneList
<1>1. ListInv => EachInstanceInOneList
  BY AllApartIsOneList DEF ListInv
<1>2. QED
  BY ListInvariant, <1>1, PTL

-----------------------------------------------------------------------------
(* The lock *)

\* Whoever is inside a with-block holds the lock, and nobody else does.
LEMMA LockStep ==
  ASSUME LockInv, [Next]_vars
  PROVE  LockInv'
<1> DEFINE Early(pc) == pc \in StartUpPcs \ {"openCost"}
<1> USE DEF LockInv, LockedPcs, MainAt, MainAcquires, MainHolds, MainReleases, LockFree,
            StartUpPcs
\* steps of the main thread that leave the lock alone, take it and free it
<1>1. ASSUME UNCHANGED <<shortPc, lock>>, mainPc' \in LockedPcs <=> mainPc \in LockedPcs,
             Early(mainPc') => Early(mainPc)
      PROVE  LockInv'
  BY <1>1
<1>2. ASSUME UNCHANGED shortPc, lock = "free", lock' = "main", mainPc' \in LockedPcs,
             Early(mainPc') => Early(mainPc)
      PROVE  LockInv'
  BY <1>2
<1>3. ASSUME UNCHANGED shortPc, lock = "main", lock' = "free", mainPc' \notin LockedPcs,
             Early(mainPc') => Early(mainPc)
      PROVE  LockInv'
  BY <1>3
<1>4. CASE MainStartUp
  <2>1. CASE InitWeight
    BY <1>2, <2>1 DEF InitWeight, shortVars
  <2>2. CASE FirstConf
    BY <1>3, <2>2 DEF FirstConf, shortVars
  <2>3. CASE StartShortTerm
    BY <2>3 DEF StartShortTerm
  <2>4. CASE SetStartUpNodes \/ StopUnused \/ BlockUnused \/ StartClient \/ OpenCost
    BY <1>1, <2>4 DEF SetStartUpNodes, StopUnused, BlockUnused, StartClient, OpenCost,
       shortVars
  <2>5. QED
    BY <1>4, <2>1, <2>2, <2>3, <2>4 DEF MainStartUp
<1>5. CASE MainRetires
  BY <1>1, <1>5 DEF MainRetires, LoopTest, ReadDrainCredit, DrainStop, DrainKeep,
     StopRetired, BlockStopped, Retire, RetireDone, FetchCredit, Estimate, shortVars
<1>6. CASE MainOnD
  <2>1. CASE ScaleOnD
    BY <1>1, <1>2, <2>1 DEF ScaleOnD, shortVars
  <2>2. CASE StartOnDDone \/ StopOnDDone
    BY <1>3, <2>2 DEF StartOnDDone, StopOnDDone, shortVars
  <2>3. CASE StartOnD \/ BlockOnD \/ StopOnD
    BY <1>1, <2>3 DEF StartOnD, BlockOnD, StopOnD, shortVars
  <2>4. QED
    BY <1>6, <2>1, <2>2, <2>3 DEF MainOnD
<1>7. CASE MainBur
  <2>1. CASE ScaleBur
    BY <1>1, <1>2, <2>1 DEF ScaleBur, shortVars
  <2>2. CASE StartBurDone \/ RefreshBur \/ DrainBurDone
    BY <1>3, <2>2 DEF StartBurDone, RefreshBur, DrainBurDone, shortVars
  <2>3. CASE DrainBurEnter
    BY <1>2, <2>3 DEF DrainBurEnter, shortVars
  <2>4. CASE RefreshPending \/ ReuseDraining \/ StartBur \/ BlockBur \/ SortBegin
             \/ SortEnd \/ SortAtOnce \/ DrainBur
    <3>1. UNCHANGED <<shortPc, lock>>
      BY <2>4 DEF RefreshPending, ReuseDraining, StartBur, BlockBur, SortBegin,
         SortEnd, SortAtOnce, DrainBur, shortVars
    <3>2. \/ mainPc \in {"refreshPending", "startBur", "draining"}
             /\ mainPc' \in {"startBur", "draining"}
          \/ mainPc \in {"blockBur", "sortBur", "sortEnd"}
             /\ mainPc' \in {"loop", "sortEnd", "drainBur"}
      BY <2>4 DEF RefreshPending, ReuseDraining, StartBur, BlockBur, SortBegin,
         SortEnd, SortAtOnce, DrainBur
    <3>3. QED
      BY <1>1, <3>1, <3>2
  <2>5. QED
    BY <1>7, <2>1, <2>2, <2>3, <2>4 DEF MainBur
<1>8. CASE MainEnds
  BY <1>1, <1>8 DEF MainEnds, Join, Shutdown, CloseCost, WriteCost, shortVars
<1>9. CASE Short
  BY <1>9 DEF Short, ShortLoopTest, GetLatency, Optimize, Reweigh, Update
<1>10. CASE ClientEnds \/ (\E i \in Instances : MachineSettles(i)) \/ UNCHANGED vars
  BY <1>10 DEF ClientEnds, MachineSettles, vars, threadVars, shortVars
<1>11. QED
  BY <1>4, <1>5, <1>6, <1>7, <1>8, <1>9, <1>10 DEF Next, Main, Ended

\* LockInv: the two threads are never inside their with-blocks together, so the
\* guards "the main thread holds the lock" never stop the main thread.
THEOREM LockCorrect == Spec => []LockInv
<1>1. Init => LockInv
  BY DEF Init, LockInv, LockedPcs
<1>2. LockInv /\ [Next]_vars => LockInv'
  BY LockStep
<1>3. QED
  BY <1>1, <1>2, PTL DEF Spec

\* ListsStableUnderShort: under the short-term thread no instance joins or leaves
\* a list, and only the sort, which takes no lock, empties or reorders curr_bur.
THEOREM ListsStableCorrect == Spec => ListsStableUnderShort
<1> DEFINE Stable == lock = "short" =>
             /\ UNCHANGED <<curr_onD, stopped_instances_pending>>
             /\ Range(curr_bur') \cup Range(sorting') = Range(curr_bur) \cup Range(sorting)
             /\ UNCHANGED curr_bur \/ mainPc \in {"sortBur", "sortEnd"}
<1>1. ASSUME ListInv, [Next]_vars
      PROVE  Stable
  <2> SUFFICES ASSUME lock = "short" PROVE Stable
    OBVIOUS
  <2>1. CASE ~Moving
    BY <1>1, <2>1, OthersKeepLists
  <2>2. CASE SortBegin \/ SortEnd \/ SortAtOnce
    <3>1. UNCHANGED <<curr_onD, stopped_instances_pending>>
      BY <2>2 DEF SortBegin, SortEnd, SortAtOnce
    <3>2. mainPc \in {"sortBur", "sortEnd"}
      BY <2>2 DEF SortBegin, SortEnd, SortAtOnce, MainAt
    <3>3. QED
      BY <1>1, <2>2, <3>1, <3>2, SortMoves
  <2>3. CASE Retire
    BY <2>3 DEF Retire, inUseVars
  <2>4. CASE SetStartUpNodes \/ DrainStop \/ StartOnD \/ StopOnD \/ ReuseDraining
             \/ StartBur \/ DrainBur \/ RefreshPending
    BY <2>4 DEF SetStartUpNodes, DrainStop, StartOnD, StopOnD, ReuseDraining, StartBur,
       DrainBur, RefreshPending, MainHolds, LockFree
  <2>5. QED
    BY <2>1, <2>2, <2>3, <2>4 DEF Moving
<1>2. ListInv /\ [Next]_vars => [Stable]_vars
  BY <1>1
<1>3. QED
  BY ListInvariant, <1>2, PTL DEF Spec, ListsStableUnderShort

-----------------------------------------------------------------------------
(* Credits decide *)

\* a sort by rank leaves the ranks in order
LEMMA SortedByRank ==
  ASSUME NEW S, NEW s \in Seq(S), NEW rank \in [S -> Int], NEW p \in SortOrders(s, rank)
  PROVE  /\ p \in Bijection(DOMAIN s, DOMAIN s)
         /\ DOMAIN Permute(s, p) = DOMAIN s
         /\ \A m, n \in DOMAIN s : m < n =>
              rank[Permute(s, p)[m]] <= rank[Permute(s, p)[n]]
<1>1. /\ p \in Bijection(DOMAIN s, DOMAIN s) /\ p \in [DOMAIN s -> DOMAIN s]
      /\ DOMAIN s = 1..Len(s) /\ Len(s) \in Nat
  BY LenProperties DEF SortOrders, Bijection, Injection
<1>2. \A m \in DOMAIN s : rank[s[p[m]]] \in Int /\ Permute(s, p)[m] = s[p[m]]
  BY <1>1, ElementOfSeq DEF Permute
<1>3. \A m, n \in DOMAIN s : m < n => \/ rank[s[p[m]]] < rank[s[p[n]]]
                                      \/ rank[s[p[m]]] = rank[s[p[n]]]
  BY DEF SortOrders
<1>4. ASSUME NEW m \in DOMAIN s, NEW n \in DOMAIN s, m < n
      PROVE  rank[Permute(s, p)[m]] <= rank[Permute(s, p)[n]]
  <2>1. /\ rank[s[p[m]]] \in Int /\ Permute(s, p)[m] = s[p[m]]
        /\ rank[s[p[n]]] \in Int /\ Permute(s, p)[n] = s[p[n]]
    BY <1>2
  <2>2. rank[s[p[m]]] < rank[s[p[n]]] \/ rank[s[p[m]]] = rank[s[p[n]]]
    BY <1>3, <1>4
  <2>3. rank[s[p[m]]] <= rank[s[p[n]]]
    BY <2>1, <2>2
  <2>4. QED
    BY <2>1, <2>3
<1>5. QED
  BY <1>1, <1>4 DEF Permute

\* removing the first element keeps a list in order
LEMMA TailPlaces ==
  ASSUME NEW S, NEW s \in Seq(S), s # <<>>
  PROVE  /\ 1 \in DOMAIN s /\ Head(s) = s[1]
         /\ \A k \in DOMAIN Tail(s) : k + 1 \in DOMAIN s /\ Tail(s)[k] = s[k + 1]
                                     /\ 1 < k + 1 /\ k \in Nat
<1>1. DOMAIN s = 1..Len(s) /\ Len(s) \in Nat /\ Len(s) >= 1 /\ Head(s) = s[1]
  BY LenProperties, EmptySeq
<1>2. /\ DOMAIN Tail(s) = 1..(Len(s) - 1)
      /\ \A k \in 1..(Len(s) - 1) : Tail(s)[k] = s[k + 1]
  BY <1>1, HeadTailProperties, LenProperties
<1>3. QED
  BY <1>1, <1>2

\* Every step keeps the list that is being shortened sorted by credits.
LEMMA CreditSortedStep ==
  ASSUME ListInv, CreditSorted, [Next]_vars
  PROVE  CreditSorted'
<1> USE DEF MainAt
<1>0. /\ curr_bur \in Seq(Burstable) /\ sorting \in Seq(Burstable)
      /\ stopped_instances_pending \in Seq(Burstable)
      /\ creditBalance \in [Burstable -> Credits \cup {0}]
      /\ Credits \cup {0} \subseteq Nat
      /\ creditBalance \in [Burstable -> Int]
  <2>1. Credits \cup {0} \subseteq Nat
    BY ConfigAssumption
  <2>2. creditBalance \in [Burstable -> Credits \cup {0}]
    BY DEF ListInv, TypeOK, NodeTypes
  <2>3. QED
    BY <2>1, <2>2, ListKinds DEF ListInv
<1>1. CASE SortEnd
  <2>1. PICK p \in SortOrders(sorting, creditBalance) : curr_bur' = Permute(sorting, p)
    BY <1>1 DEF SortEnd
  <2>2. mainPc' = "drainBur" /\ UNCHANGED creditBalance
    BY <1>1 DEF SortEnd, nodeVars
  <2>3. \A m, n \in DOMAIN curr_bur' :
          m < n => creditBalance[curr_bur'[m]] <= creditBalance[curr_bur'[n]]
    BY <1>0, <2>1, SortedByRank
  <2>4. QED
    BY <2>2, <2>3 DEF CreditSorted
<1>2. CASE SortAtOnce
  <2>1. PICK p \in SortOrders(curr_bur, creditBalance) : curr_bur' = Permute(curr_bur, p)
    BY <1>2 DEF SortAtOnce
  <2>2. mainPc' = "drainBur" /\ UNCHANGED creditBalance
    BY <1>2 DEF SortAtOnce, nodeVars
  <2>3. \A m, n \in DOMAIN curr_bur' :
          m < n => creditBalance[curr_bur'[m]] <= creditBalance[curr_bur'[n]]
    BY <1>0, <2>1, SortedByRank
  <2>4. QED
    BY <2>2, <2>3 DEF CreditSorted
<1>3. CASE RefreshPending
  <2> DEFINE rank == [i \in Burstable |-> -creditBalance'[i]]
  <2>1. PICK p \in SortOrders(stopped_instances_pending, rank) :
          stopped_instances_pending' = Permute(stopped_instances_pending, p)
    BY <1>3 DEF RefreshPending
  <2>2. creditBalance' \in [Burstable -> Nat] /\ mainPc' = "startBur"
    BY <1>0, <1>3, ConfigAssumption DEF RefreshPending
  <2>3. rank \in [Burstable -> Int]
    BY <2>2
  <2>4. stopped_instances_pending' \in Seq(Burstable)
    BY <1>0, <2>1, <2>3, SortedByRank, PermuteType
  <2> HIDE DEF rank
  <2>5. \A m, n \in DOMAIN stopped_instances_pending' :
          m < n => rank[stopped_instances_pending'[m]] <= rank[stopped_instances_pending'[n]]
    BY <1>0, <2>1, <2>3, SortedByRank
  <2>6. \A m \in DOMAIN stopped_instances_pending' :
          /\ creditBalance'[stopped_instances_pending'[m]] \in Nat
          /\ rank[stopped_instances_pending'[m]]
               = -creditBalance'[stopped_instances_pending'[m]]
    BY <2>2, <2>4, ElementOfSeq, LenProperties DEF rank
  <2>7. ASSUME NEW m \in DOMAIN stopped_instances_pending',
               NEW n \in DOMAIN stopped_instances_pending', m < n
        PROVE  creditBalance'[stopped_instances_pending'[n]]
                 <= creditBalance'[stopped_instances_pending'[m]]
    BY <2>5, <2>6, <2>7
  <2>8. QED
    BY <2>2, <2>7 DEF CreditSorted
<1>4. CASE ReuseDraining
  <2>1. /\ mainPc = "startBur" /\ mainPc' = "startBur" /\ UNCHANGED creditBalance
        /\ stopped_instances_pending' = Tail(stopped_instances_pending)
    BY <1>4 DEF ReuseDraining
  <2>2. stopped_instances_pending # <<>>
    BY <1>4, ReuseMoves
  <2>3. \A m, n \in DOMAIN stopped_instances_pending' :
           m < n => creditBalance[stopped_instances_pending'[n]]
                      <= creditBalance[stopped_instances_pending'[m]]
    <3> SUFFICES ASSUME NEW m \in DOMAIN Tail(stopped_instances_pending),
                        NEW n \in DOMAIN Tail(stopped_instances_pending), m < n
                 PROVE  creditBalance[Tail(stopped_instances_pending)[n]]
                          <= creditBalance[Tail(stopped_instances_pending)[m]]
      BY <2>1
    <3> DEFINE t == Tail(stopped_instances_pending)
    <3>1. /\ m + 1 \in DOMAIN stopped_instances_pending
          /\ n + 1 \in DOMAIN stopped_instances_pending
          /\ t[m] = stopped_instances_pending[m + 1]
          /\ t[n] = stopped_instances_pending[n + 1]
          /\ m \in Nat /\ n \in Nat
      BY <1>0, <2>2, TailPlaces
    <3>2. m + 1 < n + 1
      BY <3>1
    <3>3. QED
      BY <2>1, <3>1, <3>2 DEF CreditSorted
  <2>4. QED
    BY <2>1, <2>3 DEF CreditSorted
<1>5. CASE DrainBur
  <2>1. /\ mainPc = "draining" /\ mainPc' = "draining" /\ UNCHANGED creditBalance
        /\ curr_bur' = Tail(curr_bur)
    BY <1>5 DEF DrainBur, nodeVars
  <2>2. curr_bur # <<>>
    BY <1>5, DrainBurMoves
  <2>3. \A m, n \in DOMAIN curr_bur' :
           m < n => creditBalance[curr_bur'[m]] <= creditBalance[curr_bur'[n]]
    <3> SUFFICES ASSUME NEW m \in DOMAIN Tail(curr_bur),
                        NEW n \in DOMAIN Tail(curr_bur), m < n
                 PROVE  creditBalance[Tail(curr_bur)[m]] <= creditBalance[Tail(curr_bur)[n]]
      BY <2>1
    <3> DEFINE t == Tail(curr_bur)
    <3>1. /\ m + 1 \in DOMAIN curr_bur /\ n + 1 \in DOMAIN curr_bur
          /\ t[m] = curr_bur[m + 1] /\ t[n] = curr_bur[n + 1]
          /\ m \in Nat /\ n \in Nat
      BY <1>0, <2>2, TailPlaces
    <3>2. m + 1 < n + 1
      BY <3>1
    <3>3. QED
      BY <2>1, <3>1, <3>2 DEF CreditSorted
  <2>4. QED
    BY <2>1, <2>3 DEF CreditSorted
<1>6. CASE StartBur \/ DrainBurEnter
  BY <1>6 DEF StartBur, DrainBurEnter, CreditSorted, inUseVars, nodeVars
\* the other steps of the main thread lead to places where nothing is promised
<1>7. ASSUME mainPc' \notin {"drainBur", "draining", "startBur"}
      PROVE  CreditSorted'
  BY <1>7 DEF CreditSorted
<1>8. CASE MainStartUp
  BY <1>7, <1>8 DEF MainStartUp, SetStartUpNodes, StopUnused, BlockUnused, InitWeight,
     FirstConf, StartClient, StartShortTerm, OpenCost
<1>9. CASE MainRetires
  BY <1>7, <1>9 DEF MainRetires, LoopTest, ReadDrainCredit, DrainStop, DrainKeep,
     StopRetired, BlockStopped, Retire, RetireDone, FetchCredit, Estimate
<1>10. CASE MainOnD
  BY <1>7, <1>10 DEF MainOnD, ScaleOnD, StartOnD, StartOnDDone, BlockOnD, StopOnD,
     StopOnDDone
<1>11. CASE ScaleBur \/ StartBurDone \/ BlockBur \/ RefreshBur \/ SortBegin
            \/ DrainBurDone
  BY <1>7, <1>11 DEF ScaleBur, StartBurDone, BlockBur, RefreshBur, SortBegin,
     DrainBurDone
<1>12. CASE MainEnds
  BY <1>7, <1>12 DEF MainEnds, Join, Shutdown, CloseCost, WriteCost
<1>13. CASE Short \/ ClientEnds \/ (\E i \in Instances : MachineSettles(i))
            \/ UNCHANGED vars
  <2>1. UNCHANGED <<mainPc, curr_bur, stopped_instances_pending, creditBalance>>
    BY <1>13 DEF Short, ShortLoopTest, GetLatency, Optimize, Reweigh, Update,
       ClientEnds, MachineSettles, vars, threadVars, inUseVars, nodeVars
  <2>2. QED
    BY <2>1 DEF CreditSorted
<1>14. QED
  BY <1>1, <1>2, <1>3, <1>4, <1>5, <1>6, <1>8, <1>9, <1>10, <1>11, <1>12, <1>13
     DEF Next, Main, MainBur, Ended

\* CreditOrder: for any fleet and any balances, no instance starts to drain before
\* a poorer one and none is taken back before a richer one.
THEOREM CreditOrderCorrect == Spec => CreditOrder
<1> DEFINE Ordered ==
      /\ \A i \in Range(curr_bur) \cap Range(stopped_instances_pending') :
           \A k \in Range(curr_bur') : creditBalance[i] <= creditBalance[k]
      /\ \A i \in Range(stopped_instances_pending) \cap Range(curr_bur') :
           \A k \in Range(stopped_instances_pending') :
             creditBalance[k] <= creditBalance[i]
<1>1. Init => CreditSorted
  BY DEF Init, CreditSorted
<1>2. ListInv /\ CreditSorted /\ [Next]_vars => CreditSorted'
  BY CreditSortedStep
<1>3. ASSUME ListInv, CreditSorted, [Next]_vars
      PROVE  Ordered
  <2> USE DEF MainAt
  <2>0. /\ Range(curr_bur) \cap Range(stopped_instances_pending) = {}
        /\ Range(bur) \cap Range(stopped_instances_pending) = {}
        /\ Range(sorting) \cap Range(stopped_instances_pending) = {}
        /\ curr_bur \in Seq(Burstable) /\ stopped_instances_pending \in Seq(Burstable)
    BY <1>3, ListKinds DEF ListInv, AllApart, Apart
  \* only two steps exchange instances between the two lists
  <2>1. ASSUME Range(stopped_instances_pending') \subseteq Range(stopped_instances_pending),
               Range(curr_bur') \subseteq Range(curr_bur) \cup Range(sorting) \cup Range(bur)
        PROVE  Ordered
    BY <2>0, <2>1
  <2>2. CASE DrainBur
    <3>1. /\ mainPc = "draining" /\ curr_bur' = Tail(curr_bur)
      BY <2>2 DEF DrainBur
    <3>2. /\ curr_bur # <<>> /\ Range(curr_bur') \subseteq Range(curr_bur)
          /\ Range(stopped_instances_pending')
               = Range(stopped_instances_pending) \cup {Head(curr_bur)}
      BY <1>3, <2>2, DrainBurMoves
    <3>3. \A k \in Range(curr_bur') : creditBalance[Head(curr_bur)] <= creditBalance[k]
      <4> SUFFICES ASSUME NEW k \in DOMAIN Tail(curr_bur)
                   PROVE  creditBalance[Head(curr_bur)] <= creditBalance[Tail(curr_bur)[k]]
        BY <3>1 DEF Range
      <4> DEFINE t == Tail(curr_bur)
      <4>1. /\ 1 \in DOMAIN curr_bur /\ Head(curr_bur) = curr_bur[1]
            /\ k + 1 \in DOMAIN curr_bur /\ t[k] = curr_bur[k + 1] /\ 1 < k + 1
        BY <2>0, <3>2, TailPlaces
      <4>2. QED
        BY <1>3, <3>1, <4>1 DEF CreditSorted
    <3>4. QED
      BY <2>0, <3>2, <3>3
  <2>3. CASE ReuseDraining
    <3>1. /\ mainPc = "startBur"
          /\ stopped_instances_pending' = Tail(stopped_instances_pending)
      BY <2>3 DEF ReuseDraining
    <3> DEFINE i == Head(stopped_instances_pending)
    <3>2. /\ stopped_instances_pending # <<>>
          /\ Range(stopped_instances_pending') \subseteq Range(stopped_instances_pending)
          /\ Range(curr_bur') = Range(curr_bur) \cup {i}
      BY <1>3, <2>3, ReuseMoves
    <3>3. \A k \in Range(stopped_instances_pending') : creditBalance[k] <= creditBalance[i]
      <4> SUFFICES ASSUME NEW k \in DOMAIN Tail(stopped_instances_pending)
                   PROVE  creditBalance[Tail(stopped_instances_pending)[k]] <= creditBalance[i]
        BY <3>1 DEF Range
      <4> DEFINE t == Tail(stopped_instances_pending)
      <4>1. /\ 1 \in DOMAIN stopped_instances_pending /\ i = stopped_instances_pending[1]
            /\ k + 1 \in DOMAIN stopped_instances_pending
            /\ t[k] = stopped_instances_pending[k + 1] /\ 1 < k + 1
        BY <2>0, <3>2, TailPlaces
      <4>2. QED
        BY <1>3, <3>1, <4>1 DEF CreditSorted
    <3>4. QED
      BY <2>0, <3>2, <3>3
  <2>4. CASE StartBur
    <3>1. /\ Range(curr_bur') \subseteq Range(curr_bur) \cup Range(bur)
          /\ UNCHANGED stopped_instances_pending
      BY <1>3, <2>4, StartBurMoves
    <3>2. QED
      BY <2>1, <3>1
  <2>5. CASE SetStartUpNodes
    <3>1. /\ Range(curr_bur') \subseteq Range(bur) /\ UNCHANGED stopped_instances_pending
      BY <1>3, <2>5, StartUpMoves
    <3>2. QED
      BY <2>1, <3>1
  <2>6. CASE DrainStop
    <3>1. /\ Range(stopped_instances_pending') \subseteq Range(stopped_instances_pending)
          /\ UNCHANGED curr_bur
      BY <1>3, <2>6, DrainStopMoves
    <3>2. QED
      BY <2>1, <3>1
  <2>7. CASE RefreshPending \/ SortBegin \/ SortEnd \/ SortAtOnce
    BY <1>3, <2>1, <2>7, SortMoves
  <2>8. CASE Retire \/ StartOnD \/ StopOnD
    BY <2>1, <2>8 DEF Retire, StartOnD, StopOnD, inUseVars
  <2>9. CASE ~Moving
    BY <1>3, <2>1, <2>9, OthersKeepLists
  <2>10. QED
    BY <2>2, <2>3, <2>4, <2>5, <2>6, <2>7, <2>8, <2>9 DEF Moving
<1>4. ListInv /\ CreditSorted /\ [Next]_vars => [Ordered]_vars
  BY <1>3
<1>5. QED
  BY ListInvariant, <1>1, <1>2, <1>4, PTL DEF Spec, CreditOrder

-----------------------------------------------------------------------------
(* What nginx is told *)

\* no server is listed twice
Distinct(conf) == \A k, m \in DOMAIN conf : conf[k][1] = conf[m][1] => k = m

\* the entries for one list: its instances, in its order
LEMMA ListConf ==
  ASSUME TypeOK, NEW s \in Seq(Instances)
  PROVE  /\ IpWeights(s) \in Seq(Instances \X Nat) /\ Len(IpWeights(s)) = Len(s)
         /\ Servers(IpWeights(s)) = Range(s)
         /\ IsInjective(s) => Distinct(IpWeights(s))
<1>1. DOMAIN s = 1..Len(s) /\ Len(s) \in Nat
  BY LenProperties
<1>2. \A k \in 1..Len(s) : <<s[k], weight[s[k]]>> \in Instances \X Nat
  BY ElementOfSeq DEF TypeOK, NodeTypes
<1>3. IpWeights(s) \in [1..Len(s) -> Instances \X Nat]
  BY <1>1, <1>2 DEF IpWeights
<1>4. /\ DOMAIN IpWeights(s) = DOMAIN s
      /\ \A k \in DOMAIN s : IpWeights(s)[k][1] = s[k]
  BY DEF IpWeights
<1>5. IpWeights(s) \in Seq(Instances \X Nat) /\ Len(IpWeights(s)) = Len(s)
  BY <1>1, <1>3, <1>4, SeqDef, LenProperties
<1>6. QED
  BY <1>4, <1>5 DEF Servers, Distinct, Range, IsInjective

\* two such lists one after the other
LEMMA ConcatConf ==
  ASSUME NEW T, NEW s \in Seq(T), NEW t \in Seq(T)
  PROVE  /\ s \o t \in Seq(T) /\ Len(s \o t) = Len(s) + Len(t)
         /\ Servers(s \o t) = Servers(s) \cup Servers(t)
         /\ Distinct(s) /\ Distinct(t) /\ Servers(s) \cap Servers(t) = {} =>
              Distinct(s \o t)
<1> DEFINE u == s \o t
<1>1. /\ DOMAIN s = 1..Len(s) /\ Len(s) \in Nat
      /\ DOMAIN t = 1..Len(t) /\ Len(t) \in Nat
  BY LenProperties
<1>2. /\ u \in Seq(T) /\ Len(u) = Len(s) + Len(t) /\ DOMAIN u = 1..(Len(s) + Len(t))
      /\ \A k \in 1..(Len(s) + Len(t)) :
           u[k] = IF k <= Len(s) THEN s[k] ELSE t[k - Len(s)]
  BY ConcatProperties, LenProperties
<1> HIDE DEF u
<1>3. \A k \in DOMAIN u :
        \/ k \in DOMAIN s /\ u[k] = s[k]
        \/ k - Len(s) \in DOMAIN t /\ u[k] = t[k - Len(s)]
  BY <1>1, <1>2
<1>4. /\ \A k \in DOMAIN s : k \in DOMAIN u /\ u[k] = s[k]
      /\ \A k \in DOMAIN t : k + Len(s) \in DOMAIN u /\ u[k + Len(s)] = t[k]
  <2>1. \A k \in DOMAIN s : k \in DOMAIN u /\ u[k] = s[k]
    BY <1>1, <1>2
  <2>2. ASSUME NEW k \in DOMAIN t
        PROVE  k + Len(s) \in DOMAIN u /\ u[k + Len(s)] = t[k]
    <3>1. /\ k + Len(s) \in 1..(Len(s) + Len(t)) /\ ~(k + Len(s) <= Len(s))
          /\ (k + Len(s)) - Len(s) = k
      BY <1>1
    <3>2. QED
      BY <1>2, <3>1
  <2>3. QED
    BY <2>1, <2>2
<1>5. Servers(u) = Servers(s) \cup Servers(t)
  <2>1. ASSUME NEW k \in DOMAIN u PROVE u[k][1] \in Servers(s) \cup Servers(t)
    BY <1>3 DEF Servers
  <2>2. ASSUME NEW k \in DOMAIN s PROVE s[k][1] \in Servers(u)
    BY <1>4 DEF Servers
  <2>3. ASSUME NEW k \in DOMAIN t PROVE t[k][1] \in Servers(u)
    BY <1>4 DEF Servers
  <2>4. QED
    BY <2>1, <2>2, <2>3 DEF Servers
<1>6. ASSUME Distinct(s), Distinct(t), Servers(s) \cap Servers(t) = {}
      PROVE  Distinct(u)
  <2> SUFFICES ASSUME NEW k \in DOMAIN u, NEW m \in DOMAIN u, u[k][1] = u[m][1]
               PROVE  k = m
    BY DEF Distinct
  <2>1. CASE k \in DOMAIN s /\ u[k] = s[k]
    <3>1. CASE m \in DOMAIN s /\ u[m] = s[m]
      BY <1>6, <2>1, <3>1 DEF Distinct
    <3>2. CASE m - Len(s) \in DOMAIN t /\ u[m] = t[m - Len(s)]
      <4>1. u[k][1] \in Servers(s) /\ u[m][1] \in Servers(t)
        BY <2>1, <3>2 DEF Servers
      <4>2. QED
        BY <1>6, <4>1
    <3>3. QED
      BY <1>3, <3>1, <3>2
  <2>2. CASE k - Len(s) \in DOMAIN t /\ u[k] = t[k - Len(s)]
    <3>1. CASE m \in DOMAIN s /\ u[m] = s[m]
      <4>1. u[m][1] \in Servers(s) /\ u[k][1] \in Servers(t)
        BY <2>2, <3>1 DEF Servers
      <4>2. QED
        BY <1>6, <4>1
    <3>2. CASE m - Len(s) \in DOMAIN t /\ u[m] = t[m - Len(s)]
      <4>1. k - Len(s) = m - Len(s)
        BY <1>6, <2>2, <3>2 DEF Distinct
      <4>2. QED
        BY <1>1, <1>2, <4>1
    <3>3. QED
      BY <1>3, <3>1, <3>2
  <2>3. QED
    BY <1>3, <2>1, <2>2
<1>7. QED
  BY <1>2, <1>5, <1>6 DEF u

\* a list without repetition is as long as the set of its servers
LEMMA DistinctCount ==
  ASSUME NEW T, NEW conf \in Seq(T), Distinct(conf)
  PROVE  Len(conf) = Cardinality(Servers(conf))
<1> DEFINE f == [k \in 1..Len(conf) |-> conf[k][1]]
<1>1. DOMAIN conf = 1..Len(conf) /\ Len(conf) \in Nat
  BY LenProperties
<1>2. f \in [1..Len(conf) -> Servers(conf)]
  BY <1>1 DEF Servers
<1>3. \A x \in Servers(conf) : \E k \in 1..Len(conf) : f[k] = x
  BY <1>1 DEF Servers
<1>4. \A k, m \in 1..Len(conf) : f[k] = f[m] => k = m
  BY <1>1 DEF Distinct
<1> HIDE DEF f
<1>5. f \in Bijection(1..Len(conf), Servers(conf))
  BY <1>2, <1>3, <1>4 DEF Bijection, Injection, Surjection, IsInjective
<1>6. ExistsBijection(1..Len(conf), Servers(conf))
  BY <1>5 DEF ExistsBijection
<1>7. QED
  BY <1>1, <1>6, FS_CountingElements

\* The list updateConf builds names the instances of the three lists it goes
\* through, and names none twice if no instance is in two of them or twice in one.
LEMMA IpWeightServers ==
  ASSUME ListInv, NEW view \in Seq(Burstable)
  PROVE  /\ Servers(IpWeight(view)) = Range(curr_onD) \cup Range(view)
                                         \cup Range(stopped_instances_pending)
         /\ Len(IpWeight(view)) = Len(curr_onD) + Len(view)
                                     + Len(stopped_instances_pending)
         /\ IsInjective(view) /\ Range(view) \subseteq Range(curr_bur) \cup Range(sorting) =>
              Len(IpWeight(view)) = Cardinality(Servers(IpWeight(view)))
<1>1. /\ curr_onD \in Seq(Instances) /\ view \in Seq(Instances)
      /\ stopped_instances_pending \in Seq(Instances)
  BY DEF ListInv, TypeOK, ListTypes, Instances
<1>2. /\ IsInjective(curr_onD) /\ IsInjective(stopped_instances_pending)
      /\ Range(curr_onD) \cap (Range(curr_bur) \cup Range(sorting)) = {}
      /\ (Range(curr_onD) \cup Range(curr_bur) \cup Range(sorting))
           \cap Range(stopped_instances_pending) = {}
  BY DEF ListInv, AllApart, Apart
<1> DEFINE c1 == IpWeights(curr_onD)
           c2 == IpWeights(view)
           c3 == IpWeights(stopped_instances_pending)
           T == Instances \X Nat
<1>3. /\ c1 \in Seq(T) /\ Distinct(c1) /\ Servers(c1) = Range(curr_onD)
      /\ Len(c1) = Len(curr_onD)
      /\ c2 \in Seq(T) /\ Servers(c2) = Range(view) /\ Len(c2) = Len(view)
      /\ IsInjective(view) => Distinct(c2)
      /\ c3 \in Seq(T) /\ Distinct(c3)
      /\ Servers(c3) = Range(stopped_instances_pending)
      /\ Len(c3) = Len(stopped_instances_pending)
  BY <1>1, <1>2, ListConf DEF ListInv
<1> HIDE DEF c1, c2, c3, T
<1> DEFINE c12 == c1 \o c2
<1>4. /\ c12 \in Seq(T) /\ Len(c12) = Len(curr_onD) + Len(view)
      /\ Servers(c12) = Range(curr_onD) \cup Range(view)
      /\ IsInjective(view) /\ Range(curr_onD) \cap Range(view) = {} => Distinct(c12)
  <2>1. /\ c12 \in Seq(T) /\ Len(c12) = Len(c1) + Len(c2)
        /\ Servers(c12) = Servers(c1) \cup Servers(c2)
        /\ Distinct(c1) /\ Distinct(c2) /\ Servers(c1) \cap Servers(c2) = {} =>
             Distinct(c12)
    BY <1>3, ConcatConf
  <2> HIDE DEF c12
  <2>2. QED
    BY <1>3, <2>1
<1> HIDE DEF c12
<1>5. /\ c12 \o c3 \in Seq(T)
      /\ Len(c12 \o c3) = Len(curr_onD) + Len(view) + Len(stopped_instances_pending)
      /\ Servers(c12 \o c3) = Range(curr_onD) \cup Range(view)
                                       \cup Range(stopped_instances_pending)
      /\ Distinct(c12)
           /\ (Range(curr_onD) \cup Range(view)) \cap Range(stopped_instances_pending) = {}
         => Distinct(c12 \o c3)
  <2> DEFINE c == c12 \o c3
  <2>1. /\ c \in Seq(T) /\ Len(c) = Len(c12) + Len(c3)
        /\ Servers(c) = Servers(c12) \cup Servers(c3)
        /\ Distinct(c12) /\ Distinct(c3) /\ Servers(c12) \cap Servers(c3) = {} =>
             Distinct(c)
    BY <1>3, <1>4, ConcatConf
  <2> HIDE DEF c
  <2>2. /\ c \in Seq(T)
        /\ Len(c) = Len(curr_onD) + Len(view) + Len(stopped_instances_pending)
        /\ Servers(c) = Range(curr_onD) \cup Range(view)
                          \cup Range(stopped_instances_pending)
        /\ Distinct(c12)
             /\ (Range(curr_onD) \cup Range(view)) \cap Range(stopped_instances_pending) = {}
           => Distinct(c)
    BY <1>3, <1>4, <2>1
  <2>3. QED
    BY <2>2 DEF c
<1>6. IpWeight(view) = c12 \o c3
  BY DEF IpWeight, c1, c2, c3, c12
<1>7. ASSUME IsInjective(view), Range(view) \subseteq Range(curr_bur) \cup Range(sorting)
      PROVE  Len(IpWeight(view)) = Cardinality(Servers(IpWeight(view)))
  <2>1. /\ Range(curr_onD) \cap Range(view) = {}
        /\ (Range(curr_onD) \cup Range(view)) \cap Range(stopped_instances_pending) = {}
    BY <1>2, <1>7
  <2>2. Distinct(c12 \o c3)
    BY <1>4, <1>5, <1>7, <2>1
  <2>3. QED
    BY <1>5, <1>6, <2>2, DistinctCount
<1>8. QED
  BY <1>5, <1>6, <1>7

\* What a list says about the machines in use: all burstables when the loop over
\* curr_bur was not overtaken by the sort, else some, and no more entries in all.
Covering(conf) ==
  LET listed == Servers(conf)
      wanted == InUse \cup Range(stopped_instances_pending)
  IN  /\ listed \subseteq wanted
      /\ wanted \ listed \subseteq Range(curr_bur) \cup Range(sorting)
      /\ Len(conf) <= Cardinality(wanted)
      /\ mainPc \notin {"sortBur", "sortEnd"} =>
           listed = wanted /\ Len(conf) = Cardinality(wanted)

LEMMA ViewCovers ==
  ASSUME ListInv, NEW view \in BurViews
  PROVE  Covering(IpWeight(view))
<1> DEFINE wanted == InUse \cup Range(stopped_instances_pending)
           all == IF mainPc = "sortEnd" THEN sorting ELSE curr_bur
<1>1. /\ view \in Seq(Burstable) /\ Len(view) <= Len(curr_bur)
      /\ Range(view) \subseteq Range(curr_bur)
      /\ mainPc # "sortBur" => view = curr_bur
  BY ViewType DEF ListInv
<1>2. /\ curr_bur \in Seq(Burstable) /\ IsInjective(curr_bur)
      /\ sorting \in Seq(Burstable) /\ IsInjective(sorting)
  BY ListKinds DEF ListInv, AllApart, Apart
<1>3. /\ mainPc # "sortEnd" => Range(sorting) = {}
      /\ mainPc = "sortEnd" => curr_bur = <<>> /\ Range(curr_bur) = {}
  BY EmptyMoves DEF ListInv, ListsInPlace
<1>4. /\ all \in Seq(Burstable) /\ IsInjective(all) /\ Len(curr_bur) <= Len(all)
      /\ Range(all) = Range(curr_bur) \cup Range(sorting)
      /\ mainPc # "sortEnd" => all = curr_bur
  <2>1. /\ Len(curr_bur) \in Nat /\ Len(sorting) \in Nat
        /\ curr_bur = <<>> => Len(curr_bur) = 0
    BY <1>2, LenProperties
  <2>2. QED
    BY <1>2, <1>3, <2>1
<1> HIDE DEF all
<1>5. wanted = Range(curr_onD) \cup Range(all) \cup Range(stopped_instances_pending)
  BY <1>4 DEF InUse
<1>6. Len(curr_onD) + Len(all) + Len(stopped_instances_pending) = Cardinality(wanted)
  BY <1>4, <1>5, IpWeightServers
<1>7. /\ Servers(IpWeight(view)) = Range(curr_onD) \cup Range(view)
                                     \cup Range(stopped_instances_pending)
      /\ Len(IpWeight(view)) = Len(curr_onD) + Len(view) + Len(stopped_instances_pending)
  BY <1>1, IpWeightServers
<1>8. Len(IpWeight(view)) <= Cardinality(wanted)
  <2>1. /\ Len(curr_onD) \in Nat /\ Len(stopped_instances_pending) \in Nat
        /\ Len(view) \in Nat /\ Len(all) \in Nat /\ Len(curr_bur) \in Nat
    BY <1>1, <1>2, <1>4, LenProperties DEF ListInv, TypeOK, ListTypes
  <2>2. QED
    BY <1>1, <1>4, <1>6, <1>7, <2>1
<1>9. mainPc \notin {"sortBur", "sortEnd"} =>
        Servers(IpWeight(view)) = wanted /\ Len(IpWeight(view)) = Cardinality(wanted)
  BY <1>1, <1>4, <1>5, <1>6, <1>7
<1>10. /\ Servers(IpWeight(view)) \subseteq wanted
       /\ wanted \ Servers(IpWeight(view)) \subseteq Range(curr_bur) \cup Range(sorting)
  BY <1>1, <1>4, <1>5, <1>7
<1>11. QED
  BY <1>8, <1>9, <1>10 DEF Covering

\* ReloadCoversInUse: whatever configuration nginx takes lists exactly the serving
\* and the draining instances, each once; a list built while the main thread sorts
\* lacks or repeats burstables at most.  Lost deliveries do not change that.
THEOREM ReloadCorrect == Spec => ReloadCoversInUse
<1> DEFINE Covers ==
      lbConf' # lbConf /\ lbConf' # <<>> =>
        LET listed == Servers(lbConf')
            wanted == InUse \cup Range(stopped_instances_pending)
        IN  /\ listed \subseteq wanted
            /\ wanted \ listed \subseteq Range(curr_bur) \cup Range(sorting)
            /\ Len(lbConf') <= Cardinality(wanted)
            /\ mainPc \notin {"sortBur", "sortEnd"} =>
                 listed = wanted /\ Len(lbConf') = Cardinality(wanted)
<1>1. ASSUME ListInv, [Next]_vars
      PROVE  Covers
  <2>1. ASSUME NEW view \in BurViews, UpdateConf(IpWeight(view))
        PROVE  Covers
    <3>1. lbConf' = lbConf \/ lbConf' = IpWeight(view)
      BY <2>1 DEF UpdateConf
    <3>2. QED
      BY <1>1, <2>1, <3>1, ViewCovers DEF Covering
  <2>2. CASE UNCHANGED lbConf \/ lbConf' = <<>>
    BY <2>2
  <2>3. CASE FirstConf \/ Update
    <3>1. mainPc # "sortBur" => curr_bur \in BurViews
      BY DEF BurViews
    <3>2. QED
      BY <2>1, <2>3, <3>1 DEF FirstConf, Update, MainAt
  <2>4. CASE Shutdown
    BY <2>2, <2>4 DEF Shutdown
  <2>5. CASE MainStartUp /\ ~FirstConf
    BY <2>2, <2>5 DEF MainStartUp, SetStartUpNodes, StopUnused, BlockUnused,
       InitWeight, StartClient, StartShortTerm, OpenCost, lbVars
  <2>6. CASE MainRetires
    BY <2>2, <2>6 DEF MainRetires, LoopTest, ReadDrainCredit, DrainStop, DrainKeep,
       StopRetired, BlockStopped, Retire, RetireDone, FetchCredit, Estimate, lbVars
  <2>7. CASE MainOnD
    BY <2>2, <2>7 DEF MainOnD, ScaleOnD, StartOnD, StartOnDDone, BlockOnD, StopOnD,
       StopOnDDone, lbVars
  <2>8. CASE MainBur
    BY <2>2, <2>8 DEF MainBur, ScaleBur, RefreshPending, ReuseDraining, StartBur,
       StartBurDone, BlockBur, RefreshBur, SortBegin, SortEnd, SortAtOnce,
       DrainBurEnter, DrainBur, DrainBurDone, lbVars
  <2>9. CASE MainEnds /\ ~Shutdown
    BY <2>2, <2>9 DEF MainEnds, Join, CloseCost, WriteCost, lbVars
  <2>10. CASE Short /\ ~Update
    BY <2>2, <2>10 DEF Short, ShortLoopTest, GetLatency, Optimize, Reweigh, lbVars
  <2>11. CASE ClientEnds \/ (\E i \in Instances : MachineSettles(i)) \/ UNCHANGED vars
    BY <2>2, <2>11 DEF ClientEnds, MachineSettles, vars, lbVars
  <2>12. QED
    BY <1>1, <2>3, <2>4, <2>5, <2>6, <2>7, <2>8, <2>9, <2>10, <2>11
       DEF Next, Main, Ended
<1>2. ListInv /\ [Next]_vars => [Covers]_vars
  BY <1>1
<1>3. QED
  BY ListInvariant, <1>2, PTL DEF Spec, ReloadCoversInUse


-----------------------------------------------------------------------------
(* Power *)

\* the positions of the main thread between start-up and shutdown at which no
\* machine is being stopped
Steady == (LoopPcs \ {"blockStopped", "retire"})
            \cup {"initWeight", "firstConf", "startClient", "startShort", "openCost"}

\* A step that only moves the main thread, and closes no window early, keeps
\* every promise about power.
LEMMA PowerKept ==
  ASSUME PowerInv, mainPc \in Steady, mainPc' \in Steady,
         UNCHANGED <<onD, bur, curr_onD, curr_bur, sorting,
                     stopped_instances_pending, stopped_instances, ec2>>,
         mainPc \in {"startOnD", "blockOnD"} =>
           mainPc' \in {"startOnD", "blockOnD"} /\ UNCHANGED added,
         mainPc \in {"startBur", "blockBur"} =>
           mainPc' \in {"startBur", "blockBur"} /\ UNCHANGED added
  PROVE  PowerInv'
<1>1. /\ mainPc \notin {"setStartUp", "stopUnused", "blockUnused", "blockStopped",
                        "retire"} \cup EndPcs
      /\ mainPc' \notin {"setStartUp", "stopUnused", "blockUnused", "blockStopped",
                         "retire"} \cup EndPcs
  BY DEF Steady, LoopPcs, EndPcs
<1>2. UNCHANGED Pool
  BY DEF Pool
<1>3. PoolIsStopped'
  BY <1>1, <1>2 DEF PowerInv, PoolIsStopped
<1>4. InUseIsUp'
  BY <1>1 DEF PowerInv, InUseIsUp
<1>5. QED
  BY <1>1, <1>3, <1>4 DEF PowerInv

\* The steps that move nothing: waiting for machines, stopping them, the rest.
LEMMA PowerOthers ==
  ASSUME ListInv, PowerInv, [Next]_vars, ~Moving
  PROVE  PowerInv'
<1>0. UNCHANGED <<onD, bur, curr_onD, curr_bur, sorting,
                  stopped_instances_pending, stopped_instances>>
  BY OthersKeepLists
<1>1. UNCHANGED Pool
  BY <1>0 DEF Pool
<1> USE DEF MainAt
<1>2. CASE StopUnused
  <2>1. \A i \in Instances : ec2[i] = "running"
    BY <1>2 DEF StopUnused, PowerInv
  <2>2. /\ Pool \subseteq Instances
        /\ Range(curr_onD) \cap Pool = {} /\ Range(curr_bur) \cap Pool = {}
        /\ Range(sorting) \cap Pool = {} /\ Range(stopped_instances) \cap Pool = {}
        /\ Range(stopped_instances_pending) \cap Pool = {}
        /\ Range(curr_onD) \subseteq Instances /\ Range(curr_bur) \subseteq Instances
        /\ Range(sorting) \subseteq Instances /\ Range(stopped_instances) \subseteq Instances
        /\ Range(stopped_instances_pending) \subseteq Instances
    BY DEF ListInv, AllApart, Apart, Pool
  <2>3. \A i \in Instances : ec2'[i] = IF i \in Pool THEN "stopping" ELSE "running"
    BY <1>2, <2>1 DEF StopUnused, StopInstances, Pool
  <2>4. /\ \A k \in DOMAIN curr_onD : ec2'[curr_onD[k]] = "running"
        /\ \A k \in DOMAIN curr_bur : ec2'[curr_bur[k]] = "running"
    BY <2>2, <2>3 DEF Range
  <2>5. mainPc' = "blockUnused"
    BY <1>2 DEF StopUnused
  <2>6. QED
    BY <1>0, <1>1, <2>2, <2>3, <2>4, <2>5 DEF PowerInv, PoolIsStopped, InUseIsUp
<1>3. CASE BlockUnused
  <2>1. mainPc = "blockUnused" /\ mainPc' = "initWeight" /\ UNCHANGED ec2
    BY <1>3 DEF BlockUnused
  <2>2. \A i \in Pool : ec2[i] = "stopped"
    BY <1>3 DEF BlockUnused, AllStopped, Pool
  <2>3. InUseIsUp'
    BY <1>0, <2>1 DEF PowerInv, InUseIsUp, EndPcs
  <2>4. PoolIsStopped'
    BY <1>1, <2>1, <2>2 DEF PoolIsStopped
  <2>5. QED
    BY <1>0, <2>1, <2>3, <2>4 DEF PowerInv, EndPcs
<1>4. CASE InitWeight \/ FirstConf \/ StartClient \/ StartShortTerm \/ OpenCost
  <2>1. /\ mainPc \in {"initWeight", "firstConf", "startClient", "startShort", "openCost"}
        /\ mainPc' \in {"firstConf", "startClient", "startShort", "openCost", "loop"}
        /\ UNCHANGED ec2
    BY <1>4 DEF InitWeight, FirstConf, StartClient, StartShortTerm, OpenCost
  <2>2. QED
    BY <1>0, <2>1, PowerKept DEF Steady, LoopPcs
<1>5. CASE StopRetired
  <2>1. \A i \in Range(stopped_instances) : ec2[i] = "running"
    BY <1>5 DEF StopRetired, PowerInv, EndPcs
  <2>2. /\ Range(stopped_instances) \subseteq Instances
        /\ Pool \subseteq Instances /\ Range(stopped_instances) \cap Pool = {}
        /\ Range(curr_onD) \subseteq Instances /\ Range(curr_bur) \subseteq Instances
        /\ Range(sorting) \subseteq Instances
        /\ Range(stopped_instances_pending) \subseteq Instances
        /\ Range(stopped_instances) \cap Range(curr_onD) = {}
        /\ Range(stopped_instances) \cap Range(curr_bur) = {}
        /\ Range(stopped_instances) \cap Range(sorting) = {}
        /\ Range(stopped_instances) \cap Range(stopped_instances_pending) = {}
    BY DEF ListInv, AllApart, Apart, Pool
  <2>3. \A i \in Instances :
          ec2'[i] = IF i \in Range(stopped_instances) THEN "stopping" ELSE ec2[i]
    BY <1>5, <2>1 DEF StopRetired, StopInstances
  <2>4. /\ \A k \in DOMAIN curr_onD : ec2'[curr_onD[k]] = ec2[curr_onD[k]]
        /\ \A k \in DOMAIN curr_bur : ec2'[curr_bur[k]] = ec2[curr_bur[k]]
    BY <2>2, <2>3 DEF Range
  <2>5. mainPc = "drain" /\ mainPc' = "blockStopped"
    BY <1>5 DEF StopRetired
  <2>6. QED
    BY <1>0, <1>1, <2>2, <2>3, <2>4, <2>5 DEF PowerInv, PoolIsStopped, InUseIsUp, EndPcs
<1>6. CASE BlockStopped
  BY <1>0, <1>1, <1>6
     DEF BlockStopped, AllStopped, PowerInv, PoolIsStopped, InUseIsUp, EndPcs
<1>7. CASE RetireDone
  <2>1. Range(stopped_instances) = {}
    <3>1. Len(stopped_instances) = 0 /\ stopped_instances \in Seq(Instances)
      BY <1>7, ListKinds DEF RetireDone, ListInv, Indices
    <3>2. QED
      BY <3>1, EmptySeq, EmptyMoves
  <2>2. QED
    BY <1>0, <1>1, <1>7, <2>1 DEF RetireDone, PowerInv, PoolIsStopped, InUseIsUp, EndPcs
<1>8. CASE LoopTest \/ ReadDrainCredit \/ DrainKeep \/ FetchCredit \/ Estimate
  BY <1>0, <1>8, PowerKept
     DEF LoopTest, ReadDrainCredit, DrainKeep, FetchCredit, Estimate, Steady, LoopPcs
<1>9. CASE ScaleOnD \/ StartOnDDone \/ StopOnDDone
  BY <1>0, <1>9, PowerKept
     DEF ScaleOnD, StartOnDDone, StopOnDDone, Steady, LoopPcs, mainLocals
<1>10. CASE BlockOnD
  <2>1. \A k \in DOMAIN curr_onD : ec2[curr_onD[k]] = "running"
    <3>1. DOMAIN curr_onD = 1..Len(curr_onD) /\ Len(curr_onD) \in Nat /\ added \in Nat
      BY ListKinds, LenProperties DEF ListInv, TypeOK, LocalTypes
    <3>2. \A k \in DOMAIN curr_onD :
            k > Len(curr_onD) - added => k \in NewlyAdded(curr_onD)
      BY <3>1 DEF NewlyAdded
    <3>3. QED
      BY <1>10, <3>2 DEF BlockOnD, PowerInv, InUseIsUp, EndPcs
  <2>2. QED
    BY <1>0, <1>1, <1>10, <2>1 DEF BlockOnD, PowerInv, PoolIsStopped, InUseIsUp, EndPcs
<1>11. CASE ScaleBur \/ StartBurDone \/ RefreshBur \/ DrainBurEnter \/ DrainBurDone
  BY <1>0, <1>11, PowerKept
     DEF ScaleBur, StartBurDone, RefreshBur, DrainBurEnter, DrainBurDone, Steady,
         LoopPcs, mainLocals
<1>12. CASE BlockBur
  <2>1. \A k \in DOMAIN curr_bur : ec2[curr_bur[k]] = "running"
    <3>1. DOMAIN curr_bur = 1..Len(curr_bur) /\ Len(curr_bur) \in Nat /\ added \in Nat
      BY ListKinds, LenProperties DEF ListInv, TypeOK, LocalTypes
    <3>2. \A k \in DOMAIN curr_bur :
            k > Len(curr_bur) - added => k \in NewlyAdded(curr_bur)
      BY <3>1 DEF NewlyAdded
    <3>3. QED
      BY <1>12, <3>2 DEF BlockBur, PowerInv, InUseIsUp, EndPcs
  <2>2. QED
    BY <1>0, <1>1, <1>12, <2>1 DEF BlockBur, PowerInv, PoolIsStopped, InUseIsUp, EndPcs
<1>13. CASE Join
  BY <1>0, <1>13, PowerKept DEF Join, Steady, LoopPcs, mainLocals
<1>14. CASE Shutdown \/ CloseCost \/ WriteCost
  <2>1. mainPc' \in EndPcs
    BY <1>14 DEF Shutdown, CloseCost, WriteCost, EndPcs
  <2>2. QED
    BY <2>1 DEF PowerInv, PoolIsStopped, InUseIsUp, EndPcs
<1>15. CASE Short \/ ClientEnds \/ UNCHANGED vars
  <2>1. UNCHANGED <<mainPc, ec2, added>>
    BY <1>15 DEF Short, ShortLoopTest, GetLatency, Optimize, Reweigh, Update,
       ClientEnds, vars, threadVars, mainLocals
  <2>2. QED
    BY <1>0, <1>1, <2>1 DEF PowerInv, PoolIsStopped, InUseIsUp
<1>16. CASE \E i \in Instances : MachineSettles(i)
  <2>1. PICK i \in Instances : MachineSettles(i)
    BY <1>16
  <2>2. \A x \in Instances : /\ ec2[x] = "running" => ec2'[x] = "running"
                             /\ ec2[x] = "stopped" => ec2'[x] = "stopped"
                             /\ ec2[x] = "stopping" => ec2'[x] \in {"stopping", "stopped"}
    BY <2>1 DEF MachineSettles, ListInv, TypeOK, OutsideTypes
  <2>3. UNCHANGED <<mainPc, added>>
    BY <2>1 DEF MachineSettles, threadVars, mainLocals
  <2>4. /\ Pool \subseteq Instances /\ Range(stopped_instances) \subseteq Instances
        /\ \A k \in DOMAIN curr_onD : curr_onD[k] \in Instances
        /\ \A k \in DOMAIN curr_bur : curr_bur[k] \in Instances
        /\ Range(sorting) \subseteq Instances
        /\ Range(stopped_instances_pending) \subseteq Instances
    BY DEF ListInv, AllApart, Apart, Pool, Range
  <2>5. QED
    BY <1>0, <1>1, <2>2, <2>3, <2>4 DEF PowerInv, PoolIsStopped, InUseIsUp
<1>17. QED
  BY <1>2, <1>3, <1>4, <1>5, <1>6, <1>7, <1>8, <1>9, <1>10, <1>11, <1>12, <1>13,
     <1>14, <1>15, <1>16
     DEF Next, Main, MainStartUp, MainRetires, MainOnD, MainBur, MainEnds, Ended, Moving

\* an element that is outside a list is not at any of its places
LEMMA NotAtAnyPlace ==
  ASSUME NEW s, NEW x, x \notin Range(s)
  PROVE  \A k \in DOMAIN s : s[k] # x
  BY DEF Range

\* The steps that move instances: each takes them from a list where they are in
\* the state that their new list promises.
LEMMA PowerMoves ==
  ASSUME ListInv, PowerInv, Moving
  PROVE  PowerInv'
<1> USE DEF MainAt
<1>1. CASE SetStartUpNodes
  <2>1. mainPc = "setStartUp" /\ mainPc' = "stopUnused" /\ UNCHANGED ec2
    BY <1>1 DEF SetStartUpNodes
  <2>2. \A i \in Instances : ec2'[i] = "running"
    BY <2>1 DEF PowerInv
  <2>3. AllApart'
    BY <1>1, StartUpMoves
  <2>4. /\ Range(curr_onD') \subseteq Instances /\ Range(curr_bur') \subseteq Instances
        /\ Range(sorting') \subseteq Instances
        /\ Range(stopped_instances_pending') \subseteq Instances
        /\ Range(stopped_instances') \subseteq Instances
    BY <2>3 DEF AllApart, Apart
  <2>5. InUseIsUp'
    BY <2>2, <2>4 DEF InUseIsUp, Range
  <2>6. QED
    BY <2>1, <2>2, <2>4, <2>5 DEF PowerInv, PoolIsStopped, EndPcs
<1>2. CASE DrainStop
  <2> DEFINE i == stopped_instances_pending[j + 1]
  <2>1. mainPc = "drainDecide" /\ mainPc' = "drain" /\ UNCHANGED ec2
    BY <1>2 DEF DrainStop
  <2>2. /\ i \in Range(stopped_instances_pending)
        /\ Range(stopped_instances_pending') = Range(stopped_instances_pending) \ {i}
        /\ Range(stopped_instances') = Range(stopped_instances) \cup {i}
        /\ UNCHANGED <<onD, bur, curr_onD, curr_bur, sorting>>
    BY <1>2, DrainStopMoves
  <2> HIDE DEF i
  <2>3. PoolIsStopped' /\ InUseIsUp'
    BY <2>1, <2>2 DEF PowerInv, PoolIsStopped, InUseIsUp, Pool, EndPcs
  <2>4. QED
    BY <2>1, <2>2, <2>3 DEF PowerInv, InUseIsUp, EndPcs
<1>3. CASE Retire
  <2> DEFINE i == Head(stopped_instances)
  <2>1. mainPc = "retire" /\ mainPc' = "retire" /\ UNCHANGED ec2
    BY <1>3 DEF Retire
  <2>2. /\ i \in Range(stopped_instances)
        /\ Range(stopped_instances') = Range(stopped_instances) \ {i}
        /\ Pool' = Pool \cup {i}
        /\ UNCHANGED <<curr_onD, curr_bur, sorting, stopped_instances_pending>>
    BY <1>3, RetireMoves DEF Pool
  <2> HIDE DEF i
  <2>3. PoolIsStopped' /\ InUseIsUp'
    BY <2>1, <2>2 DEF PowerInv, PoolIsStopped, InUseIsUp, EndPcs
  <2>4. QED
    BY <2>1, <2>2, <2>3 DEF PowerInv
<1>4. CASE StartOnD
  <2> DEFINE i == Head(onD)
  <2>1. /\ mainPc = "startOnD" /\ mainPc' = "startOnD"
        /\ ec2' = [ec2 EXCEPT ![i] = IF @ = "stopped" THEN "pending" ELSE @]
        /\ curr_onD' = Append(curr_onD, i) /\ added' = added + 1
    BY <1>4 DEF StartOnD, StartInstance
  <2>2. /\ AllApart' /\ i \in Range(onD) /\ i \notin Range(curr_onD)
        /\ Range(onD') = Range(onD) \ {i}
        /\ Range(curr_onD') = Range(curr_onD) \cup {i}
        /\ UNCHANGED <<bur, curr_bur, sorting, stopped_instances_pending,
                       stopped_instances>>
    BY <1>4, StartOnDMoves
  <2>3. /\ i \notin Pool' /\ Pool' \subseteq Pool /\ Pool \subseteq Instances
        /\ i \notin Range(curr_bur) /\ i \notin Range(sorting)
        /\ i \notin Range(stopped_instances_pending) /\ i \notin Range(stopped_instances)
        /\ i \in Instances
    BY <2>2 DEF Pool, AllApart, Apart
  <2>4. \A x : x # i => ec2'[x] = ec2[x]
    BY <2>1, <2>3 DEF ListInv, TypeOK, OutsideTypes
  <2>5. /\ curr_onD \in Seq(OnDemand) /\ i \in OnDemand /\ Len(curr_onD) \in Nat
        /\ added \in Nat /\ DOMAIN curr_onD = 1..Len(curr_onD)
    BY <2>2, ListKinds, LenProperties DEF ListInv, TypeOK, LocalTypes
  <2>6. /\ DOMAIN curr_onD' = 1..(Len(curr_onD) + 1) /\ Len(curr_onD') = Len(curr_onD) + 1
        /\ \A k \in 1..Len(curr_onD) : curr_onD'[k] = curr_onD[k]
    BY <2>1, <2>5, AppendProperties, LenProperties
  <2> HIDE DEF i
  <2>7. \A k \in DOMAIN curr_onD' :
           ec2'[curr_onD'[k]] = "running" \/ k > Len(curr_onD') - added'
    <3> SUFFICES ASSUME NEW k \in 1..(Len(curr_onD) + 1), ~(k > Len(curr_onD) - added)
                 PROVE  ec2'[curr_onD'[k]] = "running"
      BY <2>1, <2>5, <2>6
    <3>1. k \in 1..Len(curr_onD)
      BY <2>5
    <3>2. ec2[curr_onD[k]] = "running"
      BY <2>1, <2>5, <3>1 DEF PowerInv, InUseIsUp, EndPcs
    <3>3. curr_onD[k] # i
      BY <2>2, <2>5, <3>1, NotAtAnyPlace
    <3>4. QED
      BY <2>4, <2>6, <3>1, <3>2, <3>3
  <2>8. \A k \in DOMAIN curr_bur' : ec2'[curr_bur'[k]] = "running"
    BY <2>1, <2>2, <2>3, <2>4, NotAtAnyPlace DEF PowerInv, InUseIsUp, EndPcs
  <2>9. InUseIsUp'
    BY <2>1, <2>2, <2>3, <2>4, <2>7, <2>8 DEF PowerInv, InUseIsUp, EndPcs
  <2>10. PoolIsStopped'
    BY <2>1, <2>3, <2>4 DEF PowerInv, PoolIsStopped, EndPcs
  <2>11. QED
    BY <2>1, <2>2, <2>3, <2>4, <2>9, <2>10 DEF PowerInv, EndPcs
<1>5. CASE StopOnD
  <2> DEFINE i == Head(curr_onD)
  <2>1. mainPc = "stopOnD" /\ mainPc' = "stopOnD" /\ UNCHANGED ec2
    BY <1>5 DEF StopOnD
  <2>2. /\ i \in Range(curr_onD) /\ Range(curr_onD') = Range(curr_onD) \ {i}
        /\ Range(stopped_instances') = Range(stopped_instances) \cup {i}
        /\ UNCHANGED <<onD, bur, curr_bur, sorting, stopped_instances_pending>>
    BY <1>5, StopOnDMoves
  <2> HIDE DEF i
  <2>3. \A x \in Range(curr_onD) : ec2[x] = "running"
    BY <2>1 DEF PowerInv, InUseIsUp, Range, EndPcs
  <2>4. \A k \in DOMAIN curr_onD' : ec2'[curr_onD'[k]] = "running"
    BY <2>1, <2>2, <2>3 DEF Range
  <2>5. PoolIsStopped'
    BY <2>1, <2>2 DEF PowerInv, PoolIsStopped, Pool, EndPcs
  <2>6. InUseIsUp'
    BY <2>1, <2>2, <2>4 DEF PowerInv, InUseIsUp, EndPcs
  <2>7. QED
    BY <2>1, <2>2, <2>3, <2>5, <2>6 DEF PowerInv, EndPcs
<1>6. CASE ReuseDraining
  <2> DEFINE i == Head(stopped_instances_pending)
  <2>1. /\ mainPc = "startBur" /\ mainPc' = "startBur" /\ UNCHANGED ec2
        /\ curr_bur' = Append(curr_bur, i) /\ added' = added + 1
    BY <1>6 DEF ReuseDraining
  <2>2. /\ i \in Range(stopped_instances_pending)
        /\ Range(stopped_instances_pending') = Range(stopped_instances_pending) \ {i}
        /\ UNCHANGED <<onD, bur, curr_onD, sorting, stopped_instances>>
    BY <1>6, ReuseMoves
  <2>3. /\ curr_bur \in Seq(Burstable) /\ i \in Burstable /\ Len(curr_bur) \in Nat
        /\ added \in Nat /\ DOMAIN curr_bur = 1..Len(curr_bur)
    BY <2>2, ListKinds, LenProperties DEF ListInv, TypeOK, LocalTypes
  <2>4. /\ DOMAIN curr_bur' = 1..(Len(curr_bur) + 1) /\ Len(curr_bur') = Len(curr_bur) + 1
        /\ \A k \in 1..Len(curr_bur) : curr_bur'[k] = curr_bur[k]
    BY <2>1, <2>3, AppendProperties, LenProperties
  <2> HIDE DEF i
  <2>5. \A k \in DOMAIN curr_bur' :
           ec2'[curr_bur'[k]] = "running" \/ k > Len(curr_bur') - added'
    <3> SUFFICES ASSUME NEW k \in 1..(Len(curr_bur) + 1), ~(k > Len(curr_bur) - added)
                 PROVE  ec2'[curr_bur'[k]] = "running"
      BY <2>1, <2>3, <2>4
    <3>1. k \in 1..Len(curr_bur)
      BY <2>3
    <3>2. QED
      BY <2>1, <2>3, <2>4, <3>1 DEF PowerInv, InUseIsUp, EndPcs
  <2>6. PoolIsStopped'
    BY <2>1, <2>2 DEF PowerInv, PoolIsStopped, Pool, EndPcs
  <2>7. InUseIsUp'
    BY <2>1, <2>2, <2>5 DEF PowerInv, InUseIsUp, EndPcs
  <2>8. QED
    BY <2>1, <2>2, <2>6, <2>7 DEF PowerInv, EndPcs
<1>7. CASE StartBur
  <2> DEFINE i == Head(bur)
  <2>1. /\ mainPc = "startBur" /\ mainPc' = "startBur"
        /\ ec2' = [ec2 EXCEPT ![i] = IF @ = "stopped" THEN "pending" ELSE @]
        /\ curr_bur' = Append(curr_bur, i) /\ added' = added + 1
    BY <1>7 DEF StartBur, StartInstance
  <2>2. /\ AllApart' /\ i \in Range(bur) /\ i \notin Range(curr_bur)
        /\ Range(bur') = Range(bur) \ {i}
        /\ Range(curr_bur') = Range(curr_bur) \cup {i}
        /\ UNCHANGED <<onD, curr_onD, sorting, stopped_instances_pending,
                       stopped_instances>>
    BY <1>7, StartBurMoves
  <2>3. /\ i \notin Pool' /\ Pool' \subseteq Pool /\ Pool \subseteq Instances
        /\ i \notin Range(curr_onD) /\ i \notin Range(sorting)
        /\ i \notin Range(stopped_instances_pending) /\ i \notin Range(stopped_instances)
        /\ i \in Instances
    BY <2>2 DEF Pool, AllApart, Apart
  <2>4. \A x : x # i => ec2'[x] = ec2[x]
    BY <2>1, <2>3 DEF ListInv, TypeOK, OutsideTypes
  <2>5. /\ curr_bur \in Seq(Burstable) /\ i \in Burstable /\ Len(curr_bur) \in Nat
        /\ added \in Nat /\ DOMAIN curr_bur = 1..Len(curr_bur)
    BY <2>2, ListKinds, LenProperties DEF ListInv, TypeOK, LocalTypes
  <2>6. /\ DOMAIN curr_bur' = 1..(Len(curr_bur) + 1) /\ Len(curr_bur') = Len(curr_bur) + 1
        /\ \A k \in 1..Len(curr_bur) : curr_bur'[k] = curr_bur[k]
    BY <2>1, <2>5, AppendProperties, LenProperties
  <2> HIDE DEF i
  <2>7. \A k \in DOMAIN curr_bur' :
           ec2'[curr_bur'[k]] = "running" \/ k > Len(curr_bur') - added'
    <3> SUFFICES ASSUME NEW k \in 1..(Len(curr_bur) + 1), ~(k > Len(curr_bur) - added)
                 PROVE  ec2'[curr_bur'[k]] = "running"
      BY <2>1, <2>5, <2>6
    <3>1. k \in 1..Len(curr_bur)
      BY <2>5
    <3>2. ec2[curr_bur[k]] = "running"
      BY <2>1, <2>5, <3>1 DEF PowerInv, InUseIsUp, EndPcs
    <3>3. curr_bur[k] # i
      BY <2>2, <2>5, <3>1, NotAtAnyPlace
    <3>4. QED
      BY <2>4, <2>6, <3>1, <3>2, <3>3
  <2>8. \A k \in DOMAIN curr_onD' : ec2'[curr_onD'[k]] = "running"
    BY <2>1, <2>2, <2>3, <2>4, NotAtAnyPlace DEF PowerInv, InUseIsUp, EndPcs
  <2>9. InUseIsUp'
    BY <2>1, <2>2, <2>3, <2>4, <2>7, <2>8 DEF PowerInv, InUseIsUp, EndPcs
  <2>10. PoolIsStopped'
    BY <2>1, <2>3, <2>4 DEF PowerInv, PoolIsStopped, EndPcs
  <2>11. QED
    BY <2>1, <2>2, <2>3, <2>4, <2>9, <2>10 DEF PowerInv, EndPcs
<1>8. CASE DrainBur
  <2> DEFINE i == Head(curr_bur)
  <2>1. mainPc = "draining" /\ mainPc' = "draining" /\ UNCHANGED ec2
    BY <1>8 DEF DrainBur
  <2>2. /\ i \in Range(curr_bur) /\ Range(curr_bur') = Range(curr_bur) \ {i}
        /\ Range(stopped_instances_pending')
             = Range(stopped_instances_pending) \cup {i}
        /\ UNCHANGED <<onD, bur, curr_onD, sorting, stopped_instances>>
    BY <1>8, DrainBurMoves
  <2> HIDE DEF i
  <2>3. \A x \in Range(curr_bur) : ec2[x] = "running"
    BY <2>1 DEF PowerInv, InUseIsUp, Range, EndPcs
  <2>4. \A k \in DOMAIN curr_bur' : ec2'[curr_bur'[k]] = "running"
    BY <2>1, <2>2, <2>3 DEF Range
  <2>5. PoolIsStopped'
    BY <2>1, <2>2 DEF PowerInv, PoolIsStopped, Pool, EndPcs
  <2>6. InUseIsUp'
    BY <2>1, <2>2, <2>3, <2>4 DEF PowerInv, InUseIsUp, EndPcs
  <2>7. QED
    BY <2>1, <2>2, <2>5, <2>6 DEF PowerInv, EndPcs
<1>9. CASE RefreshPending \/ SortBegin \/ SortEnd \/ SortAtOnce
  <2>1. /\ mainPc \in {"refreshPending", "sortBur", "sortEnd"}
        /\ mainPc' \in {"startBur", "sortEnd", "drainBur"} /\ UNCHANGED ec2
    BY <1>9 DEF RefreshPending, SortBegin, SortEnd, SortAtOnce
  <2>2. /\ Range(stopped_instances_pending') = Range(stopped_instances_pending)
        /\ Range(curr_bur') \cup Range(sorting') = Range(curr_bur) \cup Range(sorting)
        /\ UNCHANGED <<onD, bur, curr_onD, stopped_instances>>
    BY <1>9, SortMoves
  <2>3. \A x \in Range(curr_bur) \cup Range(sorting) : ec2[x] = "running"
    BY <2>1 DEF PowerInv, InUseIsUp, Range, EndPcs
  <2>4. \A k \in DOMAIN curr_bur' : ec2'[curr_bur'[k]] = "running"
    BY <2>1, <2>2, <2>3 DEF Range
  <2>5. PoolIsStopped'
    BY <2>1, <2>2 DEF PowerInv, PoolIsStopped, Pool, EndPcs
  <2>6. InUseIsUp'
    BY <2>1, <2>2, <2>3, <2>4 DEF PowerInv, InUseIsUp, EndPcs
  <2>7. QED
    BY <2>1, <2>2, <2>5, <2>6 DEF PowerInv, EndPcs
<1>10. QED
  BY <1>1, <1>2, <1>3, <1>4, <1>5, <1>6, <1>7, <1>8, <1>9 DEF Moving

\* PowerInv is an invariant.
LEMMA PowerInvariant == Spec => []PowerInv
<1>1. Init => PowerInv
  <2> SUFFICES ASSUME Init PROVE PowerInv
    OBVIOUS
  <2>1. /\ mainPc = "setStartUp" /\ \A i \in Instances : ec2[i] = "running"
        /\ curr_onD = <<>> /\ curr_bur = <<>> /\ sorting = <<>>
        /\ stopped_instances_pending = <<>> /\ stopped_instances = <<>>
    BY DEF Init
  <2>2. QED
    BY <2>1, EmptyMoves DEF PowerInv, PoolIsStopped, InUseIsUp
<1>2. ListInv /\ PowerInv /\ [Next]_vars => PowerInv'
  BY PowerMoves, PowerOthers
<1>3. QED
  BY ListInvariant, <1>1, <1>2, PTL DEF Spec

\* PoolIsStopped: for any fleet, an instance that waits in a pool is switched
\* off, so starting it finds it "stopped".
THEOREM PoolCorrect == Spec => []PoolIsStopped
<1>1. PowerInv => PoolIsStopped
  BY DEF PowerInv
<1>2. QED
  BY PowerInvariant, <1>1, PTL

\* InUseIsUp: for any fleet, only the instances added last, and only until the
\* main thread has waited for them, may be in use and not up.
THEOREM InUseCorrect == Spec => []InUseIsUp
<1>1. PowerInv => InUseIsUp
  BY DEF PowerInv
<1>2. QED
  BY PowerInvariant, <1>1, PTL

-----------------------------------------------------------------------------
(* The bills *)

\* A step that rents and returns nothing leaves the bills right.
LEMMA LedgerKept ==
  ASSUME LedgerInv, mainPc \in LoopPcs, mainPc' \in LoopPcs,
         UNCHANGED <<Rented, cost>>
  PROVE  LedgerInv'
<1>1. mainPc' \notin StartUpPcs
  BY DEF StartUpPcs, LoopPcs
<1>2. QED
  BY <1>1 DEF LedgerInv, LedgerMatchesRental

\* Every step keeps the bills and the rentals together.
LEMMA LedgerStep ==
  ASSUME ListInv, LedgerInv, [Next]_vars
  PROVE  LedgerInv'
<1> USE DEF MainAt
<1>0. cost \in [Instances -> {"none", "open", "closed"}]
  BY DEF ListInv, TypeOK, OutsideTypes
<1>1. CASE MainStartUp /\ ~OpenCost
  <2>1. /\ mainPc \in StartUpPcs /\ mainPc' \in StartUpPcs
        /\ UNCHANGED <<cost, stopped_instances_pending, stopped_instances>>
    BY <1>1 DEF MainStartUp, SetStartUpNodes, StopUnused, BlockUnused, InitWeight,
       FirstConf, StartClient, StartShortTerm, StartUpPcs, poolVars, inUseVars
  <2>2. mainPc' \notin LoopPcs
    BY <2>1 DEF StartUpPcs, LoopPcs
  <2>3. QED
    BY <2>1, <2>2 DEF LedgerInv, LedgerMatchesRental
<1>2. CASE OpenCost
  <2>1. /\ mainPc = "openCost" /\ mainPc' = "loop"
        /\ UNCHANGED <<curr_onD, curr_bur, sorting, stopped_instances_pending,
                       stopped_instances>>
    BY <1>2 DEF OpenCost, poolVars, inUseVars
  <2>2. /\ stopped_instances_pending = <<>> /\ stopped_instances = <<>>
        /\ sorting = <<>> /\ \A i \in Instances : cost[i] # "open"
    BY <2>1 DEF LedgerInv, StartUpPcs, ListInv, ListsInPlace
  <2>3. Rented' = Range(curr_onD) \cup Range(curr_bur)
    BY <2>1, <2>2, EmptyMoves DEF Rented, InUse
  <2>4. \A i \in Instances :
           cost'[i] = IF i \in Range(curr_onD) \cup Range(curr_bur) THEN "open" ELSE cost[i]
    BY <1>2 DEF OpenCost
  <2>5. \A i \in Instances : cost'[i] = "open" <=> i \in Rented'
    BY <2>2, <2>3, <2>4
  <2>6. mainPc' \notin StartUpPcs
    BY <2>1 DEF StartUpPcs
  <2>7. QED
    BY <2>5, <2>6 DEF LedgerInv, LedgerMatchesRental
<1>3. CASE Retire
  <2> DEFINE i == Head(stopped_instances)
  <2>1. /\ mainPc = "retire" /\ mainPc' = "retire"
        /\ cost' = [cost EXCEPT ![i] = "closed"]
    BY <1>3 DEF Retire
  <2>2. /\ AllApart' /\ i \in Range(stopped_instances)
        /\ Range(stopped_instances') = Range(stopped_instances) \ {i}
        /\ i \in Range(onD') \cup Range(bur')
        /\ UNCHANGED <<curr_onD, curr_bur, sorting, stopped_instances_pending>>
    BY <1>3, RetireMoves
  <2> HIDE DEF i
  <2>3. Rented' = Rented \ {i} /\ i \in Instances
    BY <2>2 DEF Rented, InUse, AllApart, Apart
  <2>4. \A x \in Instances : cost'[x] = "open" <=> x \in Rented'
    BY <1>0, <2>1, <2>3 DEF LedgerInv, LedgerMatchesRental, LoopPcs
  <2>5. QED
    BY <2>1, <2>4 DEF LedgerInv, LedgerMatchesRental, StartUpPcs
<1>4. CASE StartOnD
  <2> DEFINE i == Head(onD)
  <2>1. /\ mainPc = "startOnD" /\ mainPc' = "startOnD"
        /\ cost' = [cost EXCEPT ![i] = "open"]
    BY <1>4 DEF StartOnD, BillFromNow
  <2>2. /\ i \in Range(onD) /\ Range(curr_onD') = Range(curr_onD) \cup {i}
        /\ UNCHANGED <<bur, curr_bur, sorting, stopped_instances_pending,
                       stopped_instances>>
    BY <1>4, StartOnDMoves
  <2> HIDE DEF i
  <2>3. Rented' = Rented \cup {i} /\ i \in Instances
    BY <2>2 DEF Rented, InUse, ListInv, AllApart, Apart
  <2>4. \A x \in Instances : cost'[x] = "open" <=> x \in Rented'
    BY <1>0, <2>1, <2>3 DEF LedgerInv, LedgerMatchesRental, LoopPcs
  <2>5. QED
    BY <2>1, <2>4 DEF LedgerInv, LedgerMatchesRental, StartUpPcs
<1>5. CASE StartBur
  <2> DEFINE i == Head(bur)
  <2>1. /\ mainPc = "startBur" /\ mainPc' = "startBur"
        /\ cost' = [cost EXCEPT ![i] = "open"]
    BY <1>5 DEF StartBur, BillFromNow
  <2>2. /\ i \in Range(bur) /\ Range(curr_bur') = Range(curr_bur) \cup {i}
        /\ UNCHANGED <<onD, curr_onD, sorting, stopped_instances_pending,
                       stopped_instances>>
    BY <1>5, StartBurMoves
  <2> HIDE DEF i
  <2>3. Rented' = Rented \cup {i} /\ i \in Instances
    BY <2>2 DEF Rented, InUse, ListInv, AllApart, Apart
  <2>4. \A x \in Instances : cost'[x] = "open" <=> x \in Rented'
    BY <1>0, <2>1, <2>3 DEF LedgerInv, LedgerMatchesRental, LoopPcs
  <2>5. QED
    BY <2>1, <2>4 DEF LedgerInv, LedgerMatchesRental, StartUpPcs
\* moves between the lists of rented instances
<1>6. CASE DrainStop \/ StopOnD \/ ReuseDraining \/ DrainBur
  <2>1. mainPc \in LoopPcs /\ mainPc' \in LoopPcs /\ UNCHANGED cost
    BY <1>6 DEF DrainStop, StopOnD, ReuseDraining, DrainBur, LoopPcs
  <2>2. UNCHANGED Rented
    <3>1. CASE DrainStop
      BY <3>1, DrainStopMoves DEF Rented, InUse
    <3>2. CASE StopOnD
      BY <3>2, StopOnDMoves DEF Rented, InUse
    <3>3. CASE ReuseDraining
      BY <3>3, ReuseMoves DEF Rented, InUse
    <3>4. CASE DrainBur
      BY <3>4, DrainBurMoves DEF Rented, InUse
    <3>5. QED
      BY <1>6, <3>1, <3>2, <3>3, <3>4
  <2>3. QED
    BY <2>1, <2>2, LedgerKept
<1>7. CASE RefreshPending \/ SortBegin \/ SortEnd \/ SortAtOnce
  <2>1. mainPc \in LoopPcs /\ mainPc' \in LoopPcs /\ UNCHANGED cost
    BY <1>7 DEF RefreshPending, SortBegin, SortEnd, SortAtOnce, LoopPcs
  <2>2. UNCHANGED Rented
    BY <1>7, SortMoves DEF Rented, InUse
  <2>3. QED
    BY <2>1, <2>2, LedgerKept
<1>8. CASE MainEnds /\ ~Join
  <2>1. mainPc' \in EndPcs
    BY <1>8 DEF MainEnds, Shutdown, CloseCost, WriteCost, EndPcs
  <2>2. mainPc' \notin StartUpPcs /\ mainPc' \notin LoopPcs
    BY <2>1 DEF EndPcs, LoopPcs, StartUpPcs
  <2>3. QED
    BY <2>2 DEF LedgerInv, LedgerMatchesRental
\* the rest of the loop
<1>9. CASE (MainRetires \/ MainOnD \/ MainBur \/ Join) /\ ~Moving
  <2>1. mainPc \in LoopPcs /\ mainPc' \in LoopPcs /\ UNCHANGED cost
    BY <1>9 DEF MainRetires, LoopTest, ReadDrainCredit, DrainKeep, StopRetired,
       BlockStopped, RetireDone, FetchCredit, Estimate, MainOnD, ScaleOnD,
       StartOnDDone, BlockOnD, StopOnDDone, MainBur, ScaleBur, StartBurDone, BlockBur,
       RefreshBur, DrainBurEnter, DrainBurDone, Join, LoopPcs, Moving
  <2>2. UNCHANGED Rented
    BY <1>9, OthersKeepLists DEF Rented, InUse
  <2>3. QED
    BY <2>1, <2>2, LedgerKept
<1>10. CASE Short \/ ClientEnds \/ (\E i \in Instances : MachineSettles(i))
            \/ UNCHANGED vars
  <2>1. UNCHANGED <<mainPc, cost, curr_onD, curr_bur, sorting,
                    stopped_instances_pending, stopped_instances>>
    BY <1>10 DEF Short, ShortLoopTest, GetLatency, Optimize, Reweigh, Update,
       ClientEnds, MachineSettles, vars, threadVars, poolVars, inUseVars
  <2>2. UNCHANGED Rented
    BY <2>1 DEF Rented, InUse
  <2>3. QED
    BY <2>1, <2>2 DEF LedgerInv, LedgerMatchesRental
<1>11. QED
  BY <1>1, <1>2, <1>3, <1>4, <1>5, <1>6, <1>7, <1>8, <1>9, <1>10
     DEF Next, Main, MainStartUp, MainEnds, Ended, Moving

\* LedgerMatchesRental: for any fleet, while the loop runs, the bill of an
\* instance is open exactly when the instance is rented.
THEOREM LedgerCorrect == Spec => []LedgerMatchesRental
<1>1. Init => LedgerInv
  BY DEF Init, LedgerInv, LedgerMatchesRental, LoopPcs
<1>2. ListInv /\ LedgerInv /\ [Next]_vars => LedgerInv'
  BY LedgerStep
<1>3. LedgerInv => LedgerMatchesRental
  BY DEF LedgerInv
<1>4. QED
  BY ListInvariant, <1>1, <1>2, <1>3, PTL DEF Spec

-----------------------------------------------------------------------------
(* The controller implements the life cycle *)

\* The steps that move instances between phases, each as its abstract step.
LEMMA LifecycleMoves ==
  ASSUME ListInv, PowerInv, Moving
  PROVE  LC!Next \/ UNCHANGED LC!lifecycleVars
<1> USE DEF MainAt
<1>0. /\ Pool \subseteq Instances /\ Range(stopped_instances_pending) \subseteq Instances
      /\ Range(stopped_instances) \subseteq Instances
      /\ Range(curr_onD) \subseteq Instances /\ Range(curr_bur) \subseteq Instances
      /\ Pool \cap Range(stopped_instances_pending) = {}
      /\ Pool \cap Range(stopped_instances) = {}
      /\ Pool \cap Range(curr_onD) = {} /\ Pool \cap Range(curr_bur) = {}
      /\ Range(stopped_instances_pending) \cap Range(stopped_instances) = {}
      /\ Range(stopped_instances_pending) \cap Range(curr_onD) = {}
      /\ Range(stopped_instances_pending) \cap Range(curr_bur) = {}
      /\ Range(stopped_instances) \cap Range(curr_onD) = {}
      /\ Range(stopped_instances) \cap Range(curr_bur) = {}
  BY DEF ListInv, AllApart, Apart, Pool
<1>1. CASE SetStartUpNodes
  <2> DEFINE S == Range(curr_onD') \cup Range(curr_bur')
  <2>1. mainPc = "setStartUp" /\ UNCHANGED ec2
    BY <1>1 DEF SetStartUpNodes
  <2>2. /\ AllApart' /\ Pool' \cup S = Pool
        /\ UNCHANGED <<stopped_instances_pending, stopped_instances>>
    BY <1>1, StartUpMoves DEF Pool
  <2>3. Pool' \cap S = {} /\ S \subseteq Instances
    BY <2>2 DEF Pool, AllApart, Apart
  <2> HIDE DEF S
  <2>4. \A i \in S : phase[i] = "unused" /\ ec2[i] = "running"
    BY <2>1, <2>2, <2>3 DEF phase, PowerInv
  <2>5. phase' = [i \in Instances |-> IF i \in S THEN "serving" ELSE phase[i]]
    BY <1>0, <2>2, <2>3 DEF phase
  <2>6. LC!Select(S)
    BY <2>1, <2>4, <2>5 DEF LC!Select, LC!Becomes
  <2>7. QED
    BY <2>3, <2>6 DEF LC!Next
<1>2. CASE DrainStop
  <2> DEFINE x == stopped_instances_pending[j + 1]
  <2>1. mainPc = "drainDecide" /\ UNCHANGED ec2
    BY <1>2 DEF DrainStop
  <2>2. /\ x \in Range(stopped_instances_pending)
        /\ Range(stopped_instances_pending') = Range(stopped_instances_pending) \ {x}
        /\ Range(stopped_instances') = Range(stopped_instances) \cup {x}
        /\ UNCHANGED Pool
    BY <1>2, DrainStopMoves DEF Pool
  <2> HIDE DEF x
  <2>3. x \in Instances /\ x \in Burstable
    BY <1>0, <2>2, ListKinds DEF ListInv
  <2>4. phase[x] = "draining" /\ ec2[x] = "running"
    BY <1>0, <2>1, <2>2, <2>3 DEF phase, PowerInv, InUseIsUp, EndPcs
  <2>5. phase' = [i \in Instances |-> IF i \in {x} THEN "condemned" ELSE phase[i]]
    BY <1>0, <2>2 DEF phase
  <2>6. LC!Condemn(x)
    BY <2>1, <2>3, <2>4, <2>5 DEF LC!Condemn, LC!Becomes
  <2>7. QED
    BY <2>3, <2>6 DEF LC!Next
<1>3. CASE Retire
  <2> DEFINE x == Head(stopped_instances)
  <2>1. mainPc = "retire" /\ UNCHANGED ec2
    BY <1>3 DEF Retire
  <2>2. /\ x \in Range(stopped_instances)
        /\ Range(stopped_instances') = Range(stopped_instances) \ {x}
        /\ Pool' = Pool \cup {x}
        /\ UNCHANGED stopped_instances_pending
    BY <1>3, RetireMoves DEF Pool
  <2> HIDE DEF x
  <2>3. x \in Instances /\ phase[x] = "condemned" /\ ec2[x] = "stopped"
    BY <1>0, <2>1, <2>2 DEF phase, PowerInv
  <2>4. phase' = [i \in Instances |-> IF i \in {x} THEN "unused" ELSE phase[i]]
    BY <1>0, <2>2 DEF phase
  <2>5. LC!Return(x)
    BY <2>1, <2>3, <2>4 DEF LC!Return, LC!Becomes
  <2>6. QED
    BY <2>3, <2>5 DEF LC!Next
\* start-instances finds what it takes from a pool stopped
<1>4. ASSUME NEW x \in Pool, Pool' = Pool \ {x},
             UNCHANGED <<stopped_instances_pending, stopped_instances>>,
             mainPc \in {"startOnD", "startBur"},
             ec2' = [ec2 EXCEPT ![x] = IF @ = "stopped" THEN "pending" ELSE @]
      PROVE  LC!Next
  <2>1. x \in Instances /\ phase[x] = "unused" /\ ec2[x] = "stopped"
    BY <1>0, <1>4 DEF phase, PowerInv, PoolIsStopped, EndPcs
  <2>2. phase' = [i \in Instances |-> IF i \in {x} THEN "serving" ELSE phase[i]]
    BY <1>0, <1>4 DEF phase
  <2>3. ec2' = [i \in Instances |-> IF i \in {x} THEN "pending" ELSE ec2[i]]
    BY <1>4, <2>1 DEF ListInv, TypeOK, OutsideTypes
  <2>4. LC!Rent(x)
    BY <2>1, <2>2, <2>3 DEF LC!Rent, LC!Becomes, LC!Powers
  <2>5. QED
    BY <2>1, <2>4 DEF LC!Next
<1>5. CASE StartOnD
  <2> DEFINE x == Head(onD)
  <2>1. /\ mainPc = "startOnD"
        /\ ec2' = [ec2 EXCEPT ![x] = IF @ = "stopped" THEN "pending" ELSE @]
    BY <1>5 DEF StartOnD, StartInstance
  <2>2. /\ x \in Range(onD) /\ Range(onD') = Range(onD) \ {x}
        /\ UNCHANGED <<bur, stopped_instances_pending, stopped_instances>>
    BY <1>5, StartOnDMoves
  <2> HIDE DEF x
  <2>3. x \in Pool /\ Pool' = Pool \ {x}
    BY <2>2 DEF Pool, ListInv, AllApart, Apart
  <2>4. QED
    BY <1>4, <2>1, <2>2, <2>3
<1>6. CASE StartBur
  <2> DEFINE x == Head(bur)
  <2>1. /\ mainPc = "startBur"
        /\ ec2' = [ec2 EXCEPT ![x] = IF @ = "stopped" THEN "pending" ELSE @]
    BY <1>6 DEF StartBur, StartInstance
  <2>2. /\ x \in Range(bur) /\ Range(bur') = Range(bur) \ {x}
        /\ UNCHANGED <<onD, stopped_instances_pending, stopped_instances>>
    BY <1>6, StartBurMoves
  <2> HIDE DEF x
  <2>3. x \in Pool /\ Pool' = Pool \ {x}
    BY <2>2 DEF Pool, ListInv, AllApart, Apart
  <2>4. QED
    BY <1>4, <2>1, <2>2, <2>3
<1>7. CASE StopOnD
  <2> DEFINE x == Head(curr_onD)
  <2>1. mainPc = "stopOnD" /\ UNCHANGED ec2
    BY <1>7 DEF StopOnD
  <2>2. /\ x \in Range(curr_onD)
        /\ Range(stopped_instances') = Range(stopped_instances) \cup {x}
        /\ UNCHANGED <<Pool, stopped_instances_pending>>
    BY <1>7, StopOnDMoves DEF Pool
  <2> HIDE DEF x
  <2>3. x \in Instances /\ x \notin Burstable
    BY <1>0, <2>2, ListKinds DEF ListInv
  <2>4. phase[x] = "serving" /\ ec2[x] = "running"
    BY <1>0, <2>1, <2>2 DEF phase, PowerInv, InUseIsUp, Range, EndPcs
  <2>5. phase' = [i \in Instances |-> IF i \in {x} THEN "condemned" ELSE phase[i]]
    BY <1>0, <2>2 DEF phase
  <2>6. LC!Condemn(x)
    BY <2>1, <2>3, <2>4, <2>5 DEF LC!Condemn, LC!Becomes
  <2>7. QED
    BY <2>3, <2>6 DEF LC!Next
<1>8. CASE ReuseDraining
  <2> DEFINE x == Head(stopped_instances_pending)
  <2>1. mainPc = "startBur" /\ UNCHANGED ec2
    BY <1>8 DEF ReuseDraining
  <2>2. /\ x \in Range(stopped_instances_pending)
        /\ Range(stopped_instances_pending') = Range(stopped_instances_pending) \ {x}
        /\ UNCHANGED <<Pool, stopped_instances>>
    BY <1>8, ReuseMoves DEF Pool
  <2> HIDE DEF x
  <2>3. x \in Instances /\ phase[x] = "draining" /\ ec2[x] = "running"
    BY <1>0, <2>1, <2>2 DEF phase, PowerInv, InUseIsUp, EndPcs
  <2>4. phase' = [i \in Instances |-> IF i \in {x} THEN "serving" ELSE phase[i]]
    BY <1>0, <2>2 DEF phase
  <2>5. LC!Reuse(x)
    BY <2>1, <2>3, <2>4 DEF LC!Reuse, LC!Becomes
  <2>6. QED
    BY <2>3, <2>5 DEF LC!Next
<1>9. CASE DrainBur
  <2> DEFINE x == Head(curr_bur)
  <2>1. mainPc = "draining" /\ UNCHANGED ec2
    BY <1>9 DEF DrainBur
  <2>2. /\ x \in Range(curr_bur)
        /\ Range(stopped_instances_pending') = Range(stopped_instances_pending) \cup {x}
        /\ UNCHANGED <<Pool, stopped_instances>>
    BY <1>9, DrainBurMoves DEF Pool
  <2> HIDE DEF x
  <2>3. x \in Instances /\ x \in Burstable
    BY <1>0, <2>2, ListKinds DEF ListInv
  <2>4. phase[x] = "serving" /\ ec2[x] = "running"
    BY <1>0, <2>1, <2>2 DEF phase, PowerInv, InUseIsUp, Range, EndPcs
  <2>5. phase' = [i \in Instances |-> IF i \in {x} THEN "draining" ELSE phase[i]]
    BY <1>0, <2>2 DEF phase
  <2>6. LC!Drain(x)
    BY <2>1, <2>3, <2>4, <2>5 DEF LC!Drain, LC!Becomes
  <2>7. QED
    BY <2>3, <2>6 DEF LC!Next
<1>10. CASE RefreshPending \/ SortBegin \/ SortEnd \/ SortAtOnce
  <2>1. UNCHANGED ec2
    BY <1>10 DEF RefreshPending, SortBegin, SortEnd, SortAtOnce
  <2>2. UNCHANGED <<Pool, stopped_instances>>
        /\ Range(stopped_instances_pending') = Range(stopped_instances_pending)
    BY <1>10, SortMoves DEF Pool
  <2>3. UNCHANGED phase
    BY <2>2 DEF phase
  <2>4. QED
    BY <2>1, <2>3 DEF LC!lifecycleVars
<1>11. QED
  BY <1>1, <1>2, <1>3, <1>5, <1>6, <1>7, <1>8, <1>9, <1>10 DEF Moving

\* The steps that switch machines off, EC2's own steps and the silent ones.
LEMMA LifecycleOthers ==
  ASSUME ListInv, PowerInv, [Next]_vars, ~Moving
  PROVE  LC!Next \/ UNCHANGED LC!lifecycleVars
<1> USE DEF MainAt
<1>0. UNCHANGED phase
  BY OthersKeepLists DEF phase, Pool
<1>1. ec2 \in [Instances -> Ec2States]
  BY DEF ListInv, TypeOK, OutsideTypes
\* a stop request reaches running machines that neither serve nor drain
<1>2. ASSUME NEW S \in SUBSET Instances, StopInstances(S),
             \A i \in S : phase[i] \in {"unused", "condemned"} /\ ec2[i] = "running"
      PROVE  LC!Next
  <2>1. ec2' = [i \in Instances |-> IF i \in S THEN "stopping" ELSE ec2[i]]
    BY <1>1, <1>2 DEF StopInstances
  <2>2. LC!PowerOff(S)
    BY <1>0, <1>2, <2>1 DEF LC!PowerOff, LC!Powers
  <2>3. QED
    BY <2>2 DEF LC!Next
<1>3. CASE StopUnused
  <2>1. Pool \subseteq Instances /\ StopInstances(Pool)
    BY <1>3 DEF StopUnused, Pool, ListInv, AllApart, Apart
  <2>2. \A i \in Pool : phase[i] = "unused" /\ ec2[i] = "running"
    BY <1>3, <2>1 DEF StopUnused, phase, PowerInv
  <2>3. QED
    BY <1>2, <2>1, <2>2
<1>4. CASE StopRetired
  <2> DEFINE S == Range(stopped_instances)
  <2>1. /\ S \subseteq Instances /\ StopInstances(S) /\ S \cap Pool = {}
        /\ S \cap Range(stopped_instances_pending) = {}
    BY <1>4 DEF StopRetired, Pool, ListInv, AllApart, Apart
  <2>2. \A i \in S : ec2[i] = "running"
    BY <1>4 DEF StopRetired, PowerInv, EndPcs
  <2>3. \A i \in S : phase[i] = "condemned"
    BY <2>1 DEF phase
  <2>4. QED
    BY <1>2, <2>1, <2>2, <2>3
<1>5. CASE Shutdown
  <2>1. ec2' = [i \in Instances |-> IF i \in Instances THEN "terminated" ELSE ec2[i]]
    BY <1>5 DEF Shutdown
  <2>2. LC!Terminate
    BY <1>0, <2>1 DEF LC!Terminate, LC!Powers
  <2>3. QED
    BY <2>2 DEF LC!Next
<1>6. CASE \E i \in Instances : MachineSettles(i)
  <2>1. PICK x \in Instances : MachineSettles(x)
    BY <1>6
  <2>2. \/ /\ ec2[x] = "pending"
           /\ ec2' = [i \in Instances |-> IF i \in {x} THEN "running" ELSE ec2[i]]
        \/ /\ ec2[x] = "stopping"
           /\ ec2' = [i \in Instances |-> IF i \in {x} THEN "stopped" ELSE ec2[i]]
    BY <1>1, <2>1 DEF MachineSettles
  <2>3. LC!Settle(x)
    BY <1>0, <2>2 DEF LC!Settle, LC!Powers
  <2>4. QED
    BY <2>3 DEF LC!Next
<1>7. CASE MainStartUp /\ ~StopUnused
  BY <1>0, <1>7 DEF MainStartUp, BlockUnused, InitWeight, FirstConf, StartClient,
     StartShortTerm, OpenCost, Moving, LC!lifecycleVars
<1>8. CASE MainRetires /\ ~StopRetired
  BY <1>0, <1>8 DEF MainRetires, LoopTest, ReadDrainCredit, DrainKeep, BlockStopped,
     RetireDone, FetchCredit, Estimate, Moving, LC!lifecycleVars
<1>9. CASE MainOnD \/ MainBur
  BY <1>0, <1>9 DEF MainOnD, ScaleOnD, StartOnDDone, BlockOnD, StopOnDDone, MainBur,
     ScaleBur, StartBurDone, BlockBur, RefreshBur, DrainBurEnter, DrainBurDone, Moving,
     LC!lifecycleVars
<1>10. CASE MainEnds /\ ~Shutdown
  BY <1>0, <1>10 DEF MainEnds, Join, CloseCost, WriteCost, LC!lifecycleVars
<1>11. CASE Short \/ ClientEnds \/ UNCHANGED vars
  BY <1>0, <1>11 DEF Short, ShortLoopTest, GetLatency, Optimize, Reweigh, Update,
     ClientEnds, vars, LC!lifecycleVars
<1>12. QED
  BY <1>3, <1>4, <1>5, <1>6, <1>7, <1>8, <1>9, <1>10, <1>11 DEF Next, Main, Ended

\* Lifecycle: for any fleet, every step of the controller, its threads and EC2
\* is a step of InstanceLifecycle or changes no machine and no phase.
THEOREM LifecycleCorrect == Spec => Lifecycle
<1>1. Init => LC!Init
  <2> SUFFICES ASSUME Init PROVE LC!Init
    OBVIOUS
  <2>1. Pool = Instances
    BY DEF Init, Pool, Instances, OnDemand, Burstable
  <2>2. QED
    BY <2>1 DEF Init, phase, LC!Init
<1>2. ListInv /\ PowerInv /\ [Next]_vars => [LC!Next]_(LC!lifecycleVars)
  BY LifecycleMoves, LifecycleOthers
<1>3. QED
  BY ListInvariant, PowerInvariant, <1>1, <1>2, PTL DEF Spec, Lifecycle, LC!Spec

=============================================================================
