-------------------------- MODULE Controller_proofs --------------------------
(***************************************************************************)
(* Machine-checked proofs about the controller, for any number of          *)
(* instances, any weights, credits and throughput table, with thread       *)
(* switches inside the sort and lost deliveries included.                  *)
(***************************************************************************)
EXTENDS ControllerProperties, SequenceTheorems, TLAPS

-----------------------------------------------------------------------------
(* Lists *)

\* list.pop(k) leaves a list of the same kind, one shorter
LEMMA WithoutType ==
  ASSUME NEW S, NEW s \in Seq(S), NEW k \in Nat, k < Len(s)
  PROVE  /\ Without(s, k) \in Seq(S)
         /\ Len(Without(s, k)) = Len(s) - 1
<1> DEFINE n == Len(s) - 1
<1>1. n \in Nat /\ Len(s) = n + 1 /\ Len(s) \in Nat
  BY LenProperties
<1>2. \A m \in 1..n : (IF m <= k THEN s[m] ELSE s[m + 1]) \in S
  BY <1>1, ElementOfSeq
<1>3. Without(s, k) \in [1..n -> S]
  BY <1>2 DEF Without
<1>4. QED
  BY <1>1, <1>3, SeqDef, LenProperties DEF Without

\* a sort permutes: same kind, same length
LEMMA PermuteType ==
  ASSUME NEW S, NEW s \in Seq(S), NEW p \in Bijection(DOMAIN s, DOMAIN s)
  PROVE  /\ Permute(s, p) \in Seq(S)
         /\ Len(Permute(s, p)) = Len(s)
         /\ Range(Permute(s, p)) = Range(s)
<1>1. /\ p \in [DOMAIN s -> DOMAIN s]
      /\ \A t \in DOMAIN s : \E u \in DOMAIN s : p[u] = t
  BY DEF Bijection, Injection, Surjection
<1>2. DOMAIN s = 1..Len(s) /\ Len(s) \in Nat
  BY LenProperties
<1>3. Permute(s, p) \in [1..Len(s) -> S]
  BY <1>1, <1>2, ElementOfSeq DEF Permute
<1>4. Range(Permute(s, p)) = Range(s)
  BY <1>1 DEF Permute, Range
<1>5. QED
  BY <1>2, <1>3, <1>4, SeqDef, LenProperties DEF Permute

\* a loop over curr_bur goes through nodes of that list and no more of them,
\* and through exactly that list unless the main thread sorts it
LEMMA ViewType ==
  ASSUME TypeOK, NEW view \in BurViews
  PROVE  /\ view \in Seq(Burstable) /\ Len(view) <= Len(curr_bur)
         /\ Range(view) \subseteq Range(curr_bur)
         /\ mainPc # "sortBur" => view = curr_bur
<1> DEFINE s == curr_bur
<1>0. s \in Seq(Burstable) /\ DOMAIN s = 1..Len(s) /\ Len(s) \in Nat
  BY LenProperties DEF TypeOK, ListTypes
<1>1. CASE PreemptSort /\ mainPc = "sortBur"
  <2>1. PICK p \in SortOrders(s, creditBalance), old \in 0..Len(s), n \in 0..Len(s) :
          view = [k \in 1..n |-> IF k <= old THEN s[k] ELSE s[p[k]]]
    BY <1>1 DEF BurViews
  <2>2. p \in [DOMAIN s -> DOMAIN s]
    BY DEF SortOrders, Bijection, Injection
  <2> HIDE DEF s
  <2>3. n \in Nat /\ n <= Len(s)
    BY <1>0
  <2>4. \A k \in 1..n : \E m \in DOMAIN s : view[k] = s[m]
    BY <1>0, <2>1, <2>2, <2>3
  <2>5. \A m \in DOMAIN s : s[m] \in Burstable
    BY <1>0, ElementOfSeq
  <2>6. view \in [1..n -> Burstable] /\ DOMAIN view = 1..n
    BY <2>1, <2>4, <2>5
  <2>7. view \in Seq(Burstable) /\ Len(view) = n
    BY <2>3, <2>6, SeqDef, LenProperties
  <2>8. Range(view) \subseteq Range(s)
    BY <2>4, <2>6 DEF Range
  <2>9. QED
    BY <1>1, <2>3, <2>7, <2>8 DEF s
<1>2. CASE ~(PreemptSort /\ mainPc = "sortBur")
  <2>1. view = s
    BY <1>2 DEF BurViews
  <2>2. QED
    BY <1>0, <2>1
<1>3. QED
  BY <1>1, <1>2

\* the list sent to nginx holds instances with natural weights
LEMMA IpWeightType ==
  ASSUME TypeOK, NEW view \in Seq(Burstable)
  PROVE  IpWeight(view) \in Seq(Instances \X Nat)
<1>1. ASSUME NEW s \in Seq(Instances)
      PROVE  IpWeights(s) \in Seq(Instances \X Nat)
  <2>1. DOMAIN s = 1..Len(s) /\ Len(s) \in Nat
    BY LenProperties
  <2>2. \A k \in 1..Len(s) : <<s[k], weight[s[k]]>> \in Instances \X Nat
    BY <1>1, ElementOfSeq DEF TypeOK, NodeTypes
  <2>3. IpWeights(s) \in [1..Len(s) -> Instances \X Nat]
    BY <2>1, <2>2 DEF IpWeights
  <2>4. QED
    BY <2>1, <2>3, SeqDef
<1>2. /\ curr_onD \in Seq(Instances)
      /\ view \in Seq(Instances)
      /\ stopped_instances_pending \in Seq(Instances)
  BY DEF TypeOK, ListTypes, Instances
<1>3. QED
  BY <1>1, <1>2, ConcatProperties DEF IpWeight

\* so does the list nginx starts with
LEMMA InitConfType ==
  ASSUME Init
  PROVE  lbConf \in Seq(Instances \X Nat)
<1> DEFINE s == WikiOnD \o WikiBur
<1>1. WikiOnD \in Seq(Instances) /\ WikiBur \in Seq(Instances)
  BY WikiAssumption DEF Instances
<1>2. s \in Seq(Instances)
  BY <1>1, ConcatProperties
<1>3. weight \in [Instances -> Nat]
  BY DEF Init
<1>4. DOMAIN s = 1..Len(s) /\ Len(s) \in Nat
  BY <1>2, LenProperties
<1>5. IpWeights(s) \in [1..Len(s) -> Instances \X Nat]
  BY <1>2, <1>3, <1>4, ElementOfSeq DEF IpWeights
<1>6. QED
  BY <1>4, <1>5, SeqDef DEF Init

-----------------------------------------------------------------------------
(* Type correctness *)

\* The start-up state is well typed.
LEMMA TypeInit == Init => TypeOK /\ Indices
  BY WikiAssumption, ConfigAssumption, EmptySeq, InitConfType
     DEF Init, TypeOK, ThreadTypes, ListTypes, NodeTypes, LocalTypes,
         OutsideTypes, Indices, StartUpPcs, Ec2States, NoOpt, Instances

\* Every step keeps the types, given that the loops stay inside their lists.
LEMMA TypeStep ==
  ASSUME TypeOK, Indices, [Next]_vars
  PROVE  TypeOK' /\ Indices'
<1> USE DEF TypeOK, ThreadTypes, ListTypes, NodeTypes, LocalTypes,
            OutsideTypes, Indices, StartUpPcs, LoopPcs, EndPcs, MainAt, MainAcquires,
            MainHolds, MainReleases, shortVars, flagVars, poolVars, inUseVars,
            nodeVars, mainLocals, lbVars, threadVars
<1>1. CASE SetStartUpNodes
  <2>1. ThreadTypes'
    BY <1>1, ConfigAssumption DEF SetStartUpNodes
  <2>2. ListTypes'
    <3>1. InitOnD \in 0..Len(onD) /\ InitBur \in 0..Len(bur)
      BY <1>1, ConfigAssumption DEF SetStartUpNodes
    <3>2. ASSUME NEW S, NEW s \in Seq(S), NEW n \in 0..Len(s)
          PROVE  SubSeq(s, 1, n) \in Seq(S) /\ SubSeq(s, n + 1, Len(s)) \in Seq(S)
      <4>1. \A k \in 1..Len(s) : s[k] \in S
        BY ElementOfSeq
      <4>2. Len(s) \in Nat /\ n \in Nat /\ n <= Len(s)
        BY LenProperties
      <4>3. QED
        BY <4>1, <4>2, SubSeqProperties
    <3>3. QED
      BY <1>1, <3>1, <3>2 DEF SetStartUpNodes
  <2>3. NodeTypes'
    BY <1>1, ConfigAssumption DEF SetStartUpNodes
  <2>4. LocalTypes'
    BY <1>1, ConfigAssumption DEF SetStartUpNodes
  <2>5. OutsideTypes'
    BY <1>1, ConfigAssumption DEF SetStartUpNodes
  <2>6. Indices'
    BY <1>1, ConfigAssumption DEF SetStartUpNodes
  <2>7. QED
    BY <2>1, <2>2, <2>3, <2>4, <2>5, <2>6
<1>2. CASE StopUnused
  BY <1>2 DEF StopUnused, StopInstances, Ec2States
<1>3. CASE BlockUnused
  BY <1>3 DEF BlockUnused
<1>4. CASE InitWeight
  <2>1. ThreadTypes'
    BY <1>4, ConfigAssumption DEF InitWeight
  <2>2. ListTypes'
    BY <1>4, ConfigAssumption DEF InitWeight
  <2>3. NodeTypes'
    BY <1>4, ConfigAssumption DEF InitWeight
  <2>4. LocalTypes'
    BY <1>4, ConfigAssumption DEF InitWeight
  <2>5. OutsideTypes'
    BY <1>4, ConfigAssumption DEF InitWeight
  <2>6. Indices'
    BY <1>4, ConfigAssumption DEF InitWeight
  <2>7. QED
    BY <2>1, <2>2, <2>3, <2>4, <2>5, <2>6
<1>5. CASE FirstConf
  <2>1. ThreadTypes'
    BY <1>5, IpWeightType DEF FirstConf, UpdateConf
  <2>2. ListTypes'
    BY <1>5, IpWeightType DEF FirstConf, UpdateConf
  <2>3. NodeTypes'
    BY <1>5, IpWeightType DEF FirstConf, UpdateConf
  <2>4. LocalTypes'
    BY <1>5, IpWeightType DEF FirstConf, UpdateConf
  <2>5. OutsideTypes'
    BY <1>5, IpWeightType DEF FirstConf, UpdateConf
  <2>6. Indices'
    BY <1>5, IpWeightType DEF FirstConf, UpdateConf
  <2>7. QED
    BY <2>1, <2>2, <2>3, <2>4, <2>5, <2>6
<1>6. CASE StartClient
  BY <1>6 DEF StartClient
<1>7. CASE StartShortTerm
  BY <1>7 DEF StartShortTerm
<1>8. CASE OpenCost
  BY <1>8 DEF OpenCost
<1>9. CASE LoopTest
  <2>1. ThreadTypes'
    BY <1>9 DEF LoopTest
  <2>2. ListTypes'
    BY <1>9 DEF LoopTest
  <2>3. NodeTypes'
    BY <1>9 DEF LoopTest
  <2>4. LocalTypes'
    BY <1>9 DEF LoopTest
  <2>5. OutsideTypes'
    BY <1>9 DEF LoopTest
  <2>6. Indices'
    BY <1>9 DEF LoopTest
  <2>7. QED
    BY <2>1, <2>2, <2>3, <2>4, <2>5, <2>6
<1>10. CASE ReadDrainCredit
  BY <1>10 DEF ReadDrainCredit, NoData
<1>11. CASE DrainStop
  <2> DEFINE i == stopped_instances_pending[j + 1]
  <2>0. /\ j \in Nat /\ j < Len(stopped_instances_pending)
        /\ i \in Burstable
        /\ Without(stopped_instances_pending, j) \in Seq(Burstable)
        /\ Len(Without(stopped_instances_pending, j))
             = Len(stopped_instances_pending) - 1
    <3>1. j \in Nat /\ j < Len(stopped_instances_pending)
      BY <1>11, LenProperties DEF DrainStop
    <3>2. QED
      BY <3>1, WithoutType, ElementOfSeq, LenProperties
  <2>1. ThreadTypes'
    BY <1>11, WithoutType DEF DrainStop
  <2>2. ListTypes'
    BY <1>11, <2>0, AppendProperties DEF DrainStop, Instances
  <2>3. NodeTypes'
    BY <1>11, WithoutType DEF DrainStop
  <2>4. LocalTypes'
    BY <1>11, WithoutType DEF DrainStop
  <2>5. OutsideTypes'
    BY <1>11, WithoutType DEF DrainStop
  <2>6. Indices'
    BY <1>11, <2>0 DEF DrainStop
  <2>7. QED
    BY <2>1, <2>2, <2>3, <2>4, <2>5, <2>6
<1>12. CASE DrainKeep
  <2>1. ThreadTypes'
    BY <1>12 DEF DrainKeep
  <2>2. ListTypes'
    BY <1>12 DEF DrainKeep
  <2>3. NodeTypes'
    BY <1>12 DEF DrainKeep
  <2>4. LocalTypes'
    BY <1>12 DEF DrainKeep
  <2>5. OutsideTypes'
    BY <1>12 DEF DrainKeep
  <2>6. Indices'
    BY <1>12 DEF DrainKeep
  <2>7. QED
    BY <2>1, <2>2, <2>3, <2>4, <2>5, <2>6
<1>13. CASE StopRetired
  BY <1>13 DEF StopRetired, StopInstances, Ec2States
<1>14. CASE BlockStopped
  BY <1>14 DEF BlockStopped
<1>15. CASE Retire
  <2>1. ThreadTypes'
    BY <1>15 DEF Retire, BackToPool, Instances
  <2>2. ListTypes'
    BY <1>15 DEF Retire, BackToPool, Instances
  <2>3. NodeTypes'
    BY <1>15 DEF Retire, BackToPool, Instances
  <2>4. LocalTypes'
    BY <1>15 DEF Retire, BackToPool, Instances
  <2>5. OutsideTypes'
    BY <1>15 DEF Retire, BackToPool, Instances
  <2>6. Indices'
    BY <1>15 DEF Retire, BackToPool, Instances
  <2>7. QED
    BY <2>1, <2>2, <2>3, <2>4, <2>5, <2>6
<1>16. CASE RetireDone
  BY <1>16 DEF RetireDone
<1>17. CASE FetchCredit
  <2>1. ThreadTypes'
    BY <1>17 DEF FetchCredit
  <2>2. ListTypes'
    BY <1>17 DEF FetchCredit
  <2>3. NodeTypes'
    BY <1>17 DEF FetchCredit
  <2>4. LocalTypes'
    BY <1>17 DEF FetchCredit
  <2>5. OutsideTypes'
    BY <1>17 DEF FetchCredit
  <2>6. Indices'
    BY <1>17 DEF FetchCredit
  <2>7. QED
    BY <2>1, <2>2, <2>3, <2>4, <2>5, <2>6
<1>18. CASE Estimate
  <2>1. ThreadTypes'
    BY <1>18, ConfigAssumption DEF Estimate, Capped
  <2>2. ListTypes'
    BY <1>18, ConfigAssumption DEF Estimate, Capped
  <2>3. NodeTypes'
    BY <1>18, ConfigAssumption DEF Estimate, Capped
  <2>4. LocalTypes'
    BY <1>18, ConfigAssumption DEF Estimate, Capped
  <2>5. OutsideTypes'
    BY <1>18, ConfigAssumption DEF Estimate, Capped
  <2>6. Indices'
    BY <1>18, ConfigAssumption DEF Estimate, Capped
  <2>7. QED
    BY <2>1, <2>2, <2>3, <2>4, <2>5, <2>6
<1>19. CASE ScaleOnD
  <2>1. ThreadTypes'
    BY <1>19 DEF ScaleOnD
  <2>2. ListTypes'
    BY <1>19 DEF ScaleOnD
  <2>3. NodeTypes'
    BY <1>19 DEF ScaleOnD
  <2>4. LocalTypes'
    BY <1>19 DEF ScaleOnD
  <2>5. OutsideTypes'
    BY <1>19 DEF ScaleOnD
  <2>6. Indices'
    BY <1>19 DEF ScaleOnD
  <2>7. QED
    BY <2>1, <2>2, <2>3, <2>4, <2>5, <2>6
<1>20. CASE StartOnD
  <2>1. ThreadTypes'
    BY <1>20 DEF StartOnD, StartInstance, BillFromNow, Ec2States
  <2>2. ListTypes'
    BY <1>20 DEF StartOnD, StartInstance, BillFromNow, Ec2States
  <2>3. NodeTypes'
    <3>1. Len(curr_onD) > 0 => Head(curr_onD) \in Instances
      BY HeadTailProperties DEF Instances
    <3>2. QED
      BY <1>20, <3>1 DEF StartOnD
  <2>4. LocalTypes'
    BY <1>20 DEF StartOnD, StartInstance, BillFromNow, Ec2States
  <2>5. OutsideTypes'
    BY <1>20 DEF StartOnD, StartInstance, BillFromNow, Ec2States
  <2>6. Indices'
    BY <1>20 DEF StartOnD, StartInstance, BillFromNow, Ec2States
  <2>7. QED
    BY <2>1, <2>2, <2>3, <2>4, <2>5, <2>6
<1>21. CASE StartOnDDone
  BY <1>21 DEF StartOnDDone
<1>22. CASE BlockOnD
  <2>1. ThreadTypes'
    BY <1>22 DEF BlockOnD
  <2>2. ListTypes'
    BY <1>22 DEF BlockOnD
  <2>3. NodeTypes'
    BY <1>22 DEF BlockOnD
  <2>4. LocalTypes'
    BY <1>22 DEF BlockOnD
  <2>5. OutsideTypes'
    BY <1>22 DEF BlockOnD
  <2>6. Indices'
    BY <1>22 DEF BlockOnD
  <2>7. QED
    BY <2>1, <2>2, <2>3, <2>4, <2>5, <2>6
<1>23. CASE StopOnD
  <2>1. ThreadTypes'
    BY <1>23 DEF StopOnD
  <2>2. ListTypes'
    <3>1. curr_onD # <<>>
      BY <1>23 DEF StopOnD
    <3>2. Head(curr_onD) \in Instances /\ Tail(curr_onD) \in Seq(OnDemand)
      BY <3>1, HeadTailProperties DEF Instances
    <3>3. QED
      BY <1>23, <3>2, AppendProperties DEF StopOnD
  <2>3. NodeTypes'
    BY <1>23 DEF StopOnD
  <2>4. LocalTypes'
    BY <1>23 DEF StopOnD
  <2>5. OutsideTypes'
    BY <1>23 DEF StopOnD
  <2>6. Indices'
    BY <1>23 DEF StopOnD
  <2>7. QED
    BY <2>1, <2>2, <2>3, <2>4, <2>5, <2>6
<1>24. CASE StopOnDDone
  BY <1>24 DEF StopOnDDone
<1>25. CASE ScaleBur
  <2>1. ThreadTypes'
    BY <1>25 DEF ScaleBur
  <2>2. ListTypes'
    BY <1>25 DEF ScaleBur
  <2>3. NodeTypes'
    BY <1>25 DEF ScaleBur
  <2>4. LocalTypes'
    BY <1>25 DEF ScaleBur
  <2>5. OutsideTypes'
    BY <1>25 DEF ScaleBur
  <2>6. Indices'
    BY <1>25 DEF ScaleBur
  <2>7. QED
    BY <2>1, <2>2, <2>3, <2>4, <2>5, <2>6
<1>26. CASE RefreshPending
  <2>1. ThreadTypes'
    BY <1>26, PermuteType DEF RefreshPending, SortOrders
  <2>2. ListTypes'
    BY <1>26, PermuteType DEF RefreshPending, SortOrders
  <2>3. NodeTypes'
    BY <1>26, PermuteType DEF RefreshPending, SortOrders
  <2>4. LocalTypes'
    BY <1>26, PermuteType DEF RefreshPending, SortOrders
  <2>5. OutsideTypes'
    BY <1>26, PermuteType DEF RefreshPending, SortOrders
  <2>6. Indices'
    BY <1>26, PermuteType DEF RefreshPending, SortOrders
  <2>7. QED
    BY <2>1, <2>2, <2>3, <2>4, <2>5, <2>6
<1>27. CASE ReuseDraining
  <2>1. ThreadTypes'
    BY <1>27, ConfigAssumption DEF ReuseDraining
  <2>2. ListTypes'
    BY <1>27, ConfigAssumption DEF ReuseDraining
  <2>3. NodeTypes'
    BY <1>27, ConfigAssumption DEF ReuseDraining
  <2>4. LocalTypes'
    BY <1>27, ConfigAssumption DEF ReuseDraining
  <2>5. OutsideTypes'
    BY <1>27, ConfigAssumption DEF ReuseDraining
  <2>6. Indices'
    BY <1>27, ConfigAssumption DEF ReuseDraining
  <2>7. QED
    BY <2>1, <2>2, <2>3, <2>4, <2>5, <2>6
<1>28. CASE StartBur
  <2>1. ThreadTypes'
    BY <1>28, ConfigAssumption DEF StartBur, StartInstance, BillFromNow, Ec2States
  <2>2. ListTypes'
    BY <1>28, ConfigAssumption DEF StartBur, StartInstance, BillFromNow, Ec2States
  <2>3. NodeTypes'
    BY <1>28, ConfigAssumption DEF StartBur, StartInstance, BillFromNow, Ec2States
  <2>4. LocalTypes'
    BY <1>28, ConfigAssumption DEF StartBur, StartInstance, BillFromNow, Ec2States
  <2>5. OutsideTypes'
    BY <1>28, ConfigAssumption DEF StartBur, StartInstance, BillFromNow, Ec2States
  <2>6. Indices'
    BY <1>28, ConfigAssumption DEF StartBur, StartInstance, BillFromNow, Ec2States
  <2>7. QED
    BY <2>1, <2>2, <2>3, <2>4, <2>5, <2>6
<1>29. CASE StartBurDone
  BY <1>29 DEF StartBurDone
<1>30. CASE BlockBur
  BY <1>30 DEF BlockBur
<1>31. CASE RefreshBur
  BY <1>31 DEF RefreshBur
<1>32. CASE SortBegin
  BY <1>32 DEF SortBegin
<1>33. CASE SortEnd
  <2>1. ThreadTypes'
    BY <1>33, PermuteType DEF SortEnd, SortOrders
  <2>2. ListTypes'
    BY <1>33, PermuteType DEF SortEnd, SortOrders
  <2>3. NodeTypes'
    BY <1>33, PermuteType DEF SortEnd, SortOrders
  <2>4. LocalTypes'
    BY <1>33, PermuteType DEF SortEnd, SortOrders
  <2>5. OutsideTypes'
    BY <1>33, PermuteType DEF SortEnd, SortOrders
  <2>6. Indices'
    BY <1>33, PermuteType DEF SortEnd, SortOrders
  <2>7. QED
    BY <2>1, <2>2, <2>3, <2>4, <2>5, <2>6
<1>34. CASE SortAtOnce
  <2>1. ThreadTypes'
    BY <1>34, PermuteType DEF SortAtOnce, SortOrders
  <2>2. ListTypes'
    BY <1>34, PermuteType DEF SortAtOnce, SortOrders
  <2>3. NodeTypes'
    BY <1>34, PermuteType DEF SortAtOnce, SortOrders
  <2>4. LocalTypes'
    BY <1>34, PermuteType DEF SortAtOnce, SortOrders
  <2>5. OutsideTypes'
    BY <1>34, PermuteType DEF SortAtOnce, SortOrders
  <2>6. Indices'
    BY <1>34, PermuteType DEF SortAtOnce, SortOrders
  <2>7. QED
    BY <2>1, <2>2, <2>3, <2>4, <2>5, <2>6
<1>35. CASE DrainBurEnter
  BY <1>35 DEF DrainBurEnter
<1>36. CASE DrainBur
  <2>1. ThreadTypes'
    BY <1>36 DEF DrainBur
  <2>2. ListTypes'
    <3>1. curr_bur # <<>>
      BY <1>36 DEF DrainBur
    <3>2. Head(curr_bur) \in Burstable /\ Tail(curr_bur) \in Seq(Burstable)
      BY <3>1, HeadTailProperties
    <3>3. QED
      BY <1>36, <3>2, AppendProperties DEF DrainBur
  <2>3. NodeTypes'
    BY <1>36 DEF DrainBur
  <2>4. LocalTypes'
    BY <1>36 DEF DrainBur
  <2>5. OutsideTypes'
    BY <1>36 DEF DrainBur
  <2>6. Indices'
    BY <1>36 DEF DrainBur
  <2>7. QED
    BY <2>1, <2>2, <2>3, <2>4, <2>5, <2>6
<1>37. CASE DrainBurDone
  BY <1>37 DEF DrainBurDone
<1>38. CASE Join
  BY <1>38 DEF Join
<1>39. CASE Shutdown
  BY <1>39 DEF Shutdown, Ec2States
<1>40. CASE CloseCost
  BY <1>40 DEF CloseCost
<1>41. CASE WriteCost
  BY <1>41 DEF WriteCost
<1>42. CASE ShortLoopTest
  <2> HIDE DEF StartUpPcs, LoopPcs, EndPcs
  <2>1. ThreadTypes'
    BY <1>42 DEF ShortLoopTest, SignalExit
  <2>2. ListTypes'
    BY <1>42 DEF ShortLoopTest, SignalExit
  <2>3. NodeTypes'
    BY <1>42 DEF ShortLoopTest, SignalExit
  <2>4. LocalTypes'
    BY <1>42 DEF ShortLoopTest, SignalExit
  <2>5. OutsideTypes'
    BY <1>42 DEF ShortLoopTest, SignalExit
  <2>6. Indices'
    BY <1>42 DEF ShortLoopTest, SignalExit
  <2>7. QED
    BY <2>1, <2>2, <2>3, <2>4, <2>5, <2>6
<1>43. CASE GetLatency
  BY <1>43 DEF GetLatency
<1>44. CASE Optimize
  <2> HIDE DEF StartUpPcs, LoopPcs, EndPcs
  <2>1. ThreadTypes'
    BY <1>44, ConfigAssumption DEF Optimize
  <2>2. ListTypes'
    BY <1>44, ConfigAssumption DEF Optimize
  <2>3. NodeTypes'
    BY <1>44, ConfigAssumption DEF Optimize
  <2>4. LocalTypes'
    <3>1. opt'.base \in Nat /\ opt'.biased \in Nat
      <4>1. CASE UNCHANGED opt
        BY <4>1
      <4>2. CASE \E base \in L..H : \E biased \in base..H : \E view \in BurViews :
                   opt' = [base |-> base, biased |-> biased,
                           min |-> Min({creditBalance[i] :
                                          i \in {Head(curr_bur)} \cup Range(view)})]
        BY <4>2, ConfigAssumption
      <4>3. QED
        BY <1>44, <4>1, <4>2 DEF Optimize
    <3>2. QED
      BY <1>44, <3>1 DEF Optimize
  <2>5. OutsideTypes'
    BY <1>44, ConfigAssumption DEF Optimize
  <2>6. Indices'
    BY <1>44, ConfigAssumption DEF Optimize
  <2>7. QED
    BY <2>1, <2>2, <2>3, <2>4, <2>5, <2>6
<1>45. CASE Reweigh
  <2> HIDE DEF StartUpPcs, LoopPcs, EndPcs
  <2>1. ThreadTypes'
    BY <1>45, ConfigAssumption DEF Reweigh, Clamp, NoOpt
  <2>2. ListTypes'
    BY <1>45, ConfigAssumption DEF Reweigh, Clamp, NoOpt
  <2>3. NodeTypes'
    <3>1. \A w \in Int : Clamp(w) \in Nat
      BY ConfigAssumption DEF Clamp
    <3>2. opt.base \in Int /\ opt.base - 1 \in Int /\ opt.biased \in Int
      OBVIOUS
    <3>3. QED
      BY <1>45, <3>1, <3>2 DEF Reweigh
  <2>4. LocalTypes'
    BY <1>45, ConfigAssumption DEF Reweigh, Clamp, NoOpt
  <2>5. OutsideTypes'
    BY <1>45, ConfigAssumption DEF Reweigh, Clamp, NoOpt
  <2>6. Indices'
    BY <1>45, ConfigAssumption DEF Reweigh, Clamp, NoOpt
  <2>7. QED
    BY <2>1, <2>2, <2>3, <2>4, <2>5, <2>6
<1>46. CASE Update
  <2> HIDE DEF StartUpPcs, LoopPcs, EndPcs
  <2>1. ThreadTypes'
    BY <1>46 DEF Update
  <2>2. ListTypes'
    BY <1>46 DEF Update
  <2>3. NodeTypes'
    BY <1>46 DEF Update
  <2>4. LocalTypes'
    BY <1>46 DEF Update
  <2>5. OutsideTypes'
    <3>1. PICK view \in BurViews : UpdateConf(IpWeight(view))
      BY <1>46 DEF Update
    <3>2. IpWeight(view) \in Seq(Instances \X Nat)
      BY IpWeightType, ViewType
    <3>3. QED
      BY <1>46, <3>1, <3>2 DEF Update, UpdateConf
  <2>6. Indices'
    BY <1>46 DEF Update
  <2>7. QED
    BY <2>1, <2>2, <2>3, <2>4, <2>5, <2>6
<1>47. CASE ClientEnds
  <2> HIDE DEF StartUpPcs, LoopPcs, EndPcs
  <2>1. ThreadTypes'
    <3>1. clientRunning' = FALSE /\ clientPc' = "ended"
      BY <1>47 DEF ClientEnds
    <3>2. UNCHANGED <<mainPc, shortPc, lock, shortTermThreadRunning>>
      BY <1>47 DEF ClientEnds
    <3>3. QED
      BY <3>1, <3>2
  <2>2. ListTypes'
    BY <1>47 DEF ClientEnds
  <2>3. NodeTypes'
    BY <1>47 DEF ClientEnds
  <2>4. LocalTypes'
    BY <1>47 DEF ClientEnds
  <2>5. OutsideTypes'
    BY <1>47 DEF ClientEnds
  <2>6. Indices'
    BY <1>47 DEF ClientEnds
  <2>7. QED
    BY <2>1, <2>2, <2>3, <2>4, <2>5, <2>6
<1>48. CASE \E i \in Instances : MachineSettles(i)
  <2>1. ThreadTypes'
    BY <1>48 DEF MachineSettles, Ec2States
  <2>2. ListTypes'
    BY <1>48 DEF MachineSettles, Ec2States
  <2>3. NodeTypes'
    BY <1>48 DEF MachineSettles, Ec2States
  <2>4. LocalTypes'
    BY <1>48 DEF MachineSettles, Ec2States
  <2>5. OutsideTypes'
    BY <1>48 DEF MachineSettles, Ec2States
  <2>6. Indices'
    BY <1>48 DEF MachineSettles, Ec2States
  <2>7. QED
    BY <2>1, <2>2, <2>3, <2>4, <2>5, <2>6
<1>49. CASE UNCHANGED vars
  BY <1>49 DEF vars
<1>50. QED
  BY <1>1, <1>2, <1>3, <1>4, <1>5, <1>6, <1>7, <1>8, <1>9, <1>10, <1>11,
     <1>12, <1>13, <1>14, <1>15, <1>16, <1>17, <1>18, <1>19, <1>20, <1>21,
     <1>22, <1>23, <1>24, <1>25, <1>26, <1>27, <1>28, <1>29, <1>30, <1>31,
     <1>32, <1>33, <1>34, <1>35, <1>36, <1>37, <1>38, <1>39, <1>40, <1>41,
     <1>42, <1>43, <1>44, <1>45, <1>46, <1>47, <1>48, <1>49 DEF Next, Main,
     MainStartUp, MainRetires, MainOnD, MainBur, MainEnds, Short, Ended

\* TypeOK holds in every reachable state, whatever the instances, weights,
\* credits and the throughput table of the experiment.
THEOREM TypeCorrect == Spec => []TypeOK
<1>1. TypeOK /\ Indices /\ [Next]_vars => TypeOK' /\ Indices'
  BY TypeStep
<1>2. QED
  BY TypeInit, <1>1, PTL DEF Spec

\* DrainIndexInRange: the drain loop stays inside the list it shrinks.
THEOREM DrainIndexCorrect == Spec => []DrainIndexInRange
<1>1. TypeOK /\ Indices /\ [Next]_vars => TypeOK' /\ Indices'
  BY TypeStep
<1>2. TypeOK /\ Indices => DrainIndexInRange
  BY DEF Indices, DrainIndexInRange
<1>3. QED
  BY TypeInit, <1>1, <1>2, PTL DEF Spec

-----------------------------------------------------------------------------
(* The on-demand target *)

\* Estimate sets the target within what exists, StartOnD moves an instance from
\* one side of the sum to the other, and no other step reaches these positions.
LEMMA OnDTargetStep ==
  ASSUME TypeOK, OnDTargetIsAvailable, [Next]_vars
  PROVE  OnDTargetIsAvailable'
<1> USE DEF OnDTargetIsAvailable, MainAt
<1>0. /\ Len(curr_onD) \in Nat /\ Len(onD) \in Nat
      /\ onD \in Seq(OnDemand) /\ curr_onD \in Seq(OnDemand)
  BY LenProperties DEF TypeOK, ListTypes
<1>1. CASE Estimate
  <2>1. PICK changeVal \in -2..2 :
          od' = IF Len(curr_onD) + Capped(changeVal) < 0 THEN 0
                ELSE Len(curr_onD) + Capped(changeVal)
    BY <1>1 DEF Estimate
  <2>2. Capped(changeVal) \in Int /\ Capped(changeVal) <= Len(onD)
    BY <1>0 DEF Capped
  <2>3. UNCHANGED <<curr_onD, onD>>
    BY <1>1 DEF Estimate, poolVars, inUseVars
  <2>4. QED
    BY <1>0, <2>1, <2>2, <2>3
<1>2. CASE ScaleOnD
  BY <1>2 DEF ScaleOnD, poolVars, inUseVars
<1>3. CASE StartOnD
  <2>1. /\ onD # <<>> /\ curr_onD' = Append(curr_onD, Head(onD))
        /\ onD' = Tail(onD) /\ od' = od /\ mainPc = "startOnD"
    BY <1>0, <1>3 DEF StartOnD
  <2>2. Head(onD) \in OnDemand /\ Len(Tail(onD)) = Len(onD) - 1
    BY <1>0, <2>1, HeadTailProperties
  <2>3. Len(curr_onD') = Len(curr_onD) + 1
    BY <1>0, <2>1, <2>2, AppendProperties
  <2>4. QED
    BY <1>0, <2>1, <2>2, <2>3 DEF TypeOK, LocalTypes
<1>4. CASE MainStartUp
  BY <1>4 DEF MainStartUp, SetStartUpNodes, StopUnused, BlockUnused, InitWeight,
     FirstConf, StartClient, StartShortTerm, OpenCost
<1>5. CASE MainRetires /\ ~Estimate
  BY <1>5 DEF MainRetires, LoopTest, ReadDrainCredit, DrainStop, DrainKeep,
     StopRetired, BlockStopped, Retire, RetireDone, FetchCredit
<1>6. CASE MainOnD /\ ~ScaleOnD /\ ~StartOnD
  BY <1>6 DEF MainOnD, StartOnDDone, BlockOnD, StopOnD, StopOnDDone
<1>7. CASE MainBur
  BY <1>7 DEF MainBur, ScaleBur, RefreshPending, ReuseDraining, StartBur,
     StartBurDone, BlockBur, RefreshBur, SortBegin, SortEnd, SortAtOnce,
     DrainBurEnter, DrainBur, DrainBurDone
<1>8. CASE MainEnds
  BY <1>8 DEF MainEnds, Join, Shutdown, CloseCost, WriteCost
<1>9. CASE Short \/ ClientEnds \/ (\E i \in Instances : MachineSettles(i)) \/ UNCHANGED vars
  <2>1. UNCHANGED <<mainPc, od, curr_onD, onD>>
    BY <1>9 DEF Short, ShortLoopTest, GetLatency, Optimize, Reweigh, Update,
       ClientEnds, MachineSettles, vars, threadVars, poolVars, inUseVars, mainLocals
  <2>2. QED
    BY <2>1
<1>10. QED
  BY <1>1, <1>2, <1>3, <1>4, <1>5, <1>6, <1>7, <1>8, <1>9 DEF Next, Main, Ended

\* OnDTargetIsAvailable: for any fleet, the main loop is never asked to start
\* more on-demand instances than there are in its pool.
THEOREM OnDTargetCorrect == Spec => []OnDTargetIsAvailable
<1>1. Init => OnDTargetIsAvailable
  BY DEF Init, OnDTargetIsAvailable
<1>2. TypeOK /\ OnDTargetIsAvailable /\ [Next]_vars => OnDTargetIsAvailable'
  BY OnDTargetStep
<1>3. QED
  BY TypeCorrect, <1>1, <1>2, PTL DEF Spec

-----------------------------------------------------------------------------
(* The weights nginx is given *)

\* what moving elements between lists does to the sets of their elements
LEMMA RangeFacts ==
  ASSUME NEW S, NEW s \in Seq(S)
  PROVE  /\ \A x \in S : Range(Append(s, x)) = Range(s) \cup {x}
         /\ s # <<>> => Head(s) \in Range(s) /\ Range(Tail(s)) \subseteq Range(s)
         /\ \A k \in Nat : k < Len(s) => Range(Without(s, k)) \subseteq Range(s)
<1>0. DOMAIN s = 1..Len(s) /\ Len(s) \in Nat
  BY LenProperties
<1>1. ASSUME NEW x \in S
      PROVE  Range(Append(s, x)) = Range(s) \cup {x}
  <2>1. /\ DOMAIN Append(s, x) = 1..(Len(s) + 1)
        /\ \A k \in 1..Len(s) : Append(s, x)[k] = s[k]
        /\ Append(s, x)[Len(s) + 1] = x
    BY AppendProperties, LenProperties
  <2>2. 1..(Len(s) + 1) = 1..Len(s) \cup {Len(s) + 1}
    BY <1>0
  <2>3. QED
    BY <1>0, <2>1, <2>2 DEF Range
<1>2. ASSUME s # <<>>
      PROVE  Head(s) \in Range(s) /\ Range(Tail(s)) \subseteq Range(s)
  <2>1. Len(s) >= 1 /\ Head(s) = s[1]
    BY <1>0, <1>2, EmptySeq
  <2>2. /\ DOMAIN Tail(s) = 1..(Len(s) - 1)
        /\ \A k \in 1..(Len(s) - 1) : Tail(s)[k] = s[k + 1]
    BY <1>0, <1>2, HeadTailProperties, LenProperties
  <2>3. QED
    BY <1>0, <2>1, <2>2 DEF Range
<1>3. ASSUME NEW k \in Nat, k < Len(s)
      PROVE  Range(Without(s, k)) \subseteq Range(s)
  BY <1>0, <1>3 DEF Range, Without
<1>4. QED
  BY <1>1, <1>2, <1>3

\* every weight is cut to L..H
LEMMA ClampBounds == \A w \in Int : Clamp(w) \in L..H
  BY ConfigAssumption DEF Clamp

\* a list made from weighed instances is within bounds
LEMMA IpWeightBounds ==
  ASSUME TypeOK, \A i \in Weighed : weight[i] \in L..H,
         NEW view \in Seq(Burstable), Range(view) \subseteq Range(curr_bur)
  PROVE  \A k \in DOMAIN IpWeight(view) :
           IpWeight(view)[k][1] \in Burstable => IpWeight(view)[k][2] \in L..H
<1> DEFINE Fine(s) == \A k \in DOMAIN s : s[k][1] \in Burstable => s[k][2] \in L..H
<1>0. /\ curr_onD \in Seq(OnDemand) /\ curr_bur \in Seq(Burstable)
      /\ stopped_instances_pending \in Seq(Burstable)
  BY DEF TypeOK, ListTypes
<1>1. Fine(IpWeights(curr_onD))
  <2>1. \A k \in DOMAIN curr_onD : curr_onD[k] \notin Burstable
    BY <1>0, ElementOfSeq, LenProperties, WikiAssumption
  <2>2. QED
    BY <2>1 DEF IpWeights
<1>2. Fine(IpWeights(view))
  <2>1. \A k \in DOMAIN view : view[k] \in Weighed
    BY DEF Weighed, Range
  <2>2. QED
    BY <2>1 DEF IpWeights
<1>3. Fine(IpWeights(stopped_instances_pending))
  BY DEF IpWeights, Weighed, Range
<1>4. ASSUME NEW s \in Seq(Instances) PROVE IpWeights(s) \in Seq(Instances \X Nat)
  <2>1. DOMAIN s = 1..Len(s) /\ Len(s) \in Nat
    BY LenProperties
  <2>2. IpWeights(s) \in [1..Len(s) -> Instances \X Nat]
    BY <2>1, ElementOfSeq DEF IpWeights, TypeOK, NodeTypes
  <2>3. QED
    BY <2>1, <2>2, SeqDef
<1>5. ASSUME NEW s \in Seq(Instances \X Nat), NEW t \in Seq(Instances \X Nat),
             Fine(s), Fine(t)
      PROVE  Fine(s \o t) /\ s \o t \in Seq(Instances \X Nat)
  <2>1. /\ DOMAIN s = 1..Len(s) /\ Len(s) \in Nat
        /\ DOMAIN t = 1..Len(t) /\ Len(t) \in Nat
    BY LenProperties
  <2>2. /\ s \o t \in Seq(Instances \X Nat)
        /\ DOMAIN (s \o t) = 1..(Len(s) + Len(t))
        /\ \A k \in 1..(Len(s) + Len(t)) :
             (s \o t)[k] = IF k <= Len(s) THEN s[k] ELSE t[k - Len(s)]
    BY ConcatProperties, LenProperties
  <2>3. ASSUME NEW k \in 1..(Len(s) + Len(t)), (s \o t)[k][1] \in Burstable
        PROVE  (s \o t)[k][2] \in L..H
    <3>1. CASE k <= Len(s)
      <4>1. k \in DOMAIN s /\ (s \o t)[k] = s[k]
        BY <2>1, <2>2, <3>1
      <4>2. QED
        BY <1>5, <2>3, <4>1
    <3>2. CASE ~(k <= Len(s))
      <4>1. k - Len(s) \in DOMAIN t /\ (s \o t)[k] = t[k - Len(s)]
        BY <2>1, <2>2, <3>2
      <4>2. QED
        BY <1>5, <2>3, <4>1
    <3>3. QED
      BY <3>1, <3>2
  <2>4. QED
    BY <2>2, <2>3
<1>6. /\ curr_onD \in Seq(Instances) /\ view \in Seq(Instances)
      /\ stopped_instances_pending \in Seq(Instances)
  BY <1>0 DEF Instances
<1>7. Fine(IpWeight(view))
  <2> HIDE DEF Fine
  <2>1. QED
    BY <1>1, <1>2, <1>3, <1>4, <1>5, <1>6 DEF IpWeight
<1>8. QED
  BY <1>7

\* Every step keeps the weights that may be sent in bounds.
LEMMA WeightStep ==
  ASSUME TypeOK, Indices, WeightInv, [Next]_vars
  PROVE  WeightInv'
<1> USE DEF MainAt, BeforeWeights
<1>0. /\ curr_onD \in Seq(OnDemand) /\ curr_bur \in Seq(Burstable)
      /\ bur \in Seq(Burstable) /\ onD \in Seq(OnDemand)
      /\ sorting \in Seq(Burstable) /\ stopped_instances_pending \in Seq(Burstable)
      /\ weight \in [Instances -> Nat]
      /\ L \in L..H /\ Burstable \cap OnDemand = {} /\ Burstable \subseteq Instances
  BY WikiAssumption, ConfigAssumption DEF TypeOK, ListTypes, NodeTypes, Instances
<1>1. Weighed \subseteq Burstable
  <2>1. ASSUME NEW S, NEW s \in Seq(S) PROVE Range(s) \subseteq S
    BY <2>1, ElementOfSeq, LenProperties DEF Range
  <2>2. QED
    BY <1>0, <2>1 DEF Weighed
\* the steps that neither weigh, send nor move a burstable instance into use
<1>2. ASSUME UNCHANGED <<weight, prevIpWeight>>, Weighed' \subseteq Weighed,
             mainPc \notin BeforeWeights, mainPc' \notin BeforeWeights
      PROVE  WeightInv'
  BY <1>2 DEF WeightInv, BurstableWeightsInBounds
<1>3. CASE MainStartUp
  <2>1. CASE SetStartUpNodes \/ StopUnused \/ BlockUnused
    BY <2>1 DEF SetStartUpNodes, StopUnused, BlockUnused, WeightInv,
       BurstableWeightsInBounds, shortVars, inUseVars, lbVars, nodeVars
  <2>2. CASE InitWeight
    <3>1. PICK w \in L..H : weight' = [i \in Instances |->
                    IF i \in Range(curr_onD) THEN H
                    ELSE IF i \in Range(curr_bur) THEN w
                    ELSE weight[i]]
      BY <2>2 DEF InitWeight
    <3>2. Weighed = Range(curr_bur)
      BY <2>2 DEF InitWeight, WeightInv, Weighed, Range
    <3>3. \A i \in Weighed : weight'[i] \in L..H
      BY <1>0, <1>1, <3>1, <3>2, ConfigAssumption
    <3>4. UNCHANGED <<Weighed, prevIpWeight>> /\ mainPc' = "firstConf"
      BY <2>2 DEF InitWeight, Weighed, inUseVars, lbVars
    <3>5. QED
      BY <3>3, <3>4 DEF WeightInv, BurstableWeightsInBounds
  <2>3. CASE FirstConf
    <3>1. mainPc \notin BeforeWeights /\ mainPc' \notin BeforeWeights
      BY <2>3 DEF FirstConf
    <3>2. prevIpWeight' = IpWeight(curr_bur) /\ UNCHANGED <<weight, Weighed>>
      BY <2>3 DEF FirstConf, UpdateConf, Weighed, inUseVars, nodeVars
    <3>3. BurstableWeightsInBounds'
      BY <1>0, <3>1, <3>2, IpWeightBounds DEF BurstableWeightsInBounds, WeightInv
    <3>4. QED
      BY <3>1, <3>2, <3>3 DEF WeightInv
  <2>4. CASE StartClient \/ StartShortTerm \/ OpenCost
    BY <1>2, <2>4 DEF StartClient, StartShortTerm, OpenCost, inUseVars, lbVars,
       nodeVars, Weighed
  <2>5. QED
    BY <1>3, <2>1, <2>2, <2>3, <2>4 DEF MainStartUp
<1>4. CASE MainRetires
  <2>1. CASE DrainStop
    <3>1. j \in Nat /\ j < Len(stopped_instances_pending)
      BY <2>1, <1>0, LenProperties DEF DrainStop, Indices, TypeOK, LocalTypes
    <3>2. Range(stopped_instances_pending') \subseteq Range(stopped_instances_pending)
      BY <1>0, <2>1, <3>1, RangeFacts DEF DrainStop
    <3>3. QED
      BY <1>2, <2>1, <3>2 DEF DrainStop, Weighed, nodeVars, lbVars
  <2>2. CASE MainRetires /\ ~DrainStop
    BY <1>2, <2>2 DEF MainRetires, LoopTest, ReadDrainCredit, DrainKeep,
       StopRetired, BlockStopped, Retire, RetireDone, FetchCredit, Estimate,
       inUseVars, lbVars, nodeVars, Weighed
  <2>3. QED
    BY <1>4, <2>1, <2>2
<1>5. CASE MainOnD
  <2>1. CASE StartOnD
    <3>1. onD # <<>> /\ Head(onD) \in OnDemand
      BY <1>0, <2>1, HeadTailProperties DEF StartOnD
    <3>2. \A i \in Burstable : weight'[i] = weight[i]
      BY <1>0, <2>1, <3>1 DEF StartOnD
    <3>3. /\ UNCHANGED <<Weighed, prevIpWeight>>
          /\ mainPc \notin BeforeWeights /\ mainPc' \notin BeforeWeights
      BY <2>1 DEF StartOnD, Weighed, lbVars
    <3>4. QED
      BY <1>1, <3>2, <3>3 DEF WeightInv, BurstableWeightsInBounds
  <2>2. CASE MainOnD /\ ~StartOnD
    BY <1>2, <2>2 DEF MainOnD, ScaleOnD, StartOnDDone, BlockOnD, StopOnD,
       StopOnDDone, inUseVars, lbVars, nodeVars, Weighed
  <2>3. QED
    BY <1>5, <2>1, <2>2
<1>6. CASE MainBur
  <2>1. CASE RefreshPending
    <3>1. Range(stopped_instances_pending') = Range(stopped_instances_pending)
      BY <1>0, <2>1, PermuteType DEF RefreshPending, SortOrders
    <3>2. QED
      BY <1>2, <2>1, <3>1 DEF RefreshPending, Weighed, lbVars
  \* an instance that comes into use gets the weight L
  <2>2. ASSUME NEW i \in Burstable, weight' = [weight EXCEPT ![i] = L],
               Weighed' \subseteq Weighed \cup {i}, UNCHANGED prevIpWeight,
               mainPc \notin BeforeWeights, mainPc' \notin BeforeWeights
        PROVE  WeightInv'
    <3>1. \A k \in Weighed' : weight'[k] \in L..H
      BY <1>0, <1>1, <2>2 DEF WeightInv
    <3>2. QED
      BY <2>2, <3>1 DEF WeightInv, BurstableWeightsInBounds
  <2>3. CASE ReuseDraining
    <3> DEFINE i == Head(stopped_instances_pending)
    <3>1. stopped_instances_pending # <<>> /\ i \in Burstable
      BY <1>0, <2>3, HeadTailProperties DEF ReuseDraining
    <3>2. /\ Range(curr_bur') = Range(curr_bur) \cup {i}
          /\ Range(stopped_instances_pending') \subseteq Range(stopped_instances_pending)
      BY <1>0, <2>3, <3>1, RangeFacts DEF ReuseDraining
    <3>3. Weighed' \subseteq Weighed \cup {i}
      BY <2>3, <3>2 DEF ReuseDraining, Weighed
    <3>4. QED
      BY <2>2, <2>3, <3>1, <3>3 DEF ReuseDraining, lbVars
  <2>4. CASE StartBur
    <3> DEFINE i == Head(bur)
    <3>1. bur # <<>> /\ i \in Burstable
      BY <1>0, <2>4, HeadTailProperties DEF StartBur
    <3>2. Range(curr_bur') = Range(curr_bur) \cup {i}
      BY <1>0, <2>4, <3>1, RangeFacts DEF StartBur
    <3>3. Weighed' \subseteq Weighed \cup {i}
      BY <2>4, <3>2 DEF StartBur, Weighed
    <3>4. QED
      BY <2>2, <2>4, <3>1, <3>3 DEF StartBur, lbVars
  <2>5. CASE SortBegin
    BY <1>2, <2>5 DEF SortBegin, Weighed, Range, nodeVars, lbVars
  <2>6. CASE SortEnd
    <3>1. Range(curr_bur') = Range(sorting)
      BY <1>0, <2>6, PermuteType DEF SortEnd, SortOrders
    <3>2. Range(sorting') = {}
      BY <2>6 DEF SortEnd, Range
    <3>3. QED
      BY <1>2, <2>6, <3>1, <3>2 DEF SortEnd, Weighed, nodeVars, lbVars
  <2>7. CASE SortAtOnce
    <3>1. Range(curr_bur') = Range(curr_bur)
      BY <1>0, <2>7, PermuteType DEF SortAtOnce, SortOrders
    <3>2. QED
      BY <1>2, <2>7, <3>1 DEF SortAtOnce, Weighed, nodeVars, lbVars
  <2>8. CASE DrainBur
    <3>1. curr_bur # <<>> /\ Head(curr_bur) \in Burstable
      BY <1>0, <2>8, HeadTailProperties DEF DrainBur, TypeOK, LocalTypes
    <3>2. /\ Range(curr_bur') \subseteq Range(curr_bur)
          /\ Range(stopped_instances_pending')
               = Range(stopped_instances_pending) \cup {Head(curr_bur)}
          /\ Head(curr_bur) \in Range(curr_bur)
      BY <1>0, <2>8, <3>1, RangeFacts DEF DrainBur
    <3>3. QED
      BY <1>2, <2>8, <3>2 DEF DrainBur, Weighed, nodeVars, lbVars
  <2>9. CASE ScaleBur \/ StartBurDone \/ BlockBur \/ RefreshBur \/ DrainBurEnter
             \/ DrainBurDone
    BY <1>2, <2>9 DEF ScaleBur, StartBurDone, BlockBur, RefreshBur, DrainBurEnter,
       DrainBurDone, inUseVars, nodeVars, lbVars, Weighed
  <2>10. QED
    BY <1>6, <2>1, <2>3, <2>4, <2>5, <2>6, <2>7, <2>8, <2>9 DEF MainBur
<1>7. CASE MainEnds
  BY <1>2, <1>7 DEF MainEnds, Join, Shutdown, CloseCost, WriteCost, inUseVars,
     nodeVars, lbVars, Weighed
<1>8. CASE Short
  <2>0. mainPc \notin BeforeWeights /\ UNCHANGED mainPc
    BY <1>8 DEF Short, ShortLoopTest, GetLatency, Optimize, Reweigh, Update, WeightInv
  <2>1. CASE ShortLoopTest \/ GetLatency \/ Optimize
    BY <1>2, <2>0, <2>1 DEF ShortLoopTest, GetLatency, Optimize, inUseVars,
       nodeVars, lbVars, Weighed
  <2>2. CASE Reweigh
    <3>1. opt.base \in Int /\ opt.base - 1 \in Int /\ opt.biased \in Int
      BY DEF TypeOK, LocalTypes
    <3>2. \A i \in Weighed : weight'[i] \in L..H
      BY <1>0, <1>1, <2>0, <2>2, <3>1, ClampBounds DEF Reweigh, WeightInv
    <3>3. UNCHANGED <<Weighed, prevIpWeight>>
      BY <2>2 DEF Reweigh, Weighed, inUseVars, lbVars
    <3>4. QED
      BY <2>0, <3>2, <3>3 DEF WeightInv, BurstableWeightsInBounds
  <2>3. CASE Update
    <3>1. PICK view \in BurViews : UpdateConf(IpWeight(view))
      BY <2>3 DEF Update
    <3>2. prevIpWeight' = IpWeight(view) /\ UNCHANGED <<weight, Weighed>>
      BY <2>3, <3>1 DEF Update, UpdateConf, Weighed, inUseVars, nodeVars
    <3>3. view \in Seq(Burstable) /\ Range(view) \subseteq Range(curr_bur)
      BY ViewType
    <3>4. BurstableWeightsInBounds'
      BY <2>0, <3>2, <3>3, IpWeightBounds DEF BurstableWeightsInBounds, WeightInv
    <3>5. QED
      BY <2>0, <3>2, <3>4 DEF WeightInv
  <2>4. QED
    BY <1>8, <2>1, <2>2, <2>3 DEF Short
<1>9. CASE ClientEnds \/ (\E i \in Instances : MachineSettles(i)) \/ UNCHANGED vars
  <2>1. UNCHANGED <<mainPc, shortPc, curr_bur, sorting, stopped_instances_pending,
                    weight, prevIpWeight>>
    BY <1>9 DEF ClientEnds, MachineSettles, vars, threadVars, shortVars, inUseVars,
       nodeVars, lbVars
  <2>2. QED
    BY <2>1 DEF WeightInv, Weighed, BurstableWeightsInBounds
<1>10. QED
  BY <1>3, <1>4, <1>5, <1>6, <1>7, <1>8, <1>9 DEF Next, Main, Ended

\* BurstableWeightsInBounds: for any fleet and any L <= H, no burstable instance
\* is ever sent to nginx with a weight outside L..H.
THEOREM WeightsCorrect == Spec => []BurstableWeightsInBounds
<1>1. Init => WeightInv
  BY DEF Init, WeightInv, BurstableWeightsInBounds, BeforeWeights
<1>2. TypeOK /\ Indices /\ WeightInv /\ [Next]_vars => WeightInv'
  BY WeightStep
<1>3. TypeOK /\ Indices /\ [Next]_vars => TypeOK' /\ Indices'
  BY TypeStep
<1>4. WeightInv => BurstableWeightsInBounds
  BY DEF WeightInv
<1>5. QED
  BY TypeInit, <1>1, <1>2, <1>3, <1>4, PTL DEF Spec

=============================================================================
