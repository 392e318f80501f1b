------------------------------ MODULE Controller ------------------------------
(***************************************************************************)
(* The AutoBurst controller: the main thread of runExperiments, which      *)
(* rents and retires EC2 instances, the short-term thread, which re-weighs *)
(* the running instances and rewrites the nginx configuration, the client  *)
(* thread, and the one lock they share (src/src/autoBurstController.py,    *)
(* with AutoBurstPolicies from autoBurst.py and updateConf from            *)
(* LoadBalancerUtility.py).                                                *)
(*                                                                         *)
(* An instance is an element of one of the two sets OnDemand and           *)
(* Burstable; its Node object is its entry in weight and creditBalance.    *)
(* Lists are sequences, in the order the program keeps them.  Credits are  *)
(* counted in tenths, so "credit < 0.1" reads credit < 1.                  *)
(***************************************************************************)
EXTENDS Integers, Sequences, FiniteSets, FiniteSetsExt, Functions

CONSTANTS
  WikiOnD,        \* on-demand part of wikiCreationInfo["Instances"], in order
  WikiBur,        \* burstable part of wikiCreationInfo["Instances"], in order
  InitOnD,        \* config "onDnodes"
  InitBur,        \* config "burNodes"
  L, H,           \* config "L", "H": least and greatest weight
  BurCounts,      \* the answers of findNumberOfBurstable on this table
  Credits,        \* credit balances the metrics can report (in tenths)
  PreemptSort,    \* does the interpreter switch threads inside list.sort?
  DeliveryFails   \* may scp or the reload over ssh fail?

OnDemand  == Range(WikiOnD)
Burstable == Range(WikiBur)
Instances == OnDemand \cup Burstable

ASSUME WikiAssumption ==
  /\ WikiOnD \in Seq(OnDemand) /\ IsInjective(WikiOnD)
  /\ WikiBur \in Seq(Burstable) /\ IsInjective(WikiBur)
  /\ OnDemand \cap Burstable = {}

ASSUME ConfigAssumption ==
  /\ InitOnD \in 0..Len(WikiOnD)
  /\ InitBur \in 0..Len(WikiBur)
  /\ L \in Nat \ {0} /\ H \in Nat /\ L <= H
  /\ BurCounts \subseteq Nat
  /\ Credits \subseteq Nat /\ Credits # {}
  /\ PreemptSort \in BOOLEAN /\ DeliveryFails \in BOOLEAN

NoData == -1      \* getMetricStats found no datapoint in its window

VARIABLES
  mainPc, shortPc, clientPc,     \* where each thread stands
  lock,                          \* "free", "main" or "short"
  clientRunning, shortTermThreadRunning,
  onD, bur,                      \* the pools of unused instances
  curr_onD, curr_bur,            \* the instances in use
  sorting,                       \* what list.sort holds of curr_bur
  stopped_instances_pending, stopped_instances,
  weight, creditBalance,         \* attributes of the Node objects
  left, j, credit, od, b, added, \* locals of the main loop
  latency, opt,                  \* locals of shortTermDecision
  cost,                          \* last entry of burCost[i] / ondCost[i]
  prevIpWeight,                  \* last list updateConf was asked for
  lbConf,                        \* servers the running nginx balances over
  ec2                            \* state of each virtual machine (external)

threadVars == <<mainPc, shortPc, clientPc, lock>>
flagVars   == <<clientRunning, shortTermThreadRunning>>
poolVars   == <<onD, bur, stopped_instances>>
inUseVars  == <<curr_onD, curr_bur, sorting, stopped_instances_pending>>
nodeVars   == <<weight, creditBalance>>
mainLocals == <<left, j, credit, od, b, added>>
shortVars  == <<shortPc, latency, opt>>
lbVars     == <<prevIpWeight, lbConf>>
vars == <<threadVars, flagVars, poolVars, inUseVars, nodeVars, mainLocals,
          latency, opt, cost, lbVars, ec2>>

-----------------------------------------------------------------------------
(* Helpers *)

\* Mutant: the lower bound is forgotten
ClampNoFloor(w) == IF w > H THEN H ELSE w

\* int(max(min(w, H), L)), how every burstable weight is produced
Clamp(w) == IF w > H THEN H ELSE IF w < L THEN L ELSE w

\* Mutant: the order is reversed
SortOrdersReversed(s, rank) ==
  {p \in Bijection(DOMAIN s, DOMAIN s) :
     \A m, n \in DOMAIN s : m < n => rank[s[p[m]]] >= rank[s[p[n]]]}

\* The permutations list.sort(key=rank) may apply to s: Python sorts stably
\* (with reverse=True too, which is a stable sort of the negated key), so
\* there is exactly one.
SortOrders(s, rank) ==
  {p \in Bijection(DOMAIN s, DOMAIN s) :
     \A m, n \in DOMAIN s : m < n =>
        \/ rank[s[p[m]]] < rank[s[p[n]]]
        \/ rank[s[p[m]]] = rank[s[p[n]]] /\ p[m] < p[n]}

Permute(s, p) == [k \in DOMAIN s |-> s[p[k]]]

\* Mutant: the element is read but not removed
WithoutNothing(s, k) == s

\* list.pop(k) for a 0-based index k
Without(s, k) ==
  [m \in 1..(Len(s) - 1) |-> IF m <= k THEN s[m] ELSE s[m + 1]]

\* [(x.info['PrivateIpAddress'], x.weight) for x in s]
IpWeights(s) == [k \in DOMAIN s |-> <<s[k], weight[s[k]]>>]

\* The nodes that a loop of the short-term thread over curr_bur goes through.
\* The main thread sorts the list without the lock: a loop that is overtaken by
\* the sort goes on in the sorted list, after `old` nodes of the unsorted one,
\* and ends early, after n nodes, if it finds the list empty in between.
BurViews ==
  IF PreemptSort /\ mainPc = "sortBur"
  THEN {[k \in 1..n |-> IF k <= old THEN curr_bur[k] ELSE curr_bur[p[k]]] :
          p \in SortOrders(curr_bur, creditBalance),
          old \in 0..Len(curr_bur), n \in 0..Len(curr_bur)}
  ELSE {curr_bur}

\* Mutant: the draining instances are left out
IpWeightNoDraining(view) == IpWeights(curr_onD) \o IpWeights(view)

\* The list updateConf builds when its loop over curr_bur goes through view
IpWeight(view) == IpWeights(curr_onD) \o IpWeights(view)
                    \o IpWeights(stopped_instances_pending)

\* Mutant: only the lengths are compared
SameLength(s, t) == Len(s) = Len(t)

\* len equal and every pair equal, as updateConf compares two lists
SameConf(s, t) == s = t

\* updateConf: nothing is sent when the list equals the previous one; what
\* is sent may be lost, for neither scp nor ssh is checked; nginx refuses
\* an upstream block without servers and keeps its old configuration.
UpdateConf(ipWeight) ==
  /\ prevIpWeight' = ipWeight
  /\ IF prevIpWeight # <<>> /\ SameConf(ipWeight, prevIpWeight)
     THEN lbConf' = lbConf
     ELSE \/ lbConf' = IF ipWeight = <<>> THEN lbConf ELSE ipWeight
          \/ DeliveryFails /\ lbConf' = lbConf

\* stop-instances and start-instances, as EC2 answers them.  (That it carries out
\* what it is asked is assumed: a refused start-instances leaves json.loads without
\* an answer, and its exception would end the main thread.)
StopInstances(S) ==
  ec2' = [i \in Instances |->
            IF i \in S /\ ec2[i] \in {"pending", "running"}
            THEN "stopping" ELSE ec2[i]]
StartInstance(i) ==
  ec2' = [ec2 EXCEPT ![i] = IF @ = "stopped" THEN "pending" ELSE @]

\* Mutant: the new rental gets no cost entry
BillNothing(i) == cost' = cost

\* ondCost[i].append([now, 0]), burCost[i].append([now, 0])
BillFromNow(i) == cost' = [cost EXCEPT ![i] = "open"]

\* Mutant: the two pools are mixed up
BackToWrongPool(i) ==
  /\ bur' = IF i \in Burstable THEN bur ELSE Append(bur, i)
  /\ onD' = IF i \in Burstable THEN Append(onD, i) ELSE onD

\* the append to bur or onD, by the type of the instance
BackToPool(i) ==
  /\ bur' = IF i \in Burstable THEN Append(bur, i) ELSE bur
  /\ onD' = IF i \in Burstable THEN onD ELSE Append(onD, i)

\* Mutant: the wait ends when the stop request was accepted
AllStopping(S) == \A i \in S : ec2[i] \in {"stopping", "stopped"}

\* block(i, 'stopped') for each i in S
AllStopped(S) == \A i \in S : ec2[i] = "stopped"

\* Mutant: off by one at the front
NewlyAddedButFirst(s) == (Len(s) - added + 2)..Len(s)

\* range(len(s) - countAddedInst, len(s)), 1-based
NewlyAdded(s) == (Len(s) - added + 1)..Len(s)

\* Mutant: the on-demand change is not capped
Uncapped(changeVal) == changeVal

\* if changeVal > unused_onD: changeVal = unused_onD
Capped(changeVal) == IF changeVal > Len(onD) THEN Len(onD) ELSE changeVal

\* Mutant: the lock is not taken
LockIgnored == TRUE

\* with lock: waits until nobody holds it
LockFree == lock = "free"

\* Mutant: the thread returns without telling the main thread
ExitSilently == UNCHANGED shortTermThreadRunning

\* the last two lines of shortTermDecision
SignalExit == shortTermThreadRunning' = FALSE

MainAt(here, there) == mainPc = here /\ mainPc' = there
MainAcquires == LockFree /\ lock' = "main"
MainHolds    == lock = "main" /\ UNCHANGED lock
MainReleases == lock = "main" /\ lock' = "free"

NoOpt == [base |-> 0, biased |-> 0, min |-> 0]

-----------------------------------------------------------------------------
(* The state getWikiNodeInfo leaves: every instance runs, unused, with     *)
(* weight 1, and nginx balances over all of them.                          *)
Init ==
  /\ mainPc = "setStartUp" /\ shortPc = "off" /\ clientPc = "off"
  /\ lock = "free"
  /\ clientRunning = TRUE /\ shortTermThreadRunning = TRUE
  /\ onD = WikiOnD /\ bur = WikiBur
  /\ curr_onD = <<>> /\ curr_bur = <<>> /\ sorting = <<>>
  /\ stopped_instances_pending = <<>> /\ stopped_instances = <<>>
  /\ weight = [i \in Instances |-> 1]
  /\ creditBalance = [i \in Burstable |-> 0]
  /\ left = 0 /\ j = 0 /\ credit = 0 /\ od = 0 /\ b = 0 /\ added = 0
  /\ latency = "none" /\ opt = NoOpt
  /\ cost = [i \in Instances |-> "none"]
  /\ prevIpWeight = <<>>
  /\ lbConf = IpWeights(WikiOnD \o WikiBur)
  /\ ec2 = [i \in Instances |-> "running"]

-----------------------------------------------------------------------------
(* Main thread: start-up *)

\* setStartUpNodes, the part under the lock
SetStartUpNodes ==
  /\ MainAt("setStartUp", "stopUnused") /\ LockFree
  /\ curr_onD' = SubSeq(onD, 1, InitOnD)
  /\ onD' = SubSeq(onD, InitOnD + 1, Len(onD))
  /\ curr_bur' = SubSeq(bur, 1, InitBur)
  /\ bur' = SubSeq(bur, InitBur + 1, Len(bur))
  /\ UNCHANGED <<shortVars, clientPc, lock, flagVars, sorting, nodeVars,
                 stopped_instances_pending, stopped_instances, mainLocals,
                 cost, lbVars, ec2>>

\* setStartUpNodes, the stop requests for the instances left in the pools
StopUnused ==
  /\ MainAt("stopUnused", "blockUnused")
  /\ StopInstances(Range(onD) \cup Range(bur))
  /\ UNCHANGED <<shortVars, clientPc, lock, flagVars, poolVars, inUseVars,
                 nodeVars, mainLocals, cost, lbVars>>

\* setStartUpNodes, block(instance, 'stopped') for each of them
BlockUnused ==
  /\ MainAt("blockUnused", "initWeight")
  /\ AllStopped(Range(onD) \cup Range(bur))
  /\ UNCHANGED <<shortVars, clientPc, lock, flagVars, poolVars, inUseVars,
                 nodeVars, mainLocals, cost, lbVars, ec2>>

\* with lock: init_weight(...); the first updateConf
InitWeight ==
  /\ MainAt("initWeight", "firstConf") /\ MainAcquires
  /\ \E w \in L..H :
       weight' = [i \in Instances |->
                    IF i \in Range(curr_onD) THEN H
                    ELSE IF i \in Range(curr_bur) THEN w
                    ELSE weight[i]]
  /\ UNCHANGED <<shortVars, clientPc, flagVars, poolVars, inUseVars,
                 creditBalance, mainLocals, cost, lbVars, ec2>>

FirstConf ==
  /\ MainAt("firstConf", "startClient") /\ MainReleases
  /\ UpdateConf(IpWeight(curr_bur))
  /\ UNCHANGED <<shortVars, clientPc, flagVars, poolVars, inUseVars,
                 nodeVars, mainLocals, cost, ec2>>

StartClient ==
  /\ MainAt("startClient", "startShort")
  /\ clientPc' = "running"
  /\ UNCHANGED <<shortVars, lock, flagVars, poolVars, inUseVars, nodeVars,
                 mainLocals, cost, lbVars, ec2>>

StartShortTerm ==
  /\ MainAt("startShort", "openCost")
  /\ shortPc' = "check"
  /\ UNCHANGED <<clientPc, lock, latency, opt, flagVars, poolVars, inUseVars,
                 nodeVars, mainLocals, cost, lbVars, ec2>>

\* a first entry [now, 0] for each instance in use
OpenCost ==
  /\ MainAt("openCost", "loop")
  /\ cost' = [i \in Instances |->
                IF i \in Range(curr_onD) \cup Range(curr_bur)
                THEN "open" ELSE cost[i]]
  /\ UNCHANGED <<shortVars, clientPc, lock, flagVars, poolVars, inUseVars,
                 nodeVars, mainLocals, lbVars, ec2>>

-----------------------------------------------------------------------------
(* Main thread: one iteration of while (clientRunning) *)

LoopTest ==
  /\ mainPc = "loop"
  /\ \/ /\ clientRunning
        /\ mainPc' = "drain"
        /\ left' = Len(stopped_instances_pending)
        /\ j' = 0
     \/ /\ ~clientRunning
        /\ mainPc' = "join"
        /\ UNCHANGED <<left, j>>
  /\ UNCHANGED <<shortVars, clientPc, lock, flagVars, poolVars, inUseVars,
                 nodeVars, credit, od, b, added, cost, lbVars, ec2>>

\* credit = getMetricStats(stopped_instances_pending[j], ...)[0]
ReadDrainCredit ==
  /\ MainAt("drain", "drainDecide") /\ left > 0
  /\ credit' \in Credits \cup {NoData}
  /\ UNCHANGED <<shortVars, clientPc, lock, flagVars, poolVars, inUseVars,
                 nodeVars, left, j, od, b, added, cost, lbVars, ec2>>

\* if credit < 0.1: with lock: stopped_instances.append(pending.pop(j))
DrainStop ==
  /\ MainAt("drainDecide", "drain") /\ LockFree
  /\ credit < 1
  /\ stopped_instances' =
       Append(stopped_instances, stopped_instances_pending[j + 1])
  /\ stopped_instances_pending' = Without(stopped_instances_pending, j)
  /\ left' = left - 1
  /\ UNCHANGED <<shortVars, clientPc, lock, flagVars, onD, bur, curr_onD,
                 curr_bur, sorting, nodeVars, j, credit, od, b, added, cost,
                 lbVars, ec2>>

\* else: j += 1
DrainKeep ==
  /\ MainAt("drainDecide", "drain")
  /\ credit >= 1
  /\ j' = j + 1
  /\ left' = left - 1
  /\ UNCHANGED <<shortVars, clientPc, lock, flagVars, poolVars, inUseVars,
                 nodeVars, credit, od, b, added, cost, lbVars, ec2>>

\* The stop requests for everything in stopped_instances (dead locals are
\* set back to 0 here and below, which the program does not observe).
StopRetired ==
  /\ MainAt("drain", "blockStopped") /\ left = 0
  /\ left' = Len(stopped_instances) /\ j' = 0 /\ credit' = 0
  /\ StopInstances(Range(stopped_instances))
  /\ UNCHANGED <<shortVars, clientPc, lock, flagVars, poolVars, inUseVars,
                 nodeVars, od, b, added, cost, lbVars>>

BlockStopped ==
  /\ MainAt("blockStopped", "retire")
  /\ AllStopped(Range(stopped_instances))
  /\ UNCHANGED <<shortVars, clientPc, lock, flagVars, poolVars, inUseVars,
                 nodeVars, mainLocals, cost, lbVars, ec2>>

\* The last cost entry is closed (or [0, now] appended when there is none)
\* and the instance goes back to the pool of its kind.
Retire ==
  /\ MainAt("retire", "retire") /\ left > 0
  /\ LET i == Head(stopped_instances) IN
       /\ cost' = [cost EXCEPT ![i] = "closed"]
       /\ BackToPool(i)
  /\ stopped_instances' = Tail(stopped_instances)
  /\ left' = left - 1
  /\ UNCHANGED <<shortVars, clientPc, lock, flagVars, inUseVars, nodeVars, j,
                 credit, od, b, added, lbVars, ec2>>

RetireDone ==
  /\ MainAt("retire", "credits") /\ left = 0
  /\ left' = Len(curr_bur) + Len(stopped_instances_pending)
  /\ UNCHANGED <<shortVars, clientPc, lock, flagVars, poolVars, inUseVars,
                 nodeVars, j, credit, od, b, added, cost, lbVars, ec2>>

\* getCreditTotal, one instance: creditBalance is written without the lock
FetchCredit ==
  /\ MainAt("credits", "credits") /\ left > 0
  /\ LET s == curr_bur \o stopped_instances_pending
     IN  \E c \in Credits \cup {0} :
           creditBalance' = [creditBalance EXCEPT ![s[Len(s) - left + 1]] = c]
  /\ left' = left - 1
  /\ UNCHANGED <<shortVars, clientPc, lock, flagVars, poolVars, inUseVars,
                 weight, j, credit, od, b, added, cost, lbVars, ec2>>

\* resource_estimator: the integrator moves on-demand by at most two, capped
\* by the unused instances and by 0; the table answers a burstable count.
Estimate ==
  /\ MainAt("credits", "scaleOnD") /\ left = 0
  /\ \E changeVal \in -2..2, n \in BurCounts :
       LET target == Len(curr_onD) + Capped(changeVal)
       IN  /\ od' = IF target < 0 THEN 0 ELSE target
           /\ b' = n
  /\ UNCHANGED <<shortVars, clientPc, lock, flagVars, poolVars, inUseVars,
                 nodeVars, left, j, credit, added, cost, lbVars, ec2>>

-----------------------------------------------------------------------------
(* Main thread: scaling the on-demand instances *)

ScaleOnD ==
  /\ mainPc = "scaleOnD"
  /\ \/ /\ od > Len(curr_onD) /\ MainAcquires
        /\ mainPc' = "startOnD" /\ added' = 0
     \/ /\ od < Len(curr_onD) /\ MainAcquires
        /\ mainPc' = "stopOnD" /\ UNCHANGED added
     \/ /\ od = Len(curr_onD) /\ UNCHANGED <<lock, added>>
        /\ mainPc' = "scaleBur"
  /\ UNCHANGED <<shortVars, clientPc, flagVars, poolVars, inUseVars, nodeVars,
                 left, j, credit, od, b, cost, lbVars, ec2>>

\* one turn of while (od > len(curr_onD)): the new node takes the weight of
\* the first one in use, or 1 when none is
StartOnD ==
  /\ MainAt("startOnD", "startOnD") /\ MainHolds
  /\ od > Len(curr_onD) /\ Len(onD) > 0
  /\ LET i == Head(onD) IN
       /\ StartInstance(i)
       /\ weight' = [weight EXCEPT ![i] =
                       IF Len(curr_onD) > 0 THEN weight[Head(curr_onD)] ELSE 1]
       /\ BillFromNow(i)
       /\ curr_onD' = Append(curr_onD, i)
  /\ onD' = Tail(onD)
  /\ added' = added + 1
  /\ UNCHANGED <<shortVars, clientPc, flagVars, bur, stopped_instances,
                 curr_bur, sorting, stopped_instances_pending, creditBalance,
                 left, j, credit, od, b, lbVars>>

\* the loop ends (its "no more available onD" exit is never taken: the
\* estimator asks for no more than there is, see OnDTargetIsAvailable)
StartOnDDone ==
  /\ MainAt("startOnD", "blockOnD") /\ MainReleases
  /\ od <= Len(curr_onD) \/ Len(onD) = 0
  /\ UNCHANGED <<shortVars, clientPc, flagVars, poolVars, inUseVars, nodeVars,
                 mainLocals, cost, lbVars, ec2>>

\* block(curr_onD[i], 'running') for the countAddedInst last ones
BlockOnD ==
  /\ MainAt("blockOnD", "scaleBur")
  /\ \A k \in NewlyAdded(curr_onD) : ec2[curr_onD[k]] = "running"
  /\ added' = 0
  /\ UNCHANGED <<shortVars, clientPc, lock, flagVars, poolVars, inUseVars,
                 nodeVars, left, j, credit, od, b, cost, lbVars, ec2>>

StopOnD ==
  /\ MainAt("stopOnD", "stopOnD") /\ MainHolds
  /\ od < Len(curr_onD)
  /\ stopped_instances' = Append(stopped_instances, Head(curr_onD))
  /\ curr_onD' = Tail(curr_onD)
  /\ UNCHANGED <<shortVars, clientPc, flagVars, onD, bur, curr_bur, sorting,
                 stopped_instances_pending, nodeVars, mainLocals, cost,
                 lbVars, ec2>>

StopOnDDone ==
  /\ MainAt("stopOnD", "scaleBur") /\ MainReleases
  /\ od >= Len(curr_onD)
  /\ UNCHANGED <<shortVars, clientPc, flagVars, poolVars, inUseVars, nodeVars,
                 mainLocals, cost, lbVars, ec2>>

-----------------------------------------------------------------------------
(* Main thread: scaling the burstable instances *)

ScaleBur ==
  /\ mainPc = "scaleBur"
  /\ \/ b > Len(curr_bur) /\ MainAcquires /\ mainPc' = "refreshPending"
     \/ b < Len(curr_bur) /\ MainAcquires /\ mainPc' = "refreshBur"
     \/ b = Len(curr_bur) /\ UNCHANGED lock /\ mainPc' = "loop"
  /\ UNCHANGED <<shortVars, clientPc, flagVars, poolVars, inUseVars, nodeVars,
                 mainLocals, cost, lbVars, ec2>>

\* the credits of the draining instances are read again and the list is
\* sorted by them, greatest first
RefreshPending ==
  /\ MainAt("refreshPending", "startBur") /\ MainHolds
  /\ \E c \in [Range(stopped_instances_pending) -> Credits \cup {0}] :
       LET balance == [i \in Burstable |->
                         IF i \in DOMAIN c THEN c[i] ELSE creditBalance[i]]
       IN  /\ creditBalance' = balance
           /\ \E p \in SortOrders(stopped_instances_pending,
                                  [i \in Burstable |-> -balance[i]]) :
                stopped_instances_pending' =
                  Permute(stopped_instances_pending, p)
  /\ added' = 0
  /\ UNCHANGED <<shortVars, clientPc, flagVars, poolVars, curr_onD, curr_bur,
                 sorting, weight, left, j, credit, od, b, cost, lbVars, ec2>>

\* a draining instance is taken back before a stopped one is started
ReuseDraining ==
  /\ MainAt("startBur", "startBur") /\ MainHolds
  /\ b > Len(curr_bur) /\ Len(stopped_instances_pending) > 0
  /\ LET i == Head(stopped_instances_pending) IN
       /\ weight' = [weight EXCEPT ![i] = L]
       /\ curr_bur' = Append(curr_bur, i)
  /\ stopped_instances_pending' = Tail(stopped_instances_pending)
  /\ added' = added + 1
  /\ UNCHANGED <<shortVars, clientPc, flagVars, poolVars, curr_onD, sorting,
                 creditBalance, left, j, credit, od, b, cost, lbVars, ec2>>

StartBur ==
  /\ MainAt("startBur", "startBur") /\ MainHolds
  /\ b > Len(curr_bur) /\ Len(stopped_instances_pending) = 0 /\ Len(bur) > 0
  /\ LET i == Head(bur) IN
       /\ StartInstance(i)
       /\ weight' = [weight EXCEPT ![i] = L]
       /\ BillFromNow(i)
       /\ curr_bur' = Append(curr_bur, i)
  /\ bur' = Tail(bur)
  /\ added' = added + 1
  /\ UNCHANGED <<shortVars, clientPc, flagVars, onD, stopped_instances,
                 curr_onD, sorting, stopped_instances_pending, creditBalance,
                 left, j, credit, od, b, lbVars>>

StartBurDone ==
  /\ MainAt("startBur", "blockBur") /\ MainReleases
  /\ b <= Len(curr_bur) \/ Len(stopped_instances_pending) + Len(bur) = 0
  /\ UNCHANGED <<shortVars, clientPc, flagVars, poolVars, inUseVars, nodeVars,
                 mainLocals, cost, lbVars, ec2>>

BlockBur ==
  /\ MainAt("blockBur", "loop")
  /\ \A k \in NewlyAdded(curr_bur) : ec2[curr_bur[k]] = "running"
  /\ added' = 0
  /\ UNCHANGED <<shortVars, clientPc, lock, flagVars, poolVars, inUseVars,
                 nodeVars, left, j, credit, od, b, cost, lbVars, ec2>>

\* with lock: the credits of the instances in use are read again
RefreshBur ==
  /\ MainAt("refreshBur", "sortBur") /\ MainReleases
  /\ \E c \in [Range(curr_bur) -> Credits \cup {0}] :
       creditBalance' = [i \in Burstable |->
                           IF i \in DOMAIN c THEN c[i] ELSE creditBalance[i]]
  /\ UNCHANGED <<shortVars, clientPc, flagVars, poolVars, inUseVars, weight,
                 mainLocals, cost, lbVars, ec2>>

\* curr_bur.sort(key=creditBalance), outside the lock: while it runs its key
\* function, list.sort keeps the elements to itself and the list is empty
SortBegin ==
  /\ MainAt("sortBur", "sortEnd") /\ PreemptSort
  /\ sorting' = curr_bur
  /\ curr_bur' = <<>>
  /\ UNCHANGED <<shortVars, clientPc, lock, flagVars, poolVars, curr_onD,
                 stopped_instances_pending, nodeVars, mainLocals, cost,
                 lbVars, ec2>>

SortEnd ==
  /\ MainAt("sortEnd", "drainBur")
  /\ \E p \in SortOrders(sorting, creditBalance) :
       curr_bur' = Permute(sorting, p)
  /\ sorting' = <<>>
  /\ UNCHANGED <<shortVars, clientPc, lock, flagVars, poolVars, curr_onD,
                 stopped_instances_pending, nodeVars, mainLocals, cost,
                 lbVars, ec2>>

\* the same sort in an experiment in which no thread switch falls inside it
SortAtOnce ==
  /\ MainAt("sortBur", "drainBur") /\ ~PreemptSort
  /\ \E p \in SortOrders(curr_bur, creditBalance) :
       curr_bur' = Permute(curr_bur, p)
  /\ UNCHANGED <<shortVars, clientPc, lock, flagVars, poolVars, curr_onD,
                 sorting, stopped_instances_pending, nodeVars, mainLocals,
                 cost, lbVars, ec2>>

\* with lock: while len(curr_bur) > b: the poorest instances start draining
DrainBurEnter ==
  /\ MainAt("drainBur", "draining") /\ MainAcquires
  /\ UNCHANGED <<shortVars, clientPc, flagVars, poolVars, inUseVars, nodeVars,
                 mainLocals, cost, lbVars, ec2>>

DrainBur ==
  /\ MainAt("draining", "draining") /\ MainHolds
  /\ Len(curr_bur) > b
  /\ stopped_instances_pending' =
       Append(stopped_instances_pending, Head(curr_bur))
  /\ curr_bur' = Tail(curr_bur)
  /\ UNCHANGED <<shortVars, clientPc, flagVars, poolVars, curr_onD, sorting,
                 nodeVars, mainLocals, cost, lbVars, ec2>>

DrainBurDone ==
  /\ MainAt("draining", "loop") /\ MainReleases
  /\ Len(curr_bur) <= b
  /\ UNCHANGED <<shortVars, clientPc, flagVars, poolVars, inUseVars, nodeVars,
                 mainLocals, cost, lbVars, ec2>>

-----------------------------------------------------------------------------
(* Main thread: the end of the experiment *)

\* while (shortTermThreadRunning): time.sleep(1)
Join ==
  /\ MainAt("join", "shutdown")
  /\ ~shortTermThreadRunning
  /\ UNCHANGED <<shortVars, clientPc, lock, flagVars, poolVars, inUseVars,
                 nodeVars, mainLocals, cost, lbVars, ec2>>

\* stopAllRunningInstances (load balancer and databases) and deleteInstances
Shutdown ==
  /\ MainAt("shutdown", "closeCost")
  /\ ec2' = [i \in Instances |-> "terminated"]
  /\ lbConf' = <<>>
  /\ UNCHANGED <<shortVars, clientPc, lock, flagVars, poolVars, inUseVars,
                 nodeVars, mainLocals, cost, prevIpWeight>>

\* entries whose end is still 0 get one
CloseCost ==
  /\ MainAt("closeCost", "writeCost")
  /\ cost' = [i \in Instances |->
                IF cost[i] = "open" THEN "closed" ELSE cost[i]]
  /\ UNCHANGED <<shortVars, clientPc, lock, flagVars, poolVars, inUseVars,
                 nodeVars, mainLocals, lbVars, ec2>>

\* writeCostToFile indexes the list burCost[id] with 'InstanceType' and so
\* raises TypeError on its first row; without instances it has no row.
WriteCost ==
  /\ mainPc = "writeCost"
  /\ mainPc' = IF Instances = {} THEN "done" ELSE "raised"
  /\ UNCHANGED <<shortVars, clientPc, lock, flagVars, poolVars, inUseVars,
                 nodeVars, mainLocals, cost, lbVars, ec2>>

-----------------------------------------------------------------------------
(* Short-term thread: shortTermDecision *)

ShortLoopTest ==
  /\ shortPc = "check"
  /\ \/ /\ clientRunning
        /\ shortPc' = "latency"
        /\ UNCHANGED shortTermThreadRunning
     \/ /\ ~clientRunning
        /\ shortPc' = "exited"
        /\ SignalExit
  /\ UNCHANGED <<mainPc, clientPc, lock, latency, opt, clientRunning,
                 poolVars, inUseVars, nodeVars, mainLocals, cost, lbVars, ec2>>

\* getLatencyStatsK6Cloud: asks again while the answer is "null"; then an
\* empty string (the query failed) or a number
GetLatency ==
  /\ shortPc = "latency" /\ shortPc' = "optimize"
  /\ latency' \in {"empty", "number"}
  /\ UNCHANGED <<mainPc, clientPc, lock, opt, flagVars, poolVars, inUseVars,
                 nodeVars, mainLocals, cost, lbVars, ec2>>

\* with lock: latency_optimizer up to its loops over the instances.  The new
\* log-weight is any within its bounds; the draining instances get a bias of
\* 0.1 on it, that is a weight between the base and H.
Optimize ==
  /\ shortPc = "optimize" /\ LockFree
  /\ \/ /\ latency = "empty"
        /\ shortPc' = "update" /\ lock' = "short" /\ UNCHANGED opt
     \/ /\ latency = "number" /\ curr_bur # <<>>
        /\ shortPc' = "reweigh" /\ lock' = "short"
        /\ \E base \in L..H : \E biased \in base..H : \E view \in BurViews :
             opt' = [base |-> base, biased |-> biased,
                     min |-> Min({creditBalance[i] :
                                    i \in {Head(curr_bur)} \cup Range(view)})]
     \/ \* bur[0]: IndexError ends the thread, the lock is released
        /\ latency = "number" /\ curr_bur = <<>>
        /\ shortPc' = "crashed" /\ UNCHANGED <<lock, opt>>
  /\ UNCHANGED <<mainPc, clientPc, latency, flagVars, poolVars, inUseVars,
                 nodeVars, mainLocals, cost, lbVars, ec2>>

\* the loops over bur and bur_stop_pending
Reweigh ==
  /\ shortPc = "reweigh" /\ shortPc' = "update"
  /\ \E view \in BurViews :
       weight' = [i \in Instances |->
         IF i \in Range(view)
         THEN Clamp(IF creditBalance[i] = opt.min THEN opt.base - 1 ELSE opt.base)
         ELSE IF i \in Range(stopped_instances_pending)
         THEN Clamp(opt.biased)
         ELSE weight[i]]
  /\ opt' = NoOpt
  /\ UNCHANGED <<mainPc, clientPc, lock, latency, flagVars, poolVars,
                 inUseVars, creditBalance, mainLocals, cost, lbVars, ec2>>

\* updateConf(onD, bur, pending_stop), then the lock is released
Update ==
  /\ shortPc = "update" /\ shortPc' = "check"
  /\ lock' = "free" /\ latency' = "none"
  /\ \E view \in BurViews : UpdateConf(IpWeight(view))
  /\ UNCHANGED <<mainPc, clientPc, opt, flagVars, poolVars, inUseVars,
                 nodeVars, mainLocals, cost, ec2>>

-----------------------------------------------------------------------------
(* The client thread and the virtual machines *)

\* runClient: the load generator ended
ClientEnds ==
  /\ clientPc = "running" /\ clientPc' = "ended"
  /\ clientRunning' = FALSE
  /\ UNCHANGED <<mainPc, shortVars, lock, shortTermThreadRunning, poolVars,
                 inUseVars, nodeVars, mainLocals, cost, lbVars, ec2>>

\* EC2 finishes a state change it was asked for
MachineSettles(i) ==
  /\ \/ ec2[i] = "pending" /\ ec2' = [ec2 EXCEPT ![i] = "running"]
     \/ ec2[i] = "stopping" /\ ec2' = [ec2 EXCEPT ![i] = "stopped"]
  /\ UNCHANGED <<threadVars, latency, opt, flagVars, poolVars, inUseVars,
                 nodeVars, mainLocals, cost, lbVars>>

-----------------------------------------------------------------------------

MainStartUp == SetStartUpNodes \/ StopUnused \/ BlockUnused \/ InitWeight
               \/ FirstConf \/ StartClient \/ StartShortTerm \/ OpenCost
MainRetires == LoopTest \/ ReadDrainCredit \/ DrainStop \/ DrainKeep
               \/ StopRetired \/ BlockStopped \/ Retire \/ RetireDone
               \/ FetchCredit \/ Estimate
MainOnD     == ScaleOnD \/ StartOnD \/ StartOnDDone \/ BlockOnD \/ StopOnD
               \/ StopOnDDone
MainBur     == ScaleBur \/ RefreshPending \/ ReuseDraining \/ StartBur
               \/ StartBurDone \/ BlockBur \/ RefreshBur \/ SortBegin
               \/ SortEnd \/ SortAtOnce \/ DrainBurEnter \/ DrainBur
               \/ DrainBurDone
MainEnds    == Join \/ Shutdown \/ CloseCost \/ WriteCost

Main  == MainStartUp \/ MainRetires \/ MainOnD \/ MainBur \/ MainEnds
Short == ShortLoopTest \/ GetLatency \/ Optimize \/ Reweigh \/ Update

\* every thread has ended
Ended ==
  /\ mainPc \in {"done", "raised"} /\ clientPc = "ended"
  /\ shortPc \in {"exited", "crashed"}
  /\ UNCHANGED vars

Next == Main \/ Short \/ ClientEnds \/ (\E i \in Instances : MachineSettles(i))
        \/ Ended

Spec == Init /\ [][Next]_vars

\* The operating system schedules both threads and EC2 completes what it is
\* asked.  The steps that wait for the lock need strong fairness: each thread
\* frees it in every iteration, with network calls and a sleep before it asks
\* again, and a thread blocked on the lock is woken when it is freed.
ThreadFairness ==
  /\ SF_vars(Main) /\ WF_vars(Short) /\ SF_vars(Optimize)
  /\ \A i \in Instances : WF_vars(MachineSettles(i))

\* A long experiment: the client may run for ever
LongSpec == Spec /\ ThreadFairness

\* A network that loses some deliveries of the configuration, not all of those
\* the short-term thread attempts
LossySpec == LongSpec /\ SF_vars(Update /\ lbConf' = IpWeight(curr_bur))

=============================================================================
