------------------------- MODULE ControllerProperties -------------------------
(***************************************************************************)
(* What the controller promises, and what its comments say of it.          *)
(***************************************************************************)
EXTENDS Controller

\* Positions of the main thread, in the order it passes through them
StartUpPcs == {"setStartUp", "stopUnused", "blockUnused", "initWeight",
               "firstConf", "startClient", "startShort", "openCost"}
LoopPcs    == {"loop", "drain", "drainDecide", "blockStopped", "retire",
               "credits", "scaleOnD", "startOnD", "blockOnD", "stopOnD",
               "scaleBur", "refreshPending", "startBur", "blockBur",
               "refreshBur", "sortBur", "sortEnd", "drainBur", "draining",
               "join", "shutdown"}
EndPcs     == {"closeCost", "writeCost", "done", "raised"}

Ec2States == {"pending", "running", "stopping", "stopped", "terminated"}
Servers(conf) == {conf[k][1] : k \in DOMAIN conf}
InUse  == Range(curr_onD) \cup Range(curr_bur) \cup Range(sorting)
Rented == InUse \cup Range(stopped_instances_pending)
            \cup Range(stopped_instances)
Pool   == Range(onD) \cup Range(bur)

ThreadTypes ==
  /\ mainPc \in StartUpPcs \cup LoopPcs \cup EndPcs
  /\ shortPc \in {"off", "check", "latency", "optimize", "reweigh", "update",
                  "exited", "crashed"}
  /\ clientPc \in {"off", "running", "ended"}
  /\ lock \in {"free", "main", "short"}
  /\ clientRunning \in BOOLEAN /\ shortTermThreadRunning \in BOOLEAN

ListTypes ==
  /\ onD \in Seq(OnDemand) /\ curr_onD \in Seq(OnDemand)
  /\ bur \in Seq(Burstable) /\ curr_bur \in Seq(Burstable)
  /\ sorting \in Seq(Burstable)
  /\ stopped_instances_pending \in Seq(Burstable)
  /\ stopped_instances \in Seq(Instances)

NodeTypes ==
  /\ weight \in [Instances -> Nat]
  /\ creditBalance \in [Burstable -> Credits \cup {0}]

LocalTypes ==
  /\ left \in Nat /\ j \in Nat /\ od \in Nat /\ b \in Nat /\ added \in Nat
  /\ credit \in Credits \cup {0, NoData}
  /\ latency \in {"none", "empty", "number"}
  /\ opt.base \in Nat /\ opt.biased \in Nat

OutsideTypes ==
  /\ cost \in [Instances -> {"none", "open", "closed"}]
  /\ prevIpWeight \in Seq(Instances \X Nat)
  /\ lbConf \in Seq(Instances \X Nat)
  /\ ec2 \in [Instances -> Ec2States]

\* Type invariant: the lists hold instances of their kind, the locals and the
\* Node attributes stay in their ranges.
TypeOK == ThreadTypes /\ ListTypes /\ NodeTypes /\ LocalTypes /\ OutsideTypes

-----------------------------------------------------------------------------
(* Safety *)

Lists == <<onD, bur, curr_onD, curr_bur, sorting, stopped_instances_pending,
           stopped_instances>>

\* Every instance the experiment created is in exactly one of the lists, once,
\* whatever the scaling steps of the main loop move around: none is lost (and
\* paid for without being used) and none is handed out twice.
EachInstanceInOneList ==
  /\ \A m \in DOMAIN Lists : IsInjective(Lists[m])
  /\ \A m, n \in DOMAIN Lists : m # n => Range(Lists[m]) \cap Range(Lists[n]) = {}
  /\ UNION {Range(Lists[m]) : m \in DOMAIN Lists} = Instances

\* While the loop runs, an instance in the pools onD and bur is switched off,
\* so the start-instances call that takes it out again finds it "stopped".
PoolIsStopped ==
  mainPc \notin {"setStartUp", "stopUnused", "blockUnused"} \cup EndPcs =>
    \A i \in Pool : ec2[i] = "stopped"

\* Outside the window between start-instances and the end of block(...,
\* 'running'), which covers the newly added instances only, every instance
\* that serves or drains is up.
InUseIsUp ==
  mainPc \notin EndPcs =>
    /\ \A k \in DOMAIN curr_onD :
         \/ ec2[curr_onD[k]] = "running"
         \/ mainPc \in {"startOnD", "blockOnD"} /\ k > Len(curr_onD) - added
    /\ \A k \in DOMAIN curr_bur :
         \/ ec2[curr_bur[k]] = "running"
         \/ mainPc \in {"startBur", "blockBur"} /\ k > Len(curr_bur) - added
    /\ \A i \in Range(sorting) \cup Range(stopped_instances_pending) :
         ec2[i] = "running"

\* The cost ledger follows the rentals: while the loop runs, the last entry of
\* an instance is open exactly when the instance is rented (in use, draining
\* or condemned), so every rental is billed once, from its start to its stop.
LedgerMatchesRental ==
  mainPc \in LoopPcs => \A i \in Instances : cost[i] = "open" <=> i \in Rented

\* The drain loop removes from the list it walks; its index j never leaves the
\* list, and the turns that are left are the elements still to be looked at.
DrainIndexInRange ==
  mainPc \in {"drain", "drainDecide"} =>
    j + left = Len(stopped_instances_pending)

\* No burstable instance is sent to nginx with a weight outside L..H, although
\* the poorest one gets one less than the optimized weight, a draining one
\* more, and one that is taken back has its weight reset outside the optimizer.
BurstableWeightsInBounds ==
  \A k \in DOMAIN prevIpWeight :
    prevIpWeight[k][1] \in Burstable => prevIpWeight[k][2] \in L..H

\* The estimator never asks for more on-demand instances than there are, so
\* the "no more available onD" exit of the start loop is not needed.
OnDTargetIsAvailable ==
  mainPc \in {"scaleOnD", "startOnD"} => od <= Len(curr_onD) + Len(onD)

-----------------------------------------------------------------------------
(* What a step may never do *)

\* Credits decide who goes and who comes back: no instance starts to drain
\* before a poorer one, and none is taken back before a richer one.
CreditOrder ==
  [][/\ \A i \in Range(curr_bur) \cap Range(stopped_instances_pending') :
          \A k \in Range(curr_bur') : creditBalance[i] <= creditBalance[k]
     /\ \A i \in Range(stopped_instances_pending) \cap Range(curr_bur') :
          \A k \in Range(stopped_instances_pending') :
            creditBalance[k] <= creditBalance[i]]_vars

\* Whenever nginx takes a new configuration, it lists the on-demand instances in
\* use and the draining ones, nothing that is unused or condemned, and exactly
\* the burstable instances in use, each once.  The exception is a configuration
\* written while the main thread is in the unlocked sort of curr_bur: it may have
\* some burstable instances twice and lack others, but has no more lines.
ReloadCoversInUse ==
  [][lbConf' # lbConf /\ lbConf' # <<>> =>
       LET listed == Servers(lbConf')
           wanted == InUse \cup Range(stopped_instances_pending)
       IN  /\ listed \subseteq wanted
           /\ wanted \ listed \subseteq Range(curr_bur) \cup Range(sorting)
           /\ Len(lbConf') <= Cardinality(wanted)
           /\ mainPc \notin {"sortBur", "sortEnd"} =>
                listed = wanted /\ Len(lbConf') = Cardinality(wanted)]_vars

\* While the short-term thread holds the lock, between the weights it computes
\* and the configuration it writes, the lists it works on do not change.  The
\* exception is the unlocked sort: it may take all of curr_bur away meanwhile, or
\* put it back in another order, but lets no instance join or leave.
ListsStableUnderShort ==
  [][lock = "short" =>
       /\ UNCHANGED <<curr_onD, stopped_instances_pending>>
       /\ Range(curr_bur') \cup Range(sorting') = Range(curr_bur) \cup Range(sorting)
       /\ UNCHANGED curr_bur \/ mainPc \in {"sortBur", "sortEnd"}
    ]_vars

-----------------------------------------------------------------------------
(* Refinement: the controller implements the life cycle of its machines *)

phase ==
  [i \in Instances |->
     IF i \in Pool THEN "unused"
     ELSE IF i \in Range(stopped_instances_pending) THEN "draining"
     ELSE IF i \in Range(stopped_instances) THEN "condemned"
     ELSE "serving"]

LC == INSTANCE InstanceLifecycle WITH phase <- phase, power <- ec2

\* Every step of the controller is a step of the life cycle: machines are
\* switched off only when they no longer serve or drain, return to the pool
\* only once they are off, and are started only from there.
Lifecycle == LC!Spec

-----------------------------------------------------------------------------
(* Liveness *)

\* When the load generator has ended, the short-term thread sees it and says so,
\* and the main thread leaves its loop, shuts everything down and ends.
Termination ==
  clientPc = "ended" ~> (mainPc \in {"done", "raised"} /\ shortPc = "exited")

\* While the experiment runs, nginx follows the lists: an instance that was
\* switched off and returned to its pool leaves the configuration, and one
\* that is in use enters it.
BalancerFollows ==
  \A i \in Instances :
    /\ (i \in Pool /\ i \in Servers(lbConf))
         ~> (i \notin Pool \/ i \notin Servers(lbConf))
    /\ (i \in InUse /\ i \notin Servers(lbConf))
         ~> (i \notin InUse \/ i \in Servers(lbConf) \/ ~clientRunning)

-----------------------------------------------------------------------------
(* What the repository says of the program, and the code does not do *)

\* "Write code to stop/terminate all instances": the end of the experiment
\* terminates every instance.
EndsTerminated ==
  clientPc = "ended" ~> \A i \in Instances : ec2[i] = "terminated"

-----------------------------------------------------------------------------
(* Parts of the inductive invariants *)

\* How the loop counters relate to the lists they walk
Indices ==
  /\ mainPc = "setStartUp" => onD = WikiOnD /\ bur = WikiBur
  /\ mainPc \in {"drain", "drainDecide"} =>
       j + left = Len(stopped_instances_pending)
  /\ mainPc = "drainDecide" => left > 0
  /\ mainPc \in {"blockStopped", "retire"} => left = Len(stopped_instances)

\* The burstable instances whose weights the short-term thread may send
Weighed == Range(curr_bur) \cup Range(sorting) \cup Range(stopped_instances_pending)

BeforeWeights == {"setStartUp", "stopUnused", "blockUnused", "initWeight"}

\* Before init_weight nothing is weighed and nobody sends; from then on the
\* weights that may be sent are in bounds.
WeightInv ==
  /\ mainPc \in BeforeWeights =>
       shortPc = "off" /\ sorting = <<>> /\ stopped_instances_pending = <<>>
  /\ mainPc \notin BeforeWeights => \A i \in Weighed : weight[i] \in L..H
  /\ BurstableWeightsInBounds

\* Nothing is in use before setStartUpNodes, and what list.sort holds is not
\* in curr_bur at the same time: the steps that overwrite a list lose nothing.
ListsInPlace ==
  /\ mainPc = "setStartUp" => curr_onD = <<>> /\ curr_bur = <<>>
  /\ mainPc # "sortEnd" => sorting = <<>>
  /\ mainPc = "sortEnd" => curr_bur = <<>>
  /\ sorting # <<>> => PreemptSort

\* The start-up stops what was not picked; a condemned instance runs until its
\* stop request, and is on its way down while the main thread waits for it.
PowerInv ==
  /\ mainPc \in {"setStartUp", "stopUnused"} =>
       \A i \in Instances : ec2[i] = "running"
  /\ mainPc = "blockUnused" => \A i \in Pool : ec2[i] \in {"stopping", "stopped"}
  /\ mainPc = "blockStopped" =>
       \A i \in Range(stopped_instances) : ec2[i] \in {"stopping", "stopped"}
  /\ mainPc = "retire" =>
       \A i \in Range(stopped_instances) : ec2[i] = "stopped"
  /\ mainPc \notin {"blockStopped", "retire"} \cup EndPcs =>
       \A i \in Range(stopped_instances) : ec2[i] = "running"
  /\ PoolIsStopped /\ InUseIsUp

\* No bill is open before the loop, when nothing drains or is condemned yet.
LedgerInv ==
  /\ mainPc \in StartUpPcs =>
       /\ stopped_instances_pending = <<>> /\ stopped_instances = <<>>
       /\ \A i \in Instances : cost[i] # "open"
  /\ LedgerMatchesRental

\* While instances are moved by their credits, the list they are taken from is
\* sorted by the credits of that moment.
CreditSorted ==
  /\ mainPc \in {"drainBur", "draining"} =>
       \A m, n \in DOMAIN curr_bur :
         m < n => creditBalance[curr_bur[m]] <= creditBalance[curr_bur[n]]
  /\ mainPc = "startBur" =>
       \A m, n \in DOMAIN stopped_instances_pending :
         m < n => creditBalance[stopped_instances_pending[n]]
                    <= creditBalance[stopped_instances_pending[m]]

LockedPcs == {"firstConf", "startOnD", "stopOnD", "refreshPending", "startBur",
              "refreshBur", "draining"}

\* The lock is held by the thread that is inside one of its with-blocks; the
\* short-term thread is in none before it is started.
LockInv ==
  /\ mainPc \in StartUpPcs \ {"openCost"} => shortPc = "off"
  /\ lock = "main"  <=> mainPc \in LockedPcs
  /\ lock = "short" <=> shortPc \in {"reweigh", "update"}

=============================================================================
