-------------------------- MODULE InstanceLifecycle --------------------------
(***************************************************************************)
(* What the controller promises of each virtual machine, without its       *)
(* threads, lists, loops and locks: which phases a machine passes through  *)
(* and in which of them it may be powered on and off.                      *)
(***************************************************************************)
CONSTANTS Instances, Burstable

VARIABLES
  phase,     \* "unused", "serving", "draining" or "condemned"
  power      \* state of the machine, in EC2's words

lifecycleVars == <<phase, power>>

\* All machines are created, running and unused
Init ==
  /\ phase = [i \in Instances |-> "unused"]
  /\ power = [i \in Instances |-> "running"]

Becomes(S, p)    == phase' = [i \in Instances |-> IF i \in S THEN p ELSE phase[i]]
Powers(S, state) == power' = [i \in Instances |-> IF i \in S THEN state ELSE power[i]]

\* The machines of the initial deployment are picked while they run
Select(S) ==
  /\ \A i \in S : phase[i] = "unused" /\ power[i] = "running"
  /\ Becomes(S, "serving") /\ UNCHANGED power

\* Only a machine that is fully stopped is started again
Rent(i) ==
  /\ phase[i] = "unused" /\ power[i] = "stopped"
  /\ Becomes({i}, "serving") /\ Powers({i}, "pending")

Settle(i) ==
  /\ \/ power[i] = "pending"  /\ Powers({i}, "running")
     \/ power[i] = "stopping" /\ Powers({i}, "stopped")
  /\ UNCHANGED phase

\* Only burstable machines drain, and they do so running
Drain(i) ==
  /\ i \in Burstable /\ phase[i] = "serving" /\ power[i] = "running"
  /\ Becomes({i}, "draining") /\ UNCHANGED power

Reuse(i) ==
  /\ phase[i] = "draining" /\ power[i] = "running"
  /\ Becomes({i}, "serving") /\ UNCHANGED power

\* An on-demand machine is given up at once, a burstable one after it drained
Condemn(i) ==
  /\ phase[i] = IF i \in Burstable THEN "draining" ELSE "serving"
  /\ power[i] = "running"
  /\ Becomes({i}, "condemned") /\ UNCHANGED power

\* A machine that serves or drains is never switched off
PowerOff(S) ==
  /\ \A i \in S : phase[i] \in {"unused", "condemned"} /\ power[i] = "running"
  /\ Powers(S, "stopping") /\ UNCHANGED phase

\* A machine goes back to the pool when it no longer costs anything
Return(i) ==
  /\ phase[i] = "condemned" /\ power[i] = "stopped"
  /\ Becomes({i}, "unused") /\ UNCHANGED power

\* The end of the experiment, once and for all machines
Terminate ==
  /\ Powers(Instances, "terminated") /\ UNCHANGED phase

Next ==
  \/ \E S \in SUBSET Instances : Select(S) \/ PowerOff(S)
  \/ \E i \in Instances :
       Rent(i) \/ Settle(i) \/ Drain(i) \/ Reuse(i) \/ Condemn(i) \/ Return(i)
  \/ Terminate

Spec == Init /\ [][Next]_lifecycleVars

=============================================================================
