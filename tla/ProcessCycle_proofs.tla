------------------------- MODULE ProcessCycle_proofs -------------------------
(***************************************************************************)
(* Proofs about nginx's master process and its workers, for any number of  *)
(* slots, workers, reloads and commands and any faults.                    *)
(***************************************************************************)
EXTENDS ProcessCycle, SetFacts, TLAPS

-----------------------------------------------------------------------------
(* The inductive invariant *)

\* What a slot of ngx_processes[] can hold
Slot == [st : {"none"} \cup Running \cup Zombie, cfg : 0..MaxOrders,
         cmd : SUBSET {"QUIT", "TERM"}, respawn : BOOLEAN, justSpawn : BOOLEAN,
         exiting : BOOLEAN, exited : BOOLEAN, detached : BOOLEAN]

TypeInv == TypeOK /\ proc \in [Slots -> Slot]

\* A worker the master means to keep
IsKept(q) == ~q.detached /\ ~IsFree(q) /\ q.respawn /\ ~q.exiting

\* One slot: only workers of the reload in progress are just spawned, and a
\* process that has been waited for stays only where its fork failed.
SlotSound(q) ==
    /\ q.exited => q.st = "none" /\ "fork" \in faults
    /\ q.justSpawn => pc = "sleep" /\ q.cfg = cycle /\ ~q.detached /\ q.st # "none"
    /\ IsKept(q) /\ pc # "sleep" => q.exited \/ q.cfg = cycle
    /\ q.st = "fatal" => "fatal" \in faults
    /\ q.detached => "USR2" \in sent

SlotsSound == \A s \in Slots : SlotSound(proc[s])

\* Nothing of an upgrade is seen before SIGUSR2 is sent.
NoUpgrade == "USR2" \in sent \/ (newBinary = "none" /\ "USR2" \notin pend \cup flag
                                 /\ "restart" \notin flag)

\* `live` is false only when no worker runs, but for the reload in progress,
\* and the master exits only when it is.
LiveSound == /\ \/ "USR2" \in sent \/ pc = "sleep" \/ live
                \/ \A s \in Slots : proc[s].st \notin Running
             /\ pc = "exited" => ~live

\* The hypotheses of Staffed that once broken stay broken
Calm == /\ ~noaccepting /\ "USR2" \notin sent
        /\ flag \cap {"QUIT", "TERM", "WINCH"} = {}
        /\ faults \cap {"fork", "full", "fatal"} = {}

KeptSlots == {s \in Slots : IsKept(proc[s])}
NewSlots  == {s \in Slots : IsKept(proc[s]) /\ proc[s].justSpawn}

StaffSound == Calm => Cardinality(IF pc = "sleep" THEN NewSlots ELSE KeptSlots)
                        = WorkerProcesses

CycleInv == TypeInv /\ SlotsSound /\ NoUpgrade /\ LiveSound /\ StaffSound

-----------------------------------------------------------------------------
(* What happens to one slot *)

LEMMA SlotFields ==
  ASSUME NEW q \in Slot
  PROVE  /\ q.st \in {"none"} \cup Running \cup Zombie /\ q.cfg \in 0..MaxOrders
         /\ q.cmd \in SUBSET {"QUIT", "TERM"}
         /\ q.respawn \in BOOLEAN /\ q.justSpawn \in BOOLEAN /\ q.exiting \in BOOLEAN
         /\ q.exited \in BOOLEAN /\ q.detached \in BOOLEAN
  BY DEF Slot

LEMMA FreeSlot == Free \in Slot /\ IsFree(Free) /\ ~Free.justSpawn /\ ~Free.detached /\ ~Free.exited
  BY ProcessAssumption DEF Free, Slot, IsFree, Running, Zombie

\* ngx_spawn_process
LEMMA SpawnedSlot ==
  ASSUME NEW type \in {"RESPAWN", "JUST_RESPAWN", "DETACHED"}, NEW v \in 0..MaxOrders
  PROVE  LET q == Spawned(type, v) IN
         /\ q \in Slot /\ q.cfg = v /\ ~q.exited /\ ~q.exiting /\ q.st \in {"init", "run"}
         /\ q.justSpawn = (type = "JUST_RESPAWN") /\ q.detached = (type = "DETACHED")
         /\ q.respawn = (type # "DETACHED")
<1> DEFINE q == Spawned(type, v)
           st == IF type = "DETACHED" THEN "run" ELSE "init"
           rs == type \in {"RESPAWN", "JUST_RESPAWN"}
           js == type = "JUST_RESPAWN"
           dt == type = "DETACHED"
<1>1. q = [Free EXCEPT !.st = st, !.cfg = v, !.respawn = rs, !.justSpawn = js, !.detached = dt]
  BY DEF Spawned
<1>2. /\ st \in {"init", "run"} /\ st \in {"none"} \cup Running \cup Zombie
      /\ rs \in BOOLEAN /\ js \in BOOLEAN /\ dt \in BOOLEAN /\ rs = (type # "DETACHED")
  BY DEF Running
<1> HIDE DEF q, st, rs, js, dt
<1>3. /\ q.cfg = v /\ ~q.exited /\ ~q.exiting /\ q.st = st
      /\ q.justSpawn = js /\ q.detached = dt /\ q.respawn = rs
  BY <1>1 DEF Free
<1>4. q \in Slot
  BY <1>1, <1>2, FreeSlot DEF Slot
<1>5. QED
  BY <1>2, <1>3, <1>4 DEF q, js, dt

\* ngx_signal_worker_processes
Signals == {"QUIT", "TERM", "KILL", "USR1"}

LEMMA SignalledSlot ==
  ASSUME NEW q \in Slot, NEW signo \in Signals
  PROVE  LET p == Signalled(q, signo) IN
         /\ p \in Slot /\ p.exited = q.exited /\ p.detached = q.detached
         /\ p.cfg = q.cfg /\ p.respawn = q.respawn
         /\ p.st = q.st \/ (q.st \in Running /\ p.st = "dead")
         /\ p.justSpawn => q.justSpawn /\ (q.detached \/ IsFree(q))
         /\ ~q.exited /\ IsKept(p) => IsKept(q)
<1> DEFINE p == Signalled(q, signo)
<1> USE SlotFields
<1>1. CASE q.detached \/ IsFree(q)
  <2>1. p = q
    BY <1>1 DEF Signalled
  <2>2. QED
    BY <1>1, <2>1
<1>2. CASE ~(q.detached \/ IsFree(q)) /\ q.justSpawn
  <2>1. p = [q EXCEPT !.justSpawn = FALSE]
    BY <1>2 DEF Signalled
  <2>2. QED
    BY <2>1 DEF Slot, IsKept, IsFree
<1>3. CASE ~(q.detached \/ IsFree(q)) /\ ~q.justSpawn /\ q.exiting /\ signo = "QUIT"
  <2>1. p = q
    BY <1>3 DEF Signalled
  <2>2. QED
    BY <1>3, <2>1
<1>4. CASE /\ ~(q.detached \/ IsFree(q)) /\ ~q.justSpawn /\ ~(q.exiting /\ signo = "QUIT")
           /\ q.exited
  <2>1. p = [q EXCEPT !.exiting = FALSE]
    BY <1>4 DEF Signalled
  <2>2. QED
    BY <1>4, <2>1 DEF Slot, IsKept, IsFree
<1>5. CASE /\ ~(q.detached \/ IsFree(q)) /\ ~q.justSpawn /\ ~(q.exiting /\ signo = "QUIT")
           /\ ~q.exited /\ signo = "KILL"
  <2>1. p = [q EXCEPT !.exiting = TRUE, !.cmd = {},
                      !.st = IF @ \in Running THEN "dead" ELSE @]
    BY <1>5 DEF Signalled
  <2>2. QED
    BY <1>5, <2>1 DEF Slot, IsKept, IsFree, Zombie
<1>6. CASE /\ ~(q.detached \/ IsFree(q)) /\ ~q.justSpawn /\ ~(q.exiting /\ signo = "QUIT")
           /\ ~q.exited /\ signo = "USR1"
  <2>1. p = q
    BY <1>6 DEF Signalled
  <2>2. QED
    BY <1>6, <2>1
<1>7. CASE /\ ~(q.detached \/ IsFree(q)) /\ ~q.justSpawn /\ ~(q.exiting /\ signo = "QUIT")
           /\ ~q.exited /\ signo \notin {"KILL", "USR1"}
  <2>1. p = [q EXCEPT !.exiting = TRUE,
                      !.cmd = IF q.st \in Running THEN @ \cup {signo} ELSE @]
    BY <1>7 DEF Signalled
  <2>2. signo \in {"QUIT", "TERM"}
    BY <1>7 DEF Signals
  <2>3. QED
    BY <1>7, <2>1, <2>2 DEF Slot, IsKept, IsFree
<1>8. QED
  BY <1>1, <1>2, <1>3, <1>4, <1>5, <1>6, <1>7

\* SIGQUIT takes every worker but the new ones out of service.
LEMMA QuitSlot ==
  ASSUME NEW q \in Slot, ~q.exited
  PROVE  IsKept(Signalled(q, "QUIT")) <=> IsKept(q) /\ q.justSpawn
<1> USE SlotFields
<1>1. CASE q.detached \/ IsFree(q)
  <2>1. Signalled(q, "QUIT") = q
    BY <1>1 DEF Signalled
  <2>2. QED
    BY <1>1, <2>1 DEF IsKept
<1>2. CASE ~(q.detached \/ IsFree(q)) /\ q.justSpawn
  <2>1. Signalled(q, "QUIT") = [q EXCEPT !.justSpawn = FALSE]
    BY <1>2 DEF Signalled
  <2>2. QED
    BY <1>2, <2>1 DEF Slot, IsKept, IsFree
<1>3. CASE ~(q.detached \/ IsFree(q)) /\ ~q.justSpawn /\ q.exiting
  <2>1. Signalled(q, "QUIT") = q
    BY <1>3 DEF Signalled
  <2>2. QED
    BY <1>3, <2>1 DEF IsKept
<1>4. CASE ~(q.detached \/ IsFree(q)) /\ ~q.justSpawn /\ ~q.exiting
  <2>1. Signalled(q, "QUIT").exiting
    BY <1>4 DEF Signalled, Slot
  <2>2. QED
    BY <1>4, <2>1 DEF IsKept
<1>5. QED
  BY <1>1, <1>2, <1>3, <1>4

\* ngx_reopen_files and SIGUSR1 leave a sound slot alone.
LEMMA ReopenSlot ==
  ASSUME NEW q \in Slot, ~q.exited, ~q.justSpawn
  PROVE  Signalled(q, "USR1") = q
  BY DEF Signalled

\* ngx_process_get_status
LEMMA WaitedSlot ==
  ASSUME NEW q \in Slot
  PROVE  LET p == Waited(q) IN
         /\ p \in Slot /\ p.detached = q.detached /\ p.cfg = q.cfg /\ p.exiting = q.exiting
         /\ p.justSpawn = q.justSpawn
         /\ IF q.st \in Zombie
            THEN p.exited /\ p.st = "none" /\ p.respawn = (q.respawn /\ q.st # "fatal")
            ELSE p = q
  BY SlotFields DEF Waited, Slot

\* ngx_reap_children: a slot that was waited for is respawned or freed.
LEMMA ReapedSlot ==
  ASSUME NEW w \in [Slots -> Slot], NEW lost, NEW quitting \in BOOLEAN, NEW s \in Slots,
         cycle \in 0..MaxOrders
  PROVE  LET p == Reaped(w, lost, quitting)[s] IN
         \/ p = w[s] /\ ~w[s].exited
         \/ p = w[s] /\ s \in lost
         \/ /\ w[s].exited
            /\ \/ /\ Respawns(w[s]) /\ ~quitting /\ p \in Slot
                  /\ p.st = "init" /\ p.cfg = cycle /\ ~p.exited
                  /\ p.respawn = w[s].respawn /\ p.exiting = w[s].exiting
                  /\ p.detached = w[s].detached /\ p.justSpawn = w[s].justSpawn
               \/ ~(Respawns(w[s]) /\ ~quitting) /\ p = Free
<1> DEFINE q == w[s]
           p == Reaped(w, lost, quitting)[s]
<1>1. q \in Slot
  OBVIOUS
<1>2. p = IF ~q.exited \/ (Respawns(q) /\ ~quitting /\ s \in lost) THEN q
          ELSE IF Respawns(q) /\ ~quitting
               THEN [q EXCEPT !.st = "init", !.cfg = cycle, !.cmd = {}, !.exited = FALSE]
               ELSE Free
  BY DEF Reaped
<1> HIDE DEF q, p
<1>3. LET r == [q EXCEPT !.st = "init", !.cfg = cycle, !.cmd = {}, !.exited = FALSE] IN
      /\ r \in Slot /\ r.st = "init" /\ r.cfg = cycle /\ ~r.exited
      /\ r.respawn = q.respawn /\ r.exiting = q.exiting
      /\ r.detached = q.detached /\ r.justSpawn = q.justSpawn
  BY <1>1 DEF Slot, Running
<1>4. QED
  BY <1>2, <1>3 DEF q, p

-----------------------------------------------------------------------------
(* What happens to the array *)

LEMMA SlotsFinite == Slots \in SUBSET Nat /\ IsFiniteSet(Slots)
  BY ProcessAssumption, FS_Interval DEF Slots

\* At most n slots have fewer than n free ones below them.
LEMMA RankBound ==
  ASSUME NEW F \in SUBSET Slots, NEW n \in Nat
  PROVE  LET L == {s \in F : Cardinality({t \in F : t < s}) < n}
         IN  IsFiniteSet(L) /\ Cardinality(L) <= n
<1> DEFINE Below(s) == {t \in F : t < s}
           Rank(s)  == Cardinality(Below(s))
           L == {s \in F : Rank(s) < n}
<1>1. IsFiniteSet(F) /\ F \in SUBSET Nat
  BY SlotsFinite, FS_Subset
<1>2. \A s \in F : IsFiniteSet(Below(s)) /\ Rank(s) \in Nat
  <2>1. TAKE s \in F
  <2>2. Below(s) \in SUBSET F
    OBVIOUS
  <2>3. IsFiniteSet(Below(s))
    BY <1>1, <2>2, FS_Subset
  <2>4. QED
    BY <2>3, FS_CardinalityType
<1>3. IsFiniteSet(L) /\ Cardinality(L) \in Nat
  <2>1. L \in SUBSET F
    OBVIOUS
  <2>2. IsFiniteSet(L)
    BY <1>1, <2>1, FS_Subset
  <2>3. QED
    BY <2>2, FS_CardinalityType
<1>4. \A s, u \in F : s < u => Rank(s) < Rank(u)
  <2>1. SUFFICES ASSUME NEW s \in F, NEW u \in F, s < u PROVE Rank(s) < Rank(u)
    OBVIOUS
  <2>2. s \notin Below(s) /\ Below(s) \cup {s} \in SUBSET Below(u)
    <3>1. s \in Nat /\ u \in Nat /\ \A t \in F : t \in Nat
      BY <1>1
    <3>2. ~(s < s) /\ \A t \in F : t < s => t < u
      BY <2>1, <3>1
    <3>3. QED
      BY <2>1, <3>2
  <2> HIDE DEF Below
  <2>3. Cardinality(Below(s) \cup {s}) = Rank(s) + 1
    BY <1>2, <2>2, FS_AddElement
  <2>4. Cardinality(Below(s) \cup {s}) <= Rank(u)
    BY <1>2, <2>2, FS_Subset
  <2> HIDE DEF Rank
  <2>5. QED
    BY <1>2, <2>3, <2>4
<1>5. ASSUME Cardinality(L) > n PROVE FALSE
  <2> DEFINE f == [s \in L |-> Rank(s)]
  <2>1. f \in [L -> 0..(n - 1)]
    BY <1>2
  <2>2. IsFiniteSet(0..(n - 1)) /\ Cardinality(0..(n - 1)) = n
    BY FS_Interval
  <2>3. \A s \in L : f[s] = Rank(s)
    OBVIOUS
  <2>4. \A s \in L : s \in F
    OBVIOUS
  <2> HIDE DEF f, L, Rank
  <2>5. PICK x \in L, y \in L : x # y /\ f[x] = f[y]
    BY <1>3, <1>5, <2>1, <2>2, FS_PigeonHole
  <2>6. x \in F /\ y \in F /\ Rank(x) = Rank(y)
    BY <2>3, <2>4, <2>5
  <2>7. x < y \/ y < x
    BY <1>1, <2>5, <2>6
  <2>8. Rank(x) < Rank(y) \/ Rank(y) < Rank(x)
    BY <1>4, <2>6, <2>7
  <2>9. Rank(x) \in Nat /\ Rank(y) \in Nat
    BY <1>2, <2>6
  <2>10. QED
    BY <2>6, <2>8, <2>9
<1>6. QED
  BY <1>3, <1>5

\* ngx_spawn_process, called `want` times
LEMMA SpawnStep ==
  ASSUME TypeInv, NEW want \in Nat, NEW v \in 0..MaxOrders,
         NEW type \in {"RESPAWN", "JUST_RESPAWN", "DETACHED"}, Spawn(want, type, v)
  PROVE  /\ proc' \in [Slots -> Slot] /\ last' \in 0..MaxProcesses
         /\ faults \subseteq faults' /\ faults' \subseteq AllFaults
         /\ \E S \in SUBSET Slots :
              /\ \A s \in S : IsFree(proc[s])
              /\ \A s \in Slots : proc'[s] = IF s \in S THEN Spawned(type, v) ELSE proc[s]
              /\ faults' \cap {"fork", "full"} = {} => Cardinality(S) = want
<1>1. PICK n \in 0..want :
        /\ proc' = [s \in Slots |-> IF s \in Lowest(n) THEN Spawned(type, v) ELSE proc[s]]
        /\ last' = Max({last} \cup {s + 1 : s \in Lowest(n)})
        /\ IF n < want THEN Fault("fork")
           ELSE faults' = faults \cup
                  (IF Cardinality(Lowest(n)) < n THEN {"full"} ELSE {})
  BY DEF Spawn
<1>2. Lowest(n) \in SUBSET Slots /\ \A s \in Lowest(n) : IsFree(proc[s])
  BY DEF Lowest
<1>3. IsFiniteSet(Lowest(n)) /\ Cardinality(Lowest(n)) <= n /\ Cardinality(Lowest(n)) \in Nat
  <2> DEFINE F == {s \in Slots : IsFree(proc[s])}
  <2>1. Lowest(n) = {s \in F : Cardinality({t \in F : t < s}) < n}
    <3>1. \A s \in Slots : {t \in F : t < s} = {t \in Slots : t < s /\ IsFree(proc[t])}
      OBVIOUS
    <3> DEFINE B(s) == {t \in F : t < s}
    <3>2. Lowest(n) = {s \in Slots : IsFree(proc[s]) /\ Cardinality(B(s)) < n}
      BY <3>1 DEF Lowest
    <3>3. QED
      BY <3>2
  <2>2. F \in SUBSET Slots /\ n \in Nat
    OBVIOUS
  <2> HIDE DEF F
  <2>3. IsFiniteSet(Lowest(n)) /\ Cardinality(Lowest(n)) <= n
    BY <2>1, <2>2, RankBound
  <2>4. QED
    BY <2>3, FS_CardinalityType
<1>4. proc' \in [Slots -> Slot]
  BY <1>1, SpawnedSlot DEF TypeInv
<1>5. last' \in 0..MaxProcesses
  <2> DEFINE M == {last} \cup {s + 1 : s \in Lowest(n)}
  <2>1. M \in SUBSET (0..MaxProcesses) /\ M # {}
    BY <1>2, ProcessAssumption DEF TypeInv, TypeOK, Slots
  <2>2. IsFiniteSet(0..MaxProcesses) /\ 0..MaxProcesses \in SUBSET Int
    BY ProcessAssumption, FS_Interval
  <2>3. last' = Max(M)
    BY <1>1
  <2> HIDE DEF M
  <2>4. IsFiniteSet(M) /\ M \in SUBSET Int
    BY <2>1, <2>2, FS_Subset
  <2>5. Max(M) \in M
    BY <2>1, <2>4, MaxIsGreatest
  <2>6. QED
    BY <2>1, <2>3, <2>5
<1>6. faults \subseteq faults' /\ faults' \subseteq AllFaults
  BY <1>1 DEF Fault, AllFaults, TypeInv, TypeOK
<1>7. faults' \cap {"fork", "full"} = {} => Cardinality(Lowest(n)) = want
  BY <1>1, <1>3 DEF Fault
<1>8. \A s \in Slots : proc'[s] = IF s \in Lowest(n) THEN Spawned(type, v) ELSE proc[s]
  BY <1>1
<1>9. QED
  BY <1>2, <1>4, <1>5, <1>6, <1>7, <1>8

\* ngx_signal_worker_processes
LEMMA SignalStep ==
  ASSUME TypeInv, NEW signo \in Signals, NEW served, Signal(signo, served)
  PROVE  /\ proc' \in [Slots -> Slot]
         /\ \A s \in Slots : proc[s] \in Slot /\ proc'[s] = Signalled(proc[s], signo)
         /\ flag' \subseteq flag \cup {"reap"} /\ flag \ served \subseteq flag'
<1>1. \A s \in Slots : proc[s] \in Slot
  BY DEF TypeInv
<1>2. proc' = [s \in Slots |-> Signalled(proc[s], signo)]
  BY DEF Signal
<1>3. \A s \in Slots : Signalled(proc[s], signo) \in Slot
  BY <1>1, SignalledSlot
<1>4. flag' \subseteq flag \cup {"reap"} /\ flag \ served \subseteq flag'
  BY DEF Signal
<1>5. QED
  BY <1>1, <1>2, <1>3, <1>4

\* A child that takes a step stays a process, in the slot and with the mark it has.
ChildStep(s) ==
    /\ proc' \in [Slots -> Slot]
    /\ \A t \in Slots : t # s => proc'[t] = proc[t]
    /\ \A q, p \in {proc[s], proc'[s]} :
         /\ q.cfg = p.cfg /\ q.respawn = p.respawn /\ q.justSpawn = p.justSpawn
         /\ q.exiting = p.exiting /\ q.exited = p.exited /\ q.detached = p.detached
    /\ proc[s].st \in Running /\ proc'[s].st # "none"
    /\ proc'[s].st = "fatal" => "fatal" \in faults'

LEMMA BecomesStep ==
  ASSUME TypeInv, NEW s \in Slots, NEW st \in (Running \cup Zombie), Becomes(s, st),
         proc[s].st \in Running, st = "fatal" => "fatal" \in faults'
  PROVE  ChildStep(s)
<1>1. proc' = [proc EXCEPT ![s] = [proc[s] EXCEPT !.st = st, !.cmd = {}]]
  BY DEF Becomes, TypeInv, Slot
<1>2. proc[s] \in Slot
  BY DEF TypeInv
<1>3. proc'[s] = [proc[s] EXCEPT !.st = st, !.cmd = {}]
  BY <1>1 DEF TypeInv
<1>4. st # "none"
  BY DEF Running, Zombie
<1> DEFINE p == [proc[s] EXCEPT !.st = st, !.cmd = {}]
<1>5. /\ p \in Slot /\ p.st = st /\ p.cfg = proc[s].cfg /\ p.respawn = proc[s].respawn
      /\ p.justSpawn = proc[s].justSpawn /\ p.exiting = proc[s].exiting
      /\ p.exited = proc[s].exited /\ p.detached = proc[s].detached
  BY <1>2 DEF Slot
<1>6. p = proc'[s]
  BY <1>3
<1>7. proc' \in [Slots -> Slot] /\ \A t \in Slots : t # s => proc'[t] = proc[t]
  BY <1>1, <1>5 DEF TypeInv
<1> HIDE DEF p
<1>8. QED
  BY <1>4, <1>5, <1>6, <1>7 DEF ChildStep

LEMMA ChildSteps ==
  ASSUME TypeInv, NEW s \in Slots, Child(s) \/ Mishap(s)
  PROVE  /\ ChildStep(s) /\ faults \subseteq faults' /\ faults' \subseteq AllFaults
         /\ pend \subseteq pend' /\ pend' \subseteq pend \cup {"IO"}
         /\ UNCHANGED <<last, flag, pc, cycle, master, world>>
<1>1. CASE WorkerInit(s)
  <2>1. proc' = [proc EXCEPT ![s] = [proc[s] EXCEPT !.st = "run"]]
    BY <1>1 DEF WorkerInit, TypeInv, Slot
  <2>2. proc[s] \in Slot
    BY DEF TypeInv
  <2> DEFINE p == [proc[s] EXCEPT !.st = "run"]
  <2>3. p = proc'[s]
    BY <2>1 DEF TypeInv
  <2>4. /\ p \in Slot /\ p.st = "run" /\ p.cfg = proc[s].cfg /\ p.respawn = proc[s].respawn
        /\ p.justSpawn = proc[s].justSpawn /\ p.exiting = proc[s].exiting
        /\ p.exited = proc[s].exited /\ p.detached = proc[s].detached
    BY <2>2 DEF Slot, Running
  <2>5. proc' \in [Slots -> Slot] /\ \A t \in Slots : t # s => proc'[t] = proc[t]
    BY <2>1, <2>4 DEF TypeInv
  <2> HIDE DEF p
  <2>6. proc[s].st \in Running
    BY <1>1 DEF WorkerInit, Running
  <2>7. ChildStep(s)
    BY <2>3, <2>4, <2>5, <2>6 DEF ChildStep
  <2>8. QED
    BY <1>1, <2>7 DEF WorkerInit, TypeInv, TypeOK
<1>2. CASE WorkerCommand(s)
  <2>1. PICK st \in {"dead", "drain"} : Becomes(s, st)
    BY <1>2 DEF WorkerCommand
  <2>2. ChildStep(s)
    BY <1>2, <2>1, BecomesStep DEF WorkerCommand, Running, Zombie
  <2>3. QED
    BY <1>2, <2>1, <2>2 DEF WorkerCommand, Becomes, TypeInv, TypeOK
<1>3. CASE WorkerDone(s)
  <2>1. ChildStep(s)
    BY <1>3, BecomesStep DEF WorkerDone, Running, Zombie
  <2>2. QED
    BY <1>3, <2>1 DEF WorkerDone, Becomes, TypeInv, TypeOK
<1>4. CASE WorkerFatal(s)
  <2>1. faults \subseteq faults' /\ "fatal" \in faults' /\ faults' \subseteq AllFaults
    BY <1>4 DEF WorkerFatal, Fault, AllFaults, TypeInv, TypeOK
  <2>2. ChildStep(s)
    BY <1>4, <2>1, BecomesStep DEF WorkerFatal, Running, Zombie
  <2>3. QED
    BY <1>4, <2>1, <2>2 DEF WorkerFatal, Becomes
<1>5. CASE WorkerCrash(s)
  <2>1. faults \subseteq faults' /\ faults' \subseteq AllFaults
    BY <1>5 DEF WorkerCrash, Fault, AllFaults, TypeInv, TypeOK
  <2>2. ChildStep(s)
    BY <1>5, <2>1, BecomesStep DEF WorkerCrash, Zombie
  <2>3. QED
    BY <1>5, <2>1, <2>2 DEF WorkerCrash, Becomes
<1>6. CASE WorkerHang(s)
  <2>1. faults \subseteq faults' /\ faults' \subseteq AllFaults
    BY <1>6 DEF WorkerHang, Fault, AllFaults, TypeInv, TypeOK
  <2>2. ChildStep(s)
    BY <1>6, <2>1, BecomesStep DEF WorkerHang, Running
  <2>3. QED
    BY <1>6, <2>1, <2>2 DEF WorkerHang, Becomes
<1>7. CASE NewBinaryExit(s)
  <2>1. faults \subseteq faults' /\ faults' \subseteq AllFaults
    BY <1>7 DEF NewBinaryExit, Fault, AllFaults, TypeInv, TypeOK
  <2>2. ChildStep(s)
    BY <1>7, <2>1, BecomesStep DEF NewBinaryExit, Running, Zombie
  <2>3. QED
    BY <1>7, <2>1, <2>2 DEF NewBinaryExit, Becomes
<1>8. QED
  BY <1>1, <1>2, <1>3, <1>4, <1>5, <1>6, <1>7 DEF Child, Mishap

\* What sigsuspend and ngx_reap_children make of a slot q: it is left alone, or
\* its process was waited for and is respawned, cannot be, or is forgotten.
WokenSlot(q, p) ==
    LET w == Waited(q) IN
    \/ p = w /\ ~w.exited
    \/ p = w /\ w.exited /\ "fork" \in faults'
    \/ /\ w.exited /\ Respawns(w) /\ p \in Slot /\ p.st = "init" /\ p.cfg = cycle /\ ~p.exited
       /\ p.respawn = w.respawn /\ p.exiting = w.exiting
       /\ p.detached = w.detached /\ p.justSpawn = w.justSpawn
    \/ w.exited /\ p = Free /\ (~Respawns(w) \/ flag' \cap {"QUIT", "TERM"} # {})

LEMMA WakeStep ==
  ASSUME TypeInv, SlotsSound, Wake
  PROVE  /\ proc' \in [Slots -> Slot]
         /\ \A s \in Slots : WokenSlot(proc[s], proc'[s])
         /\ (live' = live /\ proc' = proc) \/ live' = Live(proc')
         /\ last' \in 0..MaxProcesses
         /\ faults \subseteq faults' /\ faults' \subseteq AllFaults
         /\ newBinary' \in {"none", newBinary}
         /\ noaccepting' \in BOOLEAN
         /\ noaccepting' = noaccepting \/ (~noaccepting' /\ \E s \in Slots : proc[s].detached)
         /\ flag \cup Handled \subseteq flag' \cup {"reap"}
         /\ flag' \subseteq flag \cup Handled \cup {"reap", "restart"}
         /\ "restart" \in flag' => "restart" \in flag \/ \E s \in Slots : proc[s].detached
         /\ pc = "suspend" /\ pc' = "awake" /\ pend' = {} /\ UNCHANGED <<cycle, delay, sigio, world>>
<1> DEFINE f        == flag \cup Handled \cup (IF Zombies THEN {"reap"} ELSE {})
           w        == [s \in Slots |-> Waited(proc[s])]
           quitting == f \cap {"QUIT", "TERM"} # {}
           again    == {s \in Slots : Respawns(w[s]) /\ ~quitting}
           top      == last - 1
           binary   == \E s \in Slots : w[s].detached /\ w[s].exited
<1>1. PICK lost \in SUBSET again :
        LET p == Reaped(w, lost, quitting) IN
        IF "reap" \in f
        THEN /\ proc' = p
             /\ last' = IF last > 0 /\ w[top].exited /\ IsFree(p[top]) THEN top ELSE last
             /\ live' = Live(p)
             /\ newBinary' = IF binary THEN "none" ELSE newBinary
             /\ noaccepting' = (noaccepting /\ ~binary)
             /\ flag' = (f \ {"reap"})
                  \cup (IF binary /\ noaccepting THEN {"restart"} ELSE {})
             /\ IF lost # {} THEN Fault("fork") ELSE UNCHANGED faults
        ELSE /\ lost = {} /\ proc' = w /\ flag' = f
             /\ UNCHANGED <<last, live, newBinary, noaccepting, faults>>
  BY DEF Wake
<1>2. pc = "suspend" /\ pc' = "awake" /\ pend' = {} /\ UNCHANGED <<cycle, delay, sigio, world>>
  BY DEF Wake
<1>3. \A s \in Slots : proc[s] \in Slot /\ w[s] = Waited(proc[s]) /\ w[s] \in Slot
  BY WaitedSlot DEF TypeInv
<1>4. w \in [Slots -> Slot] /\ quitting \in BOOLEAN /\ cycle \in 0..MaxOrders
  BY <1>3 DEF TypeInv, TypeOK
<1>5. binary => \E s \in Slots : proc[s].detached
  BY <1>3, WaitedSlot
<1>6. quitting => ("reap" \in f => (f \ {"reap"}) \cap {"QUIT", "TERM"} # {})
  OBVIOUS
<1>7. ~Zombies => w = proc
  <2>1. SUFFICES ASSUME ~Zombies PROVE \A s \in Slots : w[s] = proc[s]
    BY DEF TypeInv
  <2>2. QED
    BY <2>1, <1>3 DEF Zombies, Waited
<1>8. "reap" \notin f => ~Zombies
  OBVIOUS
<1>9. flag \cup Handled \subseteq f /\ f \subseteq flag \cup Handled \cup {"reap"}
  OBVIOUS
<1>10. "restart" \in f => "restart" \in flag
  BY DEF Handled, TypeInv, TypeOK, AllCommands
<1>11. last \in 0..MaxProcesses /\ noaccepting \in BOOLEAN /\ faults \subseteq AllFaults
  BY DEF TypeInv, TypeOK
<1> HIDE DEF f, w, quitting, binary
<1>12. CASE "reap" \in f
  <2> DEFINE p == Reaped(w, lost, quitting)
  <2>1. /\ proc' = p
        /\ last' = IF last > 0 /\ w[top].exited /\ IsFree(p[top]) THEN top ELSE last
        /\ live' = Live(p)
        /\ newBinary' = IF binary THEN "none" ELSE newBinary
        /\ noaccepting' = (noaccepting /\ ~binary)
        /\ flag' = (f \ {"reap"}) \cup (IF binary /\ noaccepting THEN {"restart"} ELSE {})
        /\ IF lost # {} THEN Fault("fork") ELSE UNCHANGED faults
    BY <1>1, <1>12
  <2>2. faults \subseteq faults' /\ faults' \subseteq AllFaults /\ (lost # {} => "fork" \in faults')
    BY <1>11, <2>1 DEF Fault, AllFaults
  <2>3. quitting => flag' \cap {"QUIT", "TERM"} # {}
    BY <1>6, <1>12, <2>1
  <2>4. \A s \in Slots : p[s] \in Slot /\ WokenSlot(proc[s], p[s])
    <3>1. SUFFICES ASSUME NEW s \in Slots PROVE p[s] \in Slot /\ WokenSlot(proc[s], p[s])
      OBVIOUS
    <3>2. w[s] = Waited(proc[s]) /\ w[s] \in Slot
      BY <1>3
    <3>3. \/ p[s] = w[s] /\ ~w[s].exited
          \/ p[s] = w[s] /\ s \in lost
          \/ /\ w[s].exited
             /\ \/ /\ Respawns(w[s]) /\ ~quitting /\ p[s] \in Slot
                   /\ p[s].st = "init" /\ p[s].cfg = cycle /\ ~p[s].exited
                   /\ p[s].respawn = w[s].respawn /\ p[s].exiting = w[s].exiting
                   /\ p[s].detached = w[s].detached /\ p[s].justSpawn = w[s].justSpawn
                \/ ~(Respawns(w[s]) /\ ~quitting) /\ p[s] = Free
      BY <1>4, ReapedSlot
    <3>4. s \in lost => w[s].exited
      BY DEF Respawns
    <3> HIDE DEF p
    <3>5. p[s] \in Slot
      BY <3>2, <3>3, FreeSlot
    <3>6. WokenSlot(proc[s], p[s])
      BY <2>2, <2>3, <3>2, <3>3, <3>4 DEF WokenSlot
    <3>7. QED
      BY <3>5, <3>6
  <2>5. proc' \in [Slots -> Slot]
    <3>1. p = [s \in Slots |-> p[s]]
      BY DEF Reaped
    <3> HIDE DEF p
    <3>2. QED
      BY <2>1, <2>4, <3>1
  <2>6. last' \in 0..MaxProcesses
    BY <1>11, <2>1, ProcessAssumption
  <2>7. live' = Live(proc')
    BY <2>1
  <2>8. /\ newBinary' \in {"none", newBinary} /\ noaccepting' \in BOOLEAN
        /\ noaccepting' = noaccepting \/ (~noaccepting' /\ \E s \in Slots : proc[s].detached)
    BY <1>5, <1>11, <2>1
  <2>9. /\ flag \cup Handled \subseteq flag' \cup {"reap"}
        /\ flag' \subseteq flag \cup Handled \cup {"reap", "restart"}
        /\ "restart" \in flag' => "restart" \in flag \/ \E s \in Slots : proc[s].detached
    BY <1>5, <1>9, <1>10, <2>1
  <2>10. \A s \in Slots : WokenSlot(proc[s], proc'[s])
    BY <2>1, <2>4
  <2> HIDE DEF p
  <2>11. QED
    BY <1>2, <2>2, <2>5, <2>6, <2>7, <2>8, <2>9, <2>10
<1>13. CASE "reap" \notin f
  <2>1. proc' = proc /\ flag' = f /\ UNCHANGED <<last, live, newBinary, noaccepting, faults>>
    BY <1>1, <1>7, <1>8, <1>13
  <2>2. \A s \in Slots : WokenSlot(proc[s], proc[s])
    <3>1. SUFFICES ASSUME NEW s \in Slots PROVE WokenSlot(proc[s], proc[s])
      OBVIOUS
    <3>2. Waited(proc[s]) = proc[s]
      BY <1>3, <1>7, <1>8, <1>13
    <3>3. proc[s].exited => "fork" \in faults'
      BY <2>1 DEF SlotsSound, SlotSound
    <3>4. QED
      BY <3>2, <3>3 DEF WokenSlot
  <2>3. /\ flag \cup Handled \subseteq flag' \cup {"reap"}
        /\ flag' \subseteq flag \cup Handled \cup {"reap", "restart"}
        /\ "restart" \in flag' => "restart" \in flag
    BY <1>9, <1>10, <2>1
  <2>4. proc' \in [Slots -> Slot]
    BY <2>1 DEF TypeInv
  <2>5. QED
    BY <1>2, <1>11, <2>1, <2>2, <2>3, <2>4
<1>14. QED
  BY <1>12, <1>13

-----------------------------------------------------------------------------
(* Every step keeps the types *)

Pends == AllCommands \cup {"HUP", "IO", "ALRM"}
Flags == AllCommands \cup {"HUP", "ALRM", "reap", "restart"}

\* TypeOK without the array
MasterOK ==
    /\ last \in 0..MaxProcesses /\ pend \subseteq Pends /\ flag \subseteq Flags
    /\ pc \in {"suspend", "awake", "sleep", "exited"}
    /\ live \in BOOLEAN /\ noaccepting \in BOOLEAN
    /\ delay \in Nat /\ sigio \in 0..(WorkerProcesses + 2)
    /\ newBinary \in {"none", "up", "invalid"}
    /\ file \in 0..MaxOrders /\ cycle \in 0..MaxOrders
    /\ sent \subseteq AllCommands /\ faults \subseteq AllFaults

LEMMA ArrayParts ==
  ASSUME NEW p \in [Slots -> Slot]
  PROVE  \A s \in Slots :
           /\ p[s].st \in {"none"} \cup Running \cup Zombie
           /\ p[s].cfg \in 0..MaxOrders
           /\ p[s].cmd \subseteq {"QUIT", "TERM"}
           /\ {p[s].respawn, p[s].justSpawn, p[s].exiting,
               p[s].exited, p[s].detached} \subseteq BOOLEAN
<1>1. TAKE s \in Slots
<1>2. p[s] \in Slot
  OBVIOUS
<1>3. QED
  BY <1>2, SlotFields

LEMMA TypeParts == TypeInv <=> MasterOK /\ proc \in [Slots -> Slot]
  BY ArrayParts DEF TypeInv, TypeOK, MasterOK, Pends, Flags

LEMMA CommandsFinite == IsFiniteSet(AllCommands)
<1> DEFINE A == {"QUIT", "TERM"}
           B == A \cup {"WINCH"}
           C == B \cup {"USR1"}
<1>1. IsFiniteSet({"QUIT"})
  BY FS_Singleton
<1>2. A = {"QUIT"} \cup {"TERM"} /\ AllCommands = C \cup {"USR2"}
  BY DEF AllCommands
<1>3. IsFiniteSet(A)
  BY <1>1, <1>2, FS_AddElement
<1> HIDE DEF A
<1>4. IsFiniteSet(B)
  BY <1>3, FS_AddElement
<1> HIDE DEF B
<1>5. IsFiniteSet(C)
  BY <1>4, FS_AddElement
<1> HIDE DEF C
<1>6. QED
  BY <1>2, <1>5, FS_AddElement

\* ngx_spawn_process for each kind of call the master makes
LEMMA SpawnTypes ==
  ASSUME MasterOK, proc \in [Slots -> Slot]
  PROVE  \A type \in {"RESPAWN", "JUST_RESPAWN", "DETACHED"} : \A v \in {cycle, file} :
           Spawn(WorkerProcesses, type, v) \/ Spawn(1, type, v)
           => proc' \in [Slots -> Slot] /\ last' \in 0..MaxProcesses /\ faults' \subseteq AllFaults
<1>1. SUFFICES ASSUME NEW type \in {"RESPAWN", "JUST_RESPAWN", "DETACHED"}, NEW v \in {cycle, file},
                      NEW want \in {WorkerProcesses, 1}, Spawn(want, type, v)
               PROVE  proc' \in [Slots -> Slot] /\ last' \in 0..MaxProcesses /\ faults' \subseteq AllFaults
  OBVIOUS
<1>2. v \in 0..MaxOrders /\ want \in Nat /\ TypeInv
  BY ProcessAssumption, TypeParts DEF MasterOK
<1>3. QED
  BY <1>1, <1>2, SpawnStep

LEMMA TypeStep ==
  ASSUME TypeInv, SlotsSound, [Next]_vars
  PROVE  TypeInv'
<1> SUFFICES MasterOK' /\ proc' \in [Slots -> Slot]
  BY ArrayParts DEF TypeInv, TypeOK, MasterOK, Pends, Flags
<1>0. MasterOK /\ proc \in [Slots -> Slot]
  BY TypeParts
<1> USE DEF master, world
<1>1. CASE Reload
  <2>1. Cardinality(sent) \in Nat
    <3>1. IsFiniteSet(sent)
      BY <1>0, CommandsFinite, FS_Subset DEF MasterOK
    <3>2. QED
      BY <3>1, FS_CardinalityType
  <2>2. file + Cardinality(sent) < MaxOrders /\ file' = file + 1
    BY <1>1 DEF Reload, MayOrder
  <2>3. file' \in 0..MaxOrders
    BY <1>0, <2>1, <2>2, ProcessAssumption DEF MasterOK
  <2>4. QED
    BY <1>0, <1>1, <2>3 DEF Reload, MasterOK, Pends
<1>2. ASSUME NEW c \in Commands, Command(c)
      PROVE  MasterOK' /\ proc' \in [Slots -> Slot]
  <2>1. c \in AllCommands
    BY ProcessAssumption
  <2>2. QED
    BY <1>0, <1>2, <2>1 DEF Command, MasterOK, Pends
<1>3. CASE Alarm
  BY <1>0, <1>3 DEF Alarm, MasterOK, Pends
<1>4. ASSUME NEW s \in Slots, Child(s) \/ Mishap(s)
      PROVE  MasterOK' /\ proc' \in [Slots -> Slot]
  <2>1. /\ ChildStep(s) /\ faults' \subseteq AllFaults /\ pend' \subseteq pend \cup {"IO"}
        /\ UNCHANGED <<last, flag, pc, cycle, master, world>>
    BY <1>4, ChildSteps
  <2>2. QED
    BY <1>0, <2>1 DEF ChildStep, MasterOK, Pends
<1>5. CASE Wake
  <2> HIDE DEF master, world
  <2>1. /\ proc' \in [Slots -> Slot] /\ last' \in 0..MaxProcesses
        /\ (live' = live /\ proc' = proc) \/ live' = Live(proc')
        /\ faults' \subseteq AllFaults /\ newBinary' \in {"none", newBinary}
        /\ noaccepting' \in BOOLEAN
        /\ flag' \subseteq flag \cup Handled \cup {"reap", "restart"}
        /\ pc' = "awake" /\ pend' = {} /\ UNCHANGED <<cycle, delay, sigio, world>>
    BY <1>5, WakeStep
  <2>2. live' \in BOOLEAN
    BY <1>0, <2>1 DEF Live, MasterOK
  <2>3. flag' \subseteq Flags
    BY <1>0, <2>1 DEF Handled, MasterOK, Flags, Pends
  <2>4. QED
    BY <1>0, <2>1, <2>2, <2>3 DEF MasterOK, world
<1>6. CASE MasterExit
  BY <1>0, <1>6 DEF MasterExit, MasterOK
<1>7. CASE Terminate
  <2> DEFINE d == IF delay = 0 THEN 50 ELSE delay
  <2>1. /\ pc' = "suspend" /\ delay' \in {d, 2 * d} /\ sigio' \in {0, sigio - 1, WorkerProcesses + 2}
        /\ UNCHANGED <<last, pend, cycle, live, newBinary, noaccepting, world, faults>>
        /\ sigio' = sigio - 1 => sigio > 0 \/ sigio' \in {0, WorkerProcesses + 2}
    BY <1>7 DEF Terminate, Continue
  <2>2. flag' \subseteq flag \cup {"reap"} /\ proc' \in [Slots -> Slot]
    <3>1. CASE sigio > 0
      BY <1>0, <1>7, <3>1 DEF Terminate
    <3>2. CASE ~(sigio > 0)
      <4>1. \E signo \in Signals : Signal(signo, {"ALRM"})
        BY <1>7, <3>2 DEF Terminate, Signals
      <4>2. QED
        BY <4>1, SignalStep
    <3>3. QED
      BY <3>1, <3>2
  <2>3. delay' \in Nat
    BY <1>0, <2>1 DEF MasterOK
  <2>4. sigio' \in 0..(WorkerProcesses + 2)
    BY <1>0, <2>1, ProcessAssumption DEF MasterOK
  <2> HIDE DEF d
  <2>5. QED
    BY <1>0, <2>1, <2>2, <2>3, <2>4 DEF MasterOK, Flags
<1>8. CASE Quit
  <2>1. flag' \subseteq flag \cup {"reap"} /\ proc' \in [Slots -> Slot]
    BY <1>8, SignalStep DEF Quit, Signals
  <2>2. QED
    BY <1>0, <1>8, <2>1 DEF Quit, MasterOK, Flags
<1>9. CASE RestartOldWorkers
  <2>1. proc' \in [Slots -> Slot] /\ last' \in 0..MaxProcesses /\ faults' \subseteq AllFaults
    BY <1>0, <1>9, SpawnTypes DEF RestartOldWorkers
  <2>2. QED
    BY <1>0, <1>9, <2>1 DEF RestartOldWorkers, MasterOK
<1>10. CASE RejectFile
  BY <1>0, <1>10 DEF RejectFile, Fault, AllFaults, MasterOK
<1>11. CASE StartNewWorkers
  <2>1. proc' \in [Slots -> Slot] /\ last' \in 0..MaxProcesses /\ faults' \subseteq AllFaults
    BY <1>0, <1>11, SpawnTypes DEF StartNewWorkers
  <2>2. QED
    BY <1>0, <1>11, <2>1 DEF StartNewWorkers, MasterOK
<1>12. CASE ShutdownOldWorkers
  <2>1. flag' \subseteq flag \cup {"reap"} /\ proc' \in [Slots -> Slot]
    BY <1>12, SignalStep DEF ShutdownOldWorkers, Signals
  <2>2. QED
    BY <1>0, <1>12, <2>1 DEF ShutdownOldWorkers, MasterOK, Flags
<1>13. CASE Restart
  <2>1. proc' \in [Slots -> Slot] /\ last' \in 0..MaxProcesses /\ faults' \subseteq AllFaults
    BY <1>0, <1>13, SpawnTypes DEF Restart
  <2>2. QED
    BY <1>0, <1>13, <2>1 DEF Restart, MasterOK
<1>14. CASE Reopen
  <2>1. flag' \subseteq flag \cup {"reap"} /\ proc' \in [Slots -> Slot]
    BY <1>14, SignalStep DEF Reopen, Signals
  <2>2. QED
    BY <1>0, <1>14, <2>1 DEF Reopen, MasterOK, Flags
<1>15. CASE ChangeBinary
  <2>1. proc' \in [Slots -> Slot] /\ last' \in 0..MaxProcesses /\ faults' \subseteq AllFaults
    BY <1>0, <1>15, SpawnTypes DEF ChangeBinary
  <2>2. newBinary' \in {"none", "up", "invalid"}
    BY <1>15 DEF ChangeBinary
  <2>3. QED
    BY <1>0, <1>15, <2>1, <2>2 DEF ChangeBinary, MasterOK
<1>16. CASE NoAccept
  <2>1. flag' \subseteq flag \cup {"reap"} /\ proc' \in [Slots -> Slot]
    BY <1>16, SignalStep DEF NoAccept, Signals
  <2>2. QED
    BY <1>0, <1>16, <2>1 DEF NoAccept, MasterOK, Flags
<1>17. CASE Suspend
  BY <1>0, <1>17 DEF Suspend, MasterOK
<1>18. CASE UNCHANGED vars
  BY <1>0, <1>18 DEF vars, MasterOK
<1>19. QED
  BY <1>1, <1>2, <1>3, <1>4, <1>5, <1>6, <1>7, <1>8, <1>9, <1>10, <1>11, <1>12, <1>13,
     <1>14, <1>15, <1>16, <1>17, <1>18 DEF Next, Master

-----------------------------------------------------------------------------
(* Every step keeps the slots sound *)

LEMMA SlotsKept ==
  ASSUME SlotsSound, UNCHANGED <<proc, cycle>>, pc' = "sleep" <=> pc = "sleep",
         faults \subseteq faults', sent \subseteq sent'
  PROVE  SlotsSound'
  BY DEF SlotsSound, SlotSound

LEMMA SlotsSignalled ==
  ASSUME TypeInv, SlotsSound, NEW signo \in Signals, NEW served, Signal(signo, served),
         pc # "sleep" \/ signo = "QUIT", pc' # "sleep", UNCHANGED <<cycle, sent, faults>>
  PROVE  SlotsSound'
<1>1. SUFFICES ASSUME NEW s \in Slots PROVE SlotSound(proc[s])'
  BY DEF SlotsSound
<1> DEFINE q == proc[s]
           p == proc'[s]
<1>2. q \in Slot /\ p = Signalled(q, signo)
  BY SignalStep
<1>3. SlotSound(q)
  BY DEF SlotsSound
<1> HIDE DEF q, p
<1>4. /\ p \in Slot /\ p.exited = q.exited /\ p.detached = q.detached
      /\ p.cfg = q.cfg /\ p.respawn = q.respawn
      /\ p.st = q.st \/ (q.st \in Running /\ p.st = "dead")
      /\ p.justSpawn => q.justSpawn /\ (q.detached \/ IsFree(q))
      /\ ~q.exited /\ IsKept(p) => IsKept(q)
  BY <1>2, SignalledSlot
<1>5. ~p.justSpawn
  BY <1>3, <1>4 DEF SlotSound, IsFree
<1>6. p.exited => p.st = "none" /\ "fork" \in faults
  BY <1>3, <1>4 DEF SlotSound, Running
<1>7. IsKept(p) => p.exited \/ p.cfg = cycle
  <2>1. CASE pc # "sleep"
    BY <1>3, <1>4, <2>1 DEF SlotSound
  <2>2. CASE pc = "sleep" /\ ~q.exited
    <3>1. IsKept(p) => q.justSpawn
      BY <1>2, <2>2, QuitSlot
    <3>2. QED
      BY <1>3, <1>4, <3>1 DEF SlotSound
  <2>3. QED
    BY <1>4, <2>1, <2>2
<1>8. p.st = "fatal" => "fatal" \in faults
  BY <1>3, <1>4 DEF SlotSound
<1>9. p.detached => "USR2" \in sent
  BY <1>3, <1>4 DEF SlotSound
<1>10. QED
  BY <1>5, <1>6, <1>7, <1>8, <1>9 DEF SlotSound, p

\* The slots after a call of ngx_spawn_process, given where the master is
LEMMA SlotsSpawned ==
  ASSUME TypeInv, SlotsSound, NEW want \in Nat, NEW v \in 0..MaxOrders,
         NEW type \in {"RESPAWN", "JUST_RESPAWN", "DETACHED"}, Spawn(want, type, v),
         pc = "awake", v = cycle', type = "DETACHED" => "USR2" \in sent,
         IF type = "JUST_RESPAWN" THEN pc' = "sleep" ELSE pc' # "sleep" /\ UNCHANGED cycle,
         UNCHANGED sent
  PROVE  SlotsSound'
<1>1. SUFFICES ASSUME NEW s \in Slots PROVE SlotSound(proc[s])'
  BY DEF SlotsSound
<1>2. SlotSound(proc[s]) /\ faults \subseteq faults'
  BY SpawnStep DEF SlotsSound
<1>3. proc'[s] = proc[s] \/ proc'[s] = Spawned(type, v)
  BY SpawnStep
<1>4. CASE proc'[s] = proc[s]
  BY <1>2, <1>4 DEF SlotSound
<1>5. CASE proc'[s] = Spawned(type, v)
  <2> DEFINE p == Spawned(type, v)
  <2>1. /\ p.cfg = v /\ ~p.exited /\ p.st \in {"init", "run"}
        /\ p.justSpawn = (type = "JUST_RESPAWN") /\ p.detached = (type = "DETACHED")
    BY SpawnedSlot
  <2>2. p = proc'[s]
    BY <1>5
  <2> HIDE DEF p
  <2>3. QED
    BY <2>1, <2>2 DEF SlotSound
<1>6. QED
  BY <1>3, <1>4, <1>5

LEMMA SlotsStep ==
  ASSUME TypeInv, SlotsSound, NoUpgrade, [Next]_vars
  PROVE  SlotsSound'
<1> USE DEF master, world
<1>1. CASE Reload
  BY <1>1, SlotsKept DEF Reload
<1>2. ASSUME NEW c \in Commands, Command(c) PROVE SlotsSound'
  BY <1>2, SlotsKept DEF Command
<1>3. CASE Alarm
  BY <1>3, SlotsKept DEF Alarm
<1>4. ASSUME NEW s \in Slots, Child(s) \/ Mishap(s) PROVE SlotsSound'
  <2>1. ChildStep(s) /\ faults \subseteq faults' /\ UNCHANGED <<pc, cycle, sent>>
    BY <1>4, ChildSteps
  <2>2. \A t \in Slots : SlotSound(proc[t])
    BY DEF SlotsSound
  <2>3. ASSUME NEW t \in Slots, t # s PROVE SlotSound(proc[t])'
    BY <2>1, <2>2, <2>3 DEF ChildStep, SlotSound
  <2>4. SlotSound(proc[s])'
    BY <2>1, <2>2 DEF ChildStep, SlotSound, IsKept, IsFree, Running
  <2>5. QED
    BY <2>3, <2>4 DEF SlotsSound
<1>5. CASE Wake
  <2>1. /\ \A s \in Slots : WokenSlot(proc[s], proc'[s])
        /\ faults \subseteq faults' /\ pc = "suspend" /\ pc' = "awake" /\ UNCHANGED <<cycle, sent>>
    BY <1>5, WakeStep
  <2>2. SUFFICES ASSUME NEW s \in Slots PROVE SlotSound(proc[s])'
    BY DEF SlotsSound
  <2> DEFINE q == proc[s]
             p == proc'[s]
             w == Waited(q)
  <2>3. SlotSound(q) /\ q \in Slot /\ WokenSlot(q, p)
    BY <2>1 DEF SlotsSound, TypeInv
  <2>4. /\ w \in Slot /\ w.detached = q.detached /\ w.cfg = q.cfg /\ w.exiting = q.exiting
        /\ w.justSpawn = q.justSpawn
        /\ IF q.st \in Zombie
           THEN w.exited /\ w.st = "none" /\ w.respawn = (q.respawn /\ q.st # "fatal")
           ELSE w = q
    BY <2>3, WaitedSlot
  <2>5. \/ p = w /\ ~w.exited
        \/ p = w /\ w.exited /\ "fork" \in faults'
        \/ /\ p.st = "init" /\ p.cfg = cycle /\ ~p.exited
           /\ p.detached = w.detached /\ p.justSpawn = w.justSpawn
        \/ p = Free
    BY <2>3 DEF WokenSlot
  <2> HIDE DEF q, w, p
  <2>6. /\ p.exited => p.st = "none" /\ "fork" \in faults'
        /\ ~p.justSpawn
        /\ IsKept(p) => p.exited \/ p.cfg = cycle
        /\ p.st = "fatal" => "fatal" \in faults'
        /\ p.detached => "USR2" \in sent
    <3>1. CASE p = w /\ ~w.exited
      <4>1. p = q
        BY <2>4, <3>1
      <4>2. QED
        BY <2>1, <2>3, <4>1 DEF SlotSound
    <3>2. CASE p = w /\ w.exited /\ "fork" \in faults'
      BY <2>1, <2>3, <2>4, <3>2 DEF SlotSound
    <3>3. CASE /\ p.st = "init" /\ p.cfg = cycle /\ ~p.exited
               /\ p.detached = w.detached /\ p.justSpawn = w.justSpawn
      BY <2>1, <2>3, <2>4, <3>3 DEF SlotSound
    <3>4. CASE p = Free
      BY <3>4, FreeSlot DEF IsKept, IsFree
    <3>5. QED
      BY <2>5, <3>1, <3>2, <3>3, <3>4
  <2>7. QED
    BY <2>1, <2>6 DEF p, SlotSound
<1>6. CASE MasterExit
  BY <1>6, SlotsKept DEF MasterExit
<1>7. CASE Terminate
  <2>1. pc = "awake" /\ pc' = "suspend" /\ UNCHANGED <<cycle, sent, faults>>
    BY <1>7 DEF Terminate, Serves, Continue
  <2>2. CASE sigio > 0
    BY <1>7, <2>1, <2>2, SlotsKept DEF Terminate
  <2>3. CASE ~(sigio > 0)
    <3>1. PICK signo \in Signals : Signal(signo, {"ALRM"})
      BY <1>7, <2>3 DEF Terminate, Signals
    <3>2. QED
      BY <2>1, <3>1, SlotsSignalled
  <2>4. QED
    BY <2>2, <2>3
<1>8. CASE Quit
  <2>1. pc' = "suspend" /\ Signal("QUIT", {}) /\ UNCHANGED <<cycle, sent, faults>>
    BY <1>8 DEF Quit
  <2>2. QED
    BY <2>1, SlotsSignalled DEF Signals
<1>9. CASE RestartOldWorkers
  <2>1. /\ Spawn(WorkerProcesses, "RESPAWN", cycle) /\ pc = "awake" /\ pc' = "suspend"
        /\ UNCHANGED <<cycle, sent>> /\ WorkerProcesses \in Nat /\ cycle \in 0..MaxOrders
    BY <1>9, ProcessAssumption DEF RestartOldWorkers, Serves, TypeInv, TypeOK
  <2>2. QED
    BY <2>1, SlotsSpawned
<1>10. CASE RejectFile
  BY <1>10, SlotsKept DEF RejectFile, Serves, Fault
<1>11. CASE StartNewWorkers
  <2>1. /\ Spawn(WorkerProcesses, "JUST_RESPAWN", file) /\ pc = "awake" /\ pc' = "sleep"
        /\ cycle' = file /\ UNCHANGED sent /\ WorkerProcesses \in Nat /\ file \in 0..MaxOrders
    BY <1>11, ProcessAssumption DEF StartNewWorkers, Serves, TypeInv, TypeOK
  <2>2. QED
    BY <2>1, SlotsSpawned
<1>12. CASE ShutdownOldWorkers
  <2>1. pc' = "awake" /\ Signal("QUIT", {}) /\ UNCHANGED <<cycle, sent, faults>>
    BY <1>12 DEF ShutdownOldWorkers
  <2>2. QED
    BY <2>1, SlotsSignalled DEF Signals
<1>13. CASE Restart
  <2>1. /\ Spawn(WorkerProcesses, "RESPAWN", cycle) /\ pc = "awake" /\ pc' = "awake"
        /\ UNCHANGED <<cycle, sent>> /\ WorkerProcesses \in Nat /\ cycle \in 0..MaxOrders
    BY <1>13, ProcessAssumption DEF Restart, Serves, TypeInv, TypeOK
  <2>2. QED
    BY <2>1, SlotsSpawned
<1>14. CASE Reopen
  <2>1. /\ pc = "awake" /\ pc' = "awake" /\ Signal("USR1", {"USR1"})
        /\ UNCHANGED <<cycle, sent, faults>>
    BY <1>14 DEF Reopen, Serves
  <2>2. QED
    BY <2>1, SlotsSignalled DEF Signals
<1>15. CASE ChangeBinary
  <2>1. /\ Spawn(1, "DETACHED", cycle) /\ pc = "awake" /\ pc' = "awake" /\ "USR2" \in flag
        /\ UNCHANGED <<cycle, sent>> /\ cycle \in 0..MaxOrders
    BY <1>15 DEF ChangeBinary, Serves, TypeInv, TypeOK
  <2>2. "USR2" \in sent
    BY <2>1 DEF NoUpgrade
  <2>3. QED
    BY <2>1, <2>2, SlotsSpawned
<1>16. CASE NoAccept
  <2>1. /\ pc = "awake" /\ pc' = "awake" /\ Signal("QUIT", {"WINCH"})
        /\ UNCHANGED <<cycle, sent, faults>>
    BY <1>16 DEF NoAccept, Serves
  <2>2. QED
    BY <2>1, SlotsSignalled DEF Signals
<1>17. CASE Suspend
  BY <1>17, SlotsKept DEF Suspend
<1>18. CASE UNCHANGED vars
  BY <1>18, SlotsKept DEF vars
<1>19. QED
  BY <1>1, <1>2, <1>3, <1>4, <1>5, <1>6, <1>7, <1>8, <1>9, <1>10, <1>11, <1>12, <1>13,
     <1>14, <1>15, <1>16, <1>17, <1>18 DEF Next, Master

-----------------------------------------------------------------------------
(* Nothing of an upgrade before SIGUSR2 *)

LEMMA NotDetached ==
  ASSUME SlotsSound, "USR2" \notin sent
  PROVE  \A s \in Slots : ~proc[s].detached
  BY DEF SlotsSound, SlotSound

LEMMA UpgradeStep ==
  ASSUME TypeInv, SlotsSound, NoUpgrade, [Next]_vars
  PROVE  NoUpgrade'
<1> USE DEF master, world
<1>1. SUFFICES ASSUME "USR2" \notin sent' PROVE NoUpgrade'
  BY DEF NoUpgrade
<1>2. sent \subseteq sent'
  BY DEF Next, Master, vars, Reload, Command, Alarm, Wake, MasterExit, Terminate, Quit,
         RestartOldWorkers, RejectFile, StartNewWorkers, ShutdownOldWorkers, Restart, Reopen,
         ChangeBinary, NoAccept, Suspend, Child, Mishap, WorkerInit, WorkerCommand, WorkerDone,
         WorkerFatal, WorkerCrash, WorkerHang, NewBinaryExit, Becomes
<1>3. "USR2" \notin sent /\ newBinary = "none" /\ "USR2" \notin pend \cup flag /\ "restart" \notin flag
  BY <1>1, <1>2 DEF NoUpgrade
<1>4. CASE Reload
  BY <1>3, <1>4 DEF Reload, NoUpgrade
<1>5. ASSUME NEW c \in Commands, Command(c) PROVE NoUpgrade'
  BY <1>1, <1>3, <1>5 DEF Command, NoUpgrade
<1>6. CASE Alarm
  BY <1>3, <1>6 DEF Alarm, NoUpgrade
<1>7. ASSUME NEW s \in Slots, Child(s) \/ Mishap(s) PROVE NoUpgrade'
  <2>1. pend' \subseteq pend \cup {"IO"} /\ UNCHANGED <<flag, newBinary>>
    BY <1>7, ChildSteps
  <2>2. QED
    BY <1>3, <2>1 DEF NoUpgrade
<1>8. CASE Wake
  <2>1. /\ newBinary' \in {"none", newBinary} /\ pend' = {}
        /\ flag' \subseteq flag \cup Handled \cup {"reap", "restart"}
        /\ "restart" \in flag' => "restart" \in flag \/ \E s \in Slots : proc[s].detached
    BY <1>8, WakeStep
  <2>2. Handled \subseteq pend
    BY DEF Handled
  <2>3. QED
    BY <1>3, <2>1, <2>2, NotDetached DEF NoUpgrade
<1>9. ASSUME NEW signo \in Signals, NEW served, Signal(signo, served), UNCHANGED <<pend, newBinary>>
      PROVE  NoUpgrade'
  <2>1. flag' \subseteq flag \cup {"reap"}
    BY <1>9, SignalStep
  <2>2. QED
    BY <1>3, <1>9, <2>1 DEF NoUpgrade
<1>10. CASE Terminate
  <2>1. UNCHANGED <<pend, newBinary>>
    BY <1>10 DEF Terminate
  <2>2. CASE sigio > 0
    BY <1>3, <1>10, <2>1, <2>2 DEF Terminate, NoUpgrade
  <2>3. CASE ~(sigio > 0)
    BY <1>9, <1>10, <2>1, <2>3 DEF Terminate, Signals
  <2>4. QED
    BY <2>2, <2>3
<1>11. CASE Quit \/ ShutdownOldWorkers \/ Reopen \/ NoAccept
  BY <1>9, <1>11 DEF Quit, ShutdownOldWorkers, Reopen, NoAccept, Signals
<1>12. CASE MasterExit \/ RejectFile \/ StartNewWorkers \/ Suspend \/ UNCHANGED vars
  BY <1>3, <1>12 DEF MasterExit, RejectFile, StartNewWorkers, Suspend, vars, NoUpgrade
<1>13. CASE RestartOldWorkers \/ Restart \/ ChangeBinary
  BY <1>3, <1>13 DEF RestartOldWorkers, Restart, ChangeBinary, Serves
<1>14. QED
  BY <1>4, <1>5, <1>6, <1>7, <1>8, <1>10, <1>11, <1>12, <1>13 DEF Next, Master

-----------------------------------------------------------------------------
(* `live` is false only when no worker runs *)

LEMMA LiveKept ==
  ASSUME LiveSound, sent \subseteq sent', pc = "sleep" => pc' = "sleep", UNCHANGED live,
         pc' = "exited" => pc = "exited" \/ ~live,
         \A s \in Slots : proc'[s].st \in Running => proc[s].st \in Running
  PROVE  LiveSound'
  BY DEF LiveSound

LEMMA LiveSignalled ==
  ASSUME TypeInv, LiveSound, NEW signo \in Signals, NEW served, Signal(signo, served),
         pc # "sleep", pc' # "exited", UNCHANGED <<live, sent>>
  PROVE  LiveSound'
<1>1. \A s \in Slots : proc'[s].st \in Running => proc[s].st \in Running
  <2>1. TAKE s \in Slots
  <2>2. proc[s] \in Slot /\ proc'[s] = Signalled(proc[s], signo)
    BY SignalStep
  <2>3. proc'[s].st = proc[s].st \/ (proc[s].st \in Running /\ proc'[s].st = "dead")
    BY <2>2, SignalledSlot
  <2>4. QED
    BY <2>3
<1>2. QED
  BY <1>1, LiveKept

LEMMA LiveStep ==
  ASSUME TypeInv, SlotsSound, NoUpgrade, LiveSound, [Next]_vars
  PROVE  LiveSound'
<1> USE DEF master, world
<1>1. CASE Reload \/ Alarm \/ MasterExit \/ RejectFile \/ Suspend \/ UNCHANGED vars
  BY <1>1, LiveKept DEF Reload, Alarm, MasterExit, RejectFile, Suspend, vars, Serves
<1>2. ASSUME NEW c \in Commands, Command(c) PROVE LiveSound'
  BY <1>2, LiveKept DEF Command
<1>3. ASSUME NEW s \in Slots, Child(s) \/ Mishap(s) PROVE LiveSound'
  <2>1. ChildStep(s) /\ UNCHANGED <<pc, live, sent>>
    BY <1>3, ChildSteps
  <2>2. \A t \in Slots : proc'[t].st \in Running => proc[t].st \in Running
    BY <2>1 DEF ChildStep
  <2>3. QED
    BY <2>1, <2>2, LiveKept
<1>4. CASE Wake
  <2>1. /\ \A s \in Slots : WokenSlot(proc[s], proc'[s])
        /\ (live' = live /\ proc' = proc) \/ live' = Live(proc')
        /\ pc = "suspend" /\ pc' = "awake" /\ UNCHANGED sent
    BY <1>4, WakeStep
  <2>2. CASE live' = live /\ proc' = proc
    BY <2>1, <2>2, LiveKept
  <2>3. CASE live' = Live(proc')
    <3>1. SUFFICES ASSUME "USR2" \notin sent, ~Live(proc')
                   PROVE  \A s \in Slots : proc'[s].st \notin Running
      BY <2>1, <2>3 DEF LiveSound
    <3>2. TAKE s \in Slots
    <3>3. proc[s] \in Slot /\ ~proc[s].detached /\ SlotSound(proc[s])
      BY <3>1, NotDetached DEF TypeInv, SlotsSound
    <3>4. IsFree(proc'[s]) \/ proc'[s].exited \/ proc'[s].detached
      BY <3>1 DEF Live
    <3>5. WokenSlot(proc[s], proc'[s])
      BY <2>1
    <3> DEFINE q == proc[s]
               p == proc'[s]
               w == Waited(q)
    <3>6. /\ w.detached = q.detached
          /\ IF q.st \in Zombie THEN w.exited /\ w.st = "none" ELSE w = q
      BY <3>3, WaitedSlot
    <3>7. ~Free.exited /\ Free.st = "none"
      BY DEF Free
    <3>8. \/ p = w /\ ~w.exited
          \/ p = w /\ w.exited
          \/ ~p.exited /\ p.detached = w.detached /\ p.st = "init"
          \/ p = Free
      BY <3>5 DEF WokenSlot
    <3>9. ("none" \in Running) = FALSE
      BY DEF Running
    <3> HIDE DEF q, p, w
    <3>10. p.st \notin Running
      <4>1. ~q.detached /\ (q.exited => q.st = "none")
        BY <3>3 DEF q, SlotSound
      <4>2. IsFree(p) \/ p.exited \/ p.detached
        BY <3>4 DEF p
      <4>3. QED
        BY <3>6, <3>7, <3>8, <3>9, <4>1, <4>2 DEF IsFree
    <3>11. QED
      BY <3>10 DEF p
  <2>4. QED
    BY <2>1, <2>2, <2>3
<1>5. CASE Terminate
  <2>1. pc = "awake" /\ pc' = "suspend" /\ UNCHANGED <<live, sent>>
    BY <1>5 DEF Terminate, Serves, Continue
  <2>2. CASE sigio > 0
    BY <1>5, <2>1, <2>2, LiveKept DEF Terminate
  <2>3. CASE ~(sigio > 0)
    <3>1. PICK signo \in Signals : Signal(signo, {"ALRM"})
      BY <1>5, <2>3 DEF Terminate, Signals
    <3>2. QED
      BY <2>1, <3>1, LiveSignalled
  <2>4. QED
    BY <2>2, <2>3
<1>6. CASE Quit
  BY <1>6, LiveSignalled DEF Quit, Serves, Signals
<1>7. CASE Reopen
  BY <1>7, LiveSignalled DEF Reopen, Serves, Signals
<1>8. CASE NoAccept
  BY <1>8, LiveSignalled DEF NoAccept, Serves, Signals
<1>9. CASE StartNewWorkers \/ ShutdownOldWorkers \/ Restart
  BY <1>9 DEF StartNewWorkers, ShutdownOldWorkers, Restart, Serves, LiveSound
<1>10. CASE RestartOldWorkers \/ ChangeBinary
  <2>1. "USR2" \in sent' /\ pc' # "exited"
    BY <1>10 DEF RestartOldWorkers, ChangeBinary, Serves, NoUpgrade
  <2>2. QED
    BY <2>1 DEF LiveSound
<1>11. QED
  BY <1>1, <1>2, <1>3, <1>4, <1>5, <1>6, <1>7, <1>8, <1>9, <1>10 DEF Next, Master

-----------------------------------------------------------------------------
(* The staff *)

\* The hypotheses of Staffed cannot become true again.
LEMMA CalmKept ==
  ASSUME Calm', noaccepting => noaccepting', sent \subseteq sent',
         flag \cap {"QUIT", "TERM", "WINCH"} \subseteq flag', faults \subseteq faults'
  PROVE  Calm
  BY DEF Calm

LEMMA StaffKept ==
  ASSUME StaffSound, Calm, pc' = "sleep" <=> pc = "sleep",
         \A s \in Slots : /\ IsKept(proc'[s]) <=> IsKept(proc[s])
                          /\ pc = "sleep" => proc'[s].justSpawn = proc[s].justSpawn
  PROVE  StaffSound'
<1>1. CASE pc = "sleep"
  <2>1. NewSlots' = NewSlots
    BY <1>1 DEF NewSlots
  <2>2. QED
    BY <1>1, <2>1 DEF StaffSound
<1>2. CASE pc # "sleep"
  <2>1. KeptSlots' = KeptSlots
    BY DEF KeptSlots
  <2>2. QED
    BY <1>2, <2>1 DEF StaffSound
<1>3. QED
  BY <1>1, <1>2

\* While calm nothing has been waited for and nothing failed for good.
LEMMA CalmSlots ==
  ASSUME TypeInv, SlotsSound, Calm
  PROVE  \A s \in Slots : /\ proc[s] \in Slot /\ ~proc[s].exited /\ ~proc[s].detached
                          /\ proc[s].st # "fatal" /\ (pc # "sleep" => ~proc[s].justSpawn)
  BY DEF TypeInv, SlotsSound, SlotSound, Calm

LEMMA StaffWoken ==
  ASSUME TypeInv, SlotsSound, NoUpgrade, StaffSound, Wake, Calm'
  PROVE  StaffSound'
<1>1. /\ \A s \in Slots : WokenSlot(proc[s], proc'[s])
      /\ faults \subseteq faults'
      /\ noaccepting' = noaccepting \/ (~noaccepting' /\ \E s \in Slots : proc[s].detached)
      /\ flag \cup Handled \subseteq flag' \cup {"reap"}
      /\ pc = "suspend" /\ pc' = "awake" /\ UNCHANGED <<cycle, world>>
  BY WakeStep
<1>2. "USR2" \notin sent /\ "fork" \notin faults' /\ flag' \cap {"QUIT", "TERM"} = {}
  BY <1>1 DEF Calm, world
<1>3. Calm
  <2>1. noaccepting => noaccepting'
    BY <1>1, <1>2, NotDetached
  <2>2. flag \cap {"QUIT", "TERM", "WINCH"} \subseteq flag'
    BY <1>1
  <2>3. QED
    BY <1>1, <2>1, <2>2, CalmKept DEF world
<1>4. ASSUME NEW s \in Slots PROVE IsKept(proc'[s]) <=> IsKept(proc[s])
  <2> DEFINE q == proc[s]
             p == proc'[s]
             w == Waited(q)
  <2>1. /\ q \in Slot /\ ~q.exited /\ ~q.detached /\ q.st # "fatal"
    BY <1>3, CalmSlots
  <2>2. WokenSlot(q, p)
    BY <1>1
  <2> SUFFICES IsKept(p) <=> IsKept(q)
    OBVIOUS
  <2> HIDE DEF q, p
  <2>3. /\ w.detached = q.detached /\ w.exiting = q.exiting
        /\ IF q.st \in Zombie
           THEN w.exited /\ w.st = "none" /\ w.respawn = q.respawn
           ELSE w = q
    BY <2>1, SlotFields, WaitedSlot
  <2>4. \/ p = w /\ ~w.exited
        \/ /\ w.exited /\ Respawns(w) /\ p.st = "init"
           /\ p.respawn = w.respawn /\ p.exiting = w.exiting /\ p.detached = w.detached
        \/ w.exited /\ p = Free /\ ~Respawns(w)
    BY <1>2, <2>2 DEF WokenSlot
  <2> HIDE DEF w
  <2>5. CASE p = w /\ ~w.exited
    BY <2>3, <2>5
  <2>6. CASE /\ w.exited /\ Respawns(w) /\ p.st = "init"
             /\ p.respawn = w.respawn /\ p.exiting = w.exiting /\ p.detached = w.detached
    BY <2>1, <2>3, <2>6 DEF Respawns, IsKept, IsFree, Zombie
  <2>7. CASE w.exited /\ p = Free /\ ~Respawns(w)
    <3>1. ~IsKept(p)
      BY <2>7, FreeSlot DEF IsKept
    <3>2. ~IsKept(q)
      BY <2>1, <2>3, <2>7 DEF Respawns, IsKept
    <3>3. QED
      BY <3>1, <3>2
  <2>8. QED
    BY <2>4, <2>5, <2>6, <2>7
<1>5. QED
  BY <1>1, <1>3, <1>4, StaffKept

\* ngx_start_worker_processes: the new workers are worker_processes.
LEMMA StaffStarted ==
  ASSUME TypeInv, SlotsSound, StartNewWorkers, Calm'
  PROVE  StaffSound'
<1>1. /\ Spawn(WorkerProcesses, "JUST_RESPAWN", file) /\ pc = "awake" /\ pc' = "sleep"
      /\ WorkerProcesses \in Nat /\ file \in 0..MaxOrders
  BY ProcessAssumption DEF StartNewWorkers, Serves, TypeInv, TypeOK
<1>2. PICK S \in SUBSET Slots :
        /\ \A s \in Slots :
             proc'[s] = IF s \in S THEN Spawned("JUST_RESPAWN", file) ELSE proc[s]
        /\ faults' \cap {"fork", "full"} = {} => Cardinality(S) = WorkerProcesses
  BY <1>1, SpawnStep
<1>3. Cardinality(S) = WorkerProcesses
  BY <1>2 DEF Calm
<1>4. LET q == Spawned("JUST_RESPAWN", file) IN IsKept(q) /\ q.justSpawn
  BY <1>1, SpawnedSlot DEF IsKept, IsFree
<1>5. \A s \in Slots : ~proc[s].justSpawn
  BY <1>1 DEF SlotsSound, SlotSound
<1>6. NewSlots' = S
  BY <1>2, <1>4, <1>5 DEF NewSlots
<1>7. QED
  BY <1>1, <1>3, <1>6 DEF StaffSound

\* ... and they are the ones kept when the others are told to quit.
LEMMA StaffReplaced ==
  ASSUME TypeInv, SlotsSound, StaffSound, ShutdownOldWorkers, Calm'
  PROVE  StaffSound'
<1>1. /\ pc = "sleep" /\ pc' = "awake" /\ Signal("QUIT", {}) /\ "QUIT" \in Signals
      /\ UNCHANGED <<noaccepting, world, faults>>
  BY DEF ShutdownOldWorkers, Signals
<1>2. /\ flag \subseteq flag'
      /\ \A s \in Slots : proc'[s] = Signalled(proc[s], "QUIT")
  BY <1>1, SignalStep
<1>3. Calm
  BY <1>1, <1>2, CalmKept DEF world
<1>4. \A s \in Slots : IsKept(proc'[s]) <=> IsKept(proc[s]) /\ proc[s].justSpawn
  BY <1>2, <1>3, CalmSlots, QuitSlot
<1>5. KeptSlots' = NewSlots
  BY <1>4 DEF KeptSlots, NewSlots
<1>6. QED
  BY <1>1, <1>3, <1>5 DEF StaffSound

LEMMA StaffStep ==
  ASSUME TypeInv, SlotsSound, NoUpgrade, StaffSound, [Next]_vars
  PROVE  StaffSound'
<1> SUFFICES ASSUME Calm' PROVE StaffSound'
  BY DEF StaffSound
<1> USE DEF master, world
<1>1. CASE Reload \/ Alarm \/ Suspend \/ RejectFile \/ UNCHANGED vars
  <2>1. UNCHANGED <<proc, noaccepting, sent>> /\ faults \subseteq faults' /\ (pc' = "sleep" <=> pc = "sleep")
    BY <1>1 DEF Reload, Alarm, Suspend, RejectFile, Serves, Fault, vars
  <2>2. flag \cap {"QUIT", "TERM", "WINCH"} \subseteq flag'
    BY <1>1 DEF Reload, Alarm, Suspend, RejectFile, vars
  <2>3. Calm
    BY <2>1, <2>2, CalmKept
  <2>4. QED
    BY <2>1, <2>3, StaffKept
<1>2. ASSUME NEW c \in Commands, Command(c) PROVE StaffSound'
  <2>1. UNCHANGED <<proc, noaccepting, flag, faults, pc>> /\ sent \subseteq sent'
    BY <1>2 DEF Command
  <2>2. Calm
    BY <2>1, CalmKept
  <2>3. QED
    BY <2>1, <2>2, StaffKept
<1>3. ASSUME NEW s \in Slots, Child(s) \/ Mishap(s) PROVE StaffSound'
  <2>1. ChildStep(s) /\ faults \subseteq faults' /\ UNCHANGED <<pc, flag, noaccepting, sent>>
    BY <1>3, ChildSteps
  <2>2. Calm
    BY <2>1, CalmKept
  <2>3. \A t \in Slots : /\ IsKept(proc'[t]) <=> IsKept(proc[t])
                         /\ proc'[t].justSpawn = proc[t].justSpawn
    BY <2>1 DEF ChildStep, IsKept, IsFree, Running
  <2>4. QED
    BY <2>1, <2>2, <2>3, StaffKept
<1>4. CASE Wake
  BY <1>4, StaffWoken
<1>5. CASE StartNewWorkers
  BY <1>5, StaffStarted
<1>6. CASE ShutdownOldWorkers
  BY <1>6, StaffReplaced
<1>7. CASE Reopen
  <2>1. /\ pc = "awake" /\ Signal("USR1", {"USR1"}) /\ "USR1" \in Signals
        /\ UNCHANGED <<pc, noaccepting, sent, faults>>
    BY <1>7 DEF Reopen, Serves, Signals
  <2>2. /\ flag \ {"USR1"} \subseteq flag'
        /\ \A s \in Slots : proc'[s] = Signalled(proc[s], "USR1")
    BY <2>1, SignalStep
  <2>3. Calm
    BY <2>1, <2>2, CalmKept
  <2>4. \A s \in Slots : proc'[s] = proc[s]
    BY <2>1, <2>2, <2>3, CalmSlots, ReopenSlot
  <2>5. QED
    BY <2>1, <2>3, <2>4, StaffKept
<1>8. CASE Terminate \/ Quit \/ MasterExit
  <2>1. flag \cap {"QUIT", "TERM"} # {}
    BY <1>8 DEF Terminate, Quit, MasterExit, Serves
  <2>2. flag \ {"ALRM"} \subseteq flag'
    <3>1. CASE MasterExit \/ (Terminate /\ sigio > 0)
      BY <3>1 DEF MasterExit, Terminate
    <3>2. CASE Quit \/ (Terminate /\ ~(sigio > 0))
      <4>1. \E signo \in Signals : Signal(signo, {"ALRM"}) \/ Signal(signo, {})
        BY <3>2 DEF Terminate, Quit, Signals
      <4>2. QED
        BY <4>1, SignalStep
    <3>3. QED
      BY <1>8, <3>1, <3>2
  <2>3. QED
    BY <2>1, <2>2 DEF Calm
<1>9. CASE NoAccept
  BY <1>9 DEF NoAccept, Calm
<1>10. CASE RestartOldWorkers \/ Restart \/ ChangeBinary
  <2>1. "USR2" \in sent'
    BY <1>10 DEF RestartOldWorkers, Restart, ChangeBinary, Serves, NoUpgrade
  <2>2. QED
    BY <2>1 DEF Calm
<1>11. QED
  BY <1>1, <1>2, <1>3, <1>4, <1>5, <1>6, <1>7, <1>8, <1>9, <1>10 DEF Next, Master

-----------------------------------------------------------------------------
(* The theorems *)

LEMMA CycleInit == Init => CycleInv
<1> SUFFICES ASSUME Init PROVE CycleInv
  OBVIOUS
<1> DEFINE q == Spawned("RESPAWN", 0)
<1>0. 0 \in 0..MaxOrders
  BY ProcessAssumption
<1>1. /\ q \in Slot /\ q.cfg = 0 /\ ~q.exited /\ ~q.exiting /\ q.st \in {"init", "run"}
      /\ ~q.justSpawn /\ ~q.detached /\ q.respawn
  BY <1>0, SpawnedSlot
<1>2. IsKept(q) /\ ~IsKept(Free)
  BY <1>1, FreeSlot DEF IsKept, IsFree
<1>3. \A s \in Slots : proc[s] = IF s < WorkerProcesses THEN q ELSE Free
  BY DEF Init
<1> HIDE DEF q
<1>4. proc \in [Slots -> Slot]
  BY <1>1, <1>3, FreeSlot DEF Init
<1>5. MasterOK
  <2>1. WorkerProcesses \in 0..MaxProcesses /\ 0 \in 0..(WorkerProcesses + 2)
    BY ProcessAssumption
  <2>2. QED
    BY <1>0, <2>1 DEF Init, MasterOK
<1>6. SlotsSound
  <2>1. SlotSound(q)
    BY <1>1 DEF SlotSound, Init
  <2>2. SlotSound(Free)
    BY <1>2, FreeSlot DEF SlotSound, Free
  <2>3. QED
    BY <1>3, <2>1, <2>2 DEF SlotsSound
<1>7. NoUpgrade /\ LiveSound
  BY DEF Init, NoUpgrade, LiveSound
<1>8. StaffSound
  <2>1. KeptSlots = 0..(WorkerProcesses - 1)
    BY <1>2, <1>3, ProcessAssumption DEF KeptSlots, Slots
  <2>2. Cardinality(0..(WorkerProcesses - 1)) = WorkerProcesses
    BY FS_Interval, ProcessAssumption
  <2>3. QED
    BY <2>1, <2>2 DEF StaffSound, Init
<1>9. QED
  BY <1>4, <1>5, <1>6, <1>7, <1>8, TypeParts DEF CycleInv

LEMMA CycleStep == CycleInv /\ [Next]_vars => CycleInv'
  BY TypeStep, SlotsStep, UpgradeStep, LiveStep, StaffStep DEF CycleInv

LEMMA CycleAlways == Spec => []CycleInv
  BY CycleInit, CycleStep, PTL DEF Spec

\* Every variable of the master and every slot keeps its type, for any number of
\* slots and workers.
THEOREM TypeCorrect == Spec => []TypeOK
<1>1. CycleInv => TypeOK
  BY DEF CycleInv, TypeInv
<1>2. QED
  BY <1>1, CycleAlways, PTL

\* Whatever crashes, failed forks, respawns and reloads overlap, no worker that
\* is to stay runs an older configuration than the last one accepted
\* (ngx_reap_children, ngx_signal_worker_processes and just_spawn).
THEOREM CurrentCorrect == Spec => []KeptRunCurrent
<1>1. CycleInv => KeptRunCurrent
  BY DEF CycleInv, SlotsSound, SlotSound, KeptRunCurrent, Kept, Worker, IsKept
<1>2. QED
  BY <1>1, CycleAlways, PTL

\* A reload replaces the workers one for one: unless a fork fails, the slots run
\* out or a worker exits with the fatal code, worker_processes of them are kept.
THEOREM StaffedCorrect == Spec => []Staffed
<1>1. CycleInv => Staffed
  <2>1. Kept = KeptSlots
    BY DEF Kept, Worker, KeptSlots, IsKept
  <2>2. QED
    BY <2>1 DEF CycleInv, StaffSound, Calm, Staffed
<1>2. QED
  BY <1>1, CycleAlways, PTL

\* Without a binary upgrade, ngx_master_process_exit leaves no worker running.
THEOREM OrphansCorrect == Spec => []NoOrphans
<1>1. CycleInv => NoOrphans
  BY DEF CycleInv, LiveSound, NoOrphans, Worker
<1>2. QED
  BY <1>1, CycleAlways, PTL
=============================================================================
