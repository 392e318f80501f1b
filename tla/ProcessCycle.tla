---------------------------- MODULE ProcessCycle ----------------------------
(***************************************************************************)
(* nginx's master process and its children, as AutoBurst uses them: every  *)
(* new weight is a file, a SIGHUP (reloadNginxLB) and a generation of      *)
(* workers.  The master blocks its signals except in sigsuspend, so what   *)
(* it does between two of them is not interrupted, while the children run. *)
(* A slot of ngx_processes[] and the process in it are one record.         *)
(***************************************************************************)
EXTENDS Integers, FiniteSets, FiniteSetsExt

CONSTANTS
    MaxProcesses,      \* NGX_MAX_PROCESSES
    WorkerProcesses,   \* worker_processes
    MaxOrders,         \* bound on the reloads and commands of one behaviour
    MaxFaults,         \* bound on the kinds of faults besides failed forks
    Commands,          \* signals an operator sends, besides HUP, each once
    Faults             \* kinds of faults that occur, each once

AllCommands == {"QUIT", "TERM", "WINCH", "USR1", "USR2"}
AllFaults   == {"crash", "fatal", "hang", "fork", "binary", "refuse", "full"}

ASSUME ProcessAssumption ==
    /\ WorkerProcesses \in Nat \ {0}
    /\ MaxProcesses \in Nat /\ MaxProcesses > WorkerProcesses
    /\ MaxOrders \in Nat /\ MaxFaults \in Nat
    /\ Commands \subseteq AllCommands /\ Faults \subseteq AllFaults \ {"full"}

VARIABLES
    proc,         \* ngx_processes[] with the state of each process
    last,         \* ngx_last_process
    pend,         \* signals sent to the master and blocked
    flag,         \* the flags set by ngx_signal_handler and not yet served
    pc,           \* where the master is
    live,         \* live
    delay,        \* delay, capped at the first value above 1000
    sigio,        \* sigio
    newBinary,    \* ngx_new_binary: 0, a pid ("up") or NGX_INVALID_PID
    noaccepting,  \* ngx_noaccepting
    file,         \* the configuration on disk
    cycle,        \* the configuration of ngx_cycle
    sent,         \* the operator's commands so far
    faults        \* the faults so far

master == <<live, delay, sigio, newBinary, noaccepting>>
world  == <<file, sent>>
vars   == <<proc, last, pend, flag, pc, cycle, master, world, faults>>

Slots   == 0..(MaxProcesses - 1)
Running == {"init", "run", "drain", "hung"}
Zombie  == {"dead", "fatal"}

\* A free slot; pid is -1, or the slot is not below ngx_last_process.
Free == [st |-> "none", cfg |-> 0, cmd |-> {}, respawn |-> FALSE,
         justSpawn |-> FALSE, exiting |-> FALSE, exited |-> FALSE,
         detached |-> FALSE]

IsFree(q) == q.st = "none" /\ ~q.exited

\* Mutant: the new workers of a reload are not marked just_spawn
SpawnedUnmarked(type, v) ==
    [Free EXCEPT !.st = IF type = "DETACHED" THEN "run" ELSE "init",
                 !.cfg = v, !.respawn = type # "DETACHED",
                 !.detached = type = "DETACHED"]

\* ngx_spawn_process's switch (respawn): the slot of a new process.
Spawned(type, v) ==
    [Free EXCEPT !.st = IF type = "DETACHED" THEN "run" ELSE "init",
                 !.cfg = v,
                 !.respawn = type \in {"RESPAWN", "JUST_RESPAWN"},
                 !.justSpawn = type = "JUST_RESPAWN",
                 !.detached = type = "DETACHED"]

\* What ngx_signal_worker_processes does to one slot.  The channel of a process
\* that has been waited for is closed, and its pid no longer exists (ESRCH).
Signalled(q, signo) ==
    IF q.detached \/ IsFree(q) THEN q
    ELSE IF q.justSpawn THEN [q EXCEPT !.justSpawn = FALSE]
    ELSE IF q.exiting /\ signo = "QUIT" THEN q
    ELSE IF q.exited THEN [q EXCEPT !.exiting = FALSE]
    ELSE IF signo = "KILL"
         THEN [q EXCEPT !.exiting = TRUE, !.cmd = {},
                        !.st = IF @ \in Running THEN "dead" ELSE @]
    ELSE IF signo = "USR1" THEN q
    ELSE [q EXCEPT !.exiting = TRUE,
                   !.cmd = IF q.st \in Running THEN @ \cup {signo} ELSE @]

Esrch(signo) == \E s \in Slots : LET q == proc[s] IN
    ~q.detached /\ q.exited /\ ~q.justSpawn /\ ~(q.exiting /\ signo = "QUIT")

Signal(signo, served) ==
    /\ proc' = [s \in Slots |-> Signalled(proc[s], signo)]
    /\ flag' = (flag \ served) \cup (IF Esrch(signo) THEN {"reap"} ELSE {})

\* A fault of some kind happens, within the bounds.
Fault(kind) ==
    /\ kind \in Faults \ faults
    /\ kind = "fork" \/ Cardinality(faults \ {"fork", "full"}) < MaxFaults
    /\ faults' = faults \cup {kind}

\* ngx_start_worker_processes and ngx_execute: `want` calls of ngx_spawn_process,
\* of which n get past socketpair and fork.  A call takes the lowest free slot
\* and fails when there is none below NGX_MAX_PROCESSES.
Lowest(n) == {s \in Slots : IsFree(proc[s]) /\
                 Cardinality({t \in Slots : t < s /\ IsFree(proc[t])}) < n}

Spawn(want, type, v) == \E n \in 0..want :
    /\ proc' = [s \in Slots |->
                  IF s \in Lowest(n) THEN Spawned(type, v) ELSE proc[s]]
    /\ last' = Max({last} \cup {s + 1 : s \in Lowest(n)})
    /\ IF n < want THEN Fault("fork")
       ELSE faults' = faults \cup
              (IF Cardinality(Lowest(n)) < n THEN {"full"} ELSE {})

-----------------------------------------------------------------------------
\* ngx_master_process_cycle up to its loop.
Init ==
    /\ proc = [s \in Slots |->
                 IF s < WorkerProcesses THEN Spawned("RESPAWN", 0) ELSE Free]
    /\ last = WorkerProcesses
    /\ pend = {} /\ flag = {} /\ pc = "suspend"
    /\ live = TRUE /\ delay = 0 /\ sigio = 0
    /\ newBinary = "none" /\ noaccepting = FALSE
    /\ file = 0 /\ cycle = 0 /\ sent = {} /\ faults = {}

MayOrder == pc # "exited" /\ file + Cardinality(sent) < MaxOrders

\* sendUpdatedNginxConf and reloadNginxLB: a file and a SIGHUP.
Reload ==
    /\ MayOrder
    /\ file' = file + 1
    /\ pend' = pend \cup {"HUP"}
    /\ UNCHANGED <<proc, last, flag, pc, cycle, master, sent, faults>>

\* The operator's other commands.
Command(c) ==
    /\ MayOrder /\ c \notin sent
    /\ sent' = sent \cup {c} /\ pend' = pend \cup {c}
    /\ UNCHANGED <<proc, last, flag, pc, cycle, master, file, faults>>

\* The interval timer, armed on every turn of the termination cycle.
Alarm ==
    /\ pc = "suspend" /\ delay > 0 /\ "ALRM" \notin pend
    /\ pend' = pend \cup {"ALRM"}
    /\ UNCHANGED <<proc, last, flag, pc, cycle, master, world, faults>>

-----------------------------------------------------------------------------
\* ngx_signal_handler with ngx_process_get_status: every zombie is waited for,
\* and one that exited with code 2 will not be respawned.
Waited(q) == IF q.st \notin Zombie THEN q
             ELSE [q EXCEPT !.st = "none", !.exited = TRUE,
                            !.respawn = @ /\ q.st # "fatal"]

Zombies == \E s \in Slots : proc[s].st \in Zombie

\* The flags ngx_signal_handler sets; ngx_reap is set in Wake, ngx_sigio is never
\* read, and SIGUSR2 is ignored while a new binary runs.
Handled == (pend \ {"IO"})
           \ (IF newBinary = "up" THEN {"USR2"} ELSE {})

\* ngx_reap_children: `lost` are the slots whose fork fails now.
Respawns(q) == q.exited /\ q.respawn /\ ~q.exiting

\* Mutant: a respawned worker gets the configuration the slot had
ReapedWithOld(w, lost, quitting) == [s \in Slots |->
    LET q == w[s] IN
    IF ~q.exited \/ (Respawns(q) /\ ~quitting /\ s \in lost) THEN q
    ELSE IF Respawns(q) /\ ~quitting
         THEN [q EXCEPT !.st = "init", !.cmd = {}, !.exited = FALSE] ELSE Free]

Reaped(w, lost, quitting) == [s \in Slots |->
    LET q == w[s] IN
    IF ~q.exited \/ (Respawns(q) /\ ~quitting /\ s \in lost) THEN q
    ELSE IF Respawns(q) /\ ~quitting
         THEN [q EXCEPT !.st = "init", !.cfg = cycle, !.cmd = {}, !.exited = FALSE]
         ELSE Free]

\* Mutant: a worker on its way out does not keep the master waiting
LiveUnlessExiting(p) == \E s \in Slots :
    ~IsFree(p[s]) /\ ~p[s].exited /\ ~p[s].exiting /\ ~p[s].detached

\* Mutant: the new binary keeps the master waiting
LiveWithDetached(p) == \E s \in Slots : ~IsFree(p[s]) /\ ~p[s].exited

\* What ngx_reap_children returns.
Live(p) == \E s \in Slots :
    ~IsFree(p[s]) /\ ~p[s].exited /\ (p[s].exiting \/ ~p[s].detached)

\* sigsuspend returns: the handlers have run, and the children are reaped.
Wake ==
    LET f        == flag \cup Handled \cup (IF Zombies THEN {"reap"} ELSE {})
        w        == [s \in Slots |-> Waited(proc[s])]
        quitting == f \cap {"QUIT", "TERM"} # {}
        again    == {s \in Slots : Respawns(w[s]) /\ ~quitting}
        top      == last - 1
        binary   == \E s \in Slots : w[s].detached /\ w[s].exited
    IN  /\ pc = "suspend" /\ (pend # {} \/ Zombies)
        /\ pend' = {}
        /\ pc' = "awake"
        /\ \E lost \in SUBSET again :
             LET p == Reaped(w, lost, quitting) IN
             IF "reap" \in f
             THEN /\ proc' = p
                  /\ last' = IF last > 0 /\ w[top].exited /\ IsFree(p[top])
                             THEN top ELSE last
                  /\ live' = Live(p)
                  /\ newBinary' = IF binary THEN "none" ELSE newBinary
                  /\ noaccepting' = (noaccepting /\ ~binary)
                  /\ flag' = (f \ {"reap"})
                       \cup (IF binary /\ noaccepting THEN {"restart"} ELSE {})
                  /\ IF lost # {} THEN Fault("fork") ELSE UNCHANGED faults
             ELSE /\ lost = {} /\ proc' = w /\ flag' = f
                  /\ UNCHANGED <<last, live, newBinary, noaccepting, faults>>
        /\ UNCHANGED <<cycle, delay, sigio, world>>

\* Mutant: the delay is not doubled
ContinueSteady(d, io) ==
    /\ pc' = "suspend" /\ delay' = d
    /\ sigio' = IF "ALRM" \in flag THEN 0 ELSE io

\* Mutant: one wake-up more is waited for
ContinueOneMore(d, io) ==
    /\ pc' = "suspend" /\ sigio' = io + 1
    /\ delay' = IF "ALRM" \in flag /\ d <= 1000 THEN 2 * d ELSE d

\* The turn ends; the termination cycle looks at SIGALRM at its top.
Continue(d, io) ==
    /\ pc' = "suspend"
    /\ IF "ALRM" \in flag
       THEN sigio' = 0 /\ delay' = IF d > 1000 THEN d ELSE 2 * d
       ELSE sigio' = io /\ delay' = d

\* The first of the loop's conditions that holds decides; the others wait.
Serves(f) ==
    LET order == <<"TERM", "QUIT", "HUP", "restart", "USR1", "USR2", "WINCH">>
    IN  /\ pc = "awake" /\ ~(~live /\ flag \cap {"TERM", "QUIT"} # {})
        /\ \E i \in 1..7 : /\ order[i] = f /\ f \in flag
                           /\ \A j \in 1..(i - 1) : order[j] \notin flag

\* ngx_master_process_exit.
MasterExit ==
    /\ pc = "awake" /\ ~live /\ flag \cap {"TERM", "QUIT"} # {}
    /\ pc' = "exited"
    /\ UNCHANGED <<proc, last, pend, flag, cycle, master, world, faults>>

\* The termination cycle: TERM now, KILL after a second, and between them no
\* signal until as many wake-ups as there are processes, or an alarm, are past.
Terminate ==
    /\ Serves("TERM")
    /\ LET d == IF delay = 0 THEN 50 ELSE delay IN
       IF sigio > 0
       THEN /\ Continue(d, sigio - 1)
            /\ flag' = flag \ {"ALRM"} /\ UNCHANGED proc
       ELSE /\ Continue(d, WorkerProcesses + 2)
            /\ Signal(IF d > 1000 THEN "KILL" ELSE "TERM", {"ALRM"})
    /\ UNCHANGED <<last, pend, cycle, live, newBinary, noaccepting, world, faults>>

Quit ==
    /\ Serves("QUIT")
    /\ Signal("QUIT", {}) /\ pc' = "suspend"
    /\ UNCHANGED <<last, pend, cycle, master, world, faults>>

\* SIGHUP while ngx_new_binary is set, be it a pid or NGX_INVALID_PID: workers
\* of the old configuration, which is not read again.
RestartOldWorkers ==
    /\ Serves("HUP") /\ newBinary # "none"
    /\ Spawn(WorkerProcesses, "RESPAWN", cycle)
    /\ flag' = flag \ {"HUP"} /\ pc' = "suspend" /\ noaccepting' = FALSE
    /\ UNCHANGED <<pend, cycle, live, delay, sigio, newBinary, world>>

\* ngx_init_cycle fails (the file, a file it names, memory): nothing changes, and the loop continues.
RejectFile ==
    /\ Serves("HUP") /\ newBinary = "none" /\ Fault("refuse")
    /\ flag' = flag \ {"HUP"} /\ pc' = "suspend"
    /\ UNCHANGED <<proc, last, pend, cycle, master, world>>

\* Mutant: ngx_cycle is not replaced
StartNewWorkersOfOld ==
    /\ Serves("HUP") /\ newBinary = "none"
    /\ Spawn(WorkerProcesses, "JUST_RESPAWN", cycle)
    /\ flag' = flag \ {"HUP"} /\ pc' = "sleep"
    /\ UNCHANGED <<pend, cycle, master, world>>

\* ngx_init_cycle accepts it: new workers are started and given 100 ms.
StartNewWorkers ==
    /\ Serves("HUP") /\ newBinary = "none"
    /\ cycle' = file
    /\ Spawn(WorkerProcesses, "JUST_RESPAWN", file)
    /\ flag' = flag \ {"HUP"} /\ pc' = "sleep"
    /\ UNCHANGED <<pend, master, world>>

\* ... then the old ones are told to quit.
ShutdownOldWorkers ==
    /\ pc = "sleep" /\ pc' = "awake" /\ live' = TRUE
    /\ Signal("QUIT", {})
    /\ UNCHANGED <<last, pend, cycle, delay, sigio, newBinary, noaccepting,
                   world, faults>>

Restart ==
    /\ Serves("restart") /\ live' = TRUE
    /\ Spawn(WorkerProcesses, "RESPAWN", cycle)
    /\ flag' = flag \ {"restart"}
    /\ UNCHANGED <<pend, pc, cycle, delay, sigio, newBinary, noaccepting, world>>

Reopen ==
    /\ Serves("USR1") /\ Signal("USR1", {"USR1"})
    /\ UNCHANGED <<last, pend, pc, cycle, master, world, faults>>

\* ngx_exec_new_binary: a detached process, or NGX_INVALID_PID.
ChangeBinary ==
    /\ Serves("USR2")
    /\ flag' = flag \ {"USR2"}
    /\ Spawn(1, "DETACHED", cycle)
    /\ newBinary' = IF proc' = proc THEN "invalid" ELSE "up"
    /\ UNCHANGED <<pend, pc, cycle, live, delay, sigio, noaccepting, world>>

NoAccept ==
    /\ Serves("WINCH") /\ noaccepting' = TRUE /\ Signal("QUIT", {"WINCH"})
    /\ UNCHANGED <<last, pend, pc, cycle, live, delay, sigio, newBinary,
                   world, faults>>

\* Back to sigsuspend.
Suspend ==
    /\ pc = "awake"
    /\ flag \cap {"TERM", "QUIT", "HUP", "restart", "USR1", "USR2", "WINCH"} = {}
    /\ pc' = "suspend"
    /\ UNCHANGED <<proc, last, pend, flag, cycle, master, world, faults>>

Master == \/ Wake \/ MasterExit \/ Terminate \/ Quit \/ RestartOldWorkers
          \/ RejectFile \/ StartNewWorkers \/ ShutdownOldWorkers \/ Restart
          \/ Reopen \/ ChangeBinary \/ NoAccept \/ Suspend

-----------------------------------------------------------------------------
\* A child: ngx_worker_process_init, then commands of the channel until it has
\* nothing left to do (or the crash, the hang and the fatal exit of one).
Becomes(s, st) ==
    /\ proc' = [proc EXCEPT ![s].st = st, ![s].cmd = {}]
    /\ UNCHANGED <<last, flag, pc, cycle, master, world>>

WorkerInit(s) ==
    /\ proc[s].st = "init" /\ ~proc[s].detached
    /\ proc' = [proc EXCEPT ![s].st = "run"]
    /\ UNCHANGED <<last, pend, flag, pc, cycle, master, world, faults>>

\* ngx_channel_handler and the loop of ngx_worker_process_cycle; reading the
\* channel raises SIGIO in the master.
WorkerCommand(s) ==
    /\ proc[s].st \in {"run", "drain"} /\ proc[s].cmd # {}
    /\ Becomes(s, IF "TERM" \in proc[s].cmd THEN "dead" ELSE "drain")
    /\ pend' = IF pc = "exited" THEN pend ELSE pend \cup {"IO"}
    /\ UNCHANGED faults

\* ngx_worker_process_exit once ngx_event_no_timers_left.
WorkerDone(s) ==
    /\ proc[s].st = "drain" /\ Becomes(s, "dead")
    /\ UNCHANGED <<pend, faults>>

WorkerFatal(s) ==
    /\ proc[s].st = "init" /\ Becomes(s, "fatal") /\ Fault("fatal")
    /\ UNCHANGED pend

WorkerCrash(s) ==
    /\ proc[s].st \in Running /\ ~proc[s].detached
    /\ Becomes(s, "dead") /\ Fault("crash")
    /\ UNCHANGED pend

WorkerHang(s) ==
    /\ proc[s].st \in {"run", "drain"} /\ ~proc[s].detached
    /\ Becomes(s, "hung") /\ Fault("hang")
    /\ UNCHANGED pend

\* The new binary's master process ends.
NewBinaryExit(s) ==
    /\ proc[s].st = "run" /\ proc[s].detached
    /\ Becomes(s, "dead") /\ Fault("binary")
    /\ UNCHANGED pend

Child(s) == WorkerInit(s) \/ WorkerCommand(s) \/ WorkerDone(s)

Mishap(s) ==
    WorkerFatal(s) \/ WorkerCrash(s) \/ WorkerHang(s) \/ NewBinaryExit(s)

Next ==
    \/ Master \/ Alarm \/ Reload
    \/ \E c \in Commands : Command(c)
    \/ \E s \in Slots : Child(s) \/ Mishap(s)

\* The kernel runs every process that can run and delivers its signals; workers
\* that are asked to quit finish their requests, unless they hang.
Fairness ==
    /\ WF_vars(Master) /\ WF_vars(Alarm)
    /\ \A s \in Slots : WF_vars(Child(s))

Spec == Init /\ [][Next]_vars /\ Fairness

-----------------------------------------------------------------------------
\* Type invariant.
TypeOK ==
    /\ \A s \in Slots :
         /\ proc[s].st \in {"none"} \cup Running \cup Zombie
         /\ proc[s].cfg \in 0..MaxOrders
         /\ proc[s].cmd \subseteq {"QUIT", "TERM"}
         /\ {proc[s].respawn, proc[s].justSpawn, proc[s].exiting,
             proc[s].exited, proc[s].detached} \subseteq BOOLEAN
    /\ last \in 0..MaxProcesses
    /\ pend \subseteq AllCommands \cup {"HUP", "IO", "ALRM"}
    /\ flag \subseteq AllCommands \cup {"HUP", "ALRM", "reap", "restart"}
    /\ pc \in {"suspend", "awake", "sleep", "exited"}
    /\ {live, noaccepting} \subseteq BOOLEAN
    /\ delay \in Nat /\ sigio \in 0..(WorkerProcesses + 2)
    /\ newBinary \in {"none", "up", "invalid"}
    /\ {file, cycle} \subseteq 0..MaxOrders
    /\ sent \subseteq AllCommands /\ faults \subseteq AllFaults

-----------------------------------------------------------------------------
Worker == {s \in Slots : ~proc[s].detached /\ ~IsFree(proc[s])}

\* The workers the master means to keep, those it is about to respawn included.
Kept == {s \in Worker : proc[s].respawn /\ ~proc[s].exiting}

\* However crashes, failed forks, respawns and reloads overlap, a worker that is
\* not on its way out runs the configuration of the last accepted reload: nginx
\* never goes on balancing with older weights.
KeptRunCurrent ==
    pc # "sleep" => \A s \in Kept : proc[s].exited \/ proc[s].cfg = cycle

\* A reload replaces the workers one for one: unless a fork fails, the slots run
\* out or a worker exits with the fatal code, the master keeps worker_processes
\* of them, no fewer (nobody would accept) and no more.
Staffed ==
    /\ pc # "sleep" /\ ~noaccepting /\ "USR2" \notin sent
    /\ flag \cap {"QUIT", "TERM", "WINCH"} = {}
    /\ faults \cap {"fork", "full", "fatal"} = {}
    => Cardinality(Kept) = WorkerProcesses

\* The master outlives its workers: none is left running with nobody to reload or
\* stop it.  (With a binary upgrade this fails, see the README.)
NoOrphans ==
    pc = "exited" /\ "USR2" \notin sent
    => \A s \in Worker : proc[s].st \notin Running

\* SIGTERM ends nginx even when a worker hangs: the termination cycle gets to
\* SIGKILL.  A failed fork may leave `live` set with no child to reap.
TermEnds == "TERM" \in flag ~> pc = "exited" \/ "fork" \in faults

\* SIGQUIT ends nginx once the workers have finished what they were doing, also
\* when a new binary runs, a worker crashes or a reload is under way.
QuitEnds ==
    "QUIT" \in flag ~> pc = "exited" \/ faults \cap {"fork", "hang"} # {}

\* A reload reaches the newest file, however many reloads are folded into one
\* flag, unless that file is refused, nginx is told to end or a new binary has
\* taken over.
ReloadServed ==
    "HUP" \in pend ~> \/ cycle = file \/ "refuse" \in faults
                      \/ newBinary # "none" \/ flag \cap {"QUIT", "TERM"} # {}

=============================================================================
