# A TLA+ model of AutoBurst

AutoBurst runs a web application (MediaWiki nodes behind nginx) on a mix of
on-demand EC2 instances and cheaper burstable ones, whose CPU credits it spends
and saves. Two control loops run against each other: a slow one rents and
retires machines, a fast one changes the weights nginx gives them. This
directory models the repository's own code (`src/src/*.py` and its change to
nginx's `least_conn` module) and the parts of the bundled nginx that carry out what
it orders: the master and its workers, and a worker's connections. It checks them
with TLC and proves the safety properties with TLAPS, for every value of the
constants.

## 1. The system

| Component | State | Operations | Code |
|---|---|---|---|
| Long-term loop (main thread) | pools `onD`, `bur`; lists in use `curr_onD`, `curr_bur`; draining `stopped_instances_pending`; condemned `stopped_instances`; cost ledger | start-up, condemn, stop, retire, estimate, start or stop on-demand, start, take back or drain burstable, shut down | `autoBurstController.py` |
| Short-term loop (thread) | last errors, log-weight, the weights in the Node objects | query the latency, optimize, update the configuration | `autoBurstController.py`, `autoBurst.py` |
| Client thread | `clientRunning` | run the load generator to its end | `autoBurstController.py`, `ClientAppUtility.py` |
| Resource estimator | `difflist`, `increaseOnDflag`, throughput table | one call per long-term iteration | `autoBurst.py`, `throughputTableUtilities.py` |
| EC2 and CloudWatch access | none of its own | start, stop, terminate, wait for a state; credit from metrics | `InstanceUtility.py` |
| Load balancer configuration | `prevIpWeight` | compare, write, send, reload | `LoadBalancerUtility.py` |
| Arrival rate | nginx's counter, the previous reading | read over ssh, subtract | `LoadBalancerUtility.py` |
| nginx balancing | per peer: connections, failures, check times, round-robin weights | pick a peer, give it back, retry | `nginx/src/http/...` |
| nginx processes | the table `ngx_processes[]`, the signal flags, `live`, `delay`, `sigio`, the current cycle | serve a signal, spawn, signal and reap workers, reload, exit | `nginx/src/os/unix/ngx_process_cycle.c`, `ngx_process.c` |
| nginx worker | connection array, free list, reusable queue, timers, per request its peer and tries | accept, read, proxy, retry, relay, keep alive, linger, time out, drain, quit | `nginx/src/http/ngx_http_request.c`, `ngx_http_upstream.c`, `nginx/src/core/ngx_connection.c`, `nginx/src/event/` |
| Deployment, configuration parser, scripts | files and machines | sequential set-up | not modelled, see section 7 |

**Interaction.** The threads share the lists, the Node objects, two flags and
one lock. The main thread takes the lock around most list changes, but not around
the sort of `curr_bur`, the retirement of stopped machines, the reads of the
loop conditions and the credits it writes into the Nodes. The short-term thread
holds it from the optimizer to the end of `updateConf`. Everything else goes
through commands (`aws`, `ssh`, `scp`, `curl`) whose exit codes are ignored.
A configuration is a file and a SIGHUP; the master reads the file, starts workers
that know it and tells the old ones to quit, which they do once their requests are
answered. Within a worker, requests share the connection array and the counters
of the peers.

**What is hard.** Interleavings of the two loops on lists that one of them is
rebuilding; machines that take minutes to start and stop between two decisions;
metrics that are late or missing; configurations that get lost; a thread that
dies of an exception; a shutdown that depends on both threads; integer and
off-by-one arithmetic in the drain loop, the estimator and the balancer; in nginx,
signals that are folded into one, workers that crash or hang around a reload, failed
forks, and connections that are given back by whichever handler comes first. The
field `hazards` of `PROJECT.json` has each of these at its line.

## 2. Modules

| Module | Models |
|---|---|
| `Controller` | the three threads, the lock, the lists, the Nodes, the ledger, the configuration nginx runs with, and EC2 (external) |
| `ControllerProperties` | what is checked and proved of `Controller` |
| `InstanceLifecycle` | abstract specification: what a single machine may go through |
| `ResourceEstimator` | the PD controller, its integrator and the table lookup, with their arithmetic |
| `LeastConn` | nginx's peer selection with the repository's change |
| `ProcessCycle` | nginx's master process and its children |
| `Worker` | one nginx worker: connections, requests, retries, timers, shutdown |
| `RequestMonitor` | the arrival-rate measurement |
| `CreditMonitor` | the credit of a burstable instance as read from CloudWatch |
| `Controller_proofs`, `ControllerLists_proofs` | theorems about the controller: types, targets and weights; the lists, the lock, power, bills and the refinement |
| `ResourceEstimator_proofs`, `LeastConn_proofs`, `ProcessCycle_proofs`, `Worker_proofs`, `Monitors_proofs` | theorems about the other modules |
| `SetFacts` | lemmas they share: least and greatest elements, sums over finite sets |
| `MCMonitors` | the two monitors side by side |
| the other `MC...` | constants for TLC |

**Controller.** `mainPc` and `shortPc` name the places where the other thread
can run: where the lock is taken or released, where a command is executed, and
each turn of a loop. Each action is the code from one such place to the next.
Lists keep the program's order and names; `od`, `b`, `j`, `left`, `added` are
the loop's locals (`left` counts the remaining turns of the `for` in progress,
`added` is `countAddedInst`). Dead locals are set back to 0, which the program
cannot observe. A machine's state is EC2's: `pending`, `running`, `stopping`,
`stopped`, `terminated`. `cost[i]` is the last entry of the ledger: none, open
(its end is 0) or closed. Abstractions that allow more than the code does:

- The estimator answers any on-demand target that is at most two away, capped
  as in the code, and any burstable count of `BurCounts`; `ResourceEstimator`
  shows that the arithmetic, rounding included, stays within that.
- The optimizer sets any weight in `L..H` as base and any weight from the base
  to `H` for draining machines (`pow(10, lweight + 0.1)` cut at `H`).
- Credits are any member of `Credits`, in tenths, or no datapoint (-1).
- `list.sort` is stable, so `SortOrders` has one element. CPython empties a list
  while it sorts it, and a thread switch may fall there (`PreemptSort`): then
  `curr_bur` is empty and its machines are in `sorting`. A loop of the short-term
  thread may also begin before the sort and be overtaken by it; `BurViews` are the
  machines it goes through then, some of them missing or twice. Only the liveness
  run `controller_live` and the run `delivery` have the sort atomic, because
  with a switch inside it the program may hang (`shutdown`).
- With `DeliveryFails` a configuration may be lost between the controller and
  nginx, by `scp` or by the reload.
- nginx refuses an upstream block without servers and goes on with the old one
  (`ngx_http_upstream_init_round_robin` returns an error).
- `writeCostToFile` is read as if the colon its `def` line lacks were there
  (as it stands the module cannot be imported).

Idealisations, which leave out what the world may do:

- EC2 carries out every command. A refused `start-instances` would give
  `json.loads` nothing to parse, and the exception would end the main thread.
- A latency query that answers `null` is eventually answered with something else.

**ResourceEstimator.** Numbers are counted in units, `One` of which are 1.0. A sum of
floats is any number of units within `Eps` of the exact one (`Rounded`) that monotone
rounding can give: it does not pass a number that is itself a float, such as one of its
terms when the other has a sign, or a whole number. With `One` = 2^1074 every double is a
whole number of units, so the theorems cover the program's arithmetic, and TLC's instance
has coarser numbers and errors to match. The subtractions of 1 in the two loops are exact,
because the difference of two doubles within a factor of two of each other is a
double. Rounding matters: ten outputs of 0.1 leave 0.9999999999999999 in the integrator, an
output of 1 makes that 2.0, and two instances are ordered. One action is one call plus
the scaling the main loop does with its answer. The table is a constant with `NaN` cells.

**LeastConn.** A worker handles one event at a time: `Arrive`, `Finish`,
`GiveUp` and `Retry` are each what nginx does in one event. Server lines carry a
weight and nothing else, so `down`, `backup` and `max_conns` do not occur.

**ProcessCycle.** The master blocks its signals except in `sigsuspend`, so `Wake`
(handlers and reaping) and each condition of the loop are actions of their own, and
workers run in between. A record of `proc` is a slot of `ngx_processes[]` with the
state of the process in it: starting, running, draining, hung, or a zombie. `pend`
are blocked signals (a set, as the kernel keeps them), `flag` what the handlers have
set. `Serves` gives the order of the conditions: the ones after a `continue` wait.
Faults are named and each happens once: a crash, a fatal exit (code 2), a hang, a failed
fork or socketpair, the end of the new binary, a refused file. `delay` is the
code's, capped once it is above 1000. A configuration is the number of the file.
There are no cache manager processes without a cache.

**Worker.** Every handler runs to its end before the next event, so a handler is an
action; what it finds (data, an error, end of file, a full buffer) is a choice of the
state it ends in. `w.conn[c]` is a client's connection: its state is the
handler that waits for it (`wait`, `read`, `connect`, `header`, `relay`, `write`,
`idle`, `linger`, or `posted` for a pipelined request), with the timers that are
set, the tries that are left, whether a peer is held (`u->peer.sockaddr`) and whether
there is a connection to it. Operators in the plural are sets of outcomes.
`w.load` is the sum of `conns` over the peers, which `LeastConn` keeps one by one.

**RequestMonitor, CreditMonitor.** A reading fails before nginx is reached or
after nginx has counted it. CloudWatch has a balance every five minutes and a
utilization every minute, published without lag and without a gap (an idealisation); timestamps are kept as the format they are written in,
because `getCredit` drops those its patterns do not match.

## 3. Checked properties

`controller_small`: `EachInstanceInOneList` (nothing is lost, nothing is
in two lists), `PoolIsStopped`, `InUseIsUp`, `LedgerMatchesRental`,
`DrainIndexInRange`, `OnDTargetIsAvailable`, `CreditOrder`, `ReloadCoversInUse`,
`ListsStableUnderShort`, and `Lifecycle`, the refinement of
`InstanceLifecycle` under which a machine serves when it is in none of the
pools, the draining and the condemned list. One on-demand machine and two burstable
ones, burstable targets 0 and 3 (below and above what exists), credits 0
and 0.3, thread switches inside the sort: every branch of the loop is taken, machines are
started, drained, taken back and retired repeatedly. Both burstables drain at once, with
equal and with different credits, so the drain loop pops while turns are left and the
order of taking back matters; a list is sent in which one machine is missing or twice. Longer
lists are left to the proofs. `L = H = 1`, because the weights are the subject of the next
run. The program hangs when the short-term thread finds no burstable machine, so deadlock
is not checked.

`controller_faults`: thread switches in the sort, lost configurations, an
optimizer that finds no burstable machine. `EachInstanceInOneList` and
`Lifecycle` survive these. The weights here are
`L = 2`, `H = 3`, so that base, base - 1, the bias and the reset to `L` differ,
and `BurstableWeightsInBounds` holds of every list that is sent. Deadlock is
not checked, because the program does hang here (see `shutdown`).

`controller_live`: `Termination` and `BalancerFollows`, under `LongSpec`.

`leastconn_busy`: `ConnsAreRequests`, `SmoothWeightsBalance`, `NeverOverloads`,
`OneTrialPerTimeout`. Weights 3, 1, 2, two requests, `max_fails` 1, a timeout of
one tick and four ticks: two timeouts pass, so a peer fails, is tried, fails or
recovers. The run uses the symmetry of the request slots, which no property tells apart.

`estimator_table`: `TargetExists`, `AtMostTwoAtATime`, `OrdersFollowCredits` (what is left in
the integrator never moves the fleet against the present credits and their trend),
`LeastEnough` on a table with a missing column, a NaN cell and a non-monotonic row. A unit is
a hundredth and a sum is off by up to one: remainders of 0.99 and orders of two at once occur.

`monitors`: `ArrivalsExact` and `CreditNearlyCurrent`. `MaxReqs` and `MaxTime` bound
the counter and the clock; 12 minutes hold two publications and the time between
and after them, and five requests two readings with failures before or between
them. Both systems stop at their bound.

`process_reload`: no worker that is to stay runs older weights than the last accepted
reload (`KeptRunCurrent`), the workers are replaced one for one (`Staffed`), the
master does not end before them (`NoOrphans`), SIGTERM and SIGQUIT end nginx
(`TermEnds`, `QuitEnds`), and a reload reaches the newest file (`ReloadServed`).
One worker process in a table of three slots, any three reloads or commands, one fault of
any kind and failed forks: two generations fill the table while a third is asked for,
and a crash, hang or failure falls before, in or after a reload. Two worker
processes in four slots with two orders (530,000 states) give the same answers, but
take too long for a regular run. The master may end, so deadlock is not checked.

`worker_full`: connections and peers are given back exactly once (`Accounted`), a
graceful shutdown cuts off no request (`QuietExit`) and ends (`QuitDrains`), and reuse
takes no connection that has a request (`ReuseSparesRequests`). Three clients and two
peers compete for four connections: accepting, connecting and retrying each meet a full
array, with and without a connection to reuse. More clients add copies of the same.

Each property has a mutant of the code, in the modules next to what it replaces,
under which its run fails.

## 4. Where the code and its comments disagree

Each of these is a run that TLC must refute; `findings` in `PROJECT.json` quotes
the line.

| Run | What the code does |
|---|---|
| `shutdown` | a thread switch inside the unlocked sort lets the short-term thread find no burstable machine; it dies and the program never shuts down |
| `delivery` | a lost configuration is never sent again while the list stays the same |
| `count` | a failed reading sets the previous count to 0 |
| `credit` | CPU utilizations are never used, their timestamps match no pattern |

The model shows more that has no run of its own:

- The same empty list appears, without a race, when the throughput table has a
  column 0 (the shipped one starts at 5): `controller_faults` has it.
- A configuration written while the main thread sorts `curr_bur` may lack burstable
  machines that are in use, or list one twice. `ReloadCoversInUse` allows that and
  nothing else: no machine that is not rented, no on-demand or draining one missing,
  no longer list; and none of it at any other time.
- `curr_onD` and `curr_bur`, commented "currently running", hold machines that
  still boot (`InUseIsUp` says which).
- An on-demand machine started when none is in use gets weight 1, and the
  documented minimum `L` does not apply to it.
- A draining machine without a datapoint (-1) is stopped as if its credit were
  0, whereas the comment says "If credit 0 then stop, else keep running".
- The repository's change to `least_conn` compares `(conns + 1) / weight` while the tie
  tests at lines 174 and 205 still compare `conns / weight`: idle peers of different
  weights are not tied any more, and one is picked without the round robin the comment at
  line 162 speaks of. `NeverOverloads` is what remains true; its proof shows that the
  inequality is strict, which the first version of the property did not say.
- `writeCostToFile` indexes a list with a string, so the program always ends in an
  exception (`mainPc = "raised"`), after the machines are gone.

In nginx, which AutoBurst takes as it is, these show up in `ProcessCycle` and are
excluded by name from the properties:

- A reload whose forks fail, or find no slot, still tells all old workers to quit:
  nobody accepts until the next reload (`Staffed` without `fork`, `full`). AutoBurst may
  reload on every turn of its fast loop, so slow old workers pile up in the table.
- When no child is left after failed forks, `live` stays set with nothing to reap, and
  neither SIGTERM nor SIGQUIT ends the master (`TermEnds`, `QuitEnds`).
- `ngx_new_binary` is `NGX_INVALID_PID` after a failed fork or rename, which is true as a
  condition: every later SIGHUP starts more workers of the old configuration and none
  reads the new one (`ReloadServed` with `newBinary # "none"`).
- SIGHUP during an upgrade starts workers without setting `live`; if the
  master had no other, SIGQUIT can end it before them (`NoOrphans` without `USR2`).
- A refused file ends the turn with `continue`: a SIGUSR1 or SIGWINCH that came with the
  SIGHUP waits for the next signal.

## 5. Fairness

`ThreadFairness`: both threads are scheduled, EC2 completes each request, and a
thread that waits for the lock gets it eventually. The last needs strong fairness:
the lock is taken and freed again and again. It is justified because each
thread sleeps or waits for the network between two critical sections. It also
says that a latency query that answers `null` is eventually answered with
something else, which the code takes for granted. `LongSpec` is `Spec` with this
fairness and none for the client, which may run for ever. `LossySpec`, used for
`delivery` only, adds that not every configuration the short-term thread sends
is lost.

`ProcessCycle!Fairness`: the kernel runs the master, delivers the alarm and runs each
child that starts, has a command or drains (weak fairness each). None for faults,
reloads and commands. That a draining worker ends is what `Worker` shows as
`QuitDrains`, from weaker assumptions: timers go off, the exit test is reached, and clients
and peers may fall silent. But a timer may be set again by bytes that arrive or
leave, and weak fairness of `Timeout` says that this does not go on for ever, because
requests and answers are finite. So `QuitDrains` finds a worker that waits without a
timer or takes up new requests; a handler that set its timer again without
any bytes would break the assumption, and is not found.

## 6. Proofs

For every fleet, configuration, table, gain, upstream block and process table that
meets the `ASSUME`s. `theorems` in `PROJECT.json` lists each one with the property it states.

**Controller_proofs**

- `TypeCorrect`, `DrainIndexCorrect`. The inductive
  invariant is `TypeOK /\ Indices`. `TypeOK` alone is not inductive: the loops
  index lists with counters, and `Head`, `pop(j)` and `SubSeq` keep the type only
  if the counters fit the lists. `Indices` says so: the drain loop's `j + left`
  is the length of the draining list, at least one turn is left when a
  credit has been read, `left` is the length of the condemned list while it is
  retired, and the pools are untouched when the start-up takes its share. The
  step theorem has one case per action; `WithoutType` and `PermuteType` are the
  facts about `pop` and `sort` it needs, `IpWeightType` and `InitConfType` those
  about configurations.
- `OnDTargetCorrect`. Inductive with `TypeOK`: only `Estimate` sets the target,
  within what exists, and `StartOnD` moves a machine from one side of the sum to
  the other.
- `WeightsCorrect`, of `BurstableWeightsInBounds`. The property speaks of the
  list last sent, so it says nothing of the next one: `WeightInv` adds that, once
  `init_weight` has run, every burstable machine in use, in the sort or draining
  has a weight in `L..H`, and that before it nothing drains and the short-term
  thread, which would send weights of 1, is off. The proof follows the machines between
  the lists (`RangeFacts`) and the weights into the concatenated list (`IpWeightBounds`).

**ControllerLists_proofs**

- `ListsCorrect`, of `EachInstanceInOneList`. `ListInv` is `TypeOK`, `Indices`,
  `ListsInPlace` (which lists are empty at which place of the main thread) and `AllApart`:
  the seven lists have no repetition, no common element, and hold everything together.
  Each kind of move (append, pop, tail, permute, split) has a lemma about ranges and
  injectivity; an action is one or two of them.
- `LockCorrect`: `LockInv`, the lock's owner is the thread whose program counter is inside a
  with-block.
- `ListsStableCorrect` and `ReloadCorrect`, of `ReloadCoversInUse`, with thread switches inside
  the sort. `ListInv` says where the burstables are: in `curr_bur`, or in `sorting` and then
  `curr_bur` is empty. A list has as many entries as the three loops have turns
  (`IpWeightServers`), and a loop over `curr_bur` has no more turns than there are burstables
  (`ViewType`), so a torn list is never longer than a whole one (`ViewCovers`).
- `CreditOrderCorrect`. `CreditSorted` says that from the sort until the last machine is
  moved, the list is in the order of its credits, which the credits written
  meanwhile cannot disturb.

- `PoolCorrect`, `InUseCorrect`. `PowerInv` gives every list the states its machines may
  be in, and the places at which the last few are still on their way: the two properties
  need each other, because a machine in use becomes one of the pool and back.
- `LedgerCorrect`. `LedgerInv` adds the entries of the machines being stopped and retired.
- `LifecycleCorrect`: the refinement of `InstanceLifecycle`. Every action maps to one
  action of it or to a stutter, from `ListInv` and `PowerInv`.

**ResourceEstimator_proofs**

- `TargetCorrect`, `StepCorrect` (of `AtMostTwoAtATime`), `OrdersCorrect` (of
  `OrdersFollowCredits`), `TypeCorrect`. The invariant joins the range of the target and the
  bound of the remainder: with less than one whole instance left and an output of at
  most one, the rounded sum is at most two, and it passes neither the old remainder against
  the sign of the output nor, therefore, a whole instance. For every `One` and every `Eps`.
- `LookupCorrect`, of `LeastEnough`: what the loop of `findNumberOfBurstable` computes, for any
  table.

**LeastConn_proofs**. All five properties: `TypeCorrect`, `ConnsCorrect`, `SmoothCorrect`,
`LoadCorrect`, `TrialCorrect`. `BalancerInv` counts for each peer the requests that use it, has the sum of
the current weights, bounds effective weights by configured ones and says that a failed
peer was checked no later than it was last used. The sum needs that one choice adds each
tied peer's effective weight once and takes their total from the chosen one (`SumRaise`).

**ProcessCycle_proofs**. All four invariants: `TypeCorrect`, `CurrentCorrect`, `StaffedCorrect`,
`OrphansCorrect`. `CycleInv` has, besides types,

- for each slot (`SlotSound`): only during the sleep of a reload is a worker marked
  `just_spawn`, and then it runs the new configuration; a process that was
  waited for stays in its slot only where a fork failed; a kept worker runs the current cycle;
- `NoUpgrade`: nothing of a binary upgrade before SIGUSR2;
- `LiveSound`: `live` is false only when no worker runs, except in the sleep, after which
  it is set; the master exits only when it is false;
- `StaffSound`: in the sleep the marked workers are `worker_processes`, otherwise the kept ones are.

The lemmas follow the code: one slot (spawned, signalled, waited for, reaped), then the
array, then one lemma per conjunct with a case per action. `RankBound` counts the lowest free slots.

**Worker_proofs**. All four safety properties: `TypeCorrect`, `ConnectionsCorrect` (of `Accounted`),
`ExitCorrect` (of `QuietExit`), `ReuseCorrect` (of `ReuseSparesRequests`). `WorkerInv` has, between two events (`Full`),

- for each connection (`Sound`): it has a connection to a peer exactly in the states at a
  peer, a timer unless it is closed or posted, and a peer's read timer only at a peer;
- the reusable queue has exactly the waiting connections, each once;
- the load is the number of requests at a peer, and free, open and peer connections add up.

Inside a handler this is false of the connection it works on, so the proof carries `Mid`: the same of all
other connections, with the one at hand counted by what it holds, and each other one as
it was or reused (`Spared`). Each operator of the model keeps `Mid` or ends a handler (`Good`). The cases that needed
most: `ngx_drain_connections` in the middle of a handler must not close the connection at
hand, so that has to be out of the queue whenever a peer is chosen; and the
read timeout of a peer answers the request, which is right only because no waiting
connection has that timer.

**Monitors_proofs**. `ArrivalsCorrect` (`CounterInv`: after a successful reading the counter
is that reading plus what has arrived since) and `CreditCorrect` (`PublishedInv`: the newest
publication is from the start of the current five minutes, and since then the balance has moved by at
most the steepest change of each minute).

Sums, counts and loops need induction over data. It is done by a least counterexample: a nonempty
set of natural numbers or of finite sets has a minimal element (`LeastNumber`, `LeastSet`), and
the recursive step contradicts it. `CreditMonitor` uses sets of indices, where an
earlier version filtered sequences, because `SelectSeq` cannot be reasoned about.

The assumptions are those of the modules: machines are distinct, the initial
counts exist, `1 <= L <= H`, the table has a row for every on-demand count, requests and
loads are finite sets, the process table has more slots than workers, clients are
finitely many and `worker_connections` is more than the two that the worker itself takes.

Proving `ProcessCycle` corrected its model: `Signalled` was a `CASE` with
overlapping guards, of which TLC takes the first and TLA+ any; it is now an `IF`. In `Worker`,
the set of timers in `Piped` was written without parentheses, which the two tools read
differently, and folds became recursive functions (`CloseEach`, `DeclinedBy`).

Only model-checked: liveness (`Termination`, `BalancerFollows`, `TermEnds`, `QuitEnds`,
`ReloadServed`, `QuitDrains`), which needs fairness and `ENABLED`.

## 7. Not modelled

The deployment (`setupInitialNodes`, `NodeStarter`, `WikiAppUtility`) is
sequential and over before the threads start; the model begins with the state it
leaves. The nginx parser is third-party text processing. `readTable` and
`fillUpThroughputTable` are a CSV reader and scipy's interpolation. The
PD arithmetic of the latency optimizer is floating-point; its clamp is
modelled. A reload that resets the balancer's counters is not in `LeastConn`,
which follows one generation of a worker (`ProcessCycle` has the generations). A latency that is not a number would end the
short-term thread as the empty list does.

The bundled nginx has more than 200,000 lines. Most of it is idle under the
configuration AutoBurst deploys (TLS, HTTP/2, QUIC, mail, stream, caches, the resolver,
some fifty modules) and the rest is mainly parsing, buffers, memory pools and logging,
which keep no state from one event to the next that a property could be about. Of what a
proxied request does go through, `Worker` leaves out request bodies (so a request is
sent with one write, and the send timer that an early answer leaves armed at
`ngx_http_upstream.c:2322` does not occur), subrequests, keepalive connections to the
peers, the accept mutex, running out of descriptors, failed allocations, and stale
events of a connection slot that is reused within one batch of epoll.

## 8. Plan

1. Done: the controller, its life cycle, the estimator, the balancer, the monitors,
   nginx's processes and a worker's connections; every invariant and every action
   property of theirs is proved.
2. Left of the model: the latency optimizer's arithmetic, filling the throughput table,
   request bodies in `Worker`.
