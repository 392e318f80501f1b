-------------------------- MODULE ResourceEstimator --------------------------
(***************************************************************************)
(* How many instances to run: resource_estimator of AutoBurstPolicies      *)
(* (src/src/autoBurst.py), a PD controller on the total credit whose       *)
(* output is integrated into whole on-demand instances, and the lookup     *)
(* findNumberOfBurstable in the throughput table                           *)
(* (src/src/throughputTableUtilities.py).                                  *)
(*                                                                         *)
(* Numbers are counted in units, One of which are 1.0.  A sum of floating- *)
(* point numbers is rounded: it is any number at most Eps units away that  *)
(* rounding may give.  With One = 2^1074 every double is a whole number of *)
(* units; smaller instances only have coarser numbers.                     *)
(***************************************************************************)
EXTENDS Integers, Sequences, FiniteSets, FiniteSetsExt

CONSTANTS
  One,             \* 1.0, in units
  Eps,             \* the greatest rounding error of a sum, in units
  P_m, D_m,        \* the gains, in units per credit
  DesiredCredit,   \* config "desiredCredit"
  CreditTotals,    \* what getCreditTotal may answer
  Demands,         \* the throughputs that may be asked for
  Created,         \* number of on-demand instances created
  Table            \* Table[onD][bur]: throughput, after fillUpThroughputTable

NaN == -1          \* a cell outside the measured region

ASSUME EstimatorAssumption ==
  /\ One \in Nat \ {0} /\ Eps \in Nat
  /\ P_m \in Nat /\ D_m \in Nat /\ DesiredCredit \in Int
  /\ CreditTotals \subseteq Int /\ Demands \subseteq Nat
  /\ Created \in Nat

\* a row for every number of on-demand instances that can be in use
ASSUME TableAssumption ==
  /\ 0..Created \subseteq DOMAIN Table
  /\ \A onD \in DOMAIN Table :
       /\ DOMAIN Table[onD] \subseteq Nat /\ DOMAIN Table[onD] # {}
       /\ IsFiniteSet(DOMAIN Table[onD])
       /\ \A n \in DOMAIN Table[onD] : Table[onD][n] \in Nat \cup {NaN}

VARIABLES
  difflist,          \* the last differences to the desired credit
  increaseOnDflag,   \* the integrator, in units
  onD,               \* on-demand instances in use
  b,                 \* burstable instances asked for
  throughput         \* the throughput of the last call

vars == <<difflist, increaseOnDflag, onD, b, throughput>>

-----------------------------------------------------------------------------

\* What rounding may make of x.  Rounding is monotone, so it passes no number
\* that is a double itself.
Rounded(x, doubles) ==
  {y \in (x - Eps)..(x + Eps) :
     \A d \in doubles : (x <= d => y <= d) /\ (x >= d => y >= d)}

\* P_m * diff + D_m * (diff - previous diff), without D_m the first time: two
\* terms of the same sign do not sum up to a number of the other
Outputs(diff) ==
  LET p == P_m * diff
      d == IF difflist = <<>> THEN 0
           ELSE D_m * (diff - difflist[Len(difflist)])
  IN  Rounded(p + d, IF (p <= 0 /\ d <= 0) \/ (p >= 0 /\ d >= 0)
                     THEN {0} ELSE {})

\* Mutant: the output is not bounded
BoundNothing(out) == out

\* if out > bound ... elif out < -bound
Bounded(out) == IF out > One THEN One ELSE IF out < -One THEN -One ELSE out

\* increaseOnDflag += out: both terms and the whole numbers are doubles
Flags(out) ==
  Rounded(increaseOnDflag + out,
          {increaseOnDflag, out, -2 * One, -One, 0, One, 2 * One})

\* Mutant: whole parts stay in the integrator
Keep(flag, changeVal) == flag

\* What the two while loops leave in the integrator (the difference of 1 and a
\* double between 1 and 2 is a double, so these subtractions are exact) ...
Residual(flag, changeVal) == flag - One * changeVal

\* ... after counting its whole parts, towards zero
WholeParts(flag) ==
  IF flag >= One THEN flag \div One
  ELSE IF flag <= -One THEN -((-flag) \div One)
  ELSE 0

\* Mutant: the change is not capped by the unused instances
UncappedChange(changeVal) == changeVal

\* if changeVal > unused_onD: changeVal = unused_onD
CappedChange(changeVal) ==
  IF changeVal > Created - onD THEN Created - onD ELSE changeVal

\* Mutant: a cell is enough when it is greater than what is asked for
MoreThanEnough(row, n, demand) == row[n] # NaN /\ demand < row[n]

\* throughput <= float(burstable[str(i)]) < math.inf, NaN excluded
Enough(row, n, demand) == row[n] # NaN /\ demand <= row[n]

\* The loop over i from min = 0; columns that are missing are skipped, and
\* the greatest column is the answer when none is enough.
findNumberOfBurstable(row, demand) ==
  LET m == Max(DOMAIN row)
      from[i \in 0..(m + 1)] ==
        IF i > m THEN m
        ELSE IF i \in DOMAIN row /\ Enough(row, i, demand) THEN i
        ELSE from[i + 1]
  IN  from[0]

\* Mutant: the list is never shortened
RecordAll(diff) == Append(difflist, diff)

\* The difference is appended, the list keeps three
Record(diff) ==
  LET longer == Append(difflist, diff)
  IN  IF Len(longer) > 3 THEN Tail(longer) ELSE longer

-----------------------------------------------------------------------------

Init ==
  /\ difflist = <<>> /\ increaseOnDflag = 0
  /\ onD \in 0..Created /\ b = 0 /\ throughput = 0

\* One call of resource_estimator and the scaling the main loop does with its
\* answer.  (b = -1 is never answered: the table falls back on its last column.)
resource_estimator(creditTotal, demand) ==
  LET diff == DesiredCredit - creditTotal IN
  \E out \in Outputs(diff) : \E flag \in Flags(Bounded(out)) :
    LET changeVal == WholeParts(flag)
        target    == onD + CappedChange(changeVal)
        onDTarget == IF target < 0 THEN 0 ELSE target
    IN  /\ difflist' = Record(diff)
        /\ increaseOnDflag' = Residual(flag, changeVal)
        /\ onD' = onDTarget
        /\ throughput' = demand
        /\ b' = findNumberOfBurstable(Table[onDTarget], demand)

Next == \E c \in CreditTotals, d \in Demands : resource_estimator(c, d)

Spec == Init /\ [][Next]_vars

-----------------------------------------------------------------------------
(* Properties *)

\* Type invariant
TypeOK ==
  /\ difflist \in Seq(Int) /\ Len(difflist) <= 3
  /\ increaseOnDflag \in Int
  /\ onD \in Int /\ throughput \in Nat

\* The estimator never asks for more on-demand instances than were created nor
\* for less than none, so the table has a row for its target.
TargetExists == onD \in 0..Created

\* Less than one whole instance is left in the integrator after a call.  A call
\* changes the number of on-demand instances by at most two, in either direction,
\* however large the credit error and its jumps are, and by two only when rounding
\* makes the sum exactly two, so that nothing is left.
AtMostTwoAtATime ==
  [][/\ increaseOnDflag' \in (1 - One)..(One - 1)
     /\ onD' - onD \in -2..2
     /\ onD' - onD \in {-2, 2} => increaseOnDflag' = 0]_vars

\* What the integrator has saved up never moves the fleet against the present
\* credits: no on-demand instance is added while the total is at or above the
\* desired one and not falling, and none is given up while it is at or below and
\* not rising.
OrdersFollowCredits ==
  [][LET diff == difflist'[Len(difflist')]
         last == IF difflist = <<>> THEN diff ELSE difflist[Len(difflist)]
     IN  /\ diff <= 0 /\ diff <= last => onD' <= onD
         /\ diff >= 0 /\ diff >= last => onD' >= onD]_vars

\* The table's answer is the least number of burstable instances that is
\* enough, or its greatest column when no measured cell is.
LeastEnough ==
  throughput > 0 =>
    LET row == Table[onD]
        S   == {n \in DOMAIN row : row[n] # NaN /\ row[n] >= throughput}
    IN  IF S = {} THEN b = Max(DOMAIN row) ELSE b = Min(S)

=============================================================================
