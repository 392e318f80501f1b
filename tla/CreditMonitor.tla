---------------------------- MODULE CreditMonitor ----------------------------
(***************************************************************************)
(* What the controller knows of the CPU credits of a burstable instance:   *)
(* getMetricStats and getCredit (src/src/InstanceUtility.py) over what     *)
(* CloudWatch publishes, the credit balance every five minutes and the CPU *)
(* utilization every minute.                                               *)
(*                                                                         *)
(* Time is counted in minutes; a minute's change of the balance,           *)
(* vcpu * (baseline - cpu), is a whole number of credits.                  *)
(***************************************************************************)
EXTENDS Integers, Sequences, FiniteSets, FiniteSetsExt, Folds

CONSTANTS
  Changes,     \* what the balance can change by in a minute
  FirstCredit, \* launch credits
  MaxTime      \* bound of the clock

ASSUME CreditAssumption ==
  /\ Changes \subseteq Int /\ IsFiniteSet(Changes)
  /\ FirstCredit \in Nat /\ MaxTime \in Nat

Period == 5    \* minutes between two published balances
Window == 10   \* how far getMetricStats looks back

VARIABLES
  now,
  balance,     \* the balance EC2 keeps
  published,   \* the balances CloudWatch has, with their timestamps
  utilization  \* the per-minute changes CloudWatch has, likewise

vars == <<now, balance, published, utilization>>

\* Python's strftime("%z") writes +0000, the aws command +00:00
StrftimeStamp == "+hhmm"
AwsStamp      == "+hh:mm"

\* the two patterns of getCredit: +hh:mm or .dd at the end
Matches(stamp) == stamp \in {"+hh:mm", ".dd"}

NonNegative(x) == IF x < 0 THEN 0 ELSE x

\* Mutant: the first datapoint of the window
OldestOf(I) == Min(I)

\* datapoints sorted by time, the one at idx = len - 1
NewestOf(I) == Max(I)

\* the datapoints getMetricStats asks CloudWatch for
InWindow == {i \in DOMAIN published : published[i].at >= now - Window}

\* getMetricStats(id, "Average", "CPUCreditBalance"): no datapoint, or the last
HasData == InWindow # {}
getMetricStats == published[NewestOf(InWindow)]

\* the utilizations since the balance, those whose timestamp getCredit parses
latest_CPU ==
  {i \in DOMAIN utilization :
     utilization[i].at > getMetricStats.at /\ Matches(StrftimeStamp)}

\* curr_credit = max(0, curr_credit + ...) for each of them, in their order
getCredit ==
  IF ~HasData THEN 0
  ELSE MapThenFoldSet(LAMBDA change, credit : NonNegative(credit + change),
                      getMetricStats.credit,
                      LAMBDA i : utilization[i].change, Max, latest_CPU)

Init ==
  /\ now = 0 /\ balance = FirstCredit
  /\ published = <<>> /\ utilization = <<>>

\* a minute passes on the instance and in CloudWatch, which is assumed to publish
\* at once and to miss nothing
Minute(change) ==
  /\ now < MaxTime
  /\ now' = now + 1
  /\ balance' = NonNegative(balance + change)
  /\ utilization' = Append(utilization, [at |-> now', change |-> change])
  /\ published' = IF now' % Period = 0
                  THEN Append(published, [at |-> now', credit |-> balance'])
                  ELSE published

Next == \E change \in Changes : Minute(change)

Spec == Init /\ [][Next]_vars

-----------------------------------------------------------------------------

\* The greatest change between two publications
Drift == (Period - 1) * Max({IF c < 0 THEN -c ELSE c : c \in Changes})

\* Once CloudWatch has a balance, the credit the controller works with is off
\* by no more than what can be earned or spent between two publications.
CreditNearlyCurrent ==
  HasData => balance - getCredit \in -Drift..Drift

\* "Calculates credit from latest CPUutilization value(s)": between two
\* published balances the credit follows the CPU utilization.
CreditFollowsCPU == HasData => getCredit = balance

=============================================================================
