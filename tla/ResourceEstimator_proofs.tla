---------------------- MODULE ResourceEstimator_proofs ----------------------
(***************************************************************************)
(* Proofs about the estimator, for any gains, credits, table and number of *)
(* on-demand instances, and however the floating-point sums are rounded.   *)
(***************************************************************************)
EXTENDS ResourceEstimator, SequenceTheorems, SetFacts, TLAPS

\* Less than a whole instance is held back
ResidualBelowOne == increaseOnDflag \in (1 - One)..(One - 1)

\* Together with the types, what a call needs to know of the previous ones
Inv == TypeOK /\ TargetExists /\ ResidualBelowOne

\* The latest difference to the desired credit, and the D term that follows it
Latest == difflist[Len(difflist)]
DTerm(diff) == IF difflist = <<>> THEN 0 ELSE D_m * (diff - Latest)

\* The credits are enough and not falling, or too few and not rising
Rich(diff) == diff <= 0 /\ (difflist # <<>> => diff <= Latest)
Poor(diff) == diff >= 0 /\ (difflist # <<>> => diff >= Latest)

\* Products with a gain keep the sign.
LEMMA GainKeepsSign ==
  ASSUME NEW g \in Nat, NEW x \in Int
  PROVE  g * x \in Int /\ (x <= 0 => g * x <= 0) /\ (x >= 0 => g * x >= 0)
  OBVIOUS

\* The PD output is a number, and has the sign of the credit error and of its
\* trend when these agree.
LEMMA OutputSign ==
  ASSUME TypeOK, NEW diff \in Int, NEW out \in Outputs(diff)
  PROVE  out \in Int /\ (Rich(diff) => out <= 0) /\ (Poor(diff) => out >= 0)
<1> DEFINE p == P_m * diff
           d == DTerm(diff)
<1>1. difflist # <<>> => Latest \in Int
  BY EmptySeq, ElementOfSeq, LenProperties DEF TypeOK, Latest
<1>2. p \in Int /\ (diff <= 0 => p <= 0) /\ (diff >= 0 => p >= 0)
  BY EstimatorAssumption, GainKeepsSign
<1>3. d \in Int /\ (Rich(diff) => d <= 0) /\ (Poor(diff) => d >= 0)
  <2>1. CASE difflist = <<>>
    BY <2>1 DEF DTerm
  <2>2. CASE difflist # <<>>
    <3>1. /\ diff - Latest \in Int
          /\ diff <= Latest => diff - Latest <= 0
          /\ diff >= Latest => diff - Latest >= 0
      BY <1>1, <2>2
    <3> DEFINE e == diff - Latest
    <3> HIDE DEF e
    <3>2. D_m * e \in Int /\ (e <= 0 => D_m * e <= 0) /\ (e >= 0 => D_m * e >= 0)
      BY <3>1, EstimatorAssumption, GainKeepsSign DEF e
    <3>3. d = D_m * e
      BY <2>2 DEF DTerm, e
    <3>4. QED
      BY <2>2, <3>1, <3>2, <3>3 DEF Rich, Poor, e
  <2>3. QED
    BY <2>1, <2>2
<1>4. out \in Rounded(p + d, IF (p <= 0 /\ d <= 0) \/ (p >= 0 /\ d >= 0)
                             THEN {0} ELSE {})
  BY DEF Outputs, DTerm, Latest
<1> HIDE DEF p, d
<1>5. out \in Int
  BY <1>2, <1>3, <1>4, EstimatorAssumption DEF Rounded
<1>6. ASSUME Rich(diff) PROVE out <= 0
  <2>1. p <= 0 /\ d <= 0 /\ p + d <= 0
    BY <1>2, <1>3, <1>6 DEF Rich
  <2>2. QED
    BY <1>4, <2>1 DEF Rounded
<1>7. ASSUME Poor(diff) PROVE out >= 0
  <2>1. p >= 0 /\ d >= 0 /\ p + d >= 0
    BY <1>2, <1>3, <1>7 DEF Poor
  <2>2. QED
    BY <1>4, <2>1 DEF Rounded
<1>8. QED
  BY <1>5, <1>6, <1>7

\* The bound keeps the sign.
LEMMA BoundedOutput ==
  ASSUME NEW out \in Int
  PROVE  /\ Bounded(out) \in -One..One
         /\ out <= 0 => Bounded(out) <= 0
         /\ out >= 0 => Bounded(out) >= 0
  BY EstimatorAssumption DEF Bounded

\* The rounded sum is at most two, and does not pass the integrator's old value
\* in the direction the output does not go.
LEMMA FlagBounds ==
  ASSUME Inv, NEW out \in -One..One, NEW flag \in Flags(out)
  PROVE  /\ flag \in (-2 * One)..(2 * One)
         /\ out <= 0 => flag <= increaseOnDflag
         /\ out >= 0 => flag >= increaseOnDflag
<1> DEFINE x == increaseOnDflag + out
<1>1. /\ One \in Nat \ {0} /\ Eps \in Nat
      /\ increaseOnDflag \in (1 - One)..(One - 1)
  BY EstimatorAssumption DEF Inv, ResidualBelowOne
<1>2. /\ x \in Int /\ x <= 2 * One /\ x >= -2 * One
      /\ out <= 0 => x <= increaseOnDflag
      /\ out >= 0 => x >= increaseOnDflag
  BY <1>1
<1>3. /\ flag \in (x - Eps)..(x + Eps)
      /\ \A d \in {increaseOnDflag, out, -2 * One, -One, 0, One, 2 * One} :
           (x <= d => flag <= d) /\ (x >= d => flag >= d)
  BY DEF Flags, Rounded
<1> HIDE DEF x
<1>4. flag \in Int
  BY <1>1, <1>2, <1>3
<1>5. flag <= 2 * One /\ flag >= -2 * One
  BY <1>2, <1>3
<1>6. (out <= 0 => flag <= increaseOnDflag) /\ (out >= 0 => flag >= increaseOnDflag)
  BY <1>2, <1>3
<1>7. QED
  BY <1>1, <1>4, <1>5, <1>6

\* The two while loops: two whole parts at most, less than one is left.
LEMMA WholePartsOfFlag ==
  ASSUME NEW f \in (-2 * One)..(2 * One)
  PROVE  /\ WholeParts(f) \in -2..2
         /\ Residual(f, WholeParts(f)) \in (1 - One)..(One - 1)
         /\ WholeParts(f) \in {-2, 2} => Residual(f, WholeParts(f)) = 0
         /\ f < One => WholeParts(f) <= 0
         /\ f > -One => WholeParts(f) >= 0
<1>1. One \in Nat /\ One > 0 /\ f \in Int /\ f <= 2 * One /\ f >= -2 * One
  BY EstimatorAssumption
<1>2. ASSUME NEW g \in Int, g >= One, g <= 2 * One
      PROVE  g \div One \in 1..2 /\ g - One * (g \div One) \in 0..(One - 1)
             /\ (g \div One = 2 => g - One * (g \div One) = 0)
  <2>1. CASE g = 2 * One
    <3>1. g \div One = 2
      BY <1>1, <2>1
    <3>2. QED
      BY <1>1, <2>1, <3>1
  <2>2. CASE g < 2 * One
    <3>1. g \div One = 1
      BY <1>1, <1>2, <2>2
    <3>2. QED
      BY <1>1, <1>2, <2>2, <3>1
  <2>3. QED
    BY <1>1, <1>2, <2>1, <2>2
<1>3. CASE f >= One
  <2>1. f \div One \in 1..2 /\ f - One * (f \div One) \in 0..(One - 1)
        /\ (f \div One = 2 => f - One * (f \div One) = 0)
    BY <1>1, <1>2, <1>3
  <2>2. WholeParts(f) = f \div One
    BY <1>3 DEF WholeParts
  <2>3. QED
    BY <1>1, <1>3, <2>1, <2>2 DEF Residual
<1>4. CASE f <= -One
  <2> DEFINE q == (-f) \div One
  <2>1. -f \in Int /\ -f >= One /\ -f <= 2 * One
    BY <1>1, <1>4
  <2>2. q \in 1..2 /\ (-f) - One * q \in 0..(One - 1) /\ (q = 2 => (-f) - One * q = 0)
    BY <2>1, <1>2
  <2>3. WholeParts(f) = -q
    BY <1>1, <1>4 DEF WholeParts
  <2> HIDE DEF q
  <2>4. q = 1 \/ q = 2
    BY <2>2
  <2>5. CASE q = 1
    BY <1>1, <1>4, <2>2, <2>3, <2>5 DEF Residual
  <2>6. CASE q = 2
    BY <1>1, <1>4, <2>2, <2>3, <2>6 DEF Residual
  <2>7. QED
    BY <2>4, <2>5, <2>6
<1>5. CASE f < One /\ f > -One
  BY <1>1, <1>5 DEF WholeParts, Residual
<1>6. QED
  BY <1>1, <1>3, <1>4, <1>5

\* What a call may do to the integrator and the number of instances
Moves(diff) ==
  /\ onD' - onD \in -2..2
  /\ onD' - onD \in {-2, 2} => increaseOnDflag' = 0
  /\ Rich(diff) => onD' <= onD
  /\ Poor(diff) => onD' >= onD

\* One call keeps the invariant and moves as the properties say.
LEMMA CallStep ==
  ASSUME Inv, NEW c \in CreditTotals, NEW d \in Demands, resource_estimator(c, d)
  PROVE  /\ Inv' /\ Moves(DesiredCredit - c)
         /\ difflist' = Record(DesiredCredit - c)
         /\ b' = findNumberOfBurstable(Table[onD'], d) /\ throughput' = d
<1> DEFINE diff == DesiredCredit - c
<1>1. diff \in Int /\ d \in Nat
  BY EstimatorAssumption
<1>2. PICK out \in Outputs(diff) : \E flag \in Flags(Bounded(out)) :
        LET changeVal == WholeParts(flag)
            target    == onD + CappedChange(changeVal)
            onDTarget == IF target < 0 THEN 0 ELSE target
        IN  /\ difflist' = Record(diff)
            /\ increaseOnDflag' = Residual(flag, changeVal)
            /\ onD' = onDTarget
            /\ throughput' = d
            /\ b' = findNumberOfBurstable(Table[onDTarget], d)
  BY DEF resource_estimator
<1> HIDE DEF diff
<1>3. PICK flag \in Flags(Bounded(out)) :
        LET changeVal == WholeParts(flag)
            target    == onD + CappedChange(changeVal)
            onDTarget == IF target < 0 THEN 0 ELSE target
        IN  /\ difflist' = Record(diff)
            /\ increaseOnDflag' = Residual(flag, changeVal)
            /\ onD' = onDTarget
            /\ throughput' = d
            /\ b' = findNumberOfBurstable(Table[onDTarget], d)
  BY <1>2
<1> DEFINE changeVal == WholeParts(flag)
<1>4. /\ difflist' = Record(diff) /\ increaseOnDflag' = Residual(flag, changeVal)
      /\ onD' = IF onD + CappedChange(changeVal) < 0 THEN 0
                ELSE onD + CappedChange(changeVal)
      /\ throughput' = d /\ b' = findNumberOfBurstable(Table[onD'], d)
  BY <1>3
<1>5. out \in Int /\ (Rich(diff) => out <= 0) /\ (Poor(diff) => out >= 0)
  BY <1>1, OutputSign DEF Inv
<1>6. /\ Bounded(out) \in -One..One
      /\ Rich(diff) => Bounded(out) <= 0
      /\ Poor(diff) => Bounded(out) >= 0
  BY <1>5, BoundedOutput
<1>7. /\ flag \in (-2 * One)..(2 * One)
      /\ Rich(diff) => flag <= increaseOnDflag
      /\ Poor(diff) => flag >= increaseOnDflag
  BY <1>6, FlagBounds
<1>8. (Rich(diff) => flag < One) /\ (Poor(diff) => flag > -One)
  BY <1>7, EstimatorAssumption DEF Inv, ResidualBelowOne
<1>9. /\ changeVal \in -2..2 /\ increaseOnDflag' \in (1 - One)..(One - 1)
      /\ changeVal \in {-2, 2} => increaseOnDflag' = 0
      /\ Rich(diff) => changeVal <= 0
      /\ Poor(diff) => changeVal >= 0
  BY <1>4, <1>7, <1>8, WholePartsOfFlag
<1>10. Record(diff) \in Seq(Int) /\ Len(Record(diff)) <= 3
  <2>1. /\ Append(difflist, diff) \in Seq(Int)
        /\ Len(Append(difflist, diff)) = Len(difflist) + 1
        /\ Len(difflist) \in Nat /\ Len(difflist) <= 3
    BY <1>1, AppendProperties, LenProperties DEF Inv, TypeOK
  <2>2. Append(difflist, diff) # <<>>
    BY <2>1, EmptySeq
  <2>3. /\ Tail(Append(difflist, diff)) \in Seq(Int)
        /\ Len(Tail(Append(difflist, diff))) = Len(difflist)
    BY <2>1, <2>2, HeadTailProperties
  <2>4. QED
    BY <2>1, <2>3 DEF Record
<1> HIDE DEF changeVal
<1>11. /\ onD \in 0..Created /\ Created \in Nat
  BY EstimatorAssumption DEF Inv, TargetExists
<1>12. /\ onD' \in 0..Created /\ onD' - onD \in -2..2
       /\ onD' - onD \in {-2, 2} => changeVal \in {-2, 2}
       /\ changeVal <= 0 => onD' <= onD
       /\ changeVal >= 0 => onD' >= onD
  BY <1>4, <1>9, <1>11 DEF CappedChange
<1>13. Moves(diff)
  BY <1>9, <1>12 DEF Moves
<1>14. Inv'
  BY <1>1, <1>4, <1>9, <1>10, <1>11, <1>12, EstimatorAssumption
     DEF Inv, TypeOK, TargetExists, ResidualBelowOne
<1>15. QED
  BY <1>4, <1>13, <1>14 DEF diff

LEMMA InvInit == Init => Inv
  BY EstimatorAssumption, EmptySeq
     DEF Init, Inv, TypeOK, TargetExists, ResidualBelowOne

LEMMA InvStep == Inv /\ [Next]_vars => Inv'
<1> SUFFICES ASSUME Inv, [Next]_vars PROVE Inv'
  OBVIOUS
<1>1. CASE Next
  BY <1>1, CallStep DEF Next
<1>2. CASE UNCHANGED vars
  BY <1>2 DEF Inv, TypeOK, TargetExists, ResidualBelowOne, vars
<1>3. QED
  BY <1>1, <1>2

\* The target of resource_estimator is always a number of on-demand instances
\* that exist.
THEOREM TargetCorrect == Spec => []TargetExists
<1>1. Inv => TargetExists
  BY DEF Inv
<1>2. QED
  BY InvInit, InvStep, <1>1, PTL DEF Spec

\* A call of resource_estimator changes the on-demand instances by at most two,
\* by two only if nothing is left over, and leaves less than one, however its
\* floating-point sums are rounded.
THEOREM StepCorrect == Spec => AtMostTwoAtATime
<1>1. Inv /\ [Next]_vars =>
        [/\ increaseOnDflag' \in (1 - One)..(One - 1)
         /\ onD' - onD \in -2..2
         /\ onD' - onD \in {-2, 2} => increaseOnDflag' = 0]_vars
  <2> SUFFICES ASSUME Inv, Next
               PROVE  /\ increaseOnDflag' \in (1 - One)..(One - 1)
                      /\ onD' - onD \in -2..2
                      /\ onD' - onD \in {-2, 2} => increaseOnDflag' = 0
    OBVIOUS
  <2>1. PICK c \in CreditTotals, d \in Demands : resource_estimator(c, d)
    BY DEF Next
  <2>2. Inv' /\ Moves(DesiredCredit - c)
    BY <2>1, CallStep
  <2>3. QED
    BY <2>2 DEF Inv, ResidualBelowOne, Moves
<1>2. QED
  BY InvInit, InvStep, <1>1, PTL DEF Spec, AtMostTwoAtATime

\* The difference a call has computed is the last one it records.
LEMMA RecordKeepsLast ==
  ASSUME TypeOK, NEW diff \in Int
  PROVE  Record(diff)[Len(Record(diff))] = diff
<1> DEFINE s == Append(difflist, diff)
<1>1. /\ s \in Seq(Int) /\ Len(s) = Len(difflist) + 1 /\ Len(difflist) \in Nat
      /\ s[Len(s)] = diff
  BY AppendProperties, LenProperties DEF TypeOK
<1> HIDE DEF s
<1>2. s # <<>>
  BY <1>1, EmptySeq
<1>3. /\ Len(Tail(s)) = Len(s) - 1
      /\ \A k \in 1..Len(Tail(s)) : Tail(s)[k] = s[k + 1]
  BY <1>1, <1>2, HeadTailProperties
<1>4. CASE Len(s) > 3
  <2>1. Len(s) - 1 \in 1..Len(Tail(s)) /\ (Len(s) - 1) + 1 = Len(s)
    BY <1>1, <1>3, <1>4
  <2>2. Tail(s)[Len(Tail(s))] = diff
    BY <1>1, <1>3, <2>1
  <2>3. QED
    BY <1>4, <2>2 DEF Record, s
<1>5. CASE ~(Len(s) > 3)
  BY <1>1, <1>5 DEF Record, s
<1>6. QED
  BY <1>4, <1>5

\* A call of resource_estimator adds no on-demand instance while the credits are
\* enough and not falling, and gives none up while they are too few and not rising.
THEOREM OrdersCorrect == Spec => OrdersFollowCredits
<1>1. Inv /\ [Next]_vars =>
        [LET diff == difflist'[Len(difflist')]
             last == IF difflist = <<>> THEN diff ELSE difflist[Len(difflist)]
         IN  /\ diff <= 0 /\ diff <= last => onD' <= onD
             /\ diff >= 0 /\ diff >= last => onD' >= onD]_vars
  <2> DEFINE diff == difflist'[Len(difflist')]
             last == IF difflist = <<>> THEN diff ELSE difflist[Len(difflist)]
  <2> SUFFICES ASSUME Inv, Next
               PROVE  /\ diff <= 0 /\ diff <= last => onD' <= onD
                      /\ diff >= 0 /\ diff >= last => onD' >= onD
    OBVIOUS
  <2>1. PICK c \in CreditTotals, d \in Demands : resource_estimator(c, d)
    BY DEF Next
  <2>2. Moves(DesiredCredit - c) /\ difflist' = Record(DesiredCredit - c)
    BY <2>1, CallStep
  <2>3. DesiredCredit - c \in Int
    BY EstimatorAssumption
  <2>4. diff = DesiredCredit - c
    BY <2>2, <2>3, RecordKeepsLast DEF Inv
  <2>5. /\ difflist = <<>> => last = diff
        /\ difflist # <<>> => last = Latest
    BY DEF Latest
  <2> HIDE DEF diff, last
  <2>6. /\ diff <= 0 /\ diff <= last => Rich(diff)
        /\ diff >= 0 /\ diff >= last => Poor(diff)
    BY <2>5 DEF Rich, Poor
  <2>7. QED
    BY <2>2, <2>4, <2>6 DEF Moves
<1>2. QED
  BY InvInit, InvStep, <1>1, PTL DEF Spec, OrdersFollowCredits

-----------------------------------------------------------------------------
(* The lookup in the throughput table *)

\* The columns of a row that are enough for a demand
EnoughColumns(row, demand) == {n \in DOMAIN row : Enough(row, n, demand)}

\* ... and those among them that the loop has still to look at from column i on
From(row, demand, i) == {n \in EnoughColumns(row, demand) : n >= i}

\* The loop of findNumberOfBurstable: what it answers from each column on
IsLoop(g, row, demand) ==
  LET m == Max(DOMAIN row) IN
  g = [i \in 0..(m + 1) |->
         IF i > m THEN m
         ELSE IF i \in DOMAIN row /\ Enough(row, i, demand) THEN i
         ELSE g[i + 1]]

\* The least column left, or the greatest of all
Answer(row, demand, i) ==
  IF From(row, demand, i) = {} THEN Max(DOMAIN row) ELSE Min(From(row, demand, i))

\* A row of the table that can be looked up
IsRow(row) ==
  /\ DOMAIN row \subseteq Nat /\ DOMAIN row # {} /\ IsFiniteSet(DOMAIN row)
  /\ \A n \in DOMAIN row : row[n] \in Nat \cup {NaN}

\* Max and Min are what their names say of these sets.
LEMMA RowExtremes ==
  ASSUME NEW row, IsRow(row), NEW demand
  PROVE  /\ Max(DOMAIN row) \in DOMAIN row /\ Max(DOMAIN row) \in Nat
         /\ \A n \in DOMAIN row : n <= Max(DOMAIN row)
         /\ \A i \in Nat : From(row, demand, i) # {} =>
              /\ Min(From(row, demand, i)) \in From(row, demand, i)
              /\ \A n \in From(row, demand, i) : Min(From(row, demand, i)) <= n
<1> DEFINE D == DOMAIN row
<1>1. D \in SUBSET Nat /\ D \in SUBSET Int /\ D # {} /\ IsFiniteSet(D)
  BY DEF IsRow
<1>2. Max(D) \in D /\ \A n \in D : Max(D) >= n
  <2> HIDE DEF D
  <2> QED BY <1>1, MaxIsGreatest
<1>3. ASSUME NEW S \in SUBSET Nat, S # {}
      PROVE  Min(S) \in S /\ \A n \in S : Min(S) <= n
  BY <1>3, LeastNumber DEF Min
<1>4. \A i \in Nat : From(row, demand, i) \in SUBSET Nat
  BY <1>1 DEF From, EnoughColumns
<1>5. \A n \in D : n <= Max(D)
  <2> HIDE DEF D
  <2> SUFFICES ASSUME NEW n \in D PROVE n <= Max(D)
    OBVIOUS
  <2>1. n \in Int /\ Max(D) \in Int /\ Max(D) >= n
    BY <1>1, <1>2
  <2>2. QED
    BY <2>1
<1>6. QED
  BY <1>1, <1>2, <1>3, <1>4, <1>5

\* The answers satisfy the equation of the loop.
LEMMA AnswersLoop ==
  ASSUME NEW row, IsRow(row), NEW demand
  PROVE  IsLoop([i \in 0..(Max(DOMAIN row) + 1) |-> Answer(row, demand, i)], row, demand)
<1> DEFINE m == Max(DOMAIN row)
           w == [i \in 0..(m + 1) |-> Answer(row, demand, i)]
           E == EnoughColumns(row, demand)
<1>1. m \in Nat /\ (\A n \in E : n \in Nat /\ n <= m)
  BY RowExtremes DEF EnoughColumns, IsRow
<1> HIDE DEF m
<1>2. ASSUME NEW i \in 0..(m + 1)
      PROVE  Answer(row, demand, i) =
               IF i > m THEN m
               ELSE IF i \in DOMAIN row /\ Enough(row, i, demand) THEN i
               ELSE w[i + 1]
  <2>1. CASE i > m
    <3>1. From(row, demand, i) = {}
      BY <1>1, <2>1 DEF From
    <3>2. QED
      BY <2>1, <3>1 DEF Answer, m
  <2>2. CASE i \in E /\ ~(i > m)
    <3>1. i \in From(row, demand, i) /\ \A n \in From(row, demand, i) : i <= n
      BY <1>1, <2>2 DEF From
    <3>2. /\ Min(From(row, demand, i)) \in From(row, demand, i)
          /\ Min(From(row, demand, i)) <= i
      BY <1>1, <3>1, RowExtremes
    <3>3. Min(From(row, demand, i)) = i
      <4>1. Min(From(row, demand, i)) \in Nat
        BY <1>1, <3>2 DEF From
      <4>2. QED
        BY <1>1, <3>1, <3>2, <4>1
    <3>4. QED
      BY <2>2, <3>1, <3>3 DEF Answer, EnoughColumns
  <2>3. CASE i \notin E /\ ~(i > m)
    <3>1. From(row, demand, i) = From(row, demand, i + 1)
      <4>1. \A n \in E : n >= i <=> n >= i + 1
        BY <1>1, <2>3
      <4>2. QED
        BY <4>1 DEF From
    <3>2. i + 1 \in 0..(m + 1)
      BY <1>1, <2>3
    <3>3. w[i + 1] = Answer(row, demand, i + 1)
      BY <3>2
    <3>4. Answer(row, demand, i) = Answer(row, demand, i + 1)
      BY <3>1 DEF Answer
    <3>5. QED
      BY <2>3, <3>3, <3>4 DEF EnoughColumns
  <2>4. QED
    BY <2>1, <2>2, <2>3
<1>3. w = [i \in 0..(m + 1) |->
             IF i > m THEN m
             ELSE IF i \in DOMAIN row /\ Enough(row, i, demand) THEN i
             ELSE w[i + 1]]
  BY <1>2
<1>4. QED
  BY <1>3 DEF IsLoop, m

\* Nothing else satisfies it.
LEMMA LoopUnique ==
  ASSUME NEW row, IsRow(row), NEW demand,
         NEW g, IsLoop(g, row, demand), NEW h, IsLoop(h, row, demand)
  PROVE  g[0] = h[0]
<1> DEFINE m == Max(DOMAIN row)
           T == {k \in Nat : k <= m + 1 /\ g[m + 1 - k] # h[m + 1 - k]}
<1>1. m \in Nat
  BY RowExtremes
<1>2. \A i \in 0..(m + 1) :
        /\ g[i] = IF i > m THEN m
                  ELSE IF i \in DOMAIN row /\ Enough(row, i, demand) THEN i
                  ELSE g[i + 1]
        /\ h[i] = IF i > m THEN m
                  ELSE IF i \in DOMAIN row /\ Enough(row, i, demand) THEN i
                  ELSE h[i + 1]
  BY DEF IsLoop
<1> HIDE DEF m
<1>3. T = {}
  <2> SUFFICES ASSUME T # {} PROVE FALSE
    OBVIOUS
  <2>1. PICK k \in T : \A l \in T : k <= l
    <3>1. T \in SUBSET Nat
      OBVIOUS
    <3> HIDE DEF T
    <3>2. QED
      BY <3>1, LeastNumber
  <2> DEFINE i == m + 1 - k
  <2>2. k \in Nat /\ k <= m + 1 /\ g[i] # h[i] /\ i \in 0..(m + 1)
    BY <1>1
  <2>3. k # 0
    BY <1>1, <1>2, <2>2
  <2>4. k - 1 \in Nat /\ k - 1 <= m + 1 /\ m + 1 - (k - 1) = i + 1 /\ ~(k <= k - 1)
    BY <1>1, <2>2, <2>3
  <2>5. k - 1 \notin T
    BY <2>1, <2>4
  <2>6. g[i + 1] = h[i + 1]
    BY <2>4, <2>5
  <2>7. QED
    BY <1>2, <2>2, <2>6
<1>4. m + 1 \in Nat /\ m + 1 <= m + 1 /\ m + 1 - (m + 1) = 0
  BY <1>1
<1>5. QED
  BY <1>3, <1>4

\* findNumberOfBurstable finds the least column that is enough, or the last one.
LEMMA FindsLeast ==
  ASSUME NEW row, IsRow(row), NEW demand
  PROVE  findNumberOfBurstable(row, demand) = Answer(row, demand, 0)
<1> DEFINE g == CHOOSE f : IsLoop(f, row, demand)
           w == [i \in 0..(Max(DOMAIN row) + 1) |-> Answer(row, demand, i)]
<1>1. findNumberOfBurstable(row, demand) = g[0]
  BY DEF findNumberOfBurstable, IsLoop
<1>2. IsLoop(w, row, demand)
  BY AnswersLoop
<1>3. IsLoop(g, row, demand)
  BY <1>2
<1>4. w[0] = Answer(row, demand, 0)
  BY RowExtremes
<1> HIDE DEF g, w
<1>5. QED
  BY <1>1, <1>2, <1>3, <1>4, LoopUnique

\* One call leaves the table's answer in b.
LEMMA LeastStep == Inv /\ LeastEnough /\ [Next]_vars => LeastEnough'
<1> SUFFICES ASSUME Inv, LeastEnough, [Next]_vars PROVE LeastEnough'
  OBVIOUS
<1>1. CASE Next
  <2>1. PICK c \in CreditTotals, d \in Demands : resource_estimator(c, d)
    BY <1>1 DEF Next
  <2>2. onD' \in 0..Created
    BY <2>1, CallStep DEF Inv, TargetExists
  <2>3. b' = findNumberOfBurstable(Table[onD'], d) /\ throughput' = d
    BY <2>1, CallStep
  <2> DEFINE row == Table[onD']
             S == {n \in DOMAIN row : row[n] # NaN /\ row[n] >= d}
  <2>4. IsRow(row) /\ d \in Nat
    BY <2>2, TableAssumption, EstimatorAssumption DEF IsRow
  <2>5. b' = Answer(row, d, 0)
    <3> HIDE DEF row
    <3> QED BY <2>3, <2>4, FindsLeast DEF row
  <2>6. From(row, d, 0) = S
    <3> HIDE DEF row
    <3>1. \A n \in DOMAIN row : n >= 0 /\ (row[n] # NaN => row[n] \in Nat)
      BY <2>4 DEF IsRow
    <3>2. \A n \in DOMAIN row : row[n] # NaN => (d <= row[n] <=> row[n] >= d)
      BY <2>4, <3>1
    <3>3. QED
      BY <3>1, <3>2 DEF From, EnoughColumns, Enough
  <2>7. QED
    BY <2>3, <2>5, <2>6 DEF LeastEnough, Answer
<1>2. CASE UNCHANGED vars
  BY <1>2 DEF LeastEnough, vars
<1>3. QED
  BY <1>1, <1>2

\* findNumberOfBurstable's answer, which resource_estimator returns, is the least
\* number of burstable instances whose measured throughput is enough, whatever
\* the table.
THEOREM LookupCorrect == Spec => []LeastEnough
<1>1. Init => LeastEnough
  BY DEF Init, LeastEnough
<1>2. QED
  BY InvInit, InvStep, LeastStep, <1>1, PTL DEF Spec

\* The types of resource_estimator's state.
THEOREM TypeCorrect == Spec => []TypeOK
<1>1. Inv => TypeOK
  BY DEF Inv
<1>2. QED
  BY InvInit, InvStep, <1>1, PTL DEF Spec

=============================================================================
