-------------------------- MODULE GoalAchievement --------------------------
(***************************************************************************)
(* The arithmetic of goals (apps/api/src/goals/goal-progress.ts,           *)
(* goal-achievement.ts and goals.helpers.ts).  Percentages and weights have*)
(* two decimals and are counted in hundredths.  Rows are functions whose   *)
(* domain is a set of numbers, the order of the key results.               *)
(***************************************************************************)
EXTENDS Integers, FiniteSets, FiniteSetsExt, Functions

Whole    == 10000   \* 100.00
NoWeight == -1      \* weight is null

(* Math.round of n / d, halves up, for d > 0.                              *)
RoundDiv(n, d) == (2 * n + d) \div (2 * d)

(* Mutant: the result is not clamped. *)
PercentUnclamped(n, d) == IF d < 0 THEN RoundDiv(-n * Whole, -d) ELSE RoundDiv(n * Whole, d)

(* roundProgress(clamp01to100(n / d * 100)).                               *)
Percent(n, d) ==
    CASE d < 0 /\ n > 0  -> 0
      [] d < 0 /\ n <= 0 -> IF n < d THEN Whole ELSE RoundDiv(-n * Whole, -d)
      [] d > 0 /\ n < 0  -> 0
      [] d > 0 /\ n >= 0 -> IF n > d THEN Whole ELSE RoundDiv(n * Whole, d)

(* NUMBER stands for every numeric metric.                                 *)
Kinds   == {"NUMBER", "BOOLEAN"}
Metric  == [kind : Kinds, start : Int, target : Int]
Value   == [kind : Kinds, value : Int]
Share   == 0..Whole
Weight  == Share \union {NoWeight}

(* The progress of a metric m by the value v of a check-in, which is of    *)
(* another kind when the metric was edited meanwhile.  Increase and        *)
(* decrease give the same quotient.                                        *)
KeyResultProgress(m, v) ==
    LET current == IF v.kind = "BOOLEAN" THEN m.start ELSE v.value
    IN  IF m.kind = "BOOLEAN" THEN IF v = [kind |-> "BOOLEAN", value |-> 1] THEN Whole ELSE 0
        ELSE IF m.start = m.target THEN IF current = m.target THEN Whole ELSE 0
        ELSE Percent(current - m.start, m.target - m.start)

Weighted(weight) == \E k \in DOMAIN weight : weight[k] # NoWeight

(* assertKeyResultWeights: none has a weight, or all have and they sum 100.*)
WeightsReady(weight) ==
    Weighted(weight) =>
        /\ \A k \in DOMAIN weight : weight[k] # NoWeight
        /\ SumFunction(weight) = Whole

(* Mutant: the divisor is 100 whether or not there are weights. *)
GoalProgressSum(weight, percent) ==
    RoundDiv(SumFunction([k \in DOMAIN weight |->
                            percent[k] * (IF weight[k] = NoWeight THEN Whole ELSE weight[k])]), Whole)

(* The weight of each row in the mean.                                     *)
Counted(weight) ==
    [k \in DOMAIN weight |->
       IF ~Weighted(weight) THEN 1 ELSE IF weight[k] = NoWeight THEN 0 ELSE weight[k]]

(* calculateGoalProgress.                                                  *)
GoalProgress(weight, percent) ==
    LET counted == Counted(weight)
        total   == SumFunction(counted)
    IN  IF total = 0 THEN 0
        ELSE RoundDiv(SumFunction([k \in DOMAIN weight |-> percent[k] * counted[k]]), total)

(* computeEffectiveWeights: without weights equal shares, of which the last*)
(* takes what rounding leaves.                                             *)
EffectiveWeights(weight) ==
    LET K     == DOMAIN weight
        share == RoundDiv(Whole, Cardinality(K))
    IN  [k \in K |->
           IF Weighted(weight) THEN IF weight[k] = NoWeight THEN 0 ELSE weight[k]
           ELSE IF k = Max(K) THEN Whole - share * (Cardinality(K) - 1) ELSE share]
=============================================================================
