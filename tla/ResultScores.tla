---------------------------- MODULE ResultScores ----------------------------
(***************************************************************************)
(* The arithmetic of a performance result (apps/api/src/performance:       *)
(* evaluation-score.ts, result-consolidation.ts and                        *)
(* goals-performance-integration.ts).  Percentages and weights have two    *)
(* decimals and are counted in hundredths; quotients that the code rounds  *)
(* once, at the end, are kept as fractions until then.                     *)
(***************************************************************************)
EXTENDS GoalAchievement

Types == <<"SELF", "MANAGER", "PEER", "REPORT", "CLIENT">>

Product(f) == FoldFunction(LAMBDA x, y : x * y, 1, f)

(* The competencies of an evaluation, comps, have a weight or NoWeight, and*)
(* the lowest and highest level of their scale; an answer rates some of    *)
(* them.                                                                   *)
ScoreReady(comps, answer) ==
    LET A == DOMAIN answer
    IN  /\ A # {}
        /\ Weighted([c \in DOMAIN comps |-> comps[c].weight]) =>
             /\ \A c \in A : comps[c].weight # NoWeight
             /\ SumFunction([c \in A |-> comps[c].weight]) > 0
        /\ \A c \in A : comps[c].low < comps[c].high /\ answer[c] \in comps[c].low..comps[c].high

(* Mutant: ratings are measured from zero, not from the lowest level. *)
EvaluationScoreFromZero(comps, answer) ==
    LET A      == DOMAIN answer
        w      == [c \in A |-> IF comps[c].weight = NoWeight THEN 1 ELSE comps[c].weight]
        range  == [c \in A |-> comps[c].high - comps[c].low]
        common == Product(range)
        part   == [c \in A |-> answer[c] * (common \div range[c]) * w[c]]
    IN  RoundDiv(SumFunction(part) * Whole, common * SumFunction(w))

(* calculateEvaluationScore: a competency that is not answered counts for  *)
(* nothing.                                                                *)
EvaluationScore(comps, answer) ==
    LET A      == DOMAIN answer
        w      == [c \in A |-> IF comps[c].weight = NoWeight THEN 1 ELSE comps[c].weight]
        range  == [c \in A |-> comps[c].high - comps[c].low]
        common == Product(range)
        part   == [c \in A |-> (answer[c] - comps[c].low) * (common \div range[c]) * w[c]]
    IN  RoundDiv(SumFunction(part) * Whole, common * SumFunction(w))

(* Scores are given by evaluators: type is the type of each.               *)
PresentTypes(type, scores) == {t \in DOMAIN Types : \E e \in DOMAIN scores : type[e] = Types[t]}

Configured(weights, T) == SumFunction([t \in T |-> weights[Types[t]]])

(* Mutant: what rounding leaves is given to no type. *)
EffectiveUnbalanced(weights, T) ==
    [t \in T |-> RoundDiv(weights[Types[t]] * Whole, Configured(weights, T))]

(* The weights of the types that have evaluations, made to sum 100.        *)
Effective(weights, T) ==
    LET share == [t \in T |-> RoundDiv(weights[Types[t]] * Whole, Configured(weights, T))]
        last  == Max(T)
    IN  [t \in T |-> IF t = last THEN Whole - SumFunctionOnSet(share, T \ {last}) ELSE share[t]]

(* calculatePerformanceResult: the mean of each type by its weight.        *)
Consolidate(weights, type, scores) ==
    LET T         == PresentTypes(type, scores)
        by        == [t \in T |-> {e \in DOMAIN scores : type[e] = Types[t]}]
        count     == [t \in T |-> Cardinality(by[t])]
        common    == Product(count)
        mean      == [t \in T |-> SumFunctionOnSet(scores, by[t]) * (common \div count[t])]
        effective == Effective(weights, T)
    IN  RoundDiv(SumFunction([t \in T |-> mean[t] * effective[t]]), common * Whole)

(* aggregateGoalsAchievement: goals have a weight or NoWeight and an       *)
(* achievement.                                                            *)
AggregateGoals(weight, achievement) ==
    LET effective == EffectiveWeights(weight)
    IN  SumFunction([g \in DOMAIN weight |-> RoundDiv(achievement[g] * effective[g], Whole)])

(* calculateIntegratedOverallScore, which refuses what is no percentage.   *)
Integrable(competencies, goals) == competencies \in Share /\ goals \in Share

Integrate(competencies, goals, competencyWeight, goalsWeight) ==
    RoundDiv(competencies * competencyWeight + goals * goalsWeight, Whole)
=============================================================================
