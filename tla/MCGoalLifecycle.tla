-------------------------- MODULE MCGoalLifecycle --------------------------
(***************************************************************************)
(* A small instance of GoalLifecycle: two key results, measured from 0 to  *)
(* 3 or to 2 without a weight, or with half of the weight measured from 0  *)
(* to 3 or done or not.                                                    *)
(***************************************************************************)
EXTENDS GoalLifecycle, TLC

CONSTANTS h1, h2

MCKeyResults == {1, 2}

Measured(w, t) == [weight |-> w, metric |-> [kind |-> "NUMBER", start |-> 0, target |-> t]]
Done(w)        == [weight |-> w, metric |-> [kind |-> "BOOLEAN", start |-> 0, target |-> 0]]

MCDefinitions == {Measured(NoWeight, 3), Measured(NoWeight, 2), Measured(5000, 3), Done(5000)}

MCValues == {[kind |-> "NUMBER", value |-> 1], [kind |-> "NUMBER", value |-> 3],
             [kind |-> "BOOLEAN", value |-> 1]}

Symmetry == Permutations(Handlers)
=============================================================================
