---------------------------- MODULE MCInterviews ----------------------------
(***************************************************************************)
(* A small instance of Interviews: a request with one or two evaluators.   *)
(***************************************************************************)
EXTENDS Interviews, TLC

CONSTANTS h1, h2, e1, e2

MCEvaluatorLists == {<<e1>>, <<e1, e2>>}

MCPanels  == {{e2}, {e1, e2}}
MCPlanned == {<<"HR", {e2}>>, <<"HR", {e1, e2}>>}

(* What happens after the application has ended matters to no property: it  *)
(* stays so.                                                               *)
Underway == stage \notin Terminal

Symmetry == Permutations(Handlers)
=============================================================================
