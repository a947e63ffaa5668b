----------------------------- MODULE GoalReview -----------------------------
(***************************************************************************)
(* What the closing of a goal promises (docs/goals-completion.md): the     *)
(* values submitted for review are the values the reviewer decides on, an  *)
(* accepted goal keeps them for ever as its outcome, and a goal that has   *)
(* been accepted or dropped is never opened again.                         *)
(***************************************************************************)
CONSTANTS Claims, NoClaim

VARIABLES
    phase,   \* open, review, accepted or dropped
    claim,   \* values under review
    outcome  \* values accepted

vars == <<phase, claim, outcome>>

Init == phase = "open" /\ claim = NoClaim /\ outcome = NoClaim

Submit ==
    /\ phase = "open" /\ phase' = "review"
    /\ claim' \in Claims
    /\ UNCHANGED outcome

Return ==
    /\ phase = "review" /\ phase' = "open"
    /\ claim' = NoClaim
    /\ UNCHANGED outcome

Accept ==
    /\ phase = "review" /\ phase' = "accepted"
    /\ outcome' = claim
    /\ claim' = NoClaim

Drop ==
    /\ phase \in {"open", "review"} /\ phase' = "dropped"
    /\ claim' = NoClaim
    /\ UNCHANGED outcome

Next == Submit \/ Return \/ Accept \/ Drop

Spec == Init /\ [][Next]_vars
=============================================================================
