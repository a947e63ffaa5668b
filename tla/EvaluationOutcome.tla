-------------------------- MODULE EvaluationOutcome --------------------------
(***************************************************************************)
(* What the evaluation of a person promises (docs/performance-results.md): *)
(* who evaluates is settled once, each gives one score and never changes   *)
(* it, the verdict rests on the scores of all of them, is reached at most  *)
(* once and published at most once.                                        *)
(***************************************************************************)
CONSTANTS Evaluators, Scores

VARIABLES
    invited,  \* who evaluates
    given,    \* scores given, a function on those who have
    verdict,  \* the scores it rests on, on no evaluator while there is none
    published

vars == <<invited, given, verdict, published>>

NoVerdict == [e \in {} |-> 0]

Init == invited = {} /\ given = NoVerdict /\ verdict = NoVerdict /\ published = FALSE

Invite ==
    /\ invited = {}
    /\ invited' \in SUBSET Evaluators
    /\ UNCHANGED <<given, verdict, published>>

Give(e) ==
    /\ e \in invited \ DOMAIN given
    /\ DOMAIN given' = DOMAIN given \union {e}
    /\ given'[e] \in Scores
    /\ \A x \in DOMAIN given : given'[x] = given[x]
    /\ UNCHANGED <<invited, verdict, published>>

Decide ==
    /\ invited # {} /\ DOMAIN given = invited
    /\ verdict = NoVerdict
    /\ verdict' = given
    /\ UNCHANGED <<invited, given, published>>

Publish ==
    /\ verdict # NoVerdict /\ ~published
    /\ published' = TRUE
    /\ UNCHANGED <<invited, given, verdict>>

Next == Invite \/ Decide \/ Publish \/ \E e \in Evaluators : Give(e)

Spec == Init /\ [][Next]_vars
=============================================================================
