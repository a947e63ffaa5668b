------------------------------ MODULE Staffing ------------------------------
(***************************************************************************)
(* What hiring promises to the organisation, without requests, locks or    *)
(* stages: a hire is final, takes one place of its vacancy, and a person   *)
(* is hired once as long as nobody renames it: people are recognised by    *)
(* their e-mail, which recruiters may change.  The places of a vacancy may *)
(* grow, never shrink.                                                     *)
(***************************************************************************)
EXTENDS Integers, FiniteSets

CONSTANTS Apps, Vacancies, VacancyOf, Candidates, CandidateOf, Openings

VARIABLES capacity, hired, renamed

places(v) == Cardinality({a \in hired : VacancyOf[a] = v})

Init == capacity = Openings /\ hired = {} /\ renamed = {}

Grow(v, n) ==
    /\ n >= capacity[v]
    /\ capacity' = [capacity EXCEPT ![v] = n]
    /\ UNCHANGED <<hired, renamed>>

Rename(c) ==
    /\ renamed' = renamed \union {c}
    /\ UNCHANGED <<capacity, hired>>

Hire(a, n) ==
    LET v == VacancyOf[a]
    IN  /\ a \notin hired
        /\ \A b \in hired : CandidateOf[b] = CandidateOf[a] => CandidateOf[a] \in renamed
        /\ n >= capacity[v]
        /\ places(v) < n
        /\ capacity' = [capacity EXCEPT ![v] = n]
        /\ hired' = hired \union {a}
        /\ renamed' = renamed

Next ==
    \/ \E c \in Candidates : Rename(c)
    \/ \E v \in Vacancies : Grow(v, capacity'[v])
    \/ \E a \in Apps : Hire(a, capacity'[VacancyOf[a]])

Spec == Init /\ [][Next]_<<capacity, hired, renamed>>
=============================================================================
