------------------------- MODULE MCVacancyRequests -------------------------
(***************************************************************************)
(* Small instances of VacancyRequests: requests q1 and q2 for the position *)
(* desk, which exists, or for the new position lab.                        *)
(***************************************************************************)
EXTENDS VacancyRequests

CONSTANTS q1, q2, desk, lab

MCPositions == {desk, lab}
OneSeat     == [p \in MCPositions |-> IF p = desk THEN 1 ELSE 0]
=============================================================================
