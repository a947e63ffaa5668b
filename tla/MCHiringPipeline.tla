-------------------------- MODULE MCHiringPipeline --------------------------
(***************************************************************************)
(* Small instances of HiringPipeline.  Ana and Bea are finalists of v1,    *)
(* Bea is also a candidate of v2 (and Ana too in CrossApps); both          *)
(* vacancies staff the one position.  With OwnCandidate nobody applies     *)
(* twice.  Where Bea is renamed she may be hired by both vacancies.        *)
(***************************************************************************)
EXTENDS HiringPipeline

CONSTANTS a1, a2, a3, a4, v1, v2, ana, bea, cai, desk, spare

CrossApps     == {a1, a2, a3, a4}
MCApps        == {a1, a2, a3}
RivalApps     == {a1, a2}
OneApp        == {a1}
MCVacancies   == {v1, v2}
OneVacancy    == {v1}
MCCandidates  == {ana, bea, cai}
OneCandidate  == {ana}
TwoCandidates == {ana, bea}
MCPositions   == {desk}
MCVacancyOf   == [a \in Apps |-> IF a \in {a3, a4} THEN v2 ELSE v1]
MCCandidateOf == [a \in Apps |-> IF a \in {a1, a4} THEN ana ELSE bea]
OwnCandidate  == [a \in Apps |-> CASE a = a1 -> ana [] a = a2 -> bea [] OTHER -> cai]
MCPositionOf  == [v \in Vacancies |-> desk]
OneEach       == [v \in Vacancies |-> 1]
OneBox        == [p \in MCPositions |-> 1]
MCEmails      == Candidates \union {spare}  \* an address is named after its first owner
OwnMail       == [c \in Candidates |-> c]
NoStaff       == [p \in MCPositions |-> 0]
=============================================================================
