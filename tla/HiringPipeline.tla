--------------------------- MODULE HiringPipeline ---------------------------
(***************************************************************************)
(* The recruiting pipeline of the ATS: vacancies, applications, job offers *)
(* and the hiring transaction that turns a finalist into an employee.      *)
(* apps/api/src/ats/{applications,offers,hiring,vacancies,candidates}.     *)
(*                                                                         *)
(* Every service method runs in a Node handler against PostgreSQL at READ  *)
(* COMMITTED.  A method whose effect is one short transaction on one row   *)
(* is one action, enabled while no other transaction holds that row.  A    *)
(* method that reads and later writes what it decided, or that locks       *)
(* several rows one after another, is a request in flight: req[r] is what  *)
(* its handler remembers, and req[r].held the rows its open transaction    *)
(* has locked or written.  Uncommitted writes are invisible to the others, *)
(* so they are kept in the request and reach the tables at the commit.     *)
(***************************************************************************)
EXTENDS Integers, FiniteSets

CONSTANTS
    Apps, Vacancies, Candidates, Positions,
    VacancyOf,          \* [Apps -> Vacancies]
    CandidateOf,        \* [Apps -> Candidates]
    PositionOf,         \* [Vacancies -> Positions]
    Approved,           \* [Positions -> Nat], Position.headcount
    Openings,           \* [Vacancies -> Nat \ {0}], headcount on approval
    Staffed,            \* [Positions -> Nat], occupants at the start
    InPipeline,         \* applications past their interview at the start
    Finalists,          \* those of them already in OFFER
    Accepted,           \* those of them whose offer is already ACCEPTED
    Expiring,           \* applications whose offer carries an expiresAt
    ContractTemplate,   \* BOOLEAN, the company has a contract template
    Emails,             \* the addresses that candidates and employees may have
    FirstMail,          \* [Candidates -> Emails], those of the candidates at the start
    Ops,                \* the operations the clients use
    ManualStatuses,     \* the values recruiters write into Candidate.status
    Renaming,           \* the people whose e-mails change
    RenameOnce,         \* BOOLEAN, a bound: their e-mails change once
    Requests,           \* request handlers that may be in flight at once
    NoRow               \* the null of a request's row fields

ASSUME PipelineConstants ==
    /\ VacancyOf \in [Apps -> Vacancies]
    /\ CandidateOf \in [Apps -> Candidates]
    /\ PositionOf \in [Vacancies -> Positions]
    /\ Approved \in [Positions -> Nat]
    /\ Openings \in [Vacancies -> Nat \ {0}]
    /\ Staffed \in [Positions -> Nat]
    /\ InPipeline \subseteq Apps /\ Expiring \subseteq Apps
    /\ Finalists \subseteq InPipeline /\ Accepted \subseteq InPipeline
    /\ ContractTemplate \in BOOLEAN
    /\ FirstMail \in [Candidates -> Emails] /\ Renaming \subseteq Candidates
    /\ RenameOnce \in BOOLEAN
    /\ Ops \subseteq {"apply", "create", "move", "interview", "offer", "letter", "contract",
                   "hire", "toHire", "patch", "leave"}
    /\ ManualStatuses \subseteq {"ACTIVE", "INACTIVE", "IN_POOL"}
    /\ IsFiniteSet(Apps)
    /\ NoRow \notin Apps \union Vacancies \union Emails

(* The unique index applications(candidateId, vacancyId). *)
ASSUME OneApplicationPerVacancy ==
    \A a, b \in Apps : VacancyOf[a] = VacancyOf[b] /\ CandidateOf[a] = CandidateOf[b]
                         => a = b

(* The unique index candidates(companyId, email). *)
ASSUME OneCandidatePerEmail ==
    \A c, d \in Candidates : FirstMail[c] = FirstMail[d] => c = d

VARIABLES
    vacStatus,   \* Vacancy.status
    headcount,   \* Vacancy.headcount
    filled,      \* Vacancy.filledCount
    occupants,   \* ACTIVE employees per position
    stage,       \* Application.stage, "NONE" before the row exists
    offer,       \* JobOffer.status per application, "NONE" before the row exists
    overdue,     \* applications whose offer is past its expiresAt
    letter,      \* applications whose offer letter is complete
    contract,    \* applications whose contract is complete
    interviewed, \* applications with a COMPLETED interview
    candStatus,  \* Candidate.status
    mail,        \* Candidate.email
    workMail,    \* Employee.email of the employee an application was hired as
    renamed,     \* history: candidates whose e-mail, or whose employee's, has changed
    hirings,     \* applications with a Hiring row
    owesMove,    \* sends that committed SENT and have not yet called move
    req          \* the requests in flight

vacancyVars == <<vacStatus, headcount, filled, occupants>>
paperVars   == <<overdue, letter, contract, interviewed>>
mailVars    == <<mail, workMail, renamed>>
peopleVars  == <<candStatus, mailVars, hirings>>
tables      == <<vacancyVars, paperVars, peopleVars, stage, offer, owesMove>>
vars        == <<tables, req>>
-----------------------------------------------------------------------------
VacancyStatus   == {"OPEN", "PAUSED", "CLOSED", "CANCELLED"}
Hireable        == {"OPEN", "PAUSED"}
Stages          == {"NONE", "PENDING_REVIEW", "CONTACTED", "INTERVIEW", "OFFER",
                    "TO_HIRE", "HIRED", "REJECTED", "WITHDRAWN"}
Finalist        == {"OFFER", "TO_HIRE"}
OfferStatus     == {"NONE", "DRAFT", "SENT", "ACCEPTED", "REJECTED", "EXPIRED", "WITHDRAWN"}
LiveOffer       == {"DRAFT", "SENT", "ACCEPTED"}
CandidateStatus == {"ACTIVE", "INACTIVE", "HIRED", "IN_POOL"}

TERMINAL_STAGES == {"HIRED", "REJECTED", "WITHDRAWN"}

(* Application.status: every write of a stage also writes CLOSED exactly   *)
(* for the terminal stages, so it is not a variable of its own.            *)
Active(a) == stage[a] \notin TERMINAL_STAGES \union {"NONE"}

ALLOWED_STAGE_TRANSITIONS ==
    [s \in Stages |->
       CASE s = "PENDING_REVIEW" -> {"CONTACTED", "INTERVIEW", "REJECTED", "WITHDRAWN"}
         [] s = "CONTACTED"      -> {"INTERVIEW", "REJECTED", "WITHDRAWN"}
         [] s = "INTERVIEW"      -> {"OFFER", "REJECTED", "WITHDRAWN"}
         [] s \in Finalist       -> {"REJECTED", "WITHDRAWN"}
         [] OTHER                -> {}]

ALLOWED_TRANSITIONS ==
    [s \in VacancyStatus |->
       CASE s = "OPEN"   -> {"PAUSED", "CLOSED", "CANCELLED"}
         [] s = "PAUSED" -> {"OPEN", "CLOSED", "CANCELLED"}
         [] OTHER        -> {}]

isOfferReadyToHire(a) == offer[a] = "ACCEPTED" \/ a \in letter

isContractCompleteForHire(a) == ContractTemplate => a \in contract

(* SENT with an expiresAt in the past, or already marked. *)
isOfferExpired(a) == offer[a] = "EXPIRED" \/ (offer[a] = "SENT" /\ a \in overdue)

Larger(x, y) == IF x >= y THEN x ELSE y

(* Unused slots of the process or open boxes of the position, whichever is *)
(* more.                                                                   *)
remainingHirePlazas(v) ==
    LET p == PositionOf[v]
    IN  Larger(Larger(0, headcount[v] - filled[v]), Larger(0, Approved[p] - occupants[p]))

(* The headcount the vacancy takes over while its row is locked. *)
absorbPositionPlazas(v) == Larger(headcount[v], filled[v] + remainingHirePlazas(v))
-----------------------------------------------------------------------------
(* Rows and requests.  The share locks of foreign keys are left out: an    *)
(* insert they delay commutes with the steps of the transaction it waits   *)
(* for.                                                                    *)

Rows == ({"vacancy"} \X Vacancies) \union ({"application", "offer"} \X Apps)
          \union ({"candidate"} \X Candidates) \union ({"email"} \X Emails)

VacancyRow(v)     == <<"vacancy", v>>
ApplicationRow(a) == <<"application", a>>
OfferRow(a)       == <<"offer", a>>
CandidateRow(c)   == <<"candidate", c>>
EmailKey(e)       == <<"email", e>>      \* the entry of employees(companyId, email)

(* The e-mails of the employees that were hired: the index also keeps those *)
(* of employees who left or were deleted.                                  *)
Taken == {workMail[a] : a \in hirings}

Idle == [op |-> "none", pc |-> "idle", app |-> NoRow, vac |-> NoRow, to |-> "NONE",
         mail |-> NoRow, seats |-> 0, held |-> {}, todo |-> {}, next |-> NoRow, spared |-> {},
         cut |-> {}, pulled |-> {}]

Pcs == {"idle", "vacancy", "application", "offer", "employee", "candidate",
        "siblings", "discard", "commit", "write"}

(* The rows the next statement of request r needs. *)
Wants(r) ==
    LET q == req[r]
    IN  CASE q.pc = "vacancy"                    -> {VacancyRow(q.vac)}
          [] q.pc = "application"                -> {ApplicationRow(q.app)}
          [] q.pc = "offer" /\ q.op = "hire"     -> {OfferRow(q.app)}
          [] q.pc = "employee"                   -> {EmailKey(q.mail)}
          [] q.pc = "candidate"                  -> {CandidateRow(CandidateOf[q.app])}
          [] q.pc = "discard" /\ q.todo # {}     ->
               {ApplicationRow(q.next), OfferRow(q.next)} \union
               (IF q.next \in q.spared THEN {} ELSE {CandidateRow(CandidateOf[q.next])})
          [] q.pc = "commit"                     -> {OfferRow(q.app)}
          [] q.pc = "write" /\ q.op = "patch"    -> {VacancyRow(q.vac)}
          [] q.pc = "write" /\ q.op = "letter"   -> {OfferRow(q.app)}
          [] OTHER                               -> {}

Blocks(q, r)  == q # r /\ Wants(r) \intersect req[q].held # {}
CanProceed(r) == \A q \in Requests : ~Blocks(q, r)
Unlocked(row) == \A r \in Requests : row \notin req[r].held

At(r, op, pc) == req[r].op = op /\ req[r].pc = pc
Finish(r)     == req' = [req EXCEPT ![r] = Idle]
Abort(r)      == Finish(r) /\ UNCHANGED tables

(* A set of requests each of which waits for another one of the set. *)
WaitCycle(S) ==
    /\ S # {}
    /\ \A r \in S : \E q \in S : Blocks(q, r)
    /\ \A q \in S : \E r \in S : Blocks(q, r)
-----------------------------------------------------------------------------
(* Applications. *)

(* ApplicationsService.create: the vacancy is read before the transaction. *)
CreateRead(r, a) ==
    /\ "create" \in Ops /\ req[r] = Idle
    /\ stage[a] = "NONE"
    /\ vacStatus[VacancyOf[a]] = "OPEN"
    /\ req' = [req EXCEPT ![r] = [Idle EXCEPT !.op = "create", !.pc = "write", !.app = a]]
    /\ UNCHANGED tables

CreateWrite(r) ==
    /\ At(r, "create", "write")
    /\ stage' = IF stage[req[r].app] = "NONE"   \* else P2002 -> 409
                THEN [stage EXCEPT ![req[r].app] = "PENDING_REVIEW"] ELSE stage
    /\ Finish(r)
    /\ UNCHANGED <<vacancyVars, paperVars, peopleVars, offer, owesMove>>

(* The public job page and the internal apply of the home page: one        *)
(* transaction that also resets the candidate, the one with the e-mail     *)
(* of the form, to ACTIVE.                                                 *)
Apply(a) ==
    /\ stage[a] = "NONE"
    /\ vacStatus[VacancyOf[a]] = "OPEN"
    /\ Unlocked(CandidateRow(CandidateOf[a]))
    /\ stage' = [stage EXCEPT ![a] = "PENDING_REVIEW"]
    /\ candStatus' = [candStatus EXCEPT ![CandidateOf[a]] = "ACTIVE"]
    /\ UNCHANGED <<vacancyVars, paperVars, offer, mailVars, hirings, owesMove, req>>

CanMove(a, to) ==
    /\ to \notin {"HIRED", "TO_HIRE"}
    /\ to \in ALLOWED_STAGE_TRANSITIONS[stage[a]]

(* ApplicationsService.move: row lock, matrix, conditional update.         *)
Move(a, to) ==
    /\ Unlocked(ApplicationRow(a))
    /\ CanMove(a, to)
    /\ stage' = [stage EXCEPT ![a] = to]
    /\ UNCHANGED <<vacancyVars, paperVars, peopleVars, offer, owesMove, req>>

(* InterviewsService.complete. *)
CompleteInterview(a) ==
    /\ a \notin interviewed
    /\ stage[a] \in {"INTERVIEW", "OFFER"}
    /\ interviewed' = interviewed \union {a}
    /\ UNCHANGED <<vacancyVars, peopleVars, stage, offer, overdue, letter, contract, owesMove, req>>

MayRename(c) == c \in Renaming /\ (RenameOnce => c \notin renamed)

(* CandidatesService.update: HIRED is refused as a new value, an e-mail    *)
(* by the index when another candidate has it.                             *)
PatchCandidate(c, to, e) ==
    /\ to \in ManualStatuses \union {candStatus[c]}
    /\ e = mail[c] \/ (MayRename(c) /\ \A d \in Candidates : mail[d] # e)
    /\ Unlocked(CandidateRow(c))
    /\ candStatus' = [candStatus EXCEPT ![c] = to]
    /\ mail' = [mail EXCEPT ![c] = e]
    /\ renamed' = IF e = mail[c] THEN renamed ELSE renamed \union {c}
    /\ UNCHANGED <<vacancyVars, paperVars, stage, offer, workMail, hirings, owesMove, req>>
-----------------------------------------------------------------------------
(* Job offers. *)

WriteOffer(a, to) ==
    /\ Unlocked(OfferRow(a))
    /\ offer' = [offer EXCEPT ![a] = to]
    /\ UNCHANGED <<vacancyVars, paperVars, peopleVars, stage, req>>

(* OffersService.create: the application is read before the insert. *)
OfferRead(r, a) ==
    /\ "offer" \in Ops /\ req[r] = Idle
    /\ stage[a] \in {"INTERVIEW", "OFFER"}
    /\ offer[a] = "NONE"
    /\ req' = [req EXCEPT ![r] = [Idle EXCEPT !.op = "offer", !.pc = "write", !.app = a]]
    /\ UNCHANGED tables

OfferInsert(r) ==
    /\ At(r, "offer", "write")
    /\ offer' = IF offer[req[r].app] = "NONE"   \* else P2002 -> 409
                THEN [offer EXCEPT ![req[r].app] = "DRAFT"] ELSE offer
    /\ Finish(r)
    /\ UNCHANGED <<vacancyVars, paperVars, peopleVars, stage, owesMove>>

(* OffersService.send, its transaction; the move that follows is SendMove. *)
Send(a) ==
    /\ offer[a] = "DRAFT"
    /\ a \in interviewed
    /\ stage[a] \in {"INTERVIEW", "OFFER"}
    /\ WriteOffer(a, "SENT")
    /\ owesMove' = IF stage[a] = "INTERVIEW" THEN owesMove \union {a} ELSE owesMove

(* Mutant: the move is not checked again after the commit. *)
SendMoveUnchecked(a) ==
    /\ a \in owesMove
    /\ Unlocked(ApplicationRow(a))
    /\ owesMove' = owesMove \ {a}
    /\ stage' = [stage EXCEPT ![a] = "OFFER"]
    /\ UNCHANGED <<vacancyVars, paperVars, peopleVars, offer, req>>

(* The move to OFFER after the commit; when move throws, send answers the  *)
(* error and the offer stays SENT.                                         *)
SendMove(a) ==
    /\ a \in owesMove
    /\ Unlocked(ApplicationRow(a))
    /\ owesMove' = owesMove \ {a}
    /\ stage' = IF CanMove(a, "OFFER") THEN [stage EXCEPT ![a] = "OFFER"] ELSE stage
    /\ UNCHANGED <<vacancyVars, paperVars, peopleVars, offer, req>>

(* The process dies between the two. *)
SendLost(a) ==
    /\ a \in owesMove
    /\ owesMove' = owesMove \ {a}
    /\ UNCHANGED <<vacancyVars, paperVars, peopleVars, stage, offer, req>>

(* OffersService.accept and reject.  On an expired offer both mark EXPIRED *)
(* and throw inside the transaction, which rolls the mark back.            *)
Respond(a, to) ==
    /\ to \in {"ACCEPTED", "REJECTED"}
    /\ offer[a] = "SENT" /\ ~isOfferExpired(a)
    /\ WriteOffer(a, to)
    /\ UNCHANGED owesMove

Withdraw(a) ==
    /\ offer[a] \in {"DRAFT", "SENT"} /\ ~isOfferExpired(a)
    /\ WriteOffer(a, "WITHDRAWN")
    /\ UNCHANGED owesMove

(* maybeMarkExpired, on every read of the offer. *)
ReadOffer(a) ==
    /\ offer[a] = "SENT" /\ isOfferExpired(a)
    /\ WriteOffer(a, "EXPIRED")
    /\ UNCHANGED owesMove

ExpiryPasses(a) ==
    /\ a \in Expiring \ overdue
    /\ overdue' = overdue \union {a}
    /\ UNCHANGED <<vacancyVars, peopleVars, stage, offer, letter, contract, interviewed,
                   owesMove, req>>

(* The offer letter as the hire sees it.  It is complete when uploaded     *)
(* without approvers or approved by the last of them, whatever the status  *)
(* of the offer; removing or replacing the file undoes that.               *)
LetterCompleted(a) ==
    /\ offer[a] # "NONE" /\ a \notin letter
    /\ Unlocked(OfferRow(a))
    /\ letter' = letter \union {a}
    /\ UNCHANGED <<vacancyVars, peopleVars, stage, offer, overdue, contract, interviewed,
                   owesMove, req>>

LetterRemoved(a) ==
    /\ a \in letter
    /\ Unlocked(OfferRow(a))
    /\ letter' = letter \ {a}
    /\ UNCHANGED <<vacancyVars, peopleVars, stage, offer, overdue, contract, interviewed,
                   owesMove, req>>

(* Sending the approved letter and signing it on its public page read the  *)
(* offer, handle files, and write what the status they read calls for.     *)
LetterRead(r, a) ==
    /\ "letter" \in Ops /\ req[r] = Idle
    /\ offer[a] # "NONE"
    /\ req' = [req EXCEPT ![r] = [Idle EXCEPT !.op = "letter", !.pc = "write",
                                              !.app = a, !.to = offer[a]]]
    /\ UNCHANGED tables

(* By attachment or signed by the candidate, the letter is complete and    *)
(* the offer accepted; sent for signature, it is sent and incomplete.      *)
LetterWrite(r) ==
    LET a == req[r].app
    IN  /\ At(r, "letter", "write")
        /\ CanProceed(r)
        /\ \/ /\ letter' = letter \union {a}
              /\ offer' = IF req[r].to \in {"DRAFT", "SENT"}
                          THEN [offer EXCEPT ![a] = "ACCEPTED"] ELSE offer
           \/ /\ letter' = letter \ {a}
              /\ offer' = IF req[r].to = "DRAFT" THEN [offer EXCEPT ![a] = "SENT"] ELSE offer
        /\ Finish(r)
        /\ UNCHANGED <<vacancyVars, peopleVars, stage, overdue, contract, interviewed, owesMove>>

(* The contract as the hire sees it; uploads need the TO_HIRE stage. *)
ContractChanges(a) ==
    /\ ContractTemplate
    /\ stage[a] = "TO_HIRE"
    /\ Unlocked(OfferRow(a))
    /\ contract' = IF a \in contract THEN contract \ {a} ELSE contract \union {a}
    /\ UNCHANGED <<vacancyVars, peopleVars, stage, offer, overdue, letter, interviewed,
                   owesMove, req>>
-----------------------------------------------------------------------------
(* Vacancies and employees. *)

(* VacanciesService.update: the status is read, checked against the matrix *)
(* and written later without a condition.                                  *)
PatchVacancyRead(r, v, to) ==
    /\ "patch" \in Ops /\ req[r] = Idle
    /\ to = vacStatus[v] \/ to \in ALLOWED_TRANSITIONS[vacStatus[v]]
    /\ req' = [req EXCEPT ![r] = [Idle EXCEPT !.op = "patch", !.pc = "write",
                                              !.vac = v, !.to = to]]
    /\ UNCHANGED tables

(* Mutant: the write does not wait for the row. *)
PatchVacancyWriteThrough(r) ==
    /\ At(r, "patch", "write")
    /\ vacStatus' = [vacStatus EXCEPT ![req[r].vac] = req[r].to]
    /\ Finish(r)
    /\ UNCHANGED <<headcount, filled, occupants, paperVars, peopleVars, stage, offer, owesMove>>

PatchVacancyWrite(r) ==
    /\ At(r, "patch", "write")
    /\ CanProceed(r)
    /\ vacStatus' = [vacStatus EXCEPT ![req[r].vac] = req[r].to]
    /\ Finish(r)
    /\ UNCHANGED <<headcount, filled, occupants, paperVars, peopleVars, stage, offer, owesMove>>

(* Mutant: an employee leaves twice. *)
EmployeeLeavesAgain(p) ==
    /\ occupants' = [occupants EXCEPT ![p] = @ - 1]
    /\ UNCHANGED <<vacStatus, headcount, filled, paperVars, peopleVars, stage, offer,
                   owesMove, req>>

(* EmployeesService.update to INACTIVE or TERMINATED, or remove. *)
EmployeeLeaves(p) ==
    /\ occupants[p] > 0
    /\ occupants' = [occupants EXCEPT ![p] = @ - 1]
    /\ UNCHANGED <<vacStatus, headcount, filled, paperVars, peopleVars, stage, offer,
                   owesMove, req>>

(* EmployeesService.update with an e-mail: the index refuses one that      *)
(* another employee has, and makes it wait for the insert of a hire.  The  *)
(* former address is free again.                                           *)
EmployeeRenamed(a, e) ==
    /\ a \in hirings /\ MayRename(CandidateOf[a])
    /\ e \notin Taken
    /\ Unlocked(EmailKey(e))
    /\ workMail' = [workMail EXCEPT ![a] = e]
    /\ renamed' = renamed \union {CandidateOf[a]}
    /\ UNCHANGED <<vacancyVars, paperVars, candStatus, mail, hirings, stage, offer, owesMove, req>>
-----------------------------------------------------------------------------
(* HiringService.hire and advanceToHire: one transaction each, that locks  *)
(* the vacancy, then the application, then (hire only) the offer.          *)

Begin(r, a, op) ==
    /\ req[r] = Idle
    /\ stage[a] # "NONE"
    /\ op \in Ops \intersect {"hire", "toHire"}
    /\ req' = [req EXCEPT ![r] = [Idle EXCEPT !.op = op, !.pc = "vacancy", !.app = a,
                                              !.vac = VacancyOf[a]]]
    /\ UNCHANGED tables

(* Mutant: a refused request tries again instead of answering. *)
ProceedOrRetry(r, ok, rec) ==
    /\ CanProceed(r)
    /\ req' = [req EXCEPT ![r] = IF ok THEN rec ELSE @]
    /\ UNCHANGED tables

(* Takes the row, or is refused after it got it. *)
Proceed(r, ok, rec) ==
    /\ CanProceed(r)
    /\ req' = [req EXCEPT ![r] = IF ok THEN rec ELSE Idle]
    /\ UNCHANGED tables

(* Mutant: the vacancy is read without FOR UPDATE. *)
ReadVacancy(r) ==
    LET v == req[r].vac
    IN  /\ req[r].pc = "vacancy"
        /\ Proceed(r, vacStatus[v] \in Hireable /\ filled[v] < absorbPositionPlazas(v),
                   [req[r] EXCEPT !.pc = "application", !.seats = absorbPositionPlazas(v)])

LockVacancy(r) ==
    LET v == req[r].vac
    IN  /\ req[r].pc = "vacancy"
        /\ Proceed(r, vacStatus[v] \in Hireable /\ filled[v] < absorbPositionPlazas(v),
                   [req[r] EXCEPT !.pc = "application", !.held = @ \union {VacancyRow(v)},
                                  !.seats = absorbPositionPlazas(v)])

(* Mutant: the application is read without FOR UPDATE. *)
ReadApplication(r) ==
    LET a == req[r].app
    IN  /\ req[r].pc = "application"
        /\ Proceed(r, /\ a \notin hirings
                      /\ stage[a] \in (IF req[r].op = "hire" THEN Finalist ELSE {"OFFER"}),
                   [req[r] EXCEPT !.pc = "offer", !.mail = mail[CandidateOf[a]]])

(* The application and its candidate, the latter without a lock.           *)
LockApplication(r) ==
    LET a == req[r].app
    IN  /\ req[r].pc = "application"
        /\ Proceed(r, /\ a \notin hirings
                      /\ stage[a] \in (IF req[r].op = "hire" THEN Finalist ELSE {"OFFER"}),
                   [req[r] EXCEPT !.pc = "offer", !.held = @ \union {ApplicationRow(a)},
                                  !.mail = mail[CandidateOf[a]]])

(* advanceToHire reads the offer without a lock ... *)
ReadOfferToAdvance(r) ==
    /\ At(r, "toHire", "offer")
    /\ Proceed(r, offer[req[r].app] # "NONE" /\ isOfferReadyToHire(req[r].app),
               [req[r] EXCEPT !.pc = "commit"])

(* ... and stamps pendingHireDate on it before the commit. *)
CommitToHire(r) ==
    /\ At(r, "toHire", "commit")
    /\ CanProceed(r)
    /\ stage' = [stage EXCEPT ![req[r].app] = "TO_HIRE"]
    /\ headcount' = [headcount EXCEPT ![req[r].vac] = req[r].seats]
    /\ Finish(r)
    /\ UNCHANGED <<vacStatus, filled, occupants, paperVars, peopleVars, offer, owesMove>>

LockOffer(r) ==
    LET a == req[r].app
    IN  /\ At(r, "hire", "offer")
        /\ Proceed(r, /\ offer[a] # "NONE"
                      /\ isOfferReadyToHire(a) /\ isContractCompleteForHire(a),
                   [req[r] EXCEPT !.pc = "employee", !.held = @ \union {OfferRow(a)}])

(* Mutant: employees without a unique e-mail. *)
CreateEmployeeTwice(r) ==
    /\ req[r].pc = "employee"
    /\ Proceed(r, TRUE, [req[r] EXCEPT !.pc = "candidate",
                                       !.held = @ \union {EmailKey(req[r].mail)}])

(* The duplicate e-mail is refused by the query before the insert or by    *)
(* the unique index when another transaction inserted it meanwhile.        *)
CreateEmployee(r) ==
    /\ req[r].pc = "employee"
    /\ Proceed(r, req[r].mail \notin Taken,
               [req[r] EXCEPT !.pc = "candidate", !.held = @ \union {EmailKey(req[r].mail)}])

UpdateCandidate(r) ==
    /\ req[r].pc = "candidate"
    /\ Proceed(r, TRUE, [req[r] EXCEPT !.pc = "siblings",
                                       !.held = @ \union {CandidateRow(CandidateOf[req[r].app])}])

(* Mutant: the query takes every application from OFFER onwards. *)
OtherApplications(a) == {b \in Apps \ {a} : /\ VacancyOf[b] = VacancyOf[a]
                                           /\ stage[b] \in Finalist \union {"HIRED"}}

OtherFinalists(a) == {b \in Apps \ {a} : VacancyOf[b] = VacancyOf[a] /\ stage[b] \in Finalist}

(* discardOtherFinalists reads the other finalists and the status of their *)
(* candidates without locking them, and then rewrites them one by one.     *)
ReadSiblings(r) ==
    LET found == OtherFinalists(req[r].app)
    IN  /\ req[r].pc = "siblings"
        /\ \E n \in (IF found = {} THEN {NoRow} ELSE found) :
             req' = [req EXCEPT ![r].pc = "discard", ![r].todo = found, ![r].next = n,
                                ![r].spared = {b \in found : candStatus[CandidateOf[b]] = "HIRED"}]
        /\ UNCHANGED tables

DiscardSibling(r) ==
    LET b    == req[r].next
        left == req[r].todo \ {b}
    IN  /\ req[r].pc = "discard" /\ req[r].todo # {}
        /\ CanProceed(r)
        /\ \E n \in (IF left = {} THEN {NoRow} ELSE left) :
             req' = [req EXCEPT ![r] =
                       [req[r] EXCEPT !.held = @ \union Wants(r), !.todo = left, !.next = n,
                                      !.cut = @ \union {b},
                                      !.pulled = IF offer[b] \in LiveOffer
                                                 THEN @ \union {b} ELSE @]]
        /\ UNCHANGED tables

(* Mutant: the absorbed places are counted on but not written. *)
HiredBeyondHeadcount(r) ==
    LET a == req[r].app
        v == req[r].vac
        cut == req[r].cut
        pooled == {CandidateOf[b] : b \in cut \ req[r].spared}
    IN  /\ UNCHANGED headcount
        /\ filled' = [filled EXCEPT ![v] = @ + 1]
        /\ occupants' = [occupants EXCEPT ![PositionOf[v]] = @ + 1]
        /\ stage' = [b \in Apps |-> IF b = a THEN "HIRED"
                                    ELSE IF b \in cut THEN "REJECTED" ELSE stage[b]]
        /\ offer' = [b \in Apps |-> IF b \in req[r].pulled THEN "WITHDRAWN" ELSE offer[b]]
        /\ candStatus' = [d \in Candidates |-> IF d = CandidateOf[a] THEN "HIRED"
                                               ELSE IF d \in pooled THEN "IN_POOL"
                                               ELSE candStatus[d]]
        /\ workMail' = [workMail EXCEPT ![a] = req[r].mail]
        /\ hirings' = hirings \union {a}

Hired(r) ==
    LET a == req[r].app
        v == req[r].vac
        p == PositionOf[v]
        c == CandidateOf[a]
        cut == req[r].cut
        pooled == {CandidateOf[b] : b \in cut \ req[r].spared}
    IN  /\ headcount' = [headcount EXCEPT ![v] = req[r].seats]
        /\ filled' = [filled EXCEPT ![v] = @ + 1]
        /\ occupants' = [occupants EXCEPT ![p] = @ + 1]
        /\ stage' = [b \in Apps |-> IF b = a THEN "HIRED"
                                    ELSE IF b \in cut THEN "REJECTED" ELSE stage[b]]
        /\ offer' = [b \in Apps |-> IF b \in req[r].pulled THEN "WITHDRAWN" ELSE offer[b]]
        /\ candStatus' = [d \in Candidates |-> IF d = c THEN "HIRED"
                                               ELSE IF d \in pooled THEN "IN_POOL"
                                               ELSE candStatus[d]]
        /\ workMail' = [workMail EXCEPT ![a] = req[r].mail]
        /\ hirings' = hirings \union {a}

CommitHire(r) ==
    /\ At(r, "hire", "discard") /\ req[r].todo = {}
    /\ Hired(r)
    /\ Finish(r)
    /\ UNCHANGED <<vacStatus, paperVars, mail, renamed, owesMove>>

(* PostgreSQL breaks a wait cycle by failing one of its statements; the    *)
(* handler answers 409.                                                    *)
DeadlockAbort(r) ==
    /\ \E S \in SUBSET Requests : r \in S /\ WaitCycle(S)
    /\ Abort(r)

(* The interactive transaction exceeds its time limit, the connection      *)
(* breaks or the process stops: everything the request did is undone.      *)
Rollback(r) == req[r] # Idle /\ Abort(r)
-----------------------------------------------------------------------------
Init ==
    /\ vacStatus = [v \in Vacancies |-> "OPEN"]
    /\ headcount = Openings
    /\ filled = [v \in Vacancies |-> 0]
    /\ occupants = Staffed
    /\ stage = [a \in Apps |-> IF a \in Finalists THEN "OFFER"
                               ELSE IF a \in InPipeline THEN "INTERVIEW" ELSE "NONE"]
    /\ offer = [a \in Apps |-> IF a \in Accepted THEN "ACCEPTED" ELSE "NONE"]
    /\ overdue = {} /\ letter = {} /\ contract = {}
    /\ interviewed = InPipeline
    /\ candStatus = [c \in Candidates |-> "ACTIVE"]
    /\ mail = FirstMail /\ workMail = [a \in Apps |-> NoRow] /\ renamed = {}
    /\ hirings = {} /\ owesMove = {}
    /\ req = [r \in Requests |-> Idle]

HireStep(r) ==
    \/ LockVacancy(r) \/ LockApplication(r) \/ ReadOfferToAdvance(r) \/ CommitToHire(r)
    \/ LockOffer(r) \/ CreateEmployee(r) \/ UpdateCandidate(r) \/ ReadSiblings(r)
    \/ DiscardSibling(r) \/ CommitHire(r)

RequestStep(r) ==
    \/ HireStep(r)
    \/ CreateWrite(r) \/ OfferInsert(r) \/ LetterWrite(r) \/ PatchVacancyWrite(r)

NewRequest(r) ==
    \/ \E a \in Apps : CreateRead(r, a) \/ OfferRead(r, a) \/ LetterRead(r, a)
                       \/ (\E op \in {"hire", "toHire"} : Begin(r, a, op))
    \/ \E v \in Vacancies, to \in VacancyStatus : PatchVacancyRead(r, v, to)

(* Ops says which of the operations the clients use in an instance; what  *)
(* the server does on its own account is always there.                     *)
ShortTransaction ==
    \/ \E a \in Apps :
         \/ "apply" \in Ops /\ Apply(a)
         \/ "interview" \in Ops /\ CompleteInterview(a)
         \/ "move" \in Ops /\ \E to \in Stages : Move(a, to)
         \/ "offer" \in Ops /\ (Send(a) \/ Withdraw(a) \/ \E to \in OfferStatus : Respond(a, to))
         \/ SendMove(a) \/ SendLost(a) \/ ReadOffer(a) \/ ExpiryPasses(a)
         \/ "letter" \in Ops /\ (LetterCompleted(a) \/ LetterRemoved(a))
         \/ "contract" \in Ops /\ ContractChanges(a)
    \/ \E c \in Candidates, to \in CandidateStatus, e \in Emails : PatchCandidate(c, to, e)
    \/ \E a \in Apps, e \in Emails : EmployeeRenamed(a, e)
    \/ "leave" \in Ops /\ \E p \in Positions : EmployeeLeaves(p)

Next ==
    \/ ShortTransaction
    \/ \E r \in Requests : NewRequest(r) \/ RequestStep(r) \/ DeadlockAbort(r) \/ Rollback(r)

Spec == Init /\ [][Next]_vars
-----------------------------------------------------------------------------
(* Properties. *)

RequestType == [op : {"none", "create", "offer", "letter", "patch", "hire", "toHire"}, pc : Pcs,
                app : Apps \union {NoRow}, vac : Vacancies \union {NoRow},
                to : VacancyStatus \union OfferStatus, mail : Emails \union {NoRow},
                seats : Nat, held : SUBSET Rows,
                todo : SUBSET Apps, next : Apps \union {NoRow}, spared : SUBSET Apps,
                cut : SUBSET Apps, pulled : SUBSET Apps]

(* Every column holds a value of its type and every request in flight      *)
(* remembers rows that exist.                                              *)
TypeOK ==
    /\ vacStatus \in [Vacancies -> VacancyStatus]
    /\ headcount \in [Vacancies -> Nat] /\ filled \in [Vacancies -> Nat]
    /\ occupants \in [Positions -> Nat]
    /\ stage \in [Apps -> Stages] /\ offer \in [Apps -> OfferStatus]
    /\ overdue \subseteq Apps /\ letter \subseteq Apps /\ contract \subseteq Apps
    /\ interviewed \subseteq Apps /\ owesMove \subseteq Apps /\ hirings \subseteq Apps
    /\ candStatus \in [Candidates -> CandidateStatus]
    /\ mail \in [Candidates -> Emails] /\ workMail \in [Apps -> Emails \union {NoRow}]
    /\ renamed \subseteq Candidates
    /\ req \in [Requests -> RequestType]

HiredIn(v) == {a \in hirings : VacancyOf[a] = v}

(* The counter hire increments with a conditional update is the number of  *)
(* Hiring rows of the vacancy and never passes its headcount, whatever     *)
(* hires, advances, absorptions and status patches interleave.             *)
FilledCountIsHirings ==
    \A v \in Vacancies : filled[v] = Cardinality(HiredIn(v)) /\ filled[v] <= headcount[v]

(* An application is HIRED exactly when its Hiring row exists: no move,    *)
(* discard or repeated hire overwrites or duplicates it.                   *)
HiredIffRow == \A a \in Apps : stage[a] = "HIRED" <=> a \in hirings

HiresAreChecked ==
    \A a \in hirings' \ hirings :
       /\ vacStatus[VacancyOf[a]] \in Hireable
       /\ stage[a] \in Finalist
       /\ isOfferReadyToHire(a) /\ isContractCompleteForHire(a)

(* What hire checked several statements before its commit still holds at   *)
(* the commit: the vacancy is open for hiring, the application a finalist, *)
(* its offer ready and its contract complete.                              *)
ChecksHoldAtCommit == [][HiresAreChecked]_vars

StageChangesAllowed ==
    \A a \in Apps : stage'[a] # stage[a] =>
       \/ stage[a] = "NONE" /\ stage'[a] = "PENDING_REVIEW"
       \/ CanMove(a, stage'[a])
       \/ stage[a] = "OFFER" /\ stage'[a] = "TO_HIRE"
       \/ a \in hirings' \ hirings /\ stage'[a] = "HIRED"
       \/ /\ stage'[a] = "REJECTED"
          /\ \E b \in hirings' \ hirings : VacancyOf[b] = VacancyOf[a]

(* Every stage change is a new application, follows the matrix of move, is *)
(* the advance of a finalist, is the hire itself or the discard of another *)
(* application of the vacancy by the commit of that hire.                  *)
StagesFollowMatrix == [][StageChangesAllowed]_vars

SameVacancy(S) == \A q, r \in S : req[q].vac = req[r].vac

(* Hires of different finalists of one vacancy wait for each other but     *)
(* never in a circle, because the vacancy row is locked first.             *)
NoDeadlockInVacancy == \A S \in SUBSET Requests : ~(WaitCycle(S) /\ SameVacancy(S))

-----------------------------------------------------------------------------
(* Why the safety properties hold: the inductive invariant.                *)

AfterVacancy     == {"application", "offer", "employee", "candidate", "siblings", "discard",
                     "commit"}
AfterApplication == AfterVacancy \ {"application"}
AfterOffer       == {"employee", "candidate", "siblings", "discard"}
AfterEmail       == {"candidate", "siblings", "discard"}

(* A request remembers the rows its next statements need.                  *)
WellFormed(q) ==
    /\ q.op = "none" => q = Idle
    /\ q.op \in {"create", "offer", "letter"} => q.pc = "write" /\ q.app \in Apps
    /\ q.op = "patch" => q.pc = "write" /\ q.vac \in Vacancies /\ q.to \in VacancyStatus
    /\ q.op \in {"hire", "toHire"} =>
         /\ q.app \in Apps /\ q.vac = VacancyOf[q.app]
         /\ q.pc \notin {"idle", "write"}
         /\ q.op = "toHire" => q.pc \notin AfterOffer
         /\ q.op = "hire" => q.pc # "commit"
    /\ q.todo # {} => q.next \in q.todo
    /\ q.pc # "discard" => q.todo = {} /\ q.cut = {}
    /\ q.pc \notin AfterVacancy => q.held = {}
    /\ q.pc \in AfterApplication => q.mail \in Emails
    /\ q.pulled \subseteq q.cut

(* No row is locked twice. *)
RowsDisjoint == \A q, r \in Requests : q # r => req[q].held \intersect req[r].held = {}

(* A hire holds every row it has passed. *)
HoldsItsRows(q) ==
    /\ q.pc \in AfterVacancy => VacancyRow(q.vac) \in q.held
    /\ q.pc \in AfterApplication => ApplicationRow(q.app) \in q.held
    /\ q.pc \in AfterOffer => OfferRow(q.app) \in q.held
    /\ q.pc \in AfterEmail => EmailKey(q.mail) \in q.held

(* What it checked stays true while it holds them. *)
ChecksStand(q) ==
    /\ q.pc \in AfterVacancy => /\ vacStatus[q.vac] \in Hireable
                                /\ filled[q.vac] < q.seats /\ headcount[q.vac] <= q.seats
    /\ q.pc \in AfterApplication => /\ q.app \notin hirings
                                    /\ stage[q.app] \in Finalist
                                    /\ q.op = "toHire" => stage[q.app] = "OFFER"
    /\ q.pc \in AfterOffer => /\ offer[q.app] # "NONE" /\ isOfferReadyToHire(q.app)
                              /\ isContractCompleteForHire(q.app)
    /\ q.pc \in AfterApplication /\ CandidateOf[q.app] \notin renamed =>
         q.mail = FirstMail[CandidateOf[q.app]]
    /\ q.pc \in AfterEmail => q.mail \notin Taken
    /\ \A b \in q.todo \union q.cut : /\ b # q.app /\ VacancyOf[b] = q.vac
                                      /\ b \notin hirings

(* Who was never renamed is known, and employed, by its first e-mail.      *)
MailsStand ==
    /\ \A c \in Candidates \ renamed : mail[c] = FirstMail[c]
    /\ \A a \in hirings : CandidateOf[a] \notin renamed => workMail[a] = FirstMail[CandidateOf[a]]

IInv ==
    /\ TypeOK
    /\ \A r \in Requests : WellFormed(req[r]) /\ HoldsItsRows(req[r]) /\ ChecksStand(req[r])
    /\ RowsDisjoint
    /\ HiredIffRow /\ MailsStand /\ FilledCountIsHirings
-----------------------------------------------------------------------------
(* Every step of the pipeline is a step of the staffing promise.           *)
Promise == INSTANCE Staffing WITH capacity <- headcount, hired <- hirings
ImplementsStaffing == Promise!Spec

(* An application is hired on an offer its candidate accepted.             *)
HiredOnAcceptedOffer == [][\A a \in hirings' \ hirings : offer[a] = "ACCEPTED"]_vars

(* A rejected, withdrawn or hired application never changes stage again.   *)
TerminalStagesFinal ==
    [][\A a \in Apps : stage[a] \in TERMINAL_STAGES => stage'[a] = stage[a]]_vars

(* A hire fills an unused slot of its vacancy or an open box of its        *)
(* position.                                                               *)
HireUsesOpenPlaza ==
    [][\A a \in hirings' \ hirings :
          LET v == VacancyOf[a]
          IN  filled[v] < headcount[v] \/ occupants[PositionOf[v]] < Approved[PositionOf[v]]]_vars

(* Handlers keep running, PostgreSQL queues the waiters of a row in order  *)
(* and breaks every wait cycle.                                            *)
Fairness == \A r \in Requests : SF_vars(RequestStep(r)) /\ WF_vars(DeadlockAbort(r))
FairSpec == Spec /\ Fairness

(* Every request in flight comes to an end, without counting on timeouts.  *)
RequestsEnd == \A r \in Requests : req[r] # Idle ~> req[r] = Idle
=============================================================================
