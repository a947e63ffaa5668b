-------------------------- MODULE VacancyRequests --------------------------
(***************************************************************************)
(* Vacancy requests of the ATS: a leader drafts a request, submits it, its *)
(* approval levels decide in order, and the last approval opens the        *)
(* vacancy and grows the position.                                         *)
(* apps/api/src/ats/{vacancy-requests,process-defaults}.                   *)
(*                                                                         *)
(* work[h] is a handler in flight: what it has read and, once its          *)
(* transaction is open, the rows it has locked.  READ COMMITTED hides      *)
(* uncommitted writes, so they reach the tables with the last statement of *)
(* the transaction, which is also its commit.  A statement that needs a    *)
(* locked row is not enabled until the row is free, and then sees what its *)
(* holder committed.                                                       *)
(***************************************************************************)
EXTENDS Integers, FiniteSets

CONSTANTS
    Vacs,          \* vacancy requests
    Positions,     \* positions, by their unique name
    Existing,      \* positions that exist at the start
    Staff,         \* [Positions -> Nat], their headcount
    Openings,      \* values of requestedHeadcount
    Kinds,         \* the request types in use
    Levels,        \* numbers of approval levels in use
    MaxBatches,    \* bound: submissions and edits of the levels of a request
    Ops,           \* the optional operations the clients use
    Handlers,      \* handlers that may be in flight at once
    NoRow          \* the null of a handler's fields

ASSUME RequestConstants ==
    /\ Existing \subseteq Positions
    /\ Staff \in [Positions -> Nat]
    /\ Openings \subseteq Nat \ {0} /\ Levels \subseteq Nat \ {0}
    /\ Kinds \subseteq {"EXISTING_POSITION", "NEW_POSITION"}
    /\ MaxBatches \in Nat
    /\ Ops \subseteq {"edit", "process", "resize"}
    /\ NoRow \notin Vacs

VARIABLES
    status,     \* VacancyRequest.status, "NONE" before the row exists
    form,       \* type, position and requestedHeadcount of the request
    approvals,  \* the VacancyApproval rows of the request
    batches,    \* how often rows were created for the request: their identity
    positions,  \* positions that exist
    headcount,  \* Position.headcount
    vacancy,    \* headcount of the request's Vacancy, 0 while there is none
    work        \* the handlers in flight

requestVars  == <<status, form>>
positionVars == <<positions, headcount>>
tables       == <<requestVars, approvals, batches, positionVars, vacancy>>
vars         == <<tables, work>>
-----------------------------------------------------------------------------
RequestStatus  == {"NONE", "DRAFT", "PENDING_APPROVAL", "APPROVED", "REJECTED", "CANCELLED"}
ApprovalStatus == {"PENDING", "APPROVED", "REJECTED", "SKIPPED"}
Locked         == {"APPROVED", "REJECTED"}

Forms  == [type : Kinds, position : Positions, openings : Openings]
NoForm == [type |-> "NONE", position |-> NoRow, openings |-> 0]
NoStep == <<0, 0>>

Idle == [op |-> "none", pc |-> "idle", q |-> NoRow, form |-> NoForm, levels |-> 0,
         locked |-> 0, step |-> NoStep, held |-> {}, owns |-> FALSE, seats |-> 0]

IdOf(x) == <<x.batch, x.seq>>
StepsIn(q, S) == {x \in approvals[q] : x.status \in S}
Ids(X) == {IdOf(x) : x \in X}

(* approvals[q] once the step with this id has been approved.              *)
Approved(q, id) ==
    {IF IdOf(x) = id THEN [x EXCEPT !.status = "APPROVED"] ELSE x : x \in approvals[q]}

NewSteps(q, first, n) ==
    {[batch |-> batches[q] + 1, seq |-> s, status |-> "PENDING"] : s \in first..(first + n - 1)}

(* Row locks: h waits while another handler has the rows it needs.         *)
Rivals(h)         == {g \in Handlers \ {h} : work[g].q = work[h].q}
RequestFree(h)    == \A g \in Rivals(h) : ~work[g].owns
StepsFree(h, ids) == \A g \in Rivals(h) : work[g].held \intersect ids = {}

At(h, op, pc)  == work[h].op = op /\ work[h].pc = pc
Becomes(h, rec) == work' = [work EXCEPT ![h] = rec]
Finish(h) == Becomes(h, Idle)

(* The handler goes on when the condition holds; otherwise it answers with *)
(* an error and its transaction, if open, is rolled back.                  *)
Proceed(h, ok, rec) ==
    /\ IF ok THEN Becomes(h, rec) ELSE Finish(h)
    /\ UNCHANGED tables
-----------------------------------------------------------------------------
(* create, update and submit: vacancy-requests.service.ts.                 *)

validateRequestShape(f) == f.type = "EXISTING_POSITION" => f.position \in positions

Create(q, f) ==
    /\ status[q] = "NONE"
    /\ validateRequestShape(f)
    /\ status' = [status EXCEPT ![q] = "DRAFT"]
    /\ form' = [form EXCEPT ![q] = f]
    /\ UNCHANGED <<approvals, batches, positionVars, vacancy, work>>

requireDraft(q) == status[q] = "DRAFT"

UpdateRead(h, q, f) ==
    /\ "edit" \in Ops
    /\ work[h] = Idle
    /\ requireDraft(q) /\ validateRequestShape(f)
    /\ Becomes(h, [Idle EXCEPT !.op = "update", !.pc = "write", !.q = q, !.form = f])
    /\ UNCHANGED tables

(* The write is by id alone, whatever the status has become.               *)
UpdateWrite(h) ==
    /\ At(h, "update", "write")
    /\ RequestFree(h)
    /\ form' = [form EXCEPT ![work[h].q] = work[h].form]
    /\ Finish(h)
    /\ UNCHANGED <<status, approvals, batches, positionVars, vacancy>>

(* The levels come from the plan frozen on the request, the company's      *)
(* workflow or the legacy flow; there is always at least one.              *)
SubmitRead(h, q, n) ==
    /\ work[h] = Idle
    /\ batches[q] < MaxBatches
    /\ requireDraft(q) /\ validateRequestShape(form[q])
    /\ Becomes(h, [Idle EXCEPT !.op = "submit", !.pc = "take", !.q = q, !.levels = n])
    /\ UNCHANGED tables

(* Mutant: the transition does not ask for DRAFT again. *)
SubmitTakeUnchecked(h) ==
    LET q == work[h].q
    IN  /\ At(h, "submit", "take")
        /\ RequestFree(h) /\ StepsFree(h, Ids(approvals[q]))
        /\ Proceed(h, TRUE, [work[h] EXCEPT !.pc = "insert", !.owns = TRUE,
                                            !.held = Ids(approvals[q])])

(* The conditional transition, and the delete of the earlier rows.         *)
SubmitTake(h) ==
    LET q == work[h].q
    IN  /\ At(h, "submit", "take")
        /\ RequestFree(h) /\ StepsFree(h, Ids(approvals[q]))
        /\ Proceed(h, status[q] = "DRAFT",
                   [work[h] EXCEPT !.pc = "insert", !.owns = TRUE, !.held = Ids(approvals[q])])

(* The rows this handler deleted are gone and its new ones are in, unless  *)
(* the unique index on request and sequence refuses one.                   *)
Kept(h) == {x \in approvals[work[h].q] : IdOf(x) \notin work[h].held}

Collide(X, Y) == \E x \in X, y \in Y : x.seq = y.seq

Insert(h, new) ==
    LET q == work[h].q
    IN  /\ approvals' = [approvals EXCEPT ![q] = Kept(h) \union new]
        /\ batches' = [batches EXCEPT ![q] = @ + 1]

SubmitInsert(h) ==
    LET q   == work[h].q
        new == NewSteps(q, 1, work[h].levels)
    IN  /\ At(h, "submit", "insert")
        /\ IF Collide(Kept(h), new)
           THEN UNCHANGED tables
           ELSE /\ status' = [status EXCEPT ![q] = "PENDING_APPROVAL"]
                /\ Insert(h, new)
                /\ UNCHANGED <<form, positionVars, vacancy>>
        /\ Finish(h)
-----------------------------------------------------------------------------
(* updateApprovals: an administrator replaces the levels still pending     *)
(* (active-processes.service.ts).                                          *)

ProcessRead(h, q) ==
    /\ "process" \in Ops
    /\ work[h] = Idle
    /\ batches[q] < MaxBatches
    /\ status[q] = "PENDING_APPROVAL"
    /\ Becomes(h, [Idle EXCEPT !.op = "process", !.pc = "rows", !.q = q])
    /\ UNCHANGED tables

(* Mutant: an empty list of levels is accepted. *)
ProcessRowsOrNone(h, n) ==
    /\ At(h, "process", "rows")
    /\ Proceed(h, TRUE, [work[h] EXCEPT !.pc = "delete", !.levels = n - 1,
                           !.locked = Cardinality(StepsIn(work[h].q, Locked))])

ProcessRows(h, n) ==
    /\ At(h, "process", "rows")
    /\ Proceed(h, TRUE, [work[h] EXCEPT !.pc = "delete", !.levels = n,
                           !.locked = Cardinality(StepsIn(work[h].q, Locked))])

ProcessDelete(h) ==
    LET gone == Ids(StepsIn(work[h].q, {"PENDING", "SKIPPED"}))
    IN  /\ At(h, "process", "delete")
        /\ StepsFree(h, gone)
        /\ Proceed(h, TRUE, [work[h] EXCEPT !.pc = "insert", !.held = gone])

(* Mutant: the levels are numbered from the count of locked ones, not from *)
(* the next.                                                               *)
ProcessInsertFromLocked(h) ==
    LET new == NewSteps(work[h].q, work[h].locked, work[h].levels)
    IN  /\ At(h, "process", "insert")
        /\ IF Collide(Kept(h), new)
           THEN UNCHANGED tables
           ELSE Insert(h, new) /\ UNCHANGED <<requestVars, positionVars, vacancy>>
        /\ Finish(h)

ProcessInsert(h) ==
    LET new == NewSteps(work[h].q, work[h].locked + 1, work[h].levels)
    IN  /\ At(h, "process", "insert")
        /\ IF Collide(Kept(h), new)
           THEN UNCHANGED tables
           ELSE Insert(h, new) /\ UNCHANGED <<requestVars, positionVars, vacancy>>
        /\ Finish(h)
-----------------------------------------------------------------------------
(* decide: the request and its rows are read by two queries; the caller is *)
(* any user allowed to decide the current step.                            *)

DecideRead(h, q, decision) ==
    /\ work[h] = Idle
    /\ status[q] = "PENDING_APPROVAL"
    /\ Becomes(h, [Idle EXCEPT !.op = decision, !.pc = "rows", !.q = q])
    /\ UNCHANGED tables

(* Mutant: any pending step may be decided, not only the first. *)
anyPendingStep(q) == StepsIn(q, {"PENDING"})

currentPendingStep(q) ==
    {x \in StepsIn(q, {"PENDING"}) : \A y \in StepsIn(q, {"PENDING"}) : x.seq <= y.seq}

DecideRows(h) ==
    LET current == currentPendingStep(work[h].q)
    IN  /\ work[h].op \in {"approve", "reject"} /\ work[h].pc = "rows"
        /\ IF current = {} THEN Finish(h)
           ELSE \E x \in current : Becomes(h, [work[h] EXCEPT !.pc = "step", !.step = IdOf(x)])
        /\ UNCHANGED tables

(* Mutant: the step is written by id without asking that it be pending. *)
TakeStepDecided(h) ==
    LET id == work[h].step
    IN  /\ work[h].pc = "step"
        /\ StepsFree(h, {id})
        /\ Proceed(h, id \in Ids(approvals[work[h].q]),
                   [work[h] EXCEPT !.held = {id},
                                   !.pc = IF work[h].op = "approve" THEN "count" ELSE "return"])

(* The conditional write of the step; its row stays locked.                *)
TakeStep(h) ==
    LET id == work[h].step
    IN  /\ work[h].pc = "step"
        /\ StepsFree(h, {id})
        /\ Proceed(h, id \in Ids(StepsIn(work[h].q, {"PENDING"})),
                   [work[h] EXCEPT !.held = {id},
                                   !.pc = IF work[h].op = "approve" THEN "count" ELSE "return"])

Later(h) ==
    Ids({x \in StepsIn(work[h].q, {"PENDING"}) : x.seq > work[h].step[2]}) \ {work[h].step}

RejectedBy(h) ==
    {IF IdOf(x) = work[h].step THEN [x EXCEPT !.status = "REJECTED"]
     ELSE IF IdOf(x) \in Later(h) THEN [x EXCEPT !.status = "SKIPPED"] ELSE x :
       x \in approvals[work[h].q]}

(* A rejection returns the request to DRAFT and skips the later levels.    *)
Return(h) ==
    LET q == work[h].q
    IN  /\ work[h].pc = "return"
        /\ RequestFree(h) /\ StepsFree(h, Later(h))
        /\ IF status[q] = "PENDING_APPROVAL"
           THEN /\ status' = [status EXCEPT ![q] = "DRAFT"]
                /\ approvals' = [approvals EXCEPT ![q] = RejectedBy(h)]
                /\ UNCHANGED <<form, batches, positionVars, vacancy>>
           ELSE UNCHANGED tables
        /\ Finish(h)

Remaining(h) == Ids(StepsIn(work[h].q, {"PENDING"})) \ {work[h].step}

(* Mutant: the count still sees the step just approved, and allows for it  *)
(* once too often.                                                         *)
CountRemainingOffByOne(h) ==
    LET q == work[h].q
    IN  /\ work[h].pc = "count"
        /\ IF Cardinality(Remaining(h)) > 1
           THEN /\ approvals' = [approvals EXCEPT ![q] = Approved(q, work[h].step)]
                /\ Finish(h)
                /\ UNCHANGED <<requestVars, batches, positionVars, vacancy>>
           ELSE Becomes(h, [work[h] EXCEPT !.pc = "finalize"]) /\ UNCHANGED tables

CountRemaining(h) ==
    LET q == work[h].q
    IN  /\ work[h].pc = "count"
        /\ IF Remaining(h) # {}
           THEN /\ approvals' = [approvals EXCEPT ![q] = Approved(q, work[h].step)]
                /\ Finish(h)
                /\ UNCHANGED <<requestVars, batches, positionVars, vacancy>>
           ELSE Becomes(h, [work[h] EXCEPT !.pc = "finalize"]) /\ UNCHANGED tables

(* The conditional transition to APPROVED, and the read of the position.   *)
Finalize(h) ==
    LET q == work[h].q
    IN  /\ work[h].pc = "finalize"
        /\ RequestFree(h)
        /\ Proceed(h, status[q] = "PENDING_APPROVAL",
                   [work[h] EXCEPT !.pc = "vacancy", !.owns = TRUE,
                                   !.seats = headcount[form[q].position]])

(* createVacancyFromApprovedRequest, and the commit.  An existing position *)
(* grows when the request asks for more than the headcount that was read;  *)
(* a new one is refused when its name is taken.                            *)
GrownPosition(h) ==
    LET f == form[work[h].q]
        p == f.position
    IN  /\ positions' = positions \union {p}
        /\ headcount' = IF f.type = "NEW_POSITION" \/ f.openings > work[h].seats
                        THEN [headcount EXCEPT ![p] = f.openings] ELSE headcount

OpenVacancy(h) ==
    LET q == work[h].q
        f == form[q]
    IN  /\ work[h].pc = "vacancy"
        /\ IF vacancy[q] = 0 /\ (f.type = "NEW_POSITION" => f.position \notin positions)
           THEN /\ GrownPosition(h)
                /\ vacancy' = [vacancy EXCEPT ![q] = f.openings]
                /\ status' = [status EXCEPT ![q] = "APPROVED"]
                /\ approvals' = [approvals EXCEPT ![q] = Approved(q, work[h].step)]
                /\ UNCHANGED <<form, batches>>
           ELSE UNCHANGED tables
        /\ Finish(h)
-----------------------------------------------------------------------------
(* PATCH of the position's headcount (positions.service.ts).               *)
ResizePosition(p, n) ==
    /\ "resize" \in Ops
    /\ p \in positions
    /\ headcount' = [headcount EXCEPT ![p] = n]
    /\ UNCHANGED <<requestVars, approvals, batches, positions, vacancy, work>>

(* A check fails, the transaction exceeds its time limit or is the victim  *)
(* of a deadlock, or the process stops: nothing of it remains.             *)
Rollback(h) == work[h] # Idle /\ Finish(h) /\ UNCHANGED tables
-----------------------------------------------------------------------------
Init ==
    /\ status = [q \in Vacs |-> "NONE"]
    /\ form = [q \in Vacs |-> NoForm]
    /\ approvals = [q \in Vacs |-> {}]
    /\ batches = [q \in Vacs |-> 0]
    /\ positions = Existing
    /\ headcount = Staff
    /\ vacancy = [q \in Vacs |-> 0]
    /\ work = [h \in Handlers |-> Idle]

Request(h) ==
    \E q \in Vacs :
       \/ \E f \in Forms : UpdateRead(h, q, f)
       \/ \E n \in Levels : SubmitRead(h, q, n)
       \/ ProcessRead(h, q)
       \/ \E decision \in {"approve", "reject"} : DecideRead(h, q, decision)

HandlerStep(h) ==
    \/ UpdateWrite(h)
    \/ SubmitTake(h) \/ SubmitInsert(h)
    \/ (\E n \in Levels : ProcessRows(h, n)) \/ ProcessDelete(h) \/ ProcessInsert(h)
    \/ DecideRows(h) \/ TakeStep(h) \/ Return(h)
    \/ CountRemaining(h) \/ Finalize(h) \/ OpenVacancy(h)

Next ==
    \/ \E q \in Vacs, f \in Forms : Create(q, f)
    \/ \E h \in Handlers : Request(h) \/ HandlerStep(h) \/ Rollback(h)
    \/ \E p \in Positions, n \in Openings : ResizePosition(p, n)

Spec == Init /\ [][Next]_vars
-----------------------------------------------------------------------------
(* Properties. *)

StepType == [batch : Nat \ {0}, seq : Nat \ {0}, status : ApprovalStatus]

HandlerType == [op : {"none", "update", "submit", "process", "approve", "reject"},
                pc : {"idle", "write", "take", "rows", "delete", "insert", "step", "return",
                      "count", "finalize", "vacancy"},
                q : Vacs \union {NoRow}, form : Forms \union {NoForm}, levels : Nat,
                locked : Nat, step : Nat \X Nat, held : SUBSET (Nat \X Nat),
                owns : BOOLEAN, seats : Nat]

(* Columns and handlers are well typed; sequences count from one.          *)
TypeOK ==
    /\ status \in [Vacs -> RequestStatus] /\ form \in [Vacs -> Forms \union {NoForm}]
    /\ approvals \in [Vacs -> SUBSET StepType]
    /\ batches \in [Vacs -> Nat] /\ vacancy \in [Vacs -> Nat]
    /\ positions \subseteq Positions /\ headcount \in [Positions -> Nat]
    /\ work \in [Handlers -> HandlerType]

(* A request in approval always has a level left to decide it: approvers   *)
(* who decide at the same time, edits of the pending levels and            *)
(* resubmissions never leave it pending for ever.                          *)
SomeoneCanDecide ==
    \A q \in Vacs : status[q] = "PENDING_APPROVAL" => StepsIn(q, {"PENDING"}) # {}

(* A vacancy exists exactly for the approved requests: nothing reopens a   *)
(* request that has been approved, and no approval is left half done.      *)
VacancyIffApproved == \A q \in Vacs : vacancy[q] > 0 <=> status[q] = "APPROVED"

(* Among the levels created together a level is decided only after every   *)
(* lower one has approved, however many approvers decide at once.          *)
DecidedInOrder ==
    \A q \in Vacs : \A x, y \in approvals[q] :
       x.batch = y.batch /\ x.seq < y.seq /\ y.status \in Locked => x.status = "APPROVED"

LastOfItsLevels(q) ==
    \E x \in approvals[q] :
       /\ x.status = "PENDING"
       /\ \A y \in approvals'[q] :
            /\ y.status \notin {"REJECTED", "SKIPPED"}
            /\ y.batch = x.batch => y.status = "APPROVED"

(* A request becomes approved by the approval of the last of its levels,   *)
(* when all those created with it have approved and none has rejected.     *)
ApprovedByEveryLevel ==
    [][\A q \in Vacs : status'[q] = "APPROVED" /\ status[q] # "APPROVED"
                         => LastOfItsLevels(q)]_vars

DecisionKept(q) ==
    \A x \in approvals[q] : x.status \in Locked /\ x \notin approvals'[q]
       => status[q] = "DRAFT" /\ status'[q] = "PENDING_APPROVAL"

(* A decision is never changed, and only a new submission removes it.      *)
DecisionsStand == [][\A q \in Vacs : DecisionKept(q)]_vars

(* An approval never lowers the headcount of a position.                   *)
HeadcountOnlyGrows ==
    [][\A q \in Vacs : status'[q] = "APPROVED" /\ status[q] # "APPROVED"
         => \A p \in positions : headcount'[p] >= headcount[p]]_vars

(* Only a draft is edited.                                                 *)
EditedOnlyInDraft ==
    [][\A q \in Vacs : form'[q] # form[q] => status[q] \in {"NONE", "DRAFT"}]_vars
-----------------------------------------------------------------------------
(* Why the safety properties hold: the inductive invariant.                *)

Stepping == {"count", "return", "finalize", "vacancy"}

(* A handler remembers the rows its next statements need.                  *)
WellFormed(w) ==
    /\ w.op # "none" => w.q \in Vacs
    /\ w.op = "none" => w = Idle
    /\ w.pc = "write" => w.form \in Forms
    /\ w.pc \in {"take", "insert"} => w.levels > 0
    /\ w.pc = "delete" => w.op = "process" /\ w.levels > 0
    /\ w.pc = "insert" => w.op \in {"submit", "process"}
    /\ w.pc \in {"step"} \union Stepping => w.op \in {"approve", "reject"}
    /\ w.pc \in Stepping => w.held = {w.step}
    /\ w.pc \notin Stepping \union {"insert"} => w.held = {}
    /\ w.owns <=> w.pc = "vacancy" \/ (w.op = "submit" /\ w.pc = "insert")

(* No row is locked twice. *)
LocksDisjoint ==
    \A g, h \in Handlers : g # h /\ work[g].q = work[h].q /\ work[g].q # NoRow
       => ~(work[g].owns /\ work[h].owns) /\ work[g].held \intersect work[h].held = {}

(* The rows of a request are identified by batch and sequence, and a new   *)
(* batch is new.                                                           *)
RowsIdentified(q) ==
    /\ IsFiniteSet(approvals[q])
    /\ \A x \in approvals[q] : x.batch <= batches[q]
    /\ \A x, y \in approvals[q] : IdOf(x) = IdOf(y) => x = y

(* In a batch what follows a rejected or skipped level is skipped.         *)
RestSkipped(q) ==
    \A x, y \in approvals[q] :
       x.batch = y.batch /\ x.seq < y.seq /\ x.status \in {"REJECTED", "SKIPPED"}
         => y.status = "SKIPPED"

(* A request in approval has no trace of an earlier rejection.             *)
CleanWhilePending(q) ==
    status[q] = "PENDING_APPROVAL" => StepsIn(q, {"REJECTED", "SKIPPED"}) = {}

(* What a decision read stays true: the step is pending while it is locked,*)
(* the lower levels of its batch have approved, and once it has counted no *)
(* other level of the batch is pending.                                    *)
StepStands(w) ==
    /\ w.pc \in {"step"} \union Stepping =>
         /\ w.step[1] <= batches[w.q]
         /\ \A y \in approvals[w.q] : y.batch = w.step[1] /\ y.seq < w.step[2]
                                         => y.status = "APPROVED"
    /\ w.pc \in Stepping => w.step \in Ids(StepsIn(w.q, {"PENDING"}))
    /\ w.pc \in {"finalize", "vacancy"} =>
         \A y \in approvals[w.q] : y.batch = w.step[1] /\ IdOf(y) # w.step
                                     => y.status # "PENDING"

(* A transaction that owns the request keeps its status, and what it is    *)
(* about to delete or leave is as it saw it.                               *)
OwnerStands(w) ==
    /\ w.pc = "vacancy" => status[w.q] = "PENDING_APPROVAL"
    /\ w.pc = "insert" => w.held \subseteq Ids(approvals[w.q])
    /\ w.op = "submit" /\ w.pc = "insert" =>
         /\ status[w.q] = "DRAFT"
         /\ \A x \in approvals[w.q] : x.status \in {"REJECTED", "SKIPPED"} => IdOf(x) \in w.held
    /\ w.op = "process" /\ w.pc = "insert" =>
         \A x \in approvals[w.q] : IdOf(x) \in w.held => x.status \in {"PENDING", "SKIPPED"}

FormFilled(q) == status[q] # "NONE" => form[q] \in Forms

IInv ==
    /\ TypeOK
    /\ \A q \in Vacs : /\ RowsIdentified(q) /\ RestSkipped(q) /\ CleanWhilePending(q)
                       /\ FormFilled(q)
    /\ \A h \in Handlers : WellFormed(work[h]) /\ StepStands(work[h]) /\ OwnerStands(work[h])
    /\ LocksDisjoint
    /\ SomeoneCanDecide /\ VacancyIffApproved /\ DecidedInOrder
=============================================================================
