----------------------------- MODULE Interviews -----------------------------
(***************************************************************************)
(* The interviews of one application and the round of its evaluators       *)
(* (apps/api/src/ats/interviews, and the interviews that moving an         *)
(* application opens).                                                     *)
(*                                                                         *)
(* work[h] is a handler in flight.  Every handler of the interviews reads  *)
(* the status first, outside any transaction, and writes by id later; a    *)
(* decision completes the interview, reads the round, and then opens the   *)
(* next interview or moves the application, in transactions of their own.  *)
(* Moving the application locks its row and is one step.  Questions and    *)
(* permissions are not modelled: any handler may also be refused, or its   *)
(* process stop (Fail).                                                    *)
(***************************************************************************)
EXTENDS Integers, SequencesExt

CONSTANTS
    Employees,      \* may interview
    Recruiter,      \* assigned to the vacancy
    EvaluatorLists, \* lists of evaluators the request may have
    Panels,         \* sets of interviewers that interviews are given by hand
    Planned,        \* interviews created by hand: <<type, interviewers>>
    MaxInterviews,  \* bound: interviews followed
    Handlers        \* handlers that may be in flight at once

ASSUME InterviewConstants ==
    /\ EvaluatorLists \subseteq Seq(Employees)
    /\ Recruiter \in Employees
    /\ Panels \subseteq SUBSET Employees \ {{}}
    /\ Planned \subseteq {"HR", "TECHNICAL"} \X Panels
    /\ MaxInterviews \in Nat

VARIABLES
    stage,      \* stage of the application
    evaluators, \* of the request, in order
    interviews, \* [type, status, by], as they were created
    work,       \* the handlers in flight
    evaluated,  \* history: employees with a completed HR interview
    rejected,   \* history: an evaluator rejected the candidate
    apart,      \* history: one was completed or cancelled apart from the round
    cut         \* history: a decision stopped half way

ghosts == <<evaluated, rejected, apart, cut>>
tables == <<stage, evaluators, interviews>>
vars   == <<tables, work, ghosts>>
-----------------------------------------------------------------------------
(* Handlers; next holds the evaluator to be called, if any.                *)
Idle == [op |-> "none", pc |-> "idle", i |-> 0, seen |-> "NONE", list |-> <<>>,
         next |-> {}]

Open     == {"DRAFT", "SCHEDULED", "IN_PROGRESS"}
Terminal == {"HIRED", "REJECTED", "WITHDRAWN"}

At(h, op, pc) == work[h].op = op /\ work[h].pc = pc
GoTo(h, pc)   == work' = [work EXCEPT ![h].pc = pc]
Finish(h)     == work' = [work EXCEPT ![h] = Idle]
Begin(h, rec) == work[h] = Idle /\ work' = [work EXCEPT ![h] = rec]
Quietly       == UNCHANGED <<tables, ghosts>>

(* Interviews are written by id, whatever their status.                    *)
SetStatus(i, s) == interviews' = [interviews EXCEPT ![i].status = s]

Interview(type, status, by) == [type |-> type, status |-> status, by |-> by]

(* createEvaluatorInterview.                                               *)
Opened(type, by) == Interview(type, "IN_PROGRESS", by)

DefaultInterviewer(type) ==
    IF type = "HR" /\ evaluators # <<>> THEN evaluators[1] ELSE Recruiter

Allowed ==
    [s \in Terminal \union {"PENDING_REVIEW", "CONTACTED", "INTERVIEW", "OFFER", "TO_HIRE"} |->
       CASE s = "PENDING_REVIEW" -> {"CONTACTED", "INTERVIEW", "REJECTED", "WITHDRAWN"}
         [] s = "CONTACTED"      -> {"INTERVIEW", "REJECTED", "WITHDRAWN"}
         [] s = "INTERVIEW"      -> {"OFFER", "REJECTED", "WITHDRAWN"}
         [] s \in {"OFFER", "TO_HIRE"} -> {"REJECTED", "WITHDRAWN"}
         [] OTHER -> {}]

(* ensurePendingInterview.                                                 *)
Ensure(type) ==
    IF \E i \in DOMAIN interviews : interviews[i].type = type /\ interviews[i].status \in Open
    THEN UNCHANGED interviews
    ELSE /\ Len(interviews) < MaxInterviews
         /\ interviews' = Append(interviews, Opened(type, {DefaultInterviewer(type)}))

(* Mutant: the stage alone is written. *)
MoveToBare(to) ==
    /\ to \in Allowed[stage]
    /\ stage' = to
    /\ UNCHANGED <<interviews, evaluators>>

(* move: the stage, and the interview that goes with it; that of an offer  *)
(* is not followed past the bound.                                         *)
MoveTo(to) ==
    /\ to \in Allowed[stage]
    /\ stage' = to
    /\ CASE to = "INTERVIEW" -> Ensure("HR")
         [] to = "OFFER"     -> \/ Ensure("TECHNICAL")
                                \/ /\ Len(interviews) = MaxInterviews
                                   /\ UNCHANGED interviews
         [] OTHER            -> UNCHANGED interviews
    /\ UNCHANGED evaluators

Move(to) == MoveTo(to) /\ UNCHANGED <<work, ghosts>>

(* Hiring: the rest of the way.                                            *)
Hiring ==
    /\ stage' = CASE stage = "OFFER" -> "TO_HIRE" [] stage = "TO_HIRE" -> "HIRED" [] OTHER -> stage
    /\ stage' # stage
    /\ UNCHANGED <<interviews, evaluators, work, ghosts>>

(* updateEvaluators; which of them have answered is not modelled.          *)
UpdateEvaluators(list) ==
    /\ evaluators' = list
    /\ UNCHANGED <<stage, interviews, work, ghosts>>
-----------------------------------------------------------------------------
Create(h) ==
    /\ stage \notin Terminal
    /\ Begin(h, [Idle EXCEPT !.op = "create", !.pc = "write"])
    /\ Quietly

WriteCreate(h) ==
    /\ At(h, "create", "write")
    /\ Len(interviews) < MaxInterviews
    /\ \E status \in {"DRAFT", "SCHEDULED"}, plan \in Planned :
          interviews' = Append(interviews, Interview(plan[1], status, plan[2]))
    /\ Finish(h)
    /\ UNCHANGED <<stage, evaluators, ghosts>>

(* Mutant: the status is not looked at. *)
ReadableAlways(op) == {"DRAFT", "SCHEDULED", "IN_PROGRESS", "COMPLETED", "CANCELLED"}

(* The statuses of the interview an operation goes on with.                *)
Readable(op) ==
    CASE op = "update"                 -> {"DRAFT", "SCHEDULED"}
      [] op = "start"                  -> {"SCHEDULED"}
      [] op = "complete"               -> {"IN_PROGRESS"}
      [] op \in {"approve", "reject"}  -> {"IN_PROGRESS", "SCHEDULED"}
      [] OTHER                         -> Open

Operations == {"update", "start", "complete", "approve", "reject", "cancel"}

Read(h, op, i) ==
    /\ interviews[i].status \in Readable(op)
    /\ Begin(h, [Idle EXCEPT !.op = op, !.i = i,
                             !.seen = IF op = "update" THEN interviews[i].status ELSE "NONE",
                             !.pc = IF op \in {"start", "approve", "reject"}
                                    THEN "check" ELSE "write"])
    /\ Quietly

WriteUpdate(h) ==
    LET i == work[h].i
    IN  /\ At(h, "update", "write")
        /\ \E status \in {work[h].seen, "SCHEDULED"}, by \in Panels \union {interviews[i].by} :
              interviews' = [interviews EXCEPT ![i].status = status, ![i].by = by]
        /\ Finish(h)
        /\ UNCHANGED <<stage, evaluators, ghosts>>

(* start: an application that was contacted moves on first.                *)
CheckStart(h) ==
    /\ At(h, "start", "check")
    /\ stage \in {"CONTACTED", "INTERVIEW", "OFFER"}
    /\ GoTo(h, IF stage = "CONTACTED" THEN "move" ELSE "write")
    /\ Quietly

MoveStart(h) ==
    /\ At(h, "start", "move")
    /\ MoveTo("INTERVIEW")
    /\ GoTo(h, "write")
    /\ UNCHANGED ghosts

WriteStart(h) ==
    /\ At(h, "start", "write")
    /\ SetStatus(work[h].i, "IN_PROGRESS")
    /\ Finish(h)
    /\ UNCHANGED <<stage, evaluators, ghosts>>

(* The interview is completed, and its evaluators are done: one of them    *)
(* decides for all.                                                        *)
Completed(i) ==
    /\ SetStatus(i, "COMPLETED")
    /\ evaluated' = evaluated \union (IF interviews[i].type = "HR" THEN interviews[i].by ELSE {})

WriteComplete(h) ==
    /\ At(h, "complete", "write")
    /\ Completed(work[h].i)
    /\ Finish(h)
    /\ apart' = TRUE
    /\ UNCHANGED <<stage, evaluators, rejected, cut>>

WriteCancel(h) ==
    /\ At(h, "cancel", "write")
    /\ SetStatus(work[h].i, "CANCELLED")
    /\ Finish(h)
    /\ apart' = TRUE
    /\ UNCHANGED <<stage, evaluators, evaluated, rejected, cut>>
-----------------------------------------------------------------------------
(* evaluatorDecision.                                                      *)

CheckDecision(h) ==
    /\ work[h].op \in {"approve", "reject"} /\ work[h].pc = "check"
    /\ stage = "INTERVIEW"
    /\ GoTo(h, "write")
    /\ Quietly

WriteDecision(h) ==
    LET approve == work[h].op = "approve"
    IN  /\ work[h].op \in {"approve", "reject"} /\ work[h].pc = "write"
        /\ Completed(work[h].i)
        /\ GoTo(h, IF approve THEN "list" ELSE "move")
        /\ rejected' = (rejected \/ ~approve)
        /\ UNCHANGED <<stage, evaluators, apart, cut>>

ReadList(h) ==
    /\ At(h, "approve", "list")
    /\ work' = [work EXCEPT ![h].pc = "round", ![h].list = evaluators]
    /\ Quietly

(* Mutant: the interviews of every status count. *)
DoneOfAll == UNION {interviews[i].by : i \in {j \in DOMAIN interviews : interviews[j].type = "HR"}}

Done ==
    UNION {interviews[i].by : i \in {j \in DOMAIN interviews :
              interviews[j].type = "HR" /\ interviews[j].status = "COMPLETED"}}

(* The first evaluator who is not done is the next.                        *)
ReadRound(h) ==
    LET list == work[h].list
        left == {n \in DOMAIN list : list[n] \notin Done}
    IN  /\ At(h, "approve", "round")
        /\ \/ left = {} /\ GoTo(h, "move")
           \/ \E n \in left :
                 /\ \A m \in left : n <= m
                 /\ work' = [work EXCEPT ![h].pc = "open", ![h].next = {list[n]}]
        /\ Quietly

OpenNext(h) ==
    /\ At(h, "approve", "open")
    /\ Len(interviews) < MaxInterviews
    /\ interviews' = Append(interviews, Opened("HR", work[h].next))
    /\ Finish(h)
    /\ UNCHANGED <<stage, evaluators, ghosts>>

(* Mutant: the move of a rejection is skipped once the stage has changed. *)
MoveDecisionOnce(h) ==
    /\ work[h].op \in {"approve", "reject"} /\ work[h].pc = "move"
    /\ IF stage = "INTERVIEW" THEN MoveTo(IF work[h].op = "approve" THEN "OFFER" ELSE "REJECTED")
       ELSE UNCHANGED tables
    /\ Finish(h)
    /\ UNCHANGED ghosts

MoveDecision(h) ==
    /\ work[h].op \in {"approve", "reject"} /\ work[h].pc = "move"
    /\ MoveTo(IF work[h].op = "approve" THEN "OFFER" ELSE "REJECTED")
    /\ Finish(h)
    /\ UNCHANGED ghosts
-----------------------------------------------------------------------------
HalfWay(h) ==
    work[h].op \in {"approve", "reject"} /\ work[h].pc \in {"list", "round", "open", "move"}

Moot(h) == work[h].pc = "move" /\ stage \in Terminal

(* A handler is refused, or fails, or its process stops.                   *)
Fail(h) ==
    /\ work[h] # Idle
    /\ Finish(h)
    /\ cut' = (cut \/ (HalfWay(h) /\ ~Moot(h)))
    /\ UNCHANGED <<tables, evaluated, rejected, apart>>

Init ==
    /\ stage = "PENDING_REVIEW"
    /\ evaluators \in EvaluatorLists
    /\ interviews = <<>>
    /\ work = [h \in Handlers |-> Idle]
    /\ evaluated = {} /\ rejected = FALSE /\ apart = FALSE /\ cut = FALSE

HandlerStep(h) ==
    \/ WriteCreate(h) \/ WriteUpdate(h) \/ CheckStart(h) \/ MoveStart(h) \/ WriteStart(h)
    \/ WriteComplete(h) \/ WriteCancel(h)
    \/ CheckDecision(h) \/ WriteDecision(h) \/ ReadList(h) \/ ReadRound(h)
    \/ OpenNext(h) \/ MoveDecision(h)

Next ==
    \/ \E to \in DOMAIN Allowed : Move(to)
    \/ Hiring
    \/ \E list \in EvaluatorLists : UpdateEvaluators(list)
    \/ \E h \in Handlers :
          \/ Create(h)
          \/ \E op \in Operations, i \in DOMAIN interviews : Read(h, op, i)
          \/ HandlerStep(h) \/ Fail(h)

Spec == Init /\ [][Next]_vars
-----------------------------------------------------------------------------
(* Properties. *)

Rows ==
    [type : {"HR", "TECHNICAL"}, status : Open \union {"COMPLETED", "CANCELLED"},
     by : SUBSET Employees]

HandlerType ==
    [op : Operations \union {"none", "create"},
     pc : {"idle", "check", "move", "write", "list", "round", "open"},
     i : 0..MaxInterviews, seen : Open \union {"NONE"}, list : EvaluatorLists \union {<<>>},
     next : SUBSET Employees]

(* Rows and handlers are well typed.                                       *)
TypeOK ==
    /\ stage \in DOMAIN Allowed
    /\ evaluators \in EvaluatorLists
    /\ interviews \in Seq(Rows) /\ Len(interviews) <= MaxInterviews
    /\ work \in [Handlers -> HandlerType]
    /\ evaluated \subseteq Employees /\ rejected \in BOOLEAN
    /\ apart \in BOOLEAN /\ cut \in BOOLEAN

(* The decision that moves an application on to its offer has seen a       *)
(* completed interview of every evaluator it read, however interviews are  *)
(* rescheduled, cancelled or given to others meanwhile.  Of several        *)
(* interviewers one completes it for all.                                  *)
EveryoneEvaluated ==
    [][\A h \in Handlers :
          At(h, "approve", "move") /\ stage = "INTERVIEW" /\ stage' = "OFFER" /\ work'[h] = Idle =>
             ToSet(work[h].list) \subseteq evaluated]_vars

(* An evaluator's rejection ends the application, even one another         *)
(* evaluator's approval moved on, unless the decision stopped half way (or *)
(* the candidate was hired before its last step).                          *)
RejectionHolds ==
    rejected /\ ~cut =>
       stage \in Terminal \/ \E h \in Handlers : At(h, "reject", "move")

(* The round never leaves an application under evaluation without an open  *)
(* interview: approving opens the next one or moves it on, unless the      *)
(* decision stopped half way or an interview ended apart from the round.   *)
NotStranded ==
    stage = "INTERVIEW" /\ ~cut /\ ~apart =>
       \/ \E i \in DOMAIN interviews : interviews[i].status \in Open
       \/ \E h \in Handlers : HalfWay(h)

(* What each handler stands on; with it the properties are inductive.      *)
HandlerStands(h) ==
    LET w == work[h]
    IN  /\ w.op \in Operations => w.i \in DOMAIN interviews
        /\ w.op = "update" => w.seen \in {"DRAFT", "SCHEDULED"}
        /\ w.op = "none" <=> w.pc = "idle"
        /\ w.pc = "move" => w.op \in {"start", "approve", "reject"}
        /\ At(h, "approve", "move") => ToSet(w.list) \subseteq evaluated

CompletedEvaluated ==
    \A i \in DOMAIN interviews :
       interviews[i].type = "HR" /\ interviews[i].status = "COMPLETED" =>
          interviews[i].by \subseteq evaluated

IInv ==
    /\ TypeOK /\ CompletedEvaluated /\ RejectionHolds /\ NotStranded
    /\ \A h \in Handlers : HandlerStands(h)
=============================================================================
