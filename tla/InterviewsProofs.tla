-------------------------- MODULE InterviewsProofs --------------------------
(***************************************************************************)
(* Proofs about Interviews for every list of evaluators, number of         *)
(* interviews and handlers in flight.  A step moves one handler, and may   *)
(* change the row of one interview, append one, or move the application;   *)
(* each of these has a lemma of its own.                                   *)
(***************************************************************************)
EXTENDS Interviews, TLAPS

(* A handler that has ended is a handler.                                  *)
LEMMA IdleOK ==
  /\ Idle \in HandlerType
  /\ Idle.op = "none" /\ Idle.pc = "idle"
BY InterviewConstants DEF Idle, HandlerType

(* The rows of interviews are rows.                                        *)
LEMMA RowFacts ==
  ASSUME TypeOK, NEW i \in DOMAIN interviews
  PROVE  /\ interviews[i] \in Rows /\ i \in 1..Len(interviews) /\ i \in 0..MaxInterviews
         /\ DOMAIN interviews = 1..Len(interviews) /\ Len(interviews) \in Nat
BY InterviewConstants DEF TypeOK

(* Whether the conjuncts about a handler hold of one that has moved and    *)
(* left the tables alone.                                                  *)
Stands(w) ==
  /\ w.op \in Operations => w.i \in DOMAIN interviews
  /\ w.op = "update" => w.seen \in {"DRAFT", "SCHEDULED"}
  /\ w.op = "none" <=> w.pc = "idle"
  /\ w.pc = "move" => w.op \in {"start", "approve", "reject"}
  /\ w.op = "approve" /\ w.pc = "move" => ToSet(w.list) \subseteq evaluated

(* A handler's step is a change of its record alone.                       *)
LEMMA Moved ==
  ASSUME TypeOK, NEW h \in Handlers, NEW w, work' = [work EXCEPT ![h] = w]
  PROVE  \A g \in Handlers : work'[g] = IF g = h THEN w ELSE work[g]
BY DEF TypeOK

(* The handlers still stand after a step of one of them that appends at    *)
(* most one interview and forgets no evaluation.                           *)
LEMMA OthersStand ==
  ASSUME IInv, NEW h \in Handlers, NEW w, work' = [work EXCEPT ![h] = w],
         Stands(w), DOMAIN interviews \subseteq DOMAIN interviews', evaluated \subseteq evaluated'
  PROVE  \A g \in Handlers : HandlerStands(g)'
<1> SUFFICES ASSUME NEW g \in Handlers PROVE HandlerStands(g)'
  OBVIOUS
<1>1. work'[g] = IF g = h THEN w ELSE work[g]
  BY Moved DEF IInv
<1>2. Stands(work'[g])
  BY <1>1 DEF IInv, HandlerStands, Stands, At
<1>. QED
  BY <1>2 DEF HandlerStands, Stands, At

(* A handler that moves on its own, keeping its decision.                  *)
LEMMA HandlerMoves ==
  ASSUME IInv, Quietly, NEW h \in Handlers, NEW w \in HandlerType,
         work' = [work EXCEPT ![h] = w], Stands(w),
         HalfWay(h) => w.op = work[h].op /\ w.pc \in {"list", "round", "open", "move"},
         ~At(h, "reject", "move")
  PROVE  IInv'
<1>1. \A g \in Handlers : work'[g] = IF g = h THEN w ELSE work[g]
  BY Moved DEF IInv
<1>2. /\ stage' = stage /\ interviews' = interviews /\ evaluators' = evaluators
      /\ evaluated' = evaluated /\ rejected' = rejected /\ apart' = apart /\ cut' = cut
  BY DEF Quietly, tables, ghosts
<1>3. TypeOK'
  BY <1>2 DEF IInv, TypeOK
<1>4. CompletedEvaluated'
  BY <1>2 DEF IInv, CompletedEvaluated
<1>5. RejectionHolds'
  BY <1>1, <1>2 DEF IInv, RejectionHolds, At
<1>6. NotStranded'
  BY <1>1, <1>2 DEF IInv, NotStranded, HalfWay
<1>7. \A g \in Handlers : HandlerStands(g)'
  BY <1>2, OthersStand
<1>. QED
  BY <1>3, <1>4, <1>5, <1>6, <1>7 DEF IInv
-----------------------------------------------------------------------------
(* A request accepted by an idle handler.                                  *)
LEMMA BeginKeeps ==
  ASSUME IInv, Quietly, NEW h \in Handlers, NEW w \in HandlerType, Begin(h, w), Stands(w)
  PROVE  IInv'
<1>1. work[h].pc = "idle" /\ work' = [work EXCEPT ![h] = w]
  BY IdleOK DEF Begin
<1>2. ~HalfWay(h) /\ ~At(h, "reject", "move")
  BY <1>1 DEF HalfWay, At
<1>. QED
  BY <1>1, <1>2, HandlerMoves

(* Create, Read: the requests.                                             *)
LEMMA RequestKeeps ==
  ASSUME IInv, NEW h \in Handlers,
         Create(h) \/ \E op \in Operations, i \in DOMAIN interviews : Read(h, op, i)
  PROVE  IInv'
<1>1. CASE Create(h)
  <2> DEFINE w == [Idle EXCEPT !.op = "create", !.pc = "write"]
  <2>1. w \in HandlerType
    BY IdleOK DEF HandlerType
  <2>2. Stands(w)
    BY DEF Idle, Stands, Operations
  <2>. QED
    BY <1>1, <2>1, <2>2, BeginKeeps DEF Create
<1>2. ASSUME NEW op \in Operations, NEW i \in DOMAIN interviews, Read(h, op, i) PROVE IInv'
  <2> DEFINE w == [Idle EXCEPT !.op = op, !.i = i,
                     !.seen = IF op = "update" THEN interviews[i].status ELSE "NONE",
                     !.pc = IF op \in {"start", "approve", "reject"} THEN "check" ELSE "write"]
  <2>1. interviews[i].status \in Readable(op) /\ i \in 0..MaxInterviews
    BY <1>2, RowFacts DEF Read, IInv
  <2>2. w \in HandlerType
    BY <2>1 DEF Idle, HandlerType, Operations, Readable, Open
  <2>3. Stands(w)
    BY <2>1 DEF Idle, Stands, Operations, Readable
  <2>. QED
    BY <1>2, <2>2, <2>3, BeginKeeps DEF Read
<1>. QED
  BY <1>1, <1>2

(* A handler keeps its record but for the place it has come to.            *)
LEMMA Steps ==
  ASSUME IInv, NEW h \in Handlers, NEW pc \in {"check", "move", "write", "list", "round", "open"}
  PROVE  LET w == [work[h] EXCEPT !.pc = pc]
         IN  /\ w \in HandlerType /\ w.pc = pc /\ w.op = work[h].op /\ w.list = work[h].list
             /\ w.i = work[h].i /\ w.seen = work[h].seen
BY DEF IInv, TypeOK, HandlerType

(* CheckStart, CheckDecision, ReadList, ReadRound.                         *)
LEMMA ReadsKeep ==
  ASSUME IInv, NEW h \in Handlers,
         CheckStart(h) \/ CheckDecision(h) \/ ReadList(h) \/ ReadRound(h)
  PROVE  IInv'
<1>0. HandlerStands(h) /\ work[h] \in HandlerType
  BY DEF IInv, TypeOK
<1>1. CASE CheckStart(h)
  <2> DEFINE pc == IF stage = "CONTACTED" THEN "move" ELSE "write"
             w == [work[h] EXCEPT !.pc = pc]
  <2>1. work' = [work EXCEPT ![h] = w] /\ Quietly /\ At(h, "start", "check")
    BY <1>1 DEF CheckStart, GoTo
  <2>2. w \in HandlerType /\ w.pc \in {"move", "write"} /\ w.op = "start" /\ w.i = work[h].i
    <3>1. pc \in {"move", "write"}
      OBVIOUS
    <3>. HIDE DEF pc
    <3>2. w \in HandlerType /\ w.pc = pc /\ w.op = work[h].op /\ w.i = work[h].i
      BY <1>0, <3>1 DEF HandlerType
    <3>. QED
      BY <2>1, <3>1, <3>2 DEF At
  <2>3. Stands(w)
    <3> HIDE DEF w
    <3>. QED
      BY <1>0, <2>1, <2>2 DEF Stands, HandlerStands, At
  <2>4. ~HalfWay(h) /\ ~At(h, "reject", "move")
    BY <2>1 DEF HalfWay, At
  <2>. QED
    BY <2>1, <2>2, <2>3, <2>4, HandlerMoves
<1>2. CASE CheckDecision(h)
  <2> DEFINE w == [work[h] EXCEPT !.pc = "write"]
  <2>1. work' = [work EXCEPT ![h] = w] /\ Quietly /\ work[h].pc = "check"
    BY <1>2 DEF CheckDecision, GoTo
  <2>2. w \in HandlerType /\ Stands(w)
    BY <1>0, <2>1, Steps DEF Stands, HandlerStands, At
  <2>. QED
    BY <2>1, <2>2, HandlerMoves DEF HalfWay, At
<1>3. CASE ReadList(h)
  <2> DEFINE w == [work[h] EXCEPT !.pc = "round", !.list = evaluators]
  <2>1. work' = [work EXCEPT ![h] = w] /\ Quietly /\ At(h, "approve", "list")
    BY <1>3 DEF ReadList
  <2>2. w \in HandlerType /\ w.pc = "round" /\ w.op = "approve" /\ w.i = work[h].i
    BY <1>0, <2>1 DEF HandlerType, IInv, TypeOK, At
  <2>3. Stands(w)
    BY <1>0, <2>1, <2>2 DEF Stands, HandlerStands, At
  <2>. QED
    BY <2>1, <2>2, <2>3, HandlerMoves DEF HalfWay, At
<1>4. CASE ReadRound(h)
  <2> DEFINE list == work[h].list
             left == {n \in DOMAIN list : list[n] \notin Done}
  <2>1. Quietly /\ At(h, "approve", "round")
    BY <1>4 DEF ReadRound
  <2>2. CASE left = {} /\ GoTo(h, "move")
    <3> DEFINE w == [work[h] EXCEPT !.pc = "move"]
    <3>1. Done \subseteq evaluated
      BY DEF Done, IInv, CompletedEvaluated
    <3>2. ToSet(list) \subseteq evaluated
      BY <2>2, <3>1 DEF ToSet
    <3>3. w \in HandlerType /\ Stands(w)
      BY <1>0, <2>1, <3>2, Steps DEF Stands, HandlerStands, At
    <3>. QED
      BY <2>1, <2>2, <3>3, Steps, HandlerMoves DEF HalfWay, At, GoTo
  <2>3. ASSUME NEW n \in left, work' = [work EXCEPT ![h].pc = "open", ![h].next = {list[n]}]
        PROVE  IInv'
    <3> DEFINE w == [work[h] EXCEPT !.pc = "open", !.next = {list[n]}]
    <3>1. list[n] \in Employees
      BY <1>0, <2>3, InterviewConstants DEF HandlerType
    <3>2. w \in HandlerType /\ w.pc = "open" /\ w.op = "approve" /\ w.i = work[h].i
      BY <1>0, <2>1, <3>1 DEF HandlerType, At
    <3>3. Stands(w)
      BY <1>0, <2>1, <3>2 DEF Stands, HandlerStands, At
    <3>. QED
      BY <2>1, <2>3, <3>2, <3>3, HandlerMoves DEF HalfWay, At
  <2>. QED
    BY <1>4, <2>2, <2>3 DEF ReadRound
<1>. QED
  BY <1>1, <1>2, <1>3, <1>4
-----------------------------------------------------------------------------
(* A row written by id.                                                    *)
LEMMA RowWritten ==
  ASSUME TypeOK, NEW i \in DOMAIN interviews, NEW row \in Rows,
         interviews' = [interviews EXCEPT ![i] = row]
  PROVE  /\ interviews' \in Seq(Rows) /\ Len(interviews') = Len(interviews)
         /\ DOMAIN interviews' = DOMAIN interviews
         /\ \A j \in DOMAIN interviews : interviews'[j] = IF j = i THEN row ELSE interviews[j]
BY DEF TypeOK

(* A row appended within the bound.                                        *)
LEMMA RowAppended ==
  ASSUME TypeOK, NEW row \in Rows, Len(interviews) < MaxInterviews,
         interviews' = Append(interviews, row)
  PROVE  /\ interviews' \in Seq(Rows) /\ Len(interviews') <= MaxInterviews
         /\ DOMAIN interviews \subseteq DOMAIN interviews'
         /\ DOMAIN interviews' = DOMAIN interviews \union {Len(interviews) + 1}
         /\ interviews'[Len(interviews) + 1] = row
         /\ \A j \in DOMAIN interviews : interviews'[j] = interviews[j]
BY InterviewConstants DEF TypeOK

(* Completing an interview counts its evaluators as done.                  *)
LEMMA CompletedFacts ==
  ASSUME TypeOK, CompletedEvaluated, NEW i \in DOMAIN interviews, Completed(i)
  PROVE  /\ interviews' \in Seq(Rows) /\ Len(interviews') = Len(interviews)
         /\ DOMAIN interviews' = DOMAIN interviews
         /\ evaluated \subseteq evaluated' /\ evaluated' \subseteq Employees
         /\ CompletedEvaluated'
<1> DEFINE row == [interviews[i] EXCEPT !.status = "COMPLETED"]
<1>1. interviews[i] \in Rows
  BY RowFacts
<1>2. row \in Rows /\ row.by = interviews[i].by /\ row.type = interviews[i].type
  BY <1>1 DEF Rows
<1>3. interviews' = [interviews EXCEPT ![i] = row]
  BY DEF Completed, SetStatus
<1> HIDE DEF row
<1>4. /\ interviews' \in Seq(Rows) /\ Len(interviews') = Len(interviews)
      /\ DOMAIN interviews' = DOMAIN interviews
      /\ \A j \in DOMAIN interviews : interviews'[j] = IF j = i THEN row ELSE interviews[j]
  BY <1>2, <1>3, RowWritten
<1>5. /\ evaluated \subseteq evaluated' /\ evaluated' \subseteq Employees
      /\ interviews[i].type = "HR" => interviews[i].by \subseteq evaluated'
  BY <1>1 DEF Completed, TypeOK, Rows
<1>6. CompletedEvaluated'
  BY <1>2, <1>4, <1>5 DEF CompletedEvaluated
<1>. QED
  BY <1>4, <1>5, <1>6

(* A write that is followed by a step of its handler: the parts of the     *)
(* invariant it may disturb.                                               *)
LEMMA TablesChange ==
  ASSUME IInv, NEW h \in Handlers, NEW w \in HandlerType, work' = [work EXCEPT ![h] = w], Stands(w),
         stage' \in DOMAIN Allowed, evaluators' = evaluators,
         interviews' \in Seq(Rows), Len(interviews') <= MaxInterviews,
         DOMAIN interviews \subseteq DOMAIN interviews',
         evaluated \subseteq evaluated', evaluated' \subseteq Employees,
         rejected' \in BOOLEAN, apart' \in BOOLEAN, cut' \in BOOLEAN,
         CompletedEvaluated', RejectionHolds', NotStranded'
  PROVE  IInv'
<1>1. TypeOK'
  BY DEF IInv, TypeOK
<1>2. \A g \in Handlers : HandlerStands(g)'
  BY OthersStand
<1>. QED
  BY <1>1, <1>2 DEF IInv

(* A handler that ends leaves the rejections of others on their way.       *)
LEMMA RejectionGoesOn ==
  ASSUME IInv, NEW h \in Handlers, NEW w, work' = [work EXCEPT ![h] = w],
         ~At(h, "reject", "move"), rejected' = rejected, cut' = cut,
         stage \in Terminal => stage' \in Terminal
  PROVE  RejectionHolds'
<1>1. \A g \in Handlers : work'[g] = IF g = h THEN w ELSE work[g]
  BY Moved DEF IInv
<1>. QED
  BY <1>1 DEF IInv, RejectionHolds, At

(* Writes that leave an open interview behind, or happen apart from the    *)
(* round.                                                                  *)
LEMMA WriteKeeps ==
  ASSUME IInv, NEW h \in Handlers,
         WriteCreate(h) \/ WriteUpdate(h) \/ WriteStart(h) \/ WriteCancel(h) \/ WriteComplete(h)
  PROVE  IInv'
<1> DEFINE i == work[h].i
<1>0. /\ TypeOK /\ HandlerStands(h) /\ work[h] \in HandlerType /\ CompletedEvaluated
      /\ ~At(h, "reject", "move") /\ Finish(h)
  BY DEF IInv, TypeOK, At, WriteCreate, WriteUpdate, WriteStart, WriteCancel, WriteComplete
<1>1. Stands(Idle)
  BY DEF Idle, Stands, Operations
<1>2. CASE WriteCreate(h)
  <2>1. PICK status \in {"DRAFT", "SCHEDULED"}, plan \in Planned :
          interviews' = Append(interviews, Interview(plan[1], status, plan[2]))
    BY <1>2 DEF WriteCreate
  <2> DEFINE row == Interview(plan[1], status, plan[2])
  <2>2. plan[1] \in {"HR", "TECHNICAL"} /\ plan[2] \in SUBSET Employees
    BY InterviewConstants
  <2>3. row \in Rows /\ row.status \in Open
    BY <2>2 DEF Rows, Interview, Open
  <2> HIDE DEF row
  <2>4. /\ interviews' \in Seq(Rows) /\ Len(interviews') <= MaxInterviews
        /\ DOMAIN interviews \subseteq DOMAIN interviews'
        /\ DOMAIN interviews' = DOMAIN interviews \union {Len(interviews) + 1}
        /\ interviews'[Len(interviews) + 1] = row
        /\ \A j \in DOMAIN interviews : interviews'[j] = interviews[j]
    BY <1>0, <1>2, <2>1, <2>3, RowAppended DEF WriteCreate, row
  <2>5. UNCHANGED <<stage, evaluators, evaluated, rejected, apart, cut>>
    BY <1>2 DEF WriteCreate, ghosts
  <2>6. CompletedEvaluated'
    BY <1>0, <2>3, <2>4, <2>5 DEF CompletedEvaluated, Open
  <2>7. NotStranded'
    BY <2>3, <2>4 DEF NotStranded
  <2>. QED
    BY <1>0, <1>1, <2>4, <2>5, <2>6, <2>7, IdleOK, TablesChange, RejectionGoesOn
       DEF Finish, IInv, TypeOK
<1>3. CASE WriteUpdate(h)
  <2>0. i \in DOMAIN interviews /\ work[h].seen \in {"DRAFT", "SCHEDULED"}
    BY <1>0, <1>3 DEF WriteUpdate, HandlerStands, At, Operations
  <2>1. PICK status \in {work[h].seen, "SCHEDULED"},
             by \in Panels \union {interviews[i].by} :
          interviews' = [interviews EXCEPT ![i].status = status, ![i].by = by]
    BY <1>3 DEF WriteUpdate
  <2> DEFINE row == [interviews[i] EXCEPT !.status = status, !.by = by]
  <2>2. interviews[i] \in Rows
    BY <1>0, <2>0, RowFacts
  <2>3. row \in Rows /\ row.status \in Open /\ row.status # "COMPLETED"
    BY <2>0, <2>2, InterviewConstants DEF Rows, Open
  <2>4. interviews' = [interviews EXCEPT ![i] = row]
    BY <2>1, <2>0, <1>0 DEF TypeOK
  <2> HIDE DEF row
  <2>5. /\ interviews' \in Seq(Rows) /\ Len(interviews') = Len(interviews)
        /\ DOMAIN interviews' = DOMAIN interviews
        /\ \A j \in DOMAIN interviews : interviews'[j] = IF j = i THEN row ELSE interviews[j]
    BY <1>0, <2>0, <2>3, <2>4, RowWritten
  <2>6. UNCHANGED <<stage, evaluators, evaluated, rejected, apart, cut>>
    BY <1>3 DEF WriteUpdate, ghosts
  <2>7. CompletedEvaluated'
    BY <1>0, <2>3, <2>5, <2>6 DEF CompletedEvaluated
  <2>8. NotStranded'
    BY <2>0, <2>3, <2>5 DEF NotStranded
  <2>. QED
    BY <1>0, <1>1, <2>5, <2>6, <2>7, <2>8, IdleOK, TablesChange, RejectionGoesOn
       DEF Finish, IInv, TypeOK
<1>4. ASSUME NEW s \in {"IN_PROGRESS", "CANCELLED"}, SetStatus(i, s), i \in DOMAIN interviews,
             UNCHANGED <<stage, evaluators, evaluated, rejected, cut>>,
             apart' \in BOOLEAN, s = "CANCELLED" => apart'
      PROVE  IInv'
  <2> DEFINE row == [interviews[i] EXCEPT !.status = s]
  <2>1. interviews[i] \in Rows
    BY <1>0, <1>4, RowFacts
  <2>2. row \in Rows /\ row.status = s
    BY <2>1 DEF Rows, Open
  <2>3. interviews' = [interviews EXCEPT ![i] = row]
    BY <1>4 DEF SetStatus
  <2> HIDE DEF row
  <2>4. /\ interviews' \in Seq(Rows) /\ Len(interviews') = Len(interviews)
        /\ DOMAIN interviews' = DOMAIN interviews
        /\ \A j \in DOMAIN interviews : interviews'[j] = IF j = i THEN row ELSE interviews[j]
    BY <1>0, <1>4, <2>2, <2>3, RowWritten
  <2>5. CompletedEvaluated'
    BY <1>0, <1>4, <2>2, <2>4 DEF CompletedEvaluated
  <2>6. NotStranded'
    BY <1>4, <2>2, <2>4 DEF NotStranded, Open
  <2>. QED
    BY <1>0, <1>1, <1>4, <2>4, <2>5, <2>6, IdleOK, TablesChange, RejectionGoesOn
       DEF Finish, IInv, TypeOK
<1>5. CASE WriteStart(h)
  <2>1. i \in DOMAIN interviews
    BY <1>0, <1>5 DEF WriteStart, HandlerStands, At, Operations
  <2>. QED
    BY <1>0, <1>4, <1>5, <2>1 DEF WriteStart, ghosts, TypeOK
<1>6. CASE WriteCancel(h)
  <2>1. i \in DOMAIN interviews
    BY <1>0, <1>6 DEF WriteCancel, HandlerStands, At, Operations
  <2>. QED
    BY <1>0, <1>4, <1>6, <2>1 DEF WriteCancel
<1>7. CASE WriteComplete(h)
  <2>1. i \in DOMAIN interviews
    BY <1>0, <1>7 DEF WriteComplete, HandlerStands, At, Operations
  <2>2. /\ UNCHANGED <<stage, evaluators, rejected, cut>> /\ apart' = TRUE
        /\ Completed(i)
    BY <1>7 DEF WriteComplete
  <2>3. NotStranded'
    BY <2>2 DEF NotStranded
  <2>4. /\ interviews' \in Seq(Rows) /\ Len(interviews') = Len(interviews)
        /\ DOMAIN interviews' = DOMAIN interviews
        /\ evaluated \subseteq evaluated' /\ evaluated' \subseteq Employees
        /\ CompletedEvaluated'
    BY <1>0, <2>1, <2>2, CompletedFacts
  <2>. QED
    BY <1>0, <1>1, <2>2, <2>3, <2>4, IdleOK, TablesChange, RejectionGoesOn
       DEF Finish, IInv, TypeOK
<1>. QED
  BY <1>2, <1>3, <1>5, <1>6, <1>7
-----------------------------------------------------------------------------
(* The decision and what follows.                                          *)

(* The interview is completed and the decision has begun.                  *)
LEMMA DecisionKeeps ==
  ASSUME IInv, NEW h \in Handlers, WriteDecision(h)
  PROVE  IInv'
<1> DEFINE i  == work[h].i
           pc == IF work[h].op = "approve" THEN "list" ELSE "move"
           w  == [work[h] EXCEPT !.pc = pc]
<1>1. /\ work[h].op \in {"approve", "reject"} /\ work[h].pc = "write"
      /\ Completed(i) /\ work' = [work EXCEPT ![h] = w]
      /\ rejected' = (rejected \/ work[h].op # "approve")
      /\ UNCHANGED <<stage, evaluators, apart, cut>>
  BY DEF WriteDecision, GoTo
<1>2. TypeOK /\ CompletedEvaluated /\ HandlerStands(h)
  BY DEF IInv
<1>3. /\ w \in HandlerType /\ w.op = work[h].op /\ w.i = i
      /\ w.pc = IF w.op = "approve" THEN "list" ELSE "move"
  <2>1. work[h] \in HandlerType /\ pc \in {"list", "move"}
    BY <1>2 DEF TypeOK
  <2>. HIDE DEF pc
  <2>2. w \in HandlerType /\ w.op = work[h].op /\ w.i = i /\ w.pc = pc
    BY <2>1 DEF HandlerType
  <2>. QED
    BY <2>2 DEF pc
<1> HIDE DEF w
<1>4. Stands(w)
  BY <1>1, <1>2, <1>3 DEF Stands, HandlerStands
<1>5. i \in DOMAIN interviews
  BY <1>1, <1>2 DEF HandlerStands, Operations
<1>6. /\ interviews' \in Seq(Rows) /\ Len(interviews') = Len(interviews)
      /\ DOMAIN interviews' = DOMAIN interviews
      /\ evaluated \subseteq evaluated' /\ evaluated' \subseteq Employees
      /\ CompletedEvaluated'
  BY <1>1, <1>2, <1>5, CompletedFacts
<1>7. \A g \in Handlers : work'[g] = IF g = h THEN w ELSE work[g]
  BY <1>1, <1>2, Moved
<1>8. NotStranded'
  BY <1>1, <1>3, <1>7 DEF NotStranded, HalfWay
<1>9. RejectionHolds'
  BY <1>1, <1>3, <1>7 DEF IInv, RejectionHolds, At
<1>. QED
  BY <1>1, <1>2, <1>3, <1>4, <1>6, <1>8, <1>9, TablesChange DEF TypeOK

(* The next evaluator's interview is opened.                               *)
LEMMA OpenNextKeeps ==
  ASSUME IInv, NEW h \in Handlers, OpenNext(h)
  PROVE  IInv'
<1> DEFINE row == Opened("HR", work[h].next)
<1>1. /\ At(h, "approve", "open") /\ Len(interviews) < MaxInterviews
      /\ interviews' = Append(interviews, row) /\ work' = [work EXCEPT ![h] = Idle]
      /\ UNCHANGED <<stage, evaluators, evaluated, rejected, apart, cut>>
  BY DEF OpenNext, Finish, ghosts
<1>2. TypeOK /\ CompletedEvaluated /\ work[h] \in HandlerType
  BY DEF IInv, TypeOK
<1>3. row \in Rows /\ row.status = "IN_PROGRESS"
  BY <1>2 DEF Opened, Interview, Rows, HandlerType, Open
<1> HIDE DEF row
<1>4. /\ interviews' \in Seq(Rows) /\ Len(interviews') <= MaxInterviews
      /\ DOMAIN interviews \subseteq DOMAIN interviews'
      /\ DOMAIN interviews' = DOMAIN interviews \union {Len(interviews) + 1}
      /\ interviews'[Len(interviews) + 1] = row
      /\ \A j \in DOMAIN interviews : interviews'[j] = interviews[j]
  BY <1>1, <1>2, <1>3, RowAppended
<1>5. CompletedEvaluated'
  BY <1>1, <1>2, <1>3, <1>4 DEF CompletedEvaluated
<1>6. NotStranded'
  BY <1>3, <1>4 DEF NotStranded, Open
<1>7. Stands(Idle)
  BY DEF Idle, Stands, Operations
<1>8. RejectionHolds'
  BY <1>1, RejectionGoesOn DEF At
<1>. QED
  BY <1>1, <1>2, <1>4, <1>5, <1>6, <1>7, <1>8, IdleOK, TablesChange DEF TypeOK
-----------------------------------------------------------------------------
(* Moving the application: ended ones do not move, and one that comes under*)
(* evaluation has an open interview.                                       *)
LEMMA MoveFacts ==
  ASSUME IInv, NEW to, MoveTo(to)
  PROVE  /\ stage \notin Terminal /\ stage' = to /\ to \in DOMAIN Allowed /\ evaluators' = evaluators
         /\ interviews' \in Seq(Rows) /\ Len(interviews') <= MaxInterviews
         /\ DOMAIN interviews \subseteq DOMAIN interviews'
         /\ \A j \in DOMAIN interviews' :
               \/ j \in DOMAIN interviews /\ interviews'[j] = interviews[j]
               \/ interviews'[j].status = "IN_PROGRESS"
         /\ to = "INTERVIEW" => \E j \in DOMAIN interviews' : interviews'[j].status \in Open
<1>1. TypeOK
  BY DEF IInv
<1>2. stage \notin Terminal /\ stage' = to /\ to \in DOMAIN Allowed /\ evaluators' = evaluators
  BY <1>1 DEF MoveTo, Allowed, Terminal, TypeOK
<1>3. ASSUME NEW type \in {"HR", "TECHNICAL"}, Len(interviews) < MaxInterviews,
             interviews' = Append(interviews, Opened(type, {DefaultInterviewer(type)}))
      PROVE  /\ interviews' \in Seq(Rows) /\ Len(interviews') <= MaxInterviews
             /\ DOMAIN interviews \subseteq DOMAIN interviews'
             /\ \A j \in DOMAIN interviews' :
                   \/ j \in DOMAIN interviews /\ interviews'[j] = interviews[j]
                   \/ interviews'[j].status = "IN_PROGRESS"
             /\ \E j \in DOMAIN interviews' : interviews'[j].status \in Open
  <2> DEFINE row == Opened(type, {DefaultInterviewer(type)})
  <2>1. evaluators \in Seq(Employees) /\ Recruiter \in Employees
    BY <1>1, InterviewConstants DEF TypeOK
  <2>2. DefaultInterviewer(type) \in Employees
    BY <2>1 DEF DefaultInterviewer
  <2>3. row \in Rows /\ row.status = "IN_PROGRESS"
    BY <2>2 DEF Opened, Interview, Rows, Open
  <2> HIDE DEF row
  <2>4. /\ interviews' \in Seq(Rows) /\ Len(interviews') <= MaxInterviews
        /\ DOMAIN interviews \subseteq DOMAIN interviews'
        /\ DOMAIN interviews' = DOMAIN interviews \union {Len(interviews) + 1}
        /\ interviews'[Len(interviews) + 1] = row
        /\ \A j \in DOMAIN interviews : interviews'[j] = interviews[j]
    BY <1>1, <1>3, <2>3, RowAppended DEF row
  <2>. QED
    BY <2>3, <2>4 DEF Open
<1>4. ASSUME UNCHANGED interviews
      PROVE  /\ interviews' \in Seq(Rows) /\ Len(interviews') <= MaxInterviews
             /\ DOMAIN interviews \subseteq DOMAIN interviews'
             /\ \A j \in DOMAIN interviews' : j \in DOMAIN interviews /\ interviews'[j] = interviews[j]
  BY <1>1, <1>4 DEF TypeOK
<1>5. CASE to = "INTERVIEW"
  <2>1. Ensure("HR")
    BY <1>5 DEF MoveTo
  <2>. QED
    BY <1>2, <1>3, <1>4, <2>1 DEF Ensure
<1>6. CASE to = "OFFER"
  <2>1. Ensure("TECHNICAL") \/ UNCHANGED interviews
    BY <1>6 DEF MoveTo
  <2>. QED
    BY <1>2, <1>3, <1>4, <1>6, <2>1 DEF Ensure
<1>7. CASE to \notin {"INTERVIEW", "OFFER"}
  <2>1. UNCHANGED interviews
    BY <1>7 DEF MoveTo
  <2>. QED
    BY <1>2, <1>4, <1>7, <2>1
<1>. QED
  BY <1>5, <1>6, <1>7

(* MoveStart, MoveDecision: the application moves by a handler.            *)
LEMMA MovesKeep ==
  ASSUME IInv, NEW h \in Handlers, MoveStart(h) \/ MoveDecision(h)
  PROVE  IInv'
<1>0. TypeOK /\ CompletedEvaluated /\ HandlerStands(h) /\ UNCHANGED ghosts
  BY DEF IInv, MoveStart, MoveDecision
<1>1. ASSUME NEW to, MoveTo(to) PROVE CompletedEvaluated'
  BY <1>0, <1>1, MoveFacts DEF CompletedEvaluated, ghosts
<1>2. CASE MoveStart(h)
  <2> DEFINE w == [work[h] EXCEPT !.pc = "write"]
  <2>1. At(h, "start", "move") /\ MoveTo("INTERVIEW") /\ work' = [work EXCEPT ![h] = w]
    BY <1>2 DEF MoveStart, GoTo
  <2>2. w \in HandlerType /\ w.pc = "write" /\ w.op = "start" /\ w.i = work[h].i
    BY <2>1, Steps DEF At
  <2> HIDE DEF w
  <2>3. Stands(w)
    BY <1>0, <2>1, <2>2 DEF Stands, HandlerStands, At
  <2>4. RejectionHolds'
    BY <1>0, <2>1, MoveFacts, RejectionGoesOn DEF At, ghosts
  <2>5. NotStranded'
    BY <2>1, MoveFacts DEF NotStranded
  <2>. QED
    BY <1>0, <1>1, <2>1, <2>2, <2>3, <2>4, <2>5, MoveFacts, TablesChange DEF TypeOK, ghosts
<1>3. CASE MoveDecision(h)
  <2> DEFINE to == IF work[h].op = "approve" THEN "OFFER" ELSE "REJECTED"
  <2>1. /\ work[h].op \in {"approve", "reject"} /\ work[h].pc = "move"
        /\ MoveTo(to) /\ work' = [work EXCEPT ![h] = Idle]
    BY <1>3 DEF MoveDecision, Finish
  <2>2. stage' = to /\ stage \notin Terminal
    BY <2>1, MoveFacts
  <2>3. NotStranded'
    BY <2>2 DEF NotStranded
  <2>4. RejectionHolds'
    <3>1. CASE work[h].op = "approve"
      BY <1>0, <2>1, <2>2, <3>1, RejectionGoesOn DEF At, ghosts
    <3>2. CASE work[h].op = "reject"
      BY <2>2, <3>2 DEF RejectionHolds, Terminal
    <3>. QED
      BY <2>1, <3>1, <3>2
  <2>5. Stands(Idle)
    BY DEF Idle, Stands, Operations
  <2>. QED
    BY <1>0, <1>1, <2>1, <2>3, <2>4, <2>5, IdleOK, MoveFacts, TablesChange DEF TypeOK, ghosts
<1>. QED
  BY <1>2, <1>3

(* A handler that fails cuts its decision short, unless nothing was left to*)
(* be done.                                                                *)
LEMMA FailKeeps ==
  ASSUME IInv, NEW h \in Handlers, Fail(h)
  PROVE  IInv'
<1>1. /\ work' = [work EXCEPT ![h] = Idle]
      /\ cut' = (cut \/ (HalfWay(h) /\ ~Moot(h)))
      /\ UNCHANGED <<stage, evaluators, interviews, evaluated, rejected, apart>>
  BY DEF Fail, Finish, tables
<1>2. TypeOK
  BY DEF IInv
<1>3. \A g \in Handlers : work'[g] = IF g = h THEN Idle ELSE work[g]
  BY <1>1, <1>2, Moved
<1>4. cut' \in BOOLEAN
  BY <1>1, <1>2 DEF TypeOK, HalfWay, Moot
<1>5. CompletedEvaluated'
  BY <1>1 DEF IInv, CompletedEvaluated
<1>6. RejectionHolds'
  BY <1>1, <1>3 DEF IInv, RejectionHolds, At, HalfWay, Moot
<1>7. NotStranded'
  BY <1>1, <1>3 DEF IInv, NotStranded, HalfWay, Moot, Terminal
<1>8. Stands(Idle)
  BY DEF Idle, Stands, Operations
<1>. QED
  BY <1>1, <1>2, <1>4, <1>5, <1>6, <1>7, <1>8, IdleOK, TablesChange DEF TypeOK

(* Move, Hiring, UpdateEvaluators: the application moves on its own.       *)
LEMMA OutsideKeeps ==
  ASSUME IInv, UNCHANGED work,
         (\E to \in DOMAIN Allowed : Move(to)) \/ Hiring
            \/ \E list \in EvaluatorLists : UpdateEvaluators(list)
  PROVE  IInv'
<1>0. TypeOK /\ CompletedEvaluated /\ RejectionHolds /\ NotStranded /\ UNCHANGED ghosts
  BY DEF IInv, Move, Hiring, UpdateEvaluators
<1>1. ASSUME DOMAIN interviews \subseteq DOMAIN interviews' PROVE \A h \in Handlers : HandlerStands(h)'
  BY <1>0, <1>1 DEF IInv, HandlerStands, At, ghosts
<1>2. ASSUME stage' # "INTERVIEW" \/ (stage' = stage /\ UNCHANGED interviews) PROVE NotStranded'
  BY <1>0, <1>2 DEF NotStranded, HalfWay, ghosts
<1>3. ASSUME stage \in Terminal => stage' \in Terminal PROVE RejectionHolds'
  BY <1>0, <1>3 DEF RejectionHolds, At, ghosts
<1>4. ASSUME NEW to \in DOMAIN Allowed, Move(to) PROVE IInv'
  <2>1. MoveTo(to)
    BY <1>4 DEF Move
  <2>2. TypeOK'
    BY <1>0, <2>1, MoveFacts DEF TypeOK, ghosts
  <2>3. CompletedEvaluated'
    BY <1>0, <2>1, MoveFacts DEF CompletedEvaluated, ghosts
  <2>4. NotStranded'
    BY <1>2, <2>1, MoveFacts DEF NotStranded
  <2>. QED
    BY <1>1, <1>3, <2>1, <2>2, <2>3, <2>4, MoveFacts DEF IInv
<1>5. CASE Hiring
  <2>1. /\ stage \in {"OFFER", "TO_HIRE"} /\ stage' \in {"TO_HIRE", "HIRED"}
        /\ UNCHANGED <<interviews, evaluators>>
    BY <1>5 DEF Hiring
  <2>2. TypeOK'
    BY <1>0, <2>1 DEF TypeOK, ghosts, Allowed, Terminal
  <2>3. CompletedEvaluated'
    BY <1>0, <2>1 DEF CompletedEvaluated, ghosts
  <2>. QED
    BY <1>1, <1>2, <1>3, <2>1, <2>2, <2>3 DEF IInv, Terminal
<1>6. ASSUME NEW list \in EvaluatorLists, UpdateEvaluators(list) PROVE IInv'
  <2>1. evaluators' = list /\ UNCHANGED <<stage, interviews>>
    BY <1>6 DEF UpdateEvaluators
  <2>2. TypeOK'
    BY <1>0, <2>1 DEF TypeOK, ghosts
  <2>3. CompletedEvaluated'
    BY <1>0, <2>1 DEF CompletedEvaluated, ghosts
  <2>. QED
    BY <1>1, <1>2, <1>3, <2>1, <2>2, <2>3 DEF IInv
<1>. QED
  BY <1>4, <1>5, <1>6
-----------------------------------------------------------------------------
(* The invariant holds at the start.                                       *)
LEMMA InitIInv == Init => IInv
<1> SUFFICES ASSUME Init PROVE IInv
  OBVIOUS
<1>1. interviews = <<>> /\ DOMAIN interviews = {} /\ \A h \in Handlers : work[h] = Idle
  BY DEF Init
<1>2. TypeOK
  <2>1. stage \in DOMAIN Allowed
    BY DEF Init, Allowed
  <2>2. interviews \in Seq(Rows) /\ Len(interviews) <= MaxInterviews
    BY <1>1, InterviewConstants
  <2>3. work \in [Handlers -> HandlerType]
    BY IdleOK DEF Init
  <2>. QED
    BY <2>1, <2>2, <2>3 DEF Init, TypeOK
<1>3. CompletedEvaluated /\ RejectionHolds /\ NotStranded
  BY <1>1 DEF Init, CompletedEvaluated, RejectionHolds, NotStranded
<1>4. \A h \in Handlers : HandlerStands(h)
  BY <1>1, IdleOK DEF HandlerStands, At, Operations
<1>. QED
  BY <1>2, <1>3, <1>4 DEF IInv

(* Every step keeps the invariant.                                         *)
LEMMA NextIInv == IInv /\ [Next]_vars => IInv'
<1> SUFFICES ASSUME IInv, [Next]_vars PROVE IInv'
  OBVIOUS
<1>1. ASSUME NEW h \in Handlers, HandlerStep(h) PROVE IInv'
  BY <1>1, WriteKeeps, ReadsKeep, DecisionKeeps, OpenNextKeeps, MovesKeep DEF HandlerStep
<1>2. CASE UNCHANGED vars
  BY <1>2 DEF vars, tables, ghosts, IInv, TypeOK, CompletedEvaluated, RejectionHolds, NotStranded,
              HandlerStands, At, HalfWay
<1>3. CASE (\E to \in DOMAIN Allowed : Move(to)) \/ Hiring
              \/ \E list \in EvaluatorLists : UpdateEvaluators(list)
  <2>1. UNCHANGED work
    BY <1>3 DEF Move, Hiring, UpdateEvaluators
  <2>. QED
    BY <1>3, <2>1, OutsideKeeps
<1>4. ASSUME NEW h \in Handlers,
             Create(h) \/ (\E op \in Operations, i \in DOMAIN interviews : Read(h, op, i)) \/ Fail(h)
      PROVE  IInv'
  BY <1>4, RequestKeeps, FailKeeps
<1>. QED
  BY <1>1, <1>2, <1>3, <1>4 DEF Next

(* What the handlers of interviews stand on holds always.                  *)
THEOREM InterviewsInductive == Spec => []IInv
BY InitIInv, NextIInv, PTL DEF Spec

(* Interviews, the stage and the handlers are always well typed.           *)
THEOREM InterviewsTyped == Spec => []TypeOK
<1>1. IInv => TypeOK
  BY DEF IInv
<1>. QED
  BY <1>1, InterviewsInductive, PTL

(* A rejection whose handler goes through ends the application.            *)
THEOREM RejectionsHold == Spec => []RejectionHolds
<1>1. IInv => RejectionHolds
  BY DEF IInv
<1>. QED
  BY <1>1, InterviewsInductive, PTL

(* The round leaves no application under evaluation without an interview.  *)
THEOREM RoundsGoOn == Spec => []NotStranded
<1>1. IInv => NotStranded
  BY DEF IInv
<1>. QED
  BY <1>1, InterviewsInductive, PTL

(* An approval that moves the application has seen every evaluator done.   *)
THEOREM OfferAfterEveryone == Spec => EveryoneEvaluated
<1>1. IInv => \A h \in Handlers :
         At(h, "approve", "move") => ToSet(work[h].list) \subseteq evaluated
  BY DEF IInv, HandlerStands
<1>2. IInv /\ [Next]_vars =>
        \A h \in Handlers :
          At(h, "approve", "move") /\ stage = "INTERVIEW" /\ stage' = "OFFER" /\ work'[h] = Idle =>
             ToSet(work[h].list) \subseteq evaluated
  BY <1>1
<1>. QED
  BY <1>2, InterviewsInductive, PTL DEF Spec, EveryoneEvaluated
=============================================================================
