------------------------ MODULE HiringPipelineProofs ------------------------
(***************************************************************************)
(* Proofs about HiringPipeline for every number of applications,           *)
(* vacancies, candidates, positions and requests in flight.  The inductive *)
(* invariant IInv says which rows a hire holds at each of its statements   *)
(* and that nothing it checked changes while it holds them.                *)
(***************************************************************************)
EXTENDS HiringPipeline, FiniteSetTheorems, TLAPS

(* A request that has ended is a request.                                  *)
LEMMA IdleType == Idle \in RequestType
  BY DEF Idle, RequestType, Pcs, VacancyStatus, OfferStatus

(* Absorbing the open boxes of the position never shrinks a headcount.     *)
LEMMA AbsorbType ==
  ASSUME TypeOK, NEW v \in Vacancies
  PROVE  /\ absorbPositionPlazas(v) \in Nat
         /\ absorbPositionPlazas(v) >= headcount[v]
  BY PipelineConstants DEF TypeOK, absorbPositionPlazas, remainingHirePlazas, Larger

(* Short transactions keep every column within its type.                   *)
LEMMA ShortType ==
  ASSUME TypeOK, ShortTransaction
  PROVE  TypeOK'
<1> USE PipelineConstants DEF TypeOK, vars, tables, vacancyVars, paperVars, peopleVars, mailVars
<1>1. ASSUME NEW a \in Apps, Apply(a) PROVE TypeOK'
  BY <1>1 DEF Apply, Stages, CandidateStatus
<1>2. ASSUME NEW a \in Apps, CompleteInterview(a) PROVE TypeOK'
  BY <1>2 DEF CompleteInterview
<1>3. ASSUME NEW a \in Apps, NEW to \in Stages, Move(a, to) PROVE TypeOK'
  BY <1>3 DEF Move
<1>4. ASSUME NEW a \in Apps, Send(a) PROVE TypeOK'
  BY <1>4 DEF Send, WriteOffer, OfferStatus
<1>5. ASSUME NEW a \in Apps, Withdraw(a) PROVE TypeOK'
  BY <1>5 DEF Withdraw, WriteOffer, OfferStatus
<1>6. ASSUME NEW a \in Apps, NEW to \in OfferStatus, Respond(a, to) PROVE TypeOK'
  BY <1>6 DEF Respond, WriteOffer
<1>7. ASSUME NEW a \in Apps, SendMove(a) PROVE TypeOK'
  BY <1>7 DEF SendMove, Stages
<1>8. ASSUME NEW a \in Apps, SendLost(a) PROVE TypeOK'
  BY <1>8 DEF SendLost
<1>9. ASSUME NEW a \in Apps, ReadOffer(a) PROVE TypeOK'
  BY <1>9 DEF ReadOffer, WriteOffer, OfferStatus
<1>10. ASSUME NEW a \in Apps, ExpiryPasses(a) PROVE TypeOK'
  BY <1>10 DEF ExpiryPasses
<1>11. ASSUME NEW a \in Apps, LetterCompleted(a) PROVE TypeOK'
  BY <1>11 DEF LetterCompleted
<1>12. ASSUME NEW a \in Apps, LetterRemoved(a) PROVE TypeOK'
  BY <1>12 DEF LetterRemoved
<1>13. ASSUME NEW a \in Apps, ContractChanges(a) PROVE TypeOK'
  BY <1>13 DEF ContractChanges
<1>14. ASSUME NEW c \in Candidates, NEW to \in CandidateStatus, NEW e \in Emails,
              PatchCandidate(c, to, e)
       PROVE  TypeOK'
  BY <1>14 DEF PatchCandidate
<1>15. ASSUME NEW p \in Positions, EmployeeLeaves(p) PROVE TypeOK'
  BY <1>15 DEF EmployeeLeaves
<1>16. ASSUME NEW a \in Apps, NEW e \in Emails, EmployeeRenamed(a, e) PROVE TypeOK'
  BY <1>16 DEF EmployeeRenamed
<1>. QED
  BY ONLY ShortTransaction, <1>1, <1>2, <1>3, <1>4, <1>5, <1>6, <1>7, <1>8, <1>9, <1>10, <1>11,
     <1>12, <1>13, <1>14, <1>15, <1>16 DEF ShortTransaction

(* A request that has ended holds and claims nothing.                      *)
LEMMA IdleOK == WellFormed(Idle) /\ HoldsItsRows(Idle) /\ ChecksStand(Idle) /\ Idle.held = {}
BY DEF Idle, WellFormed, HoldsItsRows, ChecksStand, AfterVacancy, AfterApplication, AfterOffer,
       AfterEmail

(* A step of one request that leaves the tables alone.                     *)
LEMMA RequestMoves ==
  ASSUME IInv, UNCHANGED tables, NEW r \in Requests, NEW q \in RequestType,
         req' = [req EXCEPT ![r] = q],
         WellFormed(q), HoldsItsRows(q), ChecksStand(q),
         \A s \in Requests \ {r} : q.held \intersect req[s].held = {}
  PROVE  IInv'
<1>1. TypeOK'
  BY DEF IInv, TypeOK, tables, vacancyVars, paperVars, peopleVars, mailVars
<1>2. ASSUME NEW s \in Requests
      PROVE  (WellFormed(req[s]) /\ HoldsItsRows(req[s]) /\ ChecksStand(req[s]))'
  <2>1. req'[s] = IF s = r THEN q ELSE req[s]
    BY DEF IInv, TypeOK
  <2>2. WellFormed(req'[s]) /\ HoldsItsRows(req'[s]) /\ ChecksStand(req'[s])
    BY <2>1 DEF IInv
  <2>3. ChecksStand(req'[s]) => ChecksStand(req[s])'
    BY DEF ChecksStand, Taken, tables, vacancyVars, paperVars, peopleVars, mailVars,
           isOfferReadyToHire, isContractCompleteForHire
  <2>4. WellFormed(req'[s]) <=> WellFormed(req[s])'
    BY DEF WellFormed
  <2>5. HoldsItsRows(req'[s]) <=> HoldsItsRows(req[s])'
    BY DEF HoldsItsRows
  <2>. QED
    BY <2>2, <2>3, <2>4, <2>5
<1>3. RowsDisjoint'
  BY DEF IInv, TypeOK, RowsDisjoint
<1>4. (HiredIffRow /\ MailsStand /\ FilledCountIsHirings)'
  BY DEF IInv, HiredIffRow, MailsStand, FilledCountIsHirings, HiredIn, tables, vacancyVars,
         peopleVars, mailVars
<1>. QED
  BY <1>1, <1>2, <1>3, <1>4 DEF IInv

(* A request that is refused, rolled back or killed keeps the invariant.   *)
LEMMA AbortStep ==
  ASSUME IInv, NEW r \in Requests, Abort(r)
  PROVE  IInv'
BY IdleType, IdleOK, RequestMoves DEF Abort, Finish

Fresh(q) == /\ q \in RequestType /\ q.held = {}
            /\ WellFormed(q) /\ HoldsItsRows(q) /\ ChecksStand(q)

(* A request that has only begun holds nothing and has checked nothing.    *)
LEMMA FreshRequest ==
  ASSUME NEW q \in RequestType, q.held = {}, q.todo = {}, q.cut = {}, q.pulled = {},
         \/ q.op \in {"create", "offer", "letter"} /\ q.pc = "write" /\ q.app \in Apps
         \/ q.op = "patch" /\ q.pc = "write" /\ q.vac \in Vacancies /\ q.to \in VacancyStatus
         \/ /\ q.op \in {"hire", "toHire"} /\ q.pc = "vacancy"
            /\ q.app \in Apps /\ q.vac = VacancyOf[q.app]
  PROVE  Fresh(q)
BY DEF Fresh, WellFormed, HoldsItsRows, ChecksStand, AfterVacancy, AfterApplication, AfterOffer,
       AfterEmail

(* A request that begins keeps the invariant.                              *)
LEMMA NewRequestStep ==
  ASSUME IInv, NEW r \in Requests, NewRequest(r)
  PROVE  IInv'
<1>1. UNCHANGED tables
  BY DEF NewRequest, CreateRead, OfferRead, LetterRead, Begin, PatchVacancyRead
<1>2. \E q : Fresh(q) /\ req' = [req EXCEPT ![r] = q]
  <2>1. ASSUME NEW a \in Apps, CreateRead(r, a)
        PROVE  \E q : Fresh(q) /\ req' = [req EXCEPT ![r] = q]
    <3> DEFINE q == [Idle EXCEPT !.op = "create", !.pc = "write", !.app = a]
    <3>1. /\ q \in RequestType
          /\ q.held = {} /\ q.todo = {} /\ q.cut = {} /\ q.pulled = {}
          /\ q.op = "create" /\ q.pc = "write" /\ q.app = a
      BY IdleType DEF Idle, RequestType, Pcs
    <3>2. req' = [req EXCEPT ![r] = q]
      BY <2>1 DEF CreateRead
    <3> HIDE DEF q
    <3>. QED
      BY <3>1, <3>2, FreshRequest
  <2>2. ASSUME NEW a \in Apps, OfferRead(r, a)
        PROVE  \E q : Fresh(q) /\ req' = [req EXCEPT ![r] = q]
    <3> DEFINE q == [Idle EXCEPT !.op = "offer", !.pc = "write", !.app = a]
    <3>1. /\ q \in RequestType
          /\ q.held = {} /\ q.todo = {} /\ q.cut = {} /\ q.pulled = {}
          /\ q.op = "offer" /\ q.pc = "write" /\ q.app = a
      BY IdleType DEF Idle, RequestType, Pcs
    <3>2. req' = [req EXCEPT ![r] = q]
      BY <2>2 DEF OfferRead
    <3> HIDE DEF q
    <3>. QED
      BY <3>1, <3>2, FreshRequest
  <2>3. ASSUME NEW a \in Apps, LetterRead(r, a)
        PROVE  \E q : Fresh(q) /\ req' = [req EXCEPT ![r] = q]
    <3> DEFINE q == [Idle EXCEPT !.op = "letter", !.pc = "write", !.app = a, !.to = offer[a]]
    <3>1. /\ q \in RequestType
          /\ q.held = {} /\ q.todo = {} /\ q.cut = {} /\ q.pulled = {}
          /\ q.op = "letter" /\ q.pc = "write" /\ q.app = a
      <4>1. offer[a] \in OfferStatus
        BY DEF IInv, TypeOK
      <4>. QED
        BY <4>1, IdleType DEF Idle, RequestType, Pcs
    <3>2. req' = [req EXCEPT ![r] = q]
      BY <2>3 DEF LetterRead
    <3> HIDE DEF q
    <3>. QED
      BY <3>1, <3>2, FreshRequest
  <2>4. ASSUME NEW a \in Apps, NEW op \in {"hire", "toHire"}, Begin(r, a, op)
        PROVE  \E q : Fresh(q) /\ req' = [req EXCEPT ![r] = q]
    <3> DEFINE q == [Idle EXCEPT !.op = op, !.pc = "vacancy", !.app = a, !.vac = VacancyOf[a]]
    <3>1. /\ q \in RequestType
          /\ q.held = {} /\ q.todo = {} /\ q.cut = {} /\ q.pulled = {}
          /\ q.op = op /\ q.pc = "vacancy" /\ q.app = a /\ q.vac = VacancyOf[a]
      BY IdleType, PipelineConstants DEF Idle, RequestType, Pcs
    <3>2. req' = [req EXCEPT ![r] = q]
      BY <2>4 DEF Begin
    <3> HIDE DEF q
    <3>. QED
      BY <3>1, <3>2, FreshRequest
  <2>5. ASSUME NEW v \in Vacancies, NEW to \in VacancyStatus, PatchVacancyRead(r, v, to)
        PROVE  \E q : Fresh(q) /\ req' = [req EXCEPT ![r] = q]
    <3> DEFINE q == [Idle EXCEPT !.op = "patch", !.pc = "write", !.vac = v, !.to = to]
    <3>1. /\ q \in RequestType
          /\ q.held = {} /\ q.todo = {} /\ q.cut = {} /\ q.pulled = {}
          /\ q.op = "patch" /\ q.pc = "write" /\ q.vac = v /\ q.to = to
      BY IdleType DEF Idle, RequestType, Pcs
    <3>2. req' = [req EXCEPT ![r] = q]
      BY <2>5 DEF PatchVacancyRead
    <3> HIDE DEF q
    <3>. QED
      BY <3>1, <3>2, FreshRequest
  <2>. QED
    BY <2>1, <2>2, <2>3, <2>4, <2>5 DEF NewRequest
<1>3. PICK q : Fresh(q) /\ req' = [req EXCEPT ![r] = q]
  BY <1>2
<1>. QED
  BY <1>1, <1>3, RequestMoves DEF Fresh

(* The statements of a hire that take a row.                               *)
LEMMA WaitersAreDisjoint ==
  ASSUME NEW r \in Requests, CanProceed(r), RowsDisjoint
  PROVE  \A s \in Requests \ {r} : (req[r].held \union Wants(r)) \intersect req[s].held = {}
BY DEF CanProceed, Blocks, RowsDisjoint

(* A statement that takes a row, or is refused, keeps the invariant.       *)
LEMMA ProceedStep ==
  ASSUME IInv, NEW r \in Requests, NEW ok, NEW q, Proceed(r, ok, q),
         ok => /\ q \in RequestType
               /\ WellFormed(q) /\ HoldsItsRows(q) /\ ChecksStand(q)
               /\ q.held \subseteq req[r].held \union Wants(r)
  PROVE  IInv'
<1>1. \A s \in Requests \ {r} : (req[r].held \union Wants(r)) \intersect req[s].held = {}
  BY WaitersAreDisjoint DEF Proceed, IInv
<1>2. CASE ok
  BY <1>1, <1>2, RequestMoves DEF Proceed
<1>3. CASE ~ok
  BY <1>3, IdleType, IdleOK, RequestMoves DEF Proceed
<1>. QED
  BY <1>2, <1>3

(* A request between two statements of hire or advanceToHire.              *)
InHire(r) ==
    /\ req[r] \in RequestType /\ req[r].op \in {"hire", "toHire"}
    /\ req[r].app \in Apps /\ req[r].vac = VacancyOf[req[r].app] /\ req[r].vac \in Vacancies

(* Every request past its begin is in a hire.                              *)
LEMMA RequestInHire ==
  ASSUME IInv, NEW r \in Requests, req[r].pc \notin {"idle", "write"}
  PROVE  InHire(r)
BY PipelineConstants DEF IInv, TypeOK, WellFormed, RequestType, Idle, InHire

(* SELECT ... FOR UPDATE on the vacancy, its checks and the absorption.    *)
LEMMA LockVacancyStep ==
  ASSUME IInv, NEW r \in Requests, LockVacancy(r)
  PROVE  IInv'
<1> DEFINE a == req[r].app
           ok == vacStatus[req[r].vac] \in Hireable
           /\ filled[req[r].vac] < absorbPositionPlazas(req[r].vac)
           q == [req[r] EXCEPT !.pc = "application", !.held = @ \union {VacancyRow(req[r].vac)},
                               !.seats = absorbPositionPlazas(req[r].vac)]
<1>1. Proceed(r, ok, q) /\ req[r].pc = "vacancy"
  BY DEF LockVacancy, At
<1>2. InHire(r)
  BY <1>1, RequestInHire
<1>3. Wants(r) = {VacancyRow(req[r].vac)} /\ Wants(r) \subseteq Rows
  BY <1>1, <1>2, PipelineConstants
     DEF InHire, Wants, Rows, VacancyRow, ApplicationRow, OfferRow, CandidateRow, EmailKey
<1>0. absorbPositionPlazas(req[r].vac) \in Nat
      /\ absorbPositionPlazas(req[r].vac) >= headcount[req[r].vac]
  BY <1>2, AbsorbType DEF IInv, InHire
<1>4. /\ q \in RequestType
      /\ q.op = req[r].op /\ q.pc = "application" /\ q.app = req[r].app
      /\ q.vac = req[r].vac /\ q.seats = absorbPositionPlazas(req[r].vac)
      /\ q.held = req[r].held \union Wants(r)
      /\ q.todo = req[r].todo /\ q.next = req[r].next /\ q.cut = req[r].cut
      /\ q.pulled = req[r].pulled
  BY <1>2, <1>3, <1>0 DEF InHire, RequestType, Pcs
<1> HIDE DEF q
<1>5. WellFormed(q)
  BY <1>1, <1>2, <1>4 DEF IInv, InHire, WellFormed, AfterVacancy, AfterApplication, AfterOffer
<1>6. HoldsItsRows(q)
  BY <1>1, <1>2, <1>3, <1>4
     DEF IInv, HoldsItsRows, AfterVacancy, AfterApplication, AfterOffer, AfterEmail
<1>7. ok => ChecksStand(q)
  BY <1>1, <1>2, <1>4, <1>0
     DEF IInv, InHire, ChecksStand, AfterVacancy, AfterApplication, AfterOffer, AfterEmail
<1>. QED
  BY <1>1, <1>3, <1>4, <1>5, <1>6, <1>7, ProceedStep

(* SELECT ... FOR UPDATE on the application and its checks.                *)
LEMMA LockApplicationStep ==
  ASSUME IInv, NEW r \in Requests, LockApplication(r)
  PROVE  IInv'
<1> DEFINE a == req[r].app
           ok == a \notin hirings
           /\ stage[a] \in (IF req[r].op = "hire" THEN Finalist ELSE {"OFFER"})
           q == [req[r] EXCEPT !.pc = "offer", !.held = @ \union {ApplicationRow(a)},
                               !.mail = mail[CandidateOf[a]]]
<1>1. Proceed(r, ok, q) /\ req[r].pc = "application"
  BY DEF LockApplication, At
<1>2. InHire(r)
  BY <1>1, RequestInHire
<1>3. Wants(r) = {ApplicationRow(a)} /\ Wants(r) \subseteq Rows
  BY <1>1, <1>2, PipelineConstants
     DEF InHire, Wants, Rows, VacancyRow, ApplicationRow, OfferRow, CandidateRow, EmailKey
<1>0. /\ CandidateOf[a] \in Candidates /\ mail[CandidateOf[a]] \in Emails
      /\ CandidateOf[a] \notin renamed => mail[CandidateOf[a]] = FirstMail[CandidateOf[a]]
  BY <1>2, PipelineConstants DEF IInv, TypeOK, MailsStand, InHire
<1>4. /\ q \in RequestType
      /\ q.op = req[r].op /\ q.pc = "offer" /\ q.app = req[r].app
      /\ q.vac = req[r].vac /\ q.mail = mail[CandidateOf[a]] /\ q.seats = req[r].seats
      /\ q.held = req[r].held \union Wants(r)
      /\ q.todo = req[r].todo /\ q.next = req[r].next /\ q.cut = req[r].cut
      /\ q.pulled = req[r].pulled
  BY <1>0, <1>2, <1>3 DEF InHire, RequestType, Pcs
<1> HIDE DEF q
<1>5. WellFormed(q)
  BY <1>0, <1>1, <1>2, <1>4 DEF IInv, InHire, WellFormed, AfterVacancy, AfterApplication, AfterOffer
<1>6. HoldsItsRows(q)
  BY <1>1, <1>2, <1>3, <1>4
     DEF IInv, HoldsItsRows, AfterVacancy, AfterApplication, AfterOffer, AfterEmail
<1>7. ok => ChecksStand(q)
  BY <1>0, <1>1, <1>2, <1>4
        DEF IInv, InHire, ChecksStand, AfterVacancy, AfterApplication, AfterOffer, AfterEmail,
            Finalist
<1>. QED
  BY <1>1, <1>3, <1>4, <1>5, <1>6, <1>7, ProceedStep

(* The unlocked read of the offer in advanceToHire.                        *)
LEMMA ReadOfferToAdvanceStep ==
  ASSUME IInv, NEW r \in Requests, ReadOfferToAdvance(r)
  PROVE  IInv'
<1> DEFINE a == req[r].app
           ok == offer[a] # "NONE" /\ isOfferReadyToHire(a)
           q == [req[r] EXCEPT !.pc = "commit"]
<1>1. Proceed(r, ok, q) /\ req[r].op = "toHire" /\ req[r].pc = "offer"
  BY DEF ReadOfferToAdvance, At
<1>2. InHire(r)
  BY <1>1, RequestInHire
<1>3. Wants(r) = {} /\ Wants(r) \subseteq Rows
  BY <1>1, <1>2, PipelineConstants
     DEF InHire, Wants, Rows, VacancyRow, ApplicationRow, OfferRow, CandidateRow, EmailKey
<1>4. /\ q \in RequestType
      /\ q.op = req[r].op /\ q.pc = "commit" /\ q.app = req[r].app
      /\ q.vac = req[r].vac /\ q.mail = req[r].mail /\ q.seats = req[r].seats
      /\ q.held = req[r].held
      /\ q.todo = req[r].todo /\ q.next = req[r].next /\ q.cut = req[r].cut
      /\ q.pulled = req[r].pulled
  BY <1>2, <1>3 DEF InHire, RequestType, Pcs
<1> HIDE DEF q
<1>5. WellFormed(q)
  BY <1>1, <1>2, <1>4 DEF IInv, InHire, WellFormed, AfterVacancy, AfterApplication, AfterOffer
<1>6. HoldsItsRows(q)
  BY <1>1, <1>2, <1>3, <1>4
     DEF IInv, HoldsItsRows, AfterVacancy, AfterApplication, AfterOffer, AfterEmail
<1>7. ok => ChecksStand(q)
  BY <1>1, <1>2, <1>4
     DEF IInv, InHire, ChecksStand, AfterVacancy, AfterApplication, AfterOffer, AfterEmail
<1>. QED
  BY <1>1, <1>3, <1>4, <1>5, <1>6, <1>7, ProceedStep

(* SELECT ... FOR UPDATE on the offer and its checks.                      *)
LEMMA LockOfferStep ==
  ASSUME IInv, NEW r \in Requests, LockOffer(r)
  PROVE  IInv'
<1> DEFINE a == req[r].app
           ok == offer[a] # "NONE" /\ isOfferReadyToHire(a) /\ isContractCompleteForHire(a)
           q == [req[r] EXCEPT !.pc = "employee", !.held = @ \union {OfferRow(a)}]
<1>1. Proceed(r, ok, q) /\ req[r].op = "hire" /\ req[r].pc = "offer"
  BY DEF LockOffer, At
<1>2. InHire(r)
  BY <1>1, RequestInHire
<1>3. Wants(r) = {OfferRow(a)} /\ Wants(r) \subseteq Rows
  BY <1>1, <1>2, PipelineConstants
     DEF InHire, Wants, Rows, VacancyRow, ApplicationRow, OfferRow, CandidateRow, EmailKey
<1>4. /\ q \in RequestType
      /\ q.op = req[r].op /\ q.pc = "employee" /\ q.app = req[r].app
      /\ q.vac = req[r].vac /\ q.mail = req[r].mail /\ q.seats = req[r].seats
      /\ q.held = req[r].held \union Wants(r)
      /\ q.todo = req[r].todo /\ q.next = req[r].next /\ q.cut = req[r].cut
      /\ q.pulled = req[r].pulled
  BY <1>2, <1>3 DEF InHire, RequestType, Pcs
<1> HIDE DEF q
<1>5. WellFormed(q)
  BY <1>1, <1>2, <1>4 DEF IInv, InHire, WellFormed, AfterVacancy, AfterApplication, AfterOffer
<1>6. HoldsItsRows(q)
  BY <1>1, <1>2, <1>3, <1>4
     DEF IInv, HoldsItsRows, AfterVacancy, AfterApplication, AfterOffer, AfterEmail
<1>7. ok => ChecksStand(q)
  BY <1>1, <1>2, <1>4
     DEF IInv, InHire, ChecksStand, AfterVacancy, AfterApplication, AfterOffer, AfterEmail
<1>. QED
  BY <1>1, <1>3, <1>4, <1>5, <1>6, <1>7, ProceedStep

(* The insert of the employee.                                             *)
LEMMA CreateEmployeeStep ==
  ASSUME IInv, NEW r \in Requests, CreateEmployee(r)
  PROVE  IInv'
<1> DEFINE a == req[r].app
           ok == req[r].mail \notin Taken
           q == [req[r] EXCEPT !.pc = "candidate", !.held = @ \union {EmailKey(req[r].mail)}]
<1>1. Proceed(r, ok, q) /\ req[r].pc = "employee"
  BY DEF CreateEmployee, At
<1>2. InHire(r)
  BY <1>1, RequestInHire
<1>0. req[r].mail \in Emails
  BY <1>1 DEF IInv, WellFormed, AfterApplication, AfterVacancy
<1>3. Wants(r) = {EmailKey(req[r].mail)} /\ Wants(r) \subseteq Rows
  BY <1>0, <1>1, <1>2, PipelineConstants
     DEF InHire, Wants, Rows, VacancyRow, ApplicationRow, OfferRow, CandidateRow, EmailKey
<1>4. /\ q \in RequestType
      /\ q.op = req[r].op /\ q.pc = "candidate" /\ q.app = req[r].app
      /\ q.vac = req[r].vac /\ q.mail = req[r].mail /\ q.seats = req[r].seats
      /\ q.held = req[r].held \union Wants(r)
      /\ q.todo = req[r].todo /\ q.next = req[r].next /\ q.cut = req[r].cut
      /\ q.pulled = req[r].pulled
  BY <1>2, <1>3 DEF InHire, RequestType, Pcs
<1> HIDE DEF q
<1>5. WellFormed(q)
  BY <1>1, <1>2, <1>4 DEF IInv, InHire, WellFormed, AfterVacancy, AfterApplication, AfterOffer
<1>6. HoldsItsRows(q)
  BY <1>1, <1>2, <1>3, <1>4
     DEF IInv, HoldsItsRows, AfterVacancy, AfterApplication, AfterOffer, AfterEmail
<1>7. ok => ChecksStand(q)
  BY <1>1, <1>2, <1>4
     DEF IInv, InHire, ChecksStand, AfterVacancy, AfterApplication, AfterOffer, AfterEmail
<1>. QED
  BY <1>1, <1>3, <1>4, <1>5, <1>6, <1>7, ProceedStep

(* The update of the candidate.                                            *)
LEMMA UpdateCandidateStep ==
  ASSUME IInv, NEW r \in Requests, UpdateCandidate(r)
  PROVE  IInv'
<1> DEFINE a == req[r].app
           ok == TRUE
           q == [req[r] EXCEPT !.pc = "siblings", !.held = @ \union {CandidateRow(CandidateOf[a])}]
<1>1. Proceed(r, ok, q) /\ req[r].pc = "candidate"
  BY DEF UpdateCandidate, At
<1>2. InHire(r)
  BY <1>1, RequestInHire
<1>3. Wants(r) = {CandidateRow(CandidateOf[a])} /\ Wants(r) \subseteq Rows
  BY <1>1, <1>2, PipelineConstants
     DEF InHire, Wants, Rows, VacancyRow, ApplicationRow, OfferRow, CandidateRow, EmailKey
<1>4. /\ q \in RequestType
      /\ q.op = req[r].op /\ q.pc = "siblings" /\ q.app = req[r].app
      /\ q.vac = req[r].vac /\ q.mail = req[r].mail /\ q.seats = req[r].seats
      /\ q.held = req[r].held \union Wants(r)
      /\ q.todo = req[r].todo /\ q.next = req[r].next /\ q.cut = req[r].cut
      /\ q.pulled = req[r].pulled
  BY <1>2, <1>3 DEF InHire, RequestType, Pcs
<1> HIDE DEF q
<1>5. WellFormed(q)
  BY <1>1, <1>2, <1>4 DEF IInv, InHire, WellFormed, AfterVacancy, AfterApplication, AfterOffer
<1>6. HoldsItsRows(q)
  BY <1>1, <1>2, <1>3, <1>4
     DEF IInv, HoldsItsRows, AfterVacancy, AfterApplication, AfterOffer, AfterEmail
<1>7. ok => ChecksStand(q)
  BY <1>1, <1>2, <1>4
     DEF IInv, InHire, ChecksStand, AfterVacancy, AfterApplication, AfterOffer, AfterEmail
<1>. QED
  BY <1>1, <1>3, <1>4, <1>5, <1>6, <1>7, ProceedStep

(* The unlocked read of the other finalists: all of them are of the same   *)
(* vacancy and none is hired.                                              *)
LEMMA ReadSiblingsStep ==
  ASSUME IInv, NEW r \in Requests, ReadSiblings(r)
  PROVE  IInv'
<1> DEFINE found == OtherFinalists(req[r].app)
<1>1. UNCHANGED tables /\ req[r].pc = "siblings"
  BY DEF ReadSiblings
<1>2. InHire(r) /\ RowsDisjoint
  BY <1>1, RequestInHire DEF IInv
<1>3. PICK n \in (IF found = {} THEN {NoRow} ELSE found) :
        req' = [req EXCEPT ![r].pc = "discard", ![r].todo = found, ![r].next = n,
                           ![r].spared = {b \in found : candStatus[CandidateOf[b]] = "HIRED"}]
  BY DEF ReadSiblings
<1> DEFINE q == [req[r] EXCEPT !.pc = "discard", !.todo = found, !.next = n,
                               !.spared = {b \in found : candStatus[CandidateOf[b]] = "HIRED"}]
<1>4. req' = [req EXCEPT ![r] = q]
  BY <1>2, <1>3 DEF InHire, IInv, TypeOK
<1>5. \A b \in found : /\ b \in Apps /\ b # req[r].app /\ VacancyOf[b] = req[r].vac
                       /\ b \notin hirings
  BY <1>2 DEF OtherFinalists, InHire, IInv, HiredIffRow, Finalist
<1>6. /\ q \in RequestType
      /\ q.op = req[r].op /\ q.pc = "discard" /\ q.app = req[r].app /\ q.vac = req[r].vac
      /\ q.mail = req[r].mail
      /\ q.seats = req[r].seats /\ q.held = req[r].held /\ q.todo = found /\ q.next = n
      /\ q.cut = req[r].cut /\ q.pulled = req[r].pulled
  BY <1>2, <1>5 DEF InHire, RequestType, Pcs
<1> HIDE DEF q, found
<1>7. WellFormed(q)
  BY <1>1, <1>2, <1>6 DEF IInv, InHire, WellFormed, AfterVacancy, AfterApplication, AfterOffer
<1>8. HoldsItsRows(q)
  BY <1>1, <1>2, <1>6
     DEF IInv, HoldsItsRows, AfterVacancy, AfterApplication, AfterOffer, AfterEmail
<1>9. ChecksStand(q)
  BY <1>1, <1>2, <1>5, <1>6
     DEF IInv, InHire, ChecksStand, AfterVacancy, AfterApplication, AfterOffer, AfterEmail
<1>. QED
  BY <1>1, <1>2, <1>4, <1>6, <1>7, <1>8, <1>9, RequestMoves DEF RowsDisjoint

(* The update of one of them.                                              *)
LEMMA DiscardSiblingStep ==
  ASSUME IInv, NEW r \in Requests, DiscardSibling(r)
  PROVE  IInv'
<1> DEFINE b == req[r].next
           left == req[r].todo \ {b}
<1>1. UNCHANGED tables /\ req[r].pc = "discard" /\ req[r].todo # {} /\ CanProceed(r)
  BY DEF DiscardSibling
<1>2. InHire(r) /\ RowsDisjoint
  BY <1>1, RequestInHire DEF IInv
<1> DEFINE q(n) == [req[r] EXCEPT !.held = @ \union Wants(r), !.todo = left, !.next = n,
                                  !.cut = @ \union {b},
                                  !.pulled = IF offer[b] \in LiveOffer
                                             THEN @ \union {b} ELSE @]
<1>3. PICK n \in (IF left = {} THEN {NoRow} ELSE left) : req' = [req EXCEPT ![r] = q(n)]
  BY DEF DiscardSibling
<1>5. b \in req[r].todo /\ b \in Apps /\ left \subseteq Apps
  BY <1>1, <1>2 DEF IInv, WellFormed, InHire, RequestType
<1>6. Wants(r) \subseteq Rows
  BY <1>1, <1>2, <1>5, PipelineConstants
     DEF Wants, Rows, ApplicationRow, OfferRow, CandidateRow
<1>7. /\ q(n) \in RequestType
      /\ q(n).op = req[r].op /\ q(n).pc = "discard"
      /\ q(n).app = req[r].app /\ q(n).vac = req[r].vac /\ q(n).mail = req[r].mail
      /\ q(n).seats = req[r].seats /\ q(n).held = req[r].held \union Wants(r) /\ q(n).todo = left
      /\ q(n).next = n /\ q(n).cut = req[r].cut \union {b}
      /\ q(n).pulled \subseteq req[r].pulled \union {b}
  BY <1>1, <1>2, <1>5, <1>6 DEF InHire, RequestType, Pcs
<1> HIDE DEF q
<1>8. WellFormed(q(n))
  BY <1>1, <1>2, <1>5, <1>7 DEF IInv, InHire, WellFormed, AfterVacancy, AfterApplication, AfterOffer
<1>9. HoldsItsRows(q(n))
  BY <1>1, <1>2, <1>7
     DEF IInv, HoldsItsRows, AfterVacancy, AfterApplication, AfterOffer, AfterEmail
<1>10. ChecksStand(q(n))
  BY <1>1, <1>2, <1>5, <1>7
     DEF IInv, InHire, ChecksStand, AfterVacancy, AfterApplication, AfterOffer, AfterEmail
<1>11. \A s \in Requests \ {r} : q(n).held \intersect req[s].held = {}
  BY <1>1, <1>2, <1>7, WaitersAreDisjoint
<1>. QED
  BY <1>1, <1>3, <1>7, <1>8, <1>9, <1>10, <1>11, RequestMoves

(* Steps that change the tables.                                           *)
LEMMA RequestsEndOrStay ==
  ASSUME IInv, req' \in [Requests -> RequestType],
         \A s \in Requests : req'[s] = req[s] \/ req'[s] = Idle
  PROVE  /\ \A s \in Requests : (WellFormed(req[s]) /\ HoldsItsRows(req[s]))'
         /\ RowsDisjoint'
<1>1. ASSUME NEW s \in Requests
      PROVE  WellFormed(req'[s]) /\ HoldsItsRows(req'[s])
  BY IdleOK DEF IInv
<1>2. RowsDisjoint'
  BY IdleOK DEF IInv, RowsDisjoint
<1>. QED
  BY <1>1, <1>2 DEF WellFormed, HoldsItsRows

(* A row nobody has locked is not the application, or the offer, of a hire *)
(* that has passed it.                                                     *)
LEMMA UnlockedRows ==
  ASSUME IInv, NEW a \in Apps
  PROVE  /\ Unlocked(ApplicationRow(a)) =>
              \A s \in Requests : req[s].pc \in AfterApplication => req[s].app # a
         /\ Unlocked(OfferRow(a)) =>
              \A s \in Requests : req[s].pc \in AfterOffer => req[s].app # a
BY DEF IInv, HoldsItsRows, Unlocked

Kept(s) ==
  /\ req[s].pc \in AfterApplication => stage'[req[s].app] = stage[req[s].app]
  /\ req[s].pc \in AfterOffer =>
       /\ offer'[req[s].app] = offer[req[s].app]
       /\ req[s].app \in letter' <=> req[s].app \in letter
       /\ req[s].app \in contract' <=> req[s].app \in contract

(* The e-mails that requests in flight count on.                           *)
MailsKept ==
  /\ renamed \subseteq renamed'
  /\ \A c \in Candidates \ renamed' : mail'[c] = mail[c]
  /\ \A a \in hirings : CandidateOf[a] \notin renamed' => workMail'[a] = workMail[a]
  /\ \A s \in Requests : req[s].pc \in AfterEmail => req[s].mail \notin Taken'

LEMMA SameMails ==
  ASSUME IInv, UNCHANGED <<mailVars, hirings>>
  PROVE  MailsKept
BY DEF IInv, ChecksStand, MailsKept, Taken, mailVars

(* A change of e-mail is remembered, and waits for an insert of its address. *)
LEMMA RenamingIsKnown ==
  ASSUME IInv,
         \/ \E c \in Candidates, to \in CandidateStatus, e \in Emails : PatchCandidate(c, to, e)
         \/ \E a \in Apps, e \in Emails : EmployeeRenamed(a, e)
  PROVE  MailsKept
<1>1. ASSUME NEW c \in Candidates, NEW to \in CandidateStatus, NEW e \in Emails,
             PatchCandidate(c, to, e)
      PROVE  MailsKept
  <2>1. Taken' = Taken
    BY <1>1 DEF PatchCandidate, Taken
  <2>. QED
    BY <1>1, <2>1 DEF PatchCandidate, MailsKept, IInv, TypeOK, ChecksStand
<1>2. ASSUME NEW a \in Apps, NEW e \in Emails, EmployeeRenamed(a, e)
      PROVE  MailsKept
  <2>1. Taken' \subseteq Taken \union {e}
    BY <1>2 DEF EmployeeRenamed, Taken, IInv, TypeOK
  <2>2. ASSUME NEW s \in Requests, req[s].pc \in AfterEmail PROVE req[s].mail \notin Taken'
    BY <1>2, <2>1, <2>2 DEF EmployeeRenamed, Unlocked, IInv, HoldsItsRows, ChecksStand
  <2>. QED
    BY <1>2, <2>2 DEF EmployeeRenamed, MailsKept, IInv, TypeOK
<1>. QED
  BY <1>1, <1>2

(* Steps that hire nobody and respect the rows the others hold.            *)
LEMMA QuietStep ==
  ASSUME IInv, TypeOK', UNCHANGED <<vacStatus, headcount, filled, hirings>>, MailsKept,
         \A s \in Requests : req'[s] = req[s] \/ req'[s] = Idle,
         \A a \in Apps : stage'[a] = "HIRED" <=> stage[a] = "HIRED",
         \A s \in Requests : req'[s] = req[s] => Kept(s)
  PROVE  IInv'
<1>1. /\ \A s \in Requests : (WellFormed(req[s]) /\ HoldsItsRows(req[s]))'
      /\ RowsDisjoint'
  BY RequestsEndOrStay DEF TypeOK
<1>2. ASSUME NEW s \in Requests PROVE ChecksStand(req[s])'
  <2>1. CASE req'[s] = Idle
    BY <2>1 DEF ChecksStand, Idle, AfterVacancy, AfterApplication, AfterOffer, AfterEmail
  <2>2. CASE req'[s] = req[s]
    <3>1. ChecksStand(req[s]) /\ Kept(s)
      BY <2>2 DEF IInv
    <3>. QED
      BY <2>2, <3>1
         DEF ChecksStand, Kept, MailsKept, isOfferReadyToHire, isContractCompleteForHire
  <2>. QED
    BY <2>1, <2>2
<1>3. (HiredIffRow /\ MailsStand /\ FilledCountIsHirings)'
  BY DEF IInv, TypeOK, HiredIffRow, MailsStand, MailsKept, FilledCountIsHirings, HiredIn
<1>. QED
  BY <1>1, <1>2, <1>3 DEF IInv

(* A move neither leaves nor enters HIRED.                                 *)
LEMMA MoveIsNotHire ==
  ASSUME TypeOK, NEW a \in Apps, NEW to, CanMove(a, to)
  PROVE  to # "HIRED" /\ stage[a] # "HIRED"
BY DEF CanMove, TypeOK, ALLOWED_STAGE_TRANSITIONS, Stages, Finalist

(* Short transactions keep the invariant.                                  *)
LEMMA ShortStep ==
  ASSUME IInv, ShortTransaction
  PROVE  IInv'
<1>1. TypeOK' /\ TypeOK
  BY ShortType DEF IInv
<1>2. /\ UNCHANGED <<vacStatus, headcount, filled, hirings, req>>
      /\ \A a \in Apps : stage'[a] = "HIRED" <=> stage[a] = "HIRED"
      /\ \A s \in Requests : Kept(s)
  <2> DEFINE Quiet == /\ UNCHANGED <<vacStatus, headcount, filled, hirings, req>>
                      /\ \A b \in Apps : stage'[b] = "HIRED" <=> stage[b] = "HIRED"
                      /\ \A s \in Requests : Kept(s)
  <2> USE <1>1 DEF vacancyVars, paperVars, peopleVars, mailVars
  <2>a. ASSUME NEW a \in Apps, stage[a] = "NONE"
        PROVE  \A s \in Requests : req[s].pc \in AfterApplication => req[s].app # a
    BY <2>a DEF IInv, ChecksStand, Finalist
  <2>1. ASSUME NEW a \in Apps, Apply(a) PROVE Quiet
    BY <2>1, <2>a DEF Apply, Kept, TypeOK
  <2>2. ASSUME NEW a \in Apps, CompleteInterview(a) PROVE Quiet
    BY <2>2 DEF CompleteInterview, Kept
  <2>3. ASSUME NEW a \in Apps, NEW to \in Stages, Move(a, to) PROVE Quiet
    BY <2>3, UnlockedRows, MoveIsNotHire DEF Move, Kept, TypeOK
  <2>b. ASSUME NEW a \in Apps, NEW to, WriteOffer(a, to), UNCHANGED owesMove PROVE Quiet
    BY <2>b, UnlockedRows DEF WriteOffer, Kept, TypeOK
  <2>4. ASSUME NEW a \in Apps, Send(a) PROVE Quiet
    BY <2>4, UnlockedRows DEF Send, WriteOffer, Kept, TypeOK
  <2>5. ASSUME NEW a \in Apps, Withdraw(a) PROVE Quiet
    BY <2>5, <2>b DEF Withdraw
  <2>6. ASSUME NEW a \in Apps, NEW to \in OfferStatus, Respond(a, to) PROVE Quiet
    BY <2>6, <2>b DEF Respond
  <2>7. ASSUME NEW a \in Apps, SendMove(a) PROVE Quiet
    BY <2>7, UnlockedRows, MoveIsNotHire DEF SendMove, Kept, TypeOK
  <2>8. ASSUME NEW a \in Apps, SendLost(a) PROVE Quiet
    BY <2>8 DEF SendLost, Kept
  <2>9. ASSUME NEW a \in Apps, ReadOffer(a) PROVE Quiet
    BY <2>9, <2>b DEF ReadOffer
  <2>10. ASSUME NEW a \in Apps, ExpiryPasses(a) PROVE Quiet
    BY <2>10 DEF ExpiryPasses, Kept
  <2>11. ASSUME NEW a \in Apps, LetterCompleted(a) PROVE Quiet
    BY <2>11, UnlockedRows DEF LetterCompleted, Kept
  <2>12. ASSUME NEW a \in Apps, LetterRemoved(a) PROVE Quiet
    BY <2>12, UnlockedRows DEF LetterRemoved, Kept
  <2>13. ASSUME NEW a \in Apps, ContractChanges(a) PROVE Quiet
    BY <2>13, UnlockedRows DEF ContractChanges, Kept
  <2>14. ASSUME NEW c \in Candidates, NEW to \in CandidateStatus, NEW e \in Emails,
                PatchCandidate(c, to, e)
         PROVE  Quiet
    BY <2>14 DEF PatchCandidate, Kept
  <2>15. ASSUME NEW p \in Positions, EmployeeLeaves(p) PROVE Quiet
    BY <2>15 DEF EmployeeLeaves, Kept
  <2>16. ASSUME NEW a \in Apps, NEW e \in Emails, EmployeeRenamed(a, e) PROVE Quiet
    BY <2>16 DEF EmployeeRenamed, Kept
  <2>. QED
    BY ONLY ShortTransaction, <2>1, <2>2, <2>3, <2>4, <2>5, <2>6, <2>7, <2>8, <2>9, <2>10,
       <2>11, <2>12, <2>13, <2>14, <2>15, <2>16 DEF ShortTransaction
<1>3. MailsKept
  <2>1. \/ UNCHANGED mailVars
        \/ \E c \in Candidates, to \in CandidateStatus, e \in Emails : PatchCandidate(c, to, e)
        \/ \E a \in Apps, e \in Emails : EmployeeRenamed(a, e)
    BY DEF ShortTransaction, Apply, CompleteInterview, Move, Send, Withdraw, Respond, SendMove,
           SendLost, ReadOffer, ExpiryPasses, LetterCompleted, LetterRemoved, ContractChanges,
           EmployeeLeaves, WriteOffer, peopleVars
  <2>. QED
    BY <1>2, <2>1, SameMails, RenamingIsKnown
<1>. QED
  BY <1>1, <1>2, <1>3, QuietStep

(* The other requests do not notice the end of one.                        *)
LEMMA FinishType ==
  ASSUME TypeOK, NEW r \in Requests, Finish(r)
  PROVE  /\ req' \in [Requests -> RequestType]
         /\ req'[r] = Idle
         /\ \A s \in Requests \ {r} : req'[s] = req[s]
BY IdleType DEF TypeOK, Finish

(* The insert of an application keeps the invariant.                       *)
LEMMA CreateWriteStep ==
  ASSUME IInv, NEW r \in Requests, CreateWrite(r)
  PROVE  IInv'
<1> DEFINE a == req[r].app
<1>1. a \in Apps
  BY DEF IInv, WellFormed, CreateWrite, At
<1>2. Finish(r) /\ UNCHANGED <<vacancyVars, paperVars, peopleVars, offer, owesMove>>
      /\ stage' = IF stage[a] = "NONE" THEN [stage EXCEPT ![a] = "PENDING_REVIEW"] ELSE stage
  BY DEF CreateWrite, peopleVars, mailVars
<1>3. stage[a] = "NONE" => \A s \in Requests : req[s].pc \in AfterApplication => req[s].app # a
  BY DEF IInv, ChecksStand, Finalist
<1>4. TypeOK'
  BY <1>1, <1>2, FinishType DEF IInv, TypeOK, vacancyVars, paperVars, peopleVars, mailVars, Stages
<1>5. \A s \in Requests : Kept(s)
  BY <1>1, <1>2, <1>3 DEF IInv, TypeOK, Kept, paperVars
<1>6. \A b \in Apps : stage'[b] = "HIRED" <=> stage[b] = "HIRED"
  BY <1>1, <1>2 DEF IInv, TypeOK
<1>. QED
  BY <1>2, <1>4, <1>5, <1>6, FinishType, SameMails, QuietStep
  DEF IInv, vacancyVars, peopleVars, mailVars

(* The insert of an offer keeps the invariant.                             *)
LEMMA OfferInsertStep ==
  ASSUME IInv, NEW r \in Requests, OfferInsert(r)
  PROVE  IInv'
<1> DEFINE a == req[r].app
<1>1. a \in Apps
  BY DEF IInv, WellFormed, OfferInsert, At
<1>2. Finish(r) /\ UNCHANGED <<vacancyVars, paperVars, peopleVars, stage, owesMove>>
      /\ offer' = IF offer[a] = "NONE" THEN [offer EXCEPT ![a] = "DRAFT"] ELSE offer
  BY DEF OfferInsert, peopleVars, mailVars
<1>4. TypeOK'
  BY <1>1, <1>2, FinishType
  DEF IInv, TypeOK, vacancyVars, paperVars, peopleVars, mailVars, OfferStatus
<1>5. \A s \in Requests : Kept(s)
  BY <1>1, <1>2 DEF IInv, TypeOK, ChecksStand, Kept, paperVars
<1>. QED
  BY <1>2, <1>4, <1>5, FinishType, SameMails, QuietStep
  DEF IInv, vacancyVars, peopleVars, mailVars

(* The write of a sent or signed letter waits for the hire that holds the  *)
(* offer.                                                                  *)
LEMMA LetterWriteStep ==
  ASSUME IInv, NEW r \in Requests, LetterWrite(r)
  PROVE  IInv'
<1> DEFINE a == req[r].app
<1>1. a \in Apps /\ Wants(r) = {OfferRow(a)}
  BY DEF IInv, WellFormed, LetterWrite, At, Wants
<1>2. /\ Finish(r) /\ CanProceed(r)
      /\ UNCHANGED <<vacancyVars, peopleVars, stage, overdue, contract, interviewed, owesMove>>
  BY DEF LetterWrite
<1>3. /\ letter' \in {letter \union {a}, letter \ {a}}
      /\ \/ offer' = offer
         \/ \E to \in {"SENT", "ACCEPTED"} : offer' = [offer EXCEPT ![a] = to]
  BY DEF LetterWrite
<1>4. TypeOK'
  BY <1>1, <1>2, <1>3, FinishType DEF IInv, TypeOK, vacancyVars, peopleVars, mailVars, OfferStatus
<1>5. \A s \in Requests \ {r} : req[s].pc \in AfterOffer => req[s].app # a
  BY <1>1, <1>2 DEF IInv, HoldsItsRows, CanProceed, Blocks
<1>6. ASSUME NEW s \in Requests \ {r} PROVE Kept(s)
  <2>1. offer \in [Apps -> OfferStatus]
    BY DEF IInv, TypeOK
  <2>2. stage' = stage /\ contract' = contract
    BY <1>2
  <2>3. CASE req[s].pc \in AfterOffer
    <3>1. req[s].app # a /\ req[s].app \in Apps
      BY <1>5, <2>3, RequestInHire DEF InHire, AfterOffer
    <3>2. req[s].app \in letter' <=> req[s].app \in letter
      BY <1>3, <3>1
    <3>3. offer'[req[s].app] = offer[req[s].app]
      BY <1>3, <2>1, <3>1
    <3>. QED
      BY <2>2, <3>2, <3>3 DEF Kept
  <2>. QED
    BY <2>2, <2>3 DEF Kept
<1>7. req'[r] # req[r]
  BY <1>2, FinishType DEF IInv, LetterWrite, At, Idle
<1>. QED
  BY <1>2, <1>4, <1>6, <1>7, FinishType, SameMails, QuietStep
  DEF IInv, vacancyVars, peopleVars, mailVars

(* Two hires past their vacancy row are about different vacancies, and so  *)
(* about different applications.                                           *)
LEMMA OnePerVacancy ==
  ASSUME IInv, NEW r \in Requests, NEW s \in Requests, r # s,
         req[r].pc \in AfterVacancy, req[s].pc \in AfterVacancy
  PROVE  /\ req[r].vac # req[s].vac /\ req[r].app # req[s].app
         /\ req[r].pc \in AfterEmail /\ req[s].pc \in AfterEmail =>
              req[r].mail # req[s].mail
<1>1. InHire(r) /\ InHire(s)
  BY RequestInHire DEF AfterVacancy
<1>. QED
  BY <1>1 DEF IInv, RowsDisjoint, HoldsItsRows, InHire

(* The write of a vacancy waits for the hire that holds it.                *)
LEMMA PatchVacancyWriteStep ==
  ASSUME IInv, NEW r \in Requests, PatchVacancyWrite(r)
  PROVE  IInv'
<1> DEFINE v == req[r].vac
<1>1. v \in Vacancies /\ req[r].to \in VacancyStatus /\ Wants(r) = {VacancyRow(v)}
  BY DEF IInv, WellFormed, PatchVacancyWrite, At, Wants
<1>2. /\ Finish(r) /\ CanProceed(r)
      /\ vacStatus' = [vacStatus EXCEPT ![v] = req[r].to]
      /\ UNCHANGED <<headcount, filled, occupants, paperVars, peopleVars, stage, offer, owesMove>>
  BY DEF PatchVacancyWrite
<1>3. TypeOK'
  BY <1>1, <1>2, FinishType DEF IInv, TypeOK, paperVars, peopleVars, mailVars
<1>4. /\ \A s \in Requests : (WellFormed(req[s]) /\ HoldsItsRows(req[s]))'
      /\ RowsDisjoint'
  BY <1>2, <1>3, FinishType, RequestsEndOrStay DEF IInv, TypeOK
<1>5. ASSUME NEW s \in Requests PROVE ChecksStand(req[s])'
  <2>1. CASE s = r
    BY <2>1, <1>2, FinishType
       DEF IInv, ChecksStand, Idle, AfterVacancy, AfterApplication, AfterOffer, AfterEmail
  <2>2. CASE s # r
    <3>1. req'[s] = req[s] /\ ChecksStand(req[s])
      BY <2>2, <1>2, FinishType DEF IInv
    <3>2. req[s].pc \in AfterVacancy => req[s].vac # v
      BY <2>2, <1>1, <1>2 DEF IInv, HoldsItsRows, CanProceed, Blocks
    <3>. QED
      BY <1>1, <1>2, <3>1, <3>2
         DEF IInv, TypeOK, ChecksStand, Taken, isOfferReadyToHire, isContractCompleteForHire,
             paperVars, peopleVars, mailVars
  <2>. QED
    BY <2>1, <2>2
<1>6. (HiredIffRow /\ MailsStand /\ FilledCountIsHirings)'
  BY <1>2 DEF IInv, HiredIffRow, MailsStand, FilledCountIsHirings, HiredIn, peopleVars, mailVars
<1>. QED
  BY <1>3, <1>4, <1>5, <1>6 DEF IInv

(* The commit of advanceToHire keeps the invariant.                        *)
LEMMA CommitToHireStep ==
  ASSUME IInv, NEW r \in Requests, CommitToHire(r)
  PROVE  IInv'
<1> DEFINE a == req[r].app
           v == req[r].vac
<1>1. req[r].op = "toHire" /\ req[r].pc = "commit"
  BY DEF CommitToHire, At
<1>2. InHire(r)
  BY <1>1, RequestInHire
<1>3. /\ Finish(r)
      /\ stage' = [stage EXCEPT ![a] = "TO_HIRE"]
      /\ headcount' = [headcount EXCEPT ![v] = req[r].seats]
      /\ UNCHANGED <<vacStatus, filled, occupants, paperVars, peopleVars, offer, owesMove>>
  BY DEF CommitToHire
<1>4. /\ stage[a] = "OFFER" /\ filled[v] < req[r].seats /\ headcount[v] <= req[r].seats
      /\ req[r].seats \in Nat
  BY <1>1, <1>2 DEF IInv, ChecksStand, AfterVacancy, AfterApplication, InHire, RequestType
<1>5. TypeOK'
  BY <1>2, <1>3, <1>4, FinishType DEF IInv, TypeOK, InHire, Stages, paperVars, peopleVars, mailVars
<1>6. /\ \A s \in Requests : (WellFormed(req[s]) /\ HoldsItsRows(req[s]))'
      /\ RowsDisjoint'
  BY <1>3, <1>5, FinishType, RequestsEndOrStay DEF IInv, TypeOK
<1>7. ASSUME NEW s \in Requests PROVE ChecksStand(req[s])'
  <2>1. CASE s = r
    BY <2>1, <1>3, FinishType
       DEF IInv, ChecksStand, Idle, AfterVacancy, AfterApplication, AfterOffer, AfterEmail
  <2>2. CASE s # r
    <3>1. req'[s] = req[s] /\ ChecksStand(req[s])
      BY <2>2, <1>3, FinishType DEF IInv
    <3>2. req[s].pc \in AfterVacancy => req[s].vac # v /\ req[s].app # a
      BY <2>2, <1>1, OnePerVacancy DEF AfterVacancy
    <3>. QED
      BY <1>2, <1>3, <3>1, <3>2
         DEF IInv, TypeOK, InHire, ChecksStand, Taken, isOfferReadyToHire,
             isContractCompleteForHire, paperVars, peopleVars, mailVars, AfterVacancy, AfterApplication
  <2>. QED
    BY <2>1, <2>2
<1>8. (HiredIffRow /\ MailsStand)'
  BY <1>2, <1>3, <1>4
     DEF IInv, TypeOK, InHire, HiredIffRow, MailsStand, peopleVars, mailVars
<1>9. FilledCountIsHirings'
  <2>1. ASSUME NEW w \in Vacancies
        PROVE  filled'[w] = Cardinality(HiredIn(w)') /\ filled'[w] <= headcount'[w]
    <3>1. HiredIn(w)' = HiredIn(w) /\ filled' = filled
      BY <1>3 DEF HiredIn, peopleVars, mailVars
    <3>2. headcount'[w] = IF w = v THEN req[r].seats ELSE headcount[w]
      BY <1>3 DEF IInv, TypeOK
    <3>3. filled[w] \in Nat /\ headcount[w] \in Nat
      BY DEF IInv, TypeOK
    <3>. QED
      BY <1>4, <3>1, <3>2, <3>3 DEF IInv, FilledCountIsHirings
  <2>. QED
    BY <2>1 DEF FilledCountIsHirings
<1>. QED
  BY <1>5, <1>6, <1>7, <1>8, <1>9 DEF IInv

(* The commit of hire keeps the invariant: the other hires in flight are   *)
(* about other vacancies and other people.                                 *)
LEMMA CommitHireStep ==
  ASSUME IInv, NEW r \in Requests, CommitHire(r)
  PROVE  IInv'
<1> DEFINE a == req[r].app
           v == req[r].vac
           c == CandidateOf[a]
           cut == req[r].cut
<1>1. req[r].op = "hire" /\ req[r].pc = "discard" /\ req[r].todo = {}
  BY DEF CommitHire, At
<1>2. InHire(r) /\ PositionOf[v] \in Positions /\ c \in Candidates /\ TypeOK
  BY <1>1, RequestInHire, PipelineConstants DEF InHire, IInv
<1>3. /\ Finish(r)
      /\ headcount' = [headcount EXCEPT ![v] = req[r].seats]
      /\ filled' = [filled EXCEPT ![v] = @ + 1]
      /\ occupants' = [occupants EXCEPT ![PositionOf[v]] = @ + 1]
      /\ stage' = [b \in Apps |-> IF b = a THEN "HIRED"
                                  ELSE IF b \in cut THEN "REJECTED" ELSE stage[b]]
      /\ offer' = [b \in Apps |-> IF b \in req[r].pulled THEN "WITHDRAWN" ELSE offer[b]]
      /\ candStatus' \in [Candidates -> CandidateStatus]
      /\ workMail' = [workMail EXCEPT ![a] = req[r].mail] /\ hirings' = hirings \union {a}
      /\ UNCHANGED <<vacStatus, paperVars, mail, renamed, owesMove>>
  BY <1>2 DEF CommitHire, Hired, TypeOK, CandidateStatus
<1>4. /\ a \notin hirings /\ req[r].mail \in Emails
      /\ c \notin renamed => req[r].mail = FirstMail[c]
      /\ filled[v] < req[r].seats /\ headcount[v] <= req[r].seats /\ req[r].seats \in Nat
      /\ \A b \in cut : b \in Apps /\ b # a /\ VacancyOf[b] = v /\ b \notin hirings
      /\ req[r].pulled \subseteq cut
  BY <1>1, <1>2
     DEF IInv, ChecksStand, WellFormed, AfterVacancy, AfterApplication, AfterEmail, InHire,
         RequestType
<1>5. TypeOK'
  BY <1>2, <1>3, <1>4, FinishType DEF TypeOK, InHire, Stages, OfferStatus, paperVars
<1>6. /\ \A s \in Requests : (WellFormed(req[s]) /\ HoldsItsRows(req[s]))'
      /\ RowsDisjoint'
  BY <1>3, <1>5, FinishType, RequestsEndOrStay DEF IInv, TypeOK
<1>7. ASSUME NEW s \in Requests PROVE ChecksStand(req[s])'
  <2>1. CASE s = r
    BY <2>1, <1>2, <1>3, FinishType
       DEF ChecksStand, Idle, AfterVacancy, AfterApplication, AfterOffer, AfterEmail
  <2>2. CASE s # r
    <3>1. req'[s] = req[s] /\ ChecksStand(req[s]) /\ WellFormed(req[s])
      BY <2>2, <1>2, <1>3, FinishType DEF IInv
    <3>2. CASE req[s].pc \in AfterVacancy
      <4>1. /\ req[s].vac # v /\ req[s].app # a
            /\ req[s].pc \in AfterEmail => req[s].mail # req[r].mail
        BY <2>2, <3>2, <1>1, OnePerVacancy DEF AfterVacancy, AfterEmail
      <4>2. InHire(s)
        BY <3>2, RequestInHire DEF AfterVacancy
      <4>3. req[s].app \notin cut /\ req[s].app \notin req[r].pulled
        BY <1>4, <4>1, <4>2 DEF InHire
      <4>4. /\ stage'[req[s].app] = stage[req[s].app] /\ offer'[req[s].app] = offer[req[s].app]
            /\ filled'[req[s].vac] = filled[req[s].vac]
            /\ headcount'[req[s].vac] = headcount[req[s].vac]
        BY <1>2, <1>3, <4>1, <4>2, <4>3 DEF InHire, TypeOK
      <4>5. \A b \in req[s].todo \union req[s].cut : b \notin hirings'
        BY <1>2, <1>3, <3>1, <4>1 DEF ChecksStand, InHire
      <4>6. Taken' \subseteq Taken \union {req[r].mail}
        BY <1>2, <1>3 DEF Taken, TypeOK, InHire
      <4>. QED
        BY <1>3, <3>1, <4>1, <4>2, <4>4, <4>5, <4>6
           DEF ChecksStand, InHire, isOfferReadyToHire, isContractCompleteForHire, paperVars
    <3>3. CASE req[s].pc \notin AfterVacancy
      BY <3>1, <3>3
         DEF ChecksStand, WellFormed, AfterVacancy, AfterApplication, AfterOffer, AfterEmail
    <3>. QED
      BY <3>2, <3>3
  <2>. QED
    BY <2>1, <2>2
<1>8. HiredIffRow' /\ MailsStand'
  BY <1>2, <1>3, <1>4 DEF IInv, TypeOK, InHire, HiredIffRow, MailsStand
<1>9. FilledCountIsHirings'
  <2>1. ASSUME NEW w \in Vacancies
        PROVE  filled'[w] = Cardinality(HiredIn(w)') /\ filled'[w] <= headcount'[w]
    <3>1. filled[w] = Cardinality(HiredIn(w)) /\ filled[w] <= headcount[w]
          /\ filled[w] \in Nat /\ headcount[w] \in Nat
      BY <1>2 DEF IInv, FilledCountIsHirings, TypeOK
    <3>2. IsFiniteSet(HiredIn(w))
      BY <1>2, PipelineConstants, FS_Subset DEF HiredIn, TypeOK
    <3>3. CASE w = v
      <4>1. HiredIn(w)' = HiredIn(w) \union {a} /\ a \notin HiredIn(w)
        BY <1>2, <1>3, <1>4, <3>3 DEF HiredIn, InHire
      <4>2. Cardinality(HiredIn(w)') = Cardinality(HiredIn(w)) + 1
        BY <3>2, <4>1, FS_AddElement
      <4>3. filled'[w] = filled[w] + 1 /\ headcount'[w] = req[r].seats
        BY <1>2, <1>3, <3>3 DEF TypeOK
      <4>. QED
        BY <1>4, <3>1, <3>3, <4>2, <4>3
    <3>4. CASE w # v
      <4>1. HiredIn(w)' = HiredIn(w)
        BY <1>2, <1>3, <3>4 DEF HiredIn, InHire
      <4>2. filled'[w] = filled[w] /\ headcount'[w] = headcount[w]
        BY <1>2, <1>3, <3>4 DEF TypeOK
      <4>. QED
        BY <3>1, <4>1, <4>2
    <3>. QED
      BY <3>3, <3>4
  <2>. QED
    BY <2>1 DEF FilledCountIsHirings
<1>. QED
  BY <1>5, <1>6, <1>7, <1>8, <1>9 DEF IInv

(* The invariant holds at the start ...                                    *)
LEMMA InitIInv == Init => IInv
<1> SUFFICES ASSUME Init PROVE IInv
  OBVIOUS
<1>1. TypeOK
  BY PipelineConstants, IdleType
     DEF Init, TypeOK, VacancyStatus, Stages, OfferStatus, CandidateStatus
<1>2. ASSUME NEW r \in Requests
      PROVE  WellFormed(req[r]) /\ HoldsItsRows(req[r]) /\ ChecksStand(req[r]) /\ req[r].held = {}
  BY IdleOK DEF Init
<1>3. FilledCountIsHirings
  <2>1. \A v \in Vacancies : HiredIn(v) = {} /\ filled[v] = 0 /\ headcount[v] \in Nat
    BY PipelineConstants DEF Init, HiredIn
  <2>. QED
    BY <2>1, FS_EmptySet DEF FilledCountIsHirings
<1>. QED
  BY <1>1, <1>2, <1>3 DEF Init, IInv, RowsDisjoint, HiredIffRow, MailsStand

(* ... and every step keeps it.                                            *)
LEMMA NextIInv == IInv /\ [Next]_vars => IInv'
<1> SUFFICES ASSUME IInv, [Next]_vars PROVE IInv'
  OBVIOUS
<1>1. CASE ShortTransaction
  BY <1>1, ShortStep
<1>2. ASSUME NEW r \in Requests, NewRequest(r) PROVE IInv'
  BY <1>2, NewRequestStep
<1>3. ASSUME NEW r \in Requests, RequestStep(r) PROVE IInv'
  BY <1>3, LockVacancyStep, LockApplicationStep, ReadOfferToAdvanceStep, CommitToHireStep,
     LockOfferStep, CreateEmployeeStep, UpdateCandidateStep, ReadSiblingsStep,
     DiscardSiblingStep, CommitHireStep, CreateWriteStep, OfferInsertStep, LetterWriteStep,
     PatchVacancyWriteStep
  DEF RequestStep, HireStep
<1>4. ASSUME NEW r \in Requests, DeadlockAbort(r) \/ Rollback(r) PROVE IInv'
  BY <1>4, AbortStep DEF DeadlockAbort, Rollback
<1>5. CASE UNCHANGED vars
  <2>1. UNCHANGED tables /\ UNCHANGED req
    BY <1>5 DEF vars
  <2>2. TypeOK' /\ \A r \in Requests : Kept(r)
    BY <2>1 DEF IInv, TypeOK, Kept, tables, vacancyVars, paperVars, peopleVars, mailVars
  <2>. QED
    BY <2>1, <2>2, SameMails, QuietStep DEF tables, vacancyVars, paperVars, peopleVars, mailVars
<1>. QED
  BY <1>1, <1>2, <1>3, <1>4, <1>5 DEF Next

(* Every reachable state satisfies the inductive invariant.                *)
THEOREM Inductive == Spec => []IInv
  BY InitIInv, NextIInv, PTL DEF Spec

(* Every column and every request in flight keeps its type.                *)
THEOREM TypeCorrect == Spec => []TypeOK
  BY Inductive, PTL DEF IInv

(* Vacancy.filledCount is the number of Hiring rows of the vacancy and never *)
(* exceeds its headcount, for any number of requests, vacancies and finalists. *)
THEOREM CountCorrect == Spec => []FilledCountIsHirings
  BY Inductive, PTL DEF IInv

(* An application is HIRED exactly when it has a Hiring row.               *)
THEOREM RowsCorrect == Spec => []HiredIffRow
  BY Inductive, PTL DEF IInv

(* Hires of one vacancy never wait in a circle: whoever holds a row others *)
(* need holds the vacancy row, and only one of them does.                  *)
THEOREM VacancyOrderIsEnough == Spec => []NoDeadlockInVacancy
<1>1. IInv => NoDeadlockInVacancy
  <2> SUFFICES ASSUME IInv, NEW S \in SUBSET Requests, WaitCycle(S), SameVacancy(S)
               PROVE  FALSE
    BY DEF NoDeadlockInVacancy
  <2>1. \A q, r \in Requests : Blocks(q, r) => q # r /\ req[q].pc \in AfterVacancy
    BY DEF Blocks, IInv, WellFormed
  <2>2. PICK q, r \in S : Blocks(q, r)
    BY DEF WaitCycle
  <2>3. PICK p \in S : Blocks(p, q)
    BY DEF WaitCycle
  <2>. QED
    BY <2>1, <2>2, <2>3, OnePerVacancy DEF SameVacancy
<1>. QED
  BY <1>1, Inductive, PTL

Renames == renamed' = renamed \/ \E c \in Candidates : renamed' = renamed \union {c}

(* Only the commits of hire and advanceToHire touch a headcount or hire.   *)
LEMMA OnlyCommits ==
  ASSUME [Next]_vars
  PROVE  \/ UNCHANGED <<headcount, hirings>> /\ Renames
         \/ \E r \in Requests : CommitToHire(r) \/ CommitHire(r)
<1> USE PipelineConstants DEF Renames, vacancyVars, paperVars, peopleVars, mailVars, tables
<1>1. ASSUME ShortTransaction PROVE UNCHANGED <<headcount, hirings>> /\ Renames
  BY <1>1 DEF ShortTransaction, Apply, CompleteInterview, Move, Send, Withdraw, Respond, SendMove,
              SendLost, ReadOffer, ExpiryPasses, LetterCompleted, LetterRemoved,
              ContractChanges, PatchCandidate, EmployeeLeaves, EmployeeRenamed,
              WriteOffer
<1>2. ASSUME NEW r \in Requests, NewRequest(r) PROVE UNCHANGED tables
  BY <1>2 DEF NewRequest, CreateRead, OfferRead, LetterRead, Begin, PatchVacancyRead
<1>3. ASSUME NEW r \in Requests, RequestStep(r)
      PROVE  UNCHANGED <<headcount, hirings, renamed>> \/ CommitToHire(r) \/ CommitHire(r)
  BY <1>3 DEF RequestStep, HireStep, LockVacancy, LockApplication, ReadOfferToAdvance, LockOffer,
              CreateEmployee, UpdateCandidate, ReadSiblings, DiscardSibling, Proceed, CreateWrite,
              OfferInsert, LetterWrite, PatchVacancyWrite
<1>4. ASSUME NEW r \in Requests, DeadlockAbort(r) \/ Rollback(r) PROVE UNCHANGED tables
  BY <1>4 DEF DeadlockAbort, Rollback, Abort
<1>5. CASE UNCHANGED vars
  BY <1>5 DEF vars
<1>. QED
  BY <1>1, <1>2, <1>3, <1>4, <1>5 DEF Next

(* What is known when hire commits.                                        *)
LEMMA CommitFacts ==
  ASSUME IInv, NEW r \in Requests, CommitHire(r)
  PROVE  LET a == req[r].app
             v == req[r].vac
         IN  /\ a \in Apps /\ v = VacancyOf[a] /\ v \in Vacancies
             /\ hirings' = hirings \union {a} /\ a \notin hirings
             /\ headcount' = [headcount EXCEPT ![v] = req[r].seats] /\ req[r].seats \in Nat
             /\ filled[v] < req[r].seats /\ headcount[v] <= req[r].seats
             /\ vacStatus[v] \in Hireable /\ stage[a] \in Finalist
             /\ isOfferReadyToHire(a) /\ isContractCompleteForHire(a)
             /\ CandidateOf[a] \notin renamed => req[r].mail = FirstMail[CandidateOf[a]]
             /\ req[r].mail \notin Taken /\ renamed' = renamed
             /\ \A b \in req[r].cut : VacancyOf[b] = v
             /\ stage' = [b \in Apps |-> IF b = a THEN "HIRED"
                                        ELSE IF b \in req[r].cut THEN "REJECTED" ELSE stage[b]]
<1>1. req[r].op = "hire" /\ req[r].pc = "discard"
  BY DEF CommitHire, At
<1>2. InHire(r)
  BY <1>1, RequestInHire
<1>. QED
  BY <1>1, <1>2
     DEF IInv, ChecksStand, InHire, CommitHire, Hired, AfterVacancy, AfterApplication, AfterOffer,
         AfterEmail, RequestType

(* What is known when advanceToHire commits.                               *)
LEMMA AdvanceFacts ==
  ASSUME IInv, NEW r \in Requests, CommitToHire(r)
  PROVE  LET v == req[r].vac
         IN  /\ v \in Vacancies /\ hirings' = hirings /\ renamed' = renamed
             /\ headcount' = [headcount EXCEPT ![v] = req[r].seats] /\ req[r].seats \in Nat
             /\ headcount[v] <= req[r].seats
             /\ req[r].app \in Apps /\ stage[req[r].app] = "OFFER"
<1>1. req[r].op = "toHire" /\ req[r].pc = "commit"
  BY DEF CommitToHire, At
<1>2. InHire(r)
  BY <1>1, RequestInHire
<1>. QED
  BY <1>1, <1>2
     DEF IInv, ChecksStand, InHire, CommitToHire, AfterVacancy, AfterApplication, AfterOffer,
         AfterEmail, RequestType, peopleVars, mailVars

(* What hire checked under its locks still holds when it commits.          *)
THEOREM CommitChecked == Spec => ChecksHoldAtCommit
<1>1. IInv /\ [Next]_vars => HiresAreChecked
  <2> SUFFICES ASSUME IInv, [Next]_vars, NEW a \in hirings' \ hirings
               PROVE  /\ vacStatus[VacancyOf[a]] \in Hireable
                      /\ stage[a] \in Finalist
                      /\ isOfferReadyToHire(a) /\ isContractCompleteForHire(a)
    BY DEF HiresAreChecked
  <2>1. PICK r \in Requests : CommitHire(r)
    BY OnlyCommits, AdvanceFacts
  <2>. QED
    BY <2>1, CommitFacts
<1>. QED
  BY <1>1, Inductive, PTL DEF Spec, ChecksHoldAtCommit

(* Stages change along the matrix of move or through the hiring service.   *)
THEOREM MatrixFollowed == Spec => StagesFollowMatrix
<1>1. IInv /\ [Next]_vars => StageChangesAllowed
  <2> SUFFICES ASSUME IInv, [Next]_vars PROVE StageChangesAllowed
    OBVIOUS
  <2>a. stage \in [Apps -> Stages]
    BY DEF IInv, TypeOK
  <2>b. stage' = stage => StageChangesAllowed
    BY DEF StageChangesAllowed
  <2> USE DEF vacancyVars, paperVars, peopleVars, mailVars, tables
  <2>1. CASE ShortTransaction
    <3>1. ASSUME NEW a \in Apps, Apply(a) PROVE StageChangesAllowed
      BY <2>a, <3>1 DEF Apply, StageChangesAllowed
    <3>2. ASSUME NEW a \in Apps, NEW to \in Stages, Move(a, to) PROVE StageChangesAllowed
      BY <2>a, <3>2 DEF Move, StageChangesAllowed
    <3>3. ASSUME NEW a \in Apps, SendMove(a) PROVE StageChangesAllowed
      BY <2>a, <3>3 DEF SendMove, StageChangesAllowed
    <3>4. \/ stage' = stage
          \/ \E a \in Apps : Apply(a) \/ SendMove(a) \/ \E to \in Stages : Move(a, to)
      BY <2>1 DEF ShortTransaction, CompleteInterview, Send, Withdraw, Respond, SendLost,
                  ReadOffer, ExpiryPasses, LetterCompleted, LetterRemoved, ContractChanges,
                  PatchCandidate, EmployeeLeaves, EmployeeRenamed, WriteOffer
    <3>. QED
      BY <2>b, <3>1, <3>2, <3>3, <3>4
  <2>2. ASSUME NEW r \in Requests, NewRequest(r) PROVE stage' = stage
    BY <2>2 DEF NewRequest, CreateRead, OfferRead, LetterRead, Begin, PatchVacancyRead
  <2>3. ASSUME NEW r \in Requests, CreateWrite(r) PROVE StageChangesAllowed
    BY <2>a, <2>3 DEF CreateWrite, StageChangesAllowed
  <2>4. ASSUME NEW r \in Requests, CommitToHire(r) PROVE StageChangesAllowed
    BY <2>a, <2>4, AdvanceFacts DEF CommitToHire, StageChangesAllowed
  <2>5. ASSUME NEW r \in Requests, CommitHire(r) PROVE StageChangesAllowed
    BY <2>5, CommitFacts DEF StageChangesAllowed
  <2>6. ASSUME NEW r \in Requests, RequestStep(r)
        PROVE  stage' = stage \/ CreateWrite(r) \/ CommitToHire(r) \/ CommitHire(r)
    BY <2>6 DEF RequestStep, HireStep, LockVacancy, LockApplication, ReadOfferToAdvance,
                LockOffer, CreateEmployee, UpdateCandidate, ReadSiblings, DiscardSibling,
                Proceed, OfferInsert, LetterWrite, PatchVacancyWrite
  <2>7. ASSUME NEW r \in Requests, DeadlockAbort(r) \/ Rollback(r) PROVE stage' = stage
    BY <2>7 DEF DeadlockAbort, Rollback, Abort
  <2>8. CASE UNCHANGED vars
    BY <2>8, <2>b DEF vars
  <2>. QED
    BY <2>b, <2>1, <2>2, <2>3, <2>4, <2>5, <2>6, <2>7, <2>8 DEF Next
<1>. QED
  BY <1>1, Inductive, PTL DEF Spec, StagesFollowMatrix

(* The pipeline implements the staffing promise: hires are final, each takes *)
(* a place within the headcount of its vacancy, and who is hired twice has *)
(* been renamed, as a candidate or as an employee.                         *)
THEOREM Refinement == Spec => ImplementsStaffing
<1>1. Init => Promise!Init
  BY DEF Init, Promise!Init
<1>2. IInv /\ [Next]_vars => [Promise!Next]_<<headcount, hirings, renamed>>
  <2> SUFFICES ASSUME IInv, [Next]_vars
               PROVE  Promise!Next \/ UNCHANGED <<headcount, hirings, renamed>>
    OBVIOUS
  <2>1. headcount \in [Vacancies -> Nat]
    BY DEF IInv, TypeOK
  <2>2. ASSUME NEW r \in Requests, CommitToHire(r)
        PROVE  Promise!Grow(req[r].vac, headcount'[req[r].vac])
    BY <2>1, <2>2, AdvanceFacts DEF Promise!Grow
  <2>3. ASSUME NEW r \in Requests, CommitHire(r)
        PROVE  Promise!Hire(req[r].app, headcount'[VacancyOf[req[r].app]])
    <3> DEFINE a == req[r].app
               v == VacancyOf[a]
    <3>0. /\ a \in Apps /\ v = req[r].vac /\ v \in Vacancies
          /\ headcount' = [headcount EXCEPT ![v] = req[r].seats]
      BY <2>3, CommitFacts
    <3>1. headcount'[v] = req[r].seats /\ headcount' = [headcount EXCEPT ![v] = headcount'[v]]
      BY <2>1, <3>0
    <3>2. Promise!places(v) = filled[v]
      <4>1. Promise!places(v) = Cardinality(HiredIn(v))
        BY DEF HiredIn, Promise!places, Promise!Cardinality, Cardinality
      <4>. QED
        BY <2>3, <4>1, CommitFacts DEF IInv, FilledCountIsHirings
    <3>3. \A b \in hirings : CandidateOf[b] = CandidateOf[a] => CandidateOf[a] \in renamed
      BY <2>3, CommitFacts DEF IInv, MailsStand, Taken
    <3>. QED
      BY <2>3, <3>1, <3>2, <3>3, CommitFacts DEF Promise!Hire
  <2>4. ASSUME UNCHANGED <<headcount, hirings>>, Renames
        PROVE  Promise!Next \/ UNCHANGED <<headcount, hirings, renamed>>
    BY <2>4 DEF Renames, Promise!Next, Promise!Rename
  <2>. QED
    BY <2>2, <2>3, <2>4, OnlyCommits, AdvanceFacts, CommitFacts DEF Promise!Next
<1>. QED
  BY <1>1, <1>2, Inductive, PTL DEF Spec, ImplementsStaffing, Promise!Spec

=============================================================================
