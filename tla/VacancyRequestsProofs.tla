----------------------- MODULE VacancyRequestsProofs -----------------------
(***************************************************************************)
(* Proofs about VacancyRequests for every number of requests, levels and   *)
(* handlers in flight.  Each action either moves one handler and leaves    *)
(* the tables alone (HandlerMoves) or commits a transaction that changes   *)
(* the rows of one request (RowsChange).                                   *)
(***************************************************************************)
EXTENDS VacancyRequests, FiniteSetTheorems, TLAPS

(* The image of a finite set under a function is finite.                   *)
LEMMA ImageFinite ==
  ASSUME NEW S, IsFiniteSet(S), NEW f
  PROVE  IsFiniteSet({f[x] : x \in S})
<1> DEFINE T == {f[x] : x \in S}
           g == [x \in S |-> f[x]]
<1>1. g \in Surjection(S, T)
  BY DEF Surjection
<1>. QED
  BY <1>1, FS_Surjection

(* A handler that has ended is a handler, and claims nothing.              *)
LEMMA IdleOK ==
  /\ Idle \in HandlerType /\ WellFormed(Idle)
  /\ Idle.q = NoRow /\ Idle.held = {} /\ ~Idle.owns /\ Idle.pc = "idle" /\ Idle.op = "none"
BY DEF Idle, HandlerType, WellFormed, NoForm, NoStep, Stepping

(* A handler that has ended has read nothing that could go stale.          *)
LEMMA IdleStands == StepStands(Idle) /\ OwnerStands(Idle)
BY IdleOK DEF StepStands, OwnerStands, Stepping

(* New levels have fresh identities, and there are finitely many.          *)
LEMMA NewStepsFacts ==
  ASSUME NEW q \in Vacs, NEW first \in Nat \ {0}, NEW n \in Nat \ {0}, batches[q] \in Nat
  PROVE  /\ NewSteps(q, first, n) \subseteq StepType
         /\ IsFiniteSet(NewSteps(q, first, n))
         /\ \A x \in NewSteps(q, first, n) : x.batch = batches[q] + 1 /\ x.status = "PENDING"
         /\ \A x, y \in NewSteps(q, first, n) : IdOf(x) = IdOf(y) => x = y
         /\ NewSteps(q, first, n) # {}
<1> DEFINE f == [s \in Int |-> [batch |-> batches[q] + 1, seq |-> s, status |-> "PENDING"]]
           R == first..(first + n - 1)
<1>1. NewSteps(q, first, n) = {f[s] : s \in R}
  BY DEF NewSteps
<1>2. IsFiniteSet(R)
  BY FS_Interval
<1>3. IsFiniteSet(NewSteps(q, first, n))
  <2> HIDE DEF f
  <2>. QED
    BY <1>1, <1>2, ImageFinite
<1>4. first \in R
  OBVIOUS
<1>5. \A x \in NewSteps(q, first, n) :
         \E s \in R : x = [batch |-> batches[q] + 1, seq |-> s, status |-> "PENDING"]
  BY DEF NewSteps
<1>6. NewSteps(q, first, n) # {}
  BY <1>4 DEF NewSteps
<1>7. NewSteps(q, first, n) \subseteq StepType
  BY <1>5 DEF StepType, ApprovalStatus
<1>8. \A x \in NewSteps(q, first, n) : x.batch = batches[q] + 1 /\ x.status = "PENDING"
  BY <1>5
<1>9. \A x, y \in NewSteps(q, first, n) : IdOf(x) = IdOf(y) => x = y
  BY <1>5 DEF IdOf
<1>. QED
  BY <1>3, <1>6, <1>7, <1>8, <1>9

(* Approving a step changes the status of its row and nothing else.        *)
LEMMA ApprovedFacts ==
  ASSUME TypeOK, NEW q \in Vacs, RowsIdentified(q), NEW z \in approvals[q]
  PROVE  LET new == Approved(q, IdOf(z))
         IN  /\ new = (approvals[q] \ {z}) \union {[z EXCEPT !.status = "APPROVED"]}
             /\ new \subseteq StepType /\ IsFiniteSet(new)
<1> DEFINE z1 == [z EXCEPT !.status = "APPROVED"]
           new == Approved(q, IdOf(z))
<1>1. approvals[q] \subseteq StepType
  BY DEF TypeOK
<1>2. \A x \in approvals[q] : IdOf(x) = IdOf(z) <=> x = z
  BY DEF RowsIdentified
<1>3. new = (approvals[q] \ {z}) \union {z1}
  <2>1. \A y : y \in new <=> \E x \in approvals[q] : y = IF x = z THEN z1 ELSE x
    BY <1>2 DEF Approved
  <2>. QED
    BY <2>1
<1>4. z1 \in StepType
  BY <1>1 DEF StepType, ApprovalStatus
<1>5. IsFiniteSet(approvals[q] \ {z}) /\ IsFiniteSet({z1})
  BY FS_Subset, FS_Singleton DEF RowsIdentified
<1>6. IsFiniteSet((approvals[q] \ {z}) \union {z1})
  <2> HIDE DEF z1
  <2>. QED
    BY <1>5, FS_Union
<1>. QED
  BY <1>1, <1>3, <1>4, <1>6
-----------------------------------------------------------------------------
(* A step of one handler that leaves the tables alone.                     *)
LEMMA HandlerMoves ==
  ASSUME IInv, UNCHANGED tables, NEW h \in Handlers, NEW w \in HandlerType,
         work' = [work EXCEPT ![h] = w],
         WellFormed(w), StepStands(w), OwnerStands(w),
         \A g \in Handlers \ {h} : work[g].q = w.q /\ w.q # NoRow
            => ~(work[g].owns /\ w.owns) /\ work[g].held \intersect w.held = {}
  PROVE  IInv'
<1>1. TypeOK'
  BY DEF IInv, TypeOK, tables, requestVars, positionVars
<1>2. \A g \in Handlers : work'[g] = IF g = h THEN w ELSE work[g]
  BY DEF IInv, TypeOK
<1>3. ASSUME NEW q \in Vacs
      PROVE  (RowsIdentified(q) /\ RestSkipped(q) /\ CleanWhilePending(q) /\ FormFilled(q))'
  BY DEF IInv, RowsIdentified, RestSkipped, CleanWhilePending, FormFilled, StepsIn, tables,
         requestVars, positionVars
<1>4. ASSUME NEW g \in Handlers
      PROVE  (WellFormed(work[g]) /\ StepStands(work[g]) /\ OwnerStands(work[g]))'
  <2>1. WellFormed(work'[g]) /\ StepStands(work'[g]) /\ OwnerStands(work'[g])
    BY <1>2 DEF IInv
  <2>2. /\ WellFormed(work'[g]) => WellFormed(work[g])'
        /\ StepStands(work'[g]) => StepStands(work[g])'
        /\ OwnerStands(work'[g]) => OwnerStands(work[g])'
    BY DEF WellFormed, StepStands, OwnerStands, StepsIn, tables, requestVars, positionVars
  <2>. QED
    BY <2>1, <2>2
<1>5. LocksDisjoint'
  BY <1>2 DEF IInv, LocksDisjoint
<1>6. (SomeoneCanDecide /\ VacancyIffApproved /\ DecidedInOrder)'
  BY DEF IInv, SomeoneCanDecide, VacancyIffApproved, DecidedInOrder, StepsIn, tables,
         requestVars, positionVars
<1>. QED
  BY <1>1, <1>3, <1>4, <1>5, <1>6 DEF IInv

(* A handler that ends without a commit.                                   *)
LEMMA HandlerEnds ==
  ASSUME IInv, UNCHANGED tables, NEW h \in Handlers, Finish(h)
  PROVE  IInv'
BY IdleOK, IdleStands, HandlerMoves DEF Finish, Becomes
-----------------------------------------------------------------------------
(* Equal identities are equal batches and sequences.                       *)
LEMMA IdParts ==
  ASSUME NEW x, NEW y, IdOf(x) = IdOf(y)
  PROVE  x.batch = y.batch /\ x.seq = y.seq
BY DEF IdOf

(* The commit of handler h on request q keeps the invariant when it leaves *)
(* the rows of q in order, changes only pending rows, changes no row       *)
(* another handler has locked, and neither moves the request nor rejects a *)
(* level under a handler that owns the request.                            *)
LEMMA RowsChange ==
  ASSUME IInv, TypeOK', NEW h \in Handlers, NEW q \in Vacs, work[h].q = q, Finish(h),
         \A p \in Vacs \ {q} : /\ status'[p] = status[p] /\ form'[p] = form[p]
                              /\ approvals'[p] = approvals[p] /\ batches'[p] = batches[p]
                              /\ vacancy'[p] = vacancy[p],
         RowsIdentified(q)', RestSkipped(q)', CleanWhilePending(q)', FormFilled(q)',
         status'[q] = "PENDING_APPROVAL" => \E x \in approvals'[q] : x.status = "PENDING",
         vacancy'[q] > 0 <=> status'[q] = "APPROVED",
         \A x, y \in approvals'[q] :
            x.batch = y.batch /\ x.seq < y.seq /\ y.status \in Locked => x.status = "APPROVED",
         batches'[q] >= batches[q],
         \A y \in approvals'[q] :
            \/ y.batch > batches[q]
            \/ \E x \in approvals[q] : IdOf(x) = IdOf(y) /\ (x.status # "PENDING" => y = x),
         \A g \in Handlers \ {h} : work[g].q = q =>
            \A x \in approvals[q] : IdOf(x) \in work[g].held => x \in approvals'[q],
         \/ /\ status'[q] = status[q]
            /\ \A y \in approvals'[q] : y.status \in {"REJECTED", "SKIPPED"} => y \in approvals[q]
         \/ \A g \in Handlers \ {h} : work[g].q = q => ~work[g].owns
  PROVE  IInv'
<1>1. \A g \in Handlers : work'[g] = IF g = h THEN Idle ELSE work[g]
  BY DEF IInv, TypeOK, Finish, Becomes
<1>2. ASSUME NEW p \in Vacs
      PROVE  (RowsIdentified(p) /\ RestSkipped(p) /\ CleanWhilePending(p) /\ FormFilled(p))'
  <2>1. CASE p = q
    BY <2>1
  <2>2. CASE p # q
    BY <2>2 DEF IInv, RowsIdentified, RestSkipped, CleanWhilePending, FormFilled, StepsIn
  <2>. QED
    BY <2>1, <2>2
<1>3. ASSUME NEW g \in Handlers
      PROVE  (WellFormed(work[g]) /\ StepStands(work[g]) /\ OwnerStands(work[g]))'
  <2>1. CASE g = h
    <3>1. work'[g] = Idle
      BY <1>1, <2>1
    <3>. QED
      BY <3>1, IdleOK DEF WellFormed, StepStands, OwnerStands, Stepping
  <2>2. CASE g # h /\ work[g].q # q
    <3>1. work'[g] = work[g]
      BY <1>1, <2>2
    <3>2. WellFormed(work[g])'
      BY <3>1 DEF IInv, WellFormed
    <3>3. CASE work[g].op = "none"
      BY <3>1, <3>2, <3>3, IdleOK DEF IInv, WellFormed, StepStands, OwnerStands, Stepping
    <3>4. CASE work[g].q \in Vacs \ {q}
      BY <3>1, <3>2, <3>4 DEF IInv, StepStands, OwnerStands, StepsIn, Ids
    <3>. QED
      BY <2>2, <3>3, <3>4 DEF IInv, WellFormed
  <2>3. CASE g # h /\ work[g].q = q
    <3> DEFINE w == work[g]
    <3>1. work'[g] = w /\ WellFormed(w) /\ StepStands(w) /\ OwnerStands(w) /\ w \in HandlerType
      BY <1>1, <2>3 DEF IInv, TypeOK
    <3>2. WellFormed(work[g])'
      BY <3>1 DEF WellFormed
    <3>3. approvals[q] \subseteq StepType /\ approvals'[q] \subseteq StepType
          /\ batches[q] \in Nat /\ batches'[q] \in Nat
      BY DEF IInv, TypeOK
    <3>4. ASSUME w.pc \in {"step"} \union Stepping
          PROVE  /\ w.step[1] <= batches'[q]
                 /\ \A y \in approvals'[q] : y.batch = w.step[1] /\ y.seq < w.step[2]
                                                => y.status = "APPROVED"
      <4>1. /\ w.step[1] \in Nat /\ w.step[2] \in Nat /\ w.step[1] <= batches[q]
            /\ \A x \in approvals[q] : x.batch = w.step[1] /\ x.seq < w.step[2]
                                           => x.status = "APPROVED"
        BY <3>1, <3>4, <2>3 DEF StepStands, HandlerType
      <4>2. ASSUME NEW y \in approvals'[q], y.batch = w.step[1], y.seq < w.step[2]
            PROVE  y.status = "APPROVED"
        <5>1. PICK x \in approvals[q] : IdOf(x) = IdOf(y) /\ (x.status # "PENDING" => y = x)
          BY <3>3, <4>1, <4>2 DEF StepType
        <5>. QED
          BY <4>1, <4>2, <5>1, IdParts
      <4>. QED
        BY <3>3, <4>1, <4>2
    <3>5. ASSUME w.pc \in Stepping
          PROVE  \E x \in approvals'[q] : x.status = "PENDING" /\ IdOf(x) = w.step
      <4>1. PICK x \in approvals[q] : x.status = "PENDING" /\ IdOf(x) = w.step
        BY <3>1, <3>5, <2>3 DEF StepStands, Ids, StepsIn
      <4>2. w.held = {w.step}
        BY <3>1, <3>5 DEF WellFormed
      <4>. QED
        BY <2>3, <4>1, <4>2
    <3>6. ASSUME w.pc \in {"finalize", "vacancy"}
          PROVE  \A y \in approvals'[q] : y.batch = w.step[1] /\ IdOf(y) # w.step
                                             => y.status # "PENDING"
      <4> SUFFICES ASSUME NEW y \in approvals'[q], y.batch = w.step[1], IdOf(y) # w.step
                   PROVE  y.status # "PENDING"
        OBVIOUS
      <4>1. w.step[1] <= batches[q] /\ w.step[1] \in Nat
        BY <3>1, <3>6, <2>3 DEF StepStands, Stepping, HandlerType
      <4>2. PICK x \in approvals[q] : IdOf(x) = IdOf(y) /\ (x.status # "PENDING" => y = x)
        BY <3>3, <4>1 DEF StepType
      <4>3. x.status # "PENDING"
        BY <2>3, <3>1, <3>6, <4>2, IdParts DEF StepStands
      <4>. QED
        BY <4>2, <4>3
    <3>7. w.pc = "vacancy" => status'[q] = "PENDING_APPROVAL"
      BY <2>3, <3>1 DEF OwnerStands, WellFormed
    <3>8. w.pc = "insert" => w.held \subseteq Ids(approvals'[q])
      BY <2>3, <3>1 DEF OwnerStands, Ids
    <3>9. w.op = "submit" /\ w.pc = "insert" =>
            /\ status'[q] = "DRAFT"
            /\ \A x \in approvals'[q] : x.status \in {"REJECTED", "SKIPPED"} => IdOf(x) \in w.held
      BY <2>3, <3>1 DEF OwnerStands, WellFormed
    <3>10. w.op = "process" /\ w.pc = "insert" =>
             \A y \in approvals'[q] : IdOf(y) \in w.held => y.status \in {"PENDING", "SKIPPED"}
      <4> SUFFICES ASSUME w.op = "process", w.pc = "insert",
                          NEW y \in approvals'[q], IdOf(y) \in w.held
                   PROVE  y.status \in {"PENDING", "SKIPPED"}
        OBVIOUS
      <4>1. PICK x \in approvals[q] : IdOf(x) = IdOf(y)
        BY <2>3, <3>1 DEF OwnerStands, Ids
      <4>2. x \in approvals'[q]
        BY <2>3, <4>1
      <4>3. x = y
        BY <4>1, <4>2 DEF RowsIdentified
      <4>. QED
        BY <2>3, <3>1, <4>1, <4>3 DEF OwnerStands
    <3>11. StepStands(work[g])'
      BY <2>3, <3>1, <3>4, <3>5, <3>6 DEF StepStands, Ids, StepsIn
    <3>12. OwnerStands(work[g])'
      BY <2>3, <3>1, <3>7, <3>8, <3>9, <3>10 DEF OwnerStands
    <3>. QED
      BY <3>2, <3>11, <3>12
  <2>. QED
    BY <2>1, <2>2, <2>3
<1>4. LocksDisjoint'
  BY <1>1, IdleOK DEF IInv, LocksDisjoint
<1>5. SomeoneCanDecide'
  BY DEF IInv, SomeoneCanDecide, StepsIn
<1>6. VacancyIffApproved'
  BY DEF IInv, VacancyIffApproved
<1>7. DecidedInOrder'
  BY DEF IInv, DecidedInOrder
<1>. QED
  BY <1>2, <1>3, <1>4, <1>5, <1>6, <1>7 DEF IInv
-----------------------------------------------------------------------------
(* A request accepted by an idle handler.                                  *)
LEMMA RequestKeeps ==
  ASSUME IInv, NEW h \in Handlers, Request(h)
  PROVE  IInv'
<1>1. PICK q \in Vacs :
         \/ \E f \in Forms : UpdateRead(h, q, f)
         \/ \E n \in Levels : SubmitRead(h, q, n)
         \/ ProcessRead(h, q)
         \/ \E decision \in {"approve", "reject"} : DecideRead(h, q, decision)
  BY DEF Request
<1>2. ASSUME NEW w \in HandlerType, Becomes(h, w), UNCHANGED tables, WellFormed(w),
             w.pc \in {"write", "take", "rows"}
      PROVE  IInv'
  <2>1. w.held = {} /\ ~w.owns /\ StepStands(w) /\ OwnerStands(w)
    BY <1>2 DEF WellFormed, StepStands, OwnerStands, Stepping
  <2>. QED
    BY <1>2, <2>1, HandlerMoves DEF Becomes
<1>3. ASSUME NEW f \in Forms, UpdateRead(h, q, f) PROVE IInv'
  <2> DEFINE w == [Idle EXCEPT !.op = "update", !.pc = "write", !.q = q, !.form = f]
  <2>1. w \in HandlerType /\ WellFormed(w) /\ w.pc = "write"
    BY DEF Idle, HandlerType, WellFormed, Stepping, NoForm, NoStep
  <2>. QED
    BY <1>2, <1>3, <2>1 DEF UpdateRead
<1>4. ASSUME NEW n \in Levels, SubmitRead(h, q, n) PROVE IInv'
  <2> DEFINE w == [Idle EXCEPT !.op = "submit", !.pc = "take", !.q = q, !.levels = n]
  <2>1. n \in Nat /\ n > 0
    BY RequestConstants
  <2>2. w \in HandlerType /\ w.pc = "take"
    BY <2>1 DEF Idle, HandlerType, NoForm, NoStep
  <2>3. WellFormed(w)
    BY <2>1 DEF Idle, WellFormed, Stepping
  <2>. QED
    BY <1>2, <1>4, <2>2, <2>3 DEF SubmitRead
<1>5. ASSUME ProcessRead(h, q) PROVE IInv'
  <2> DEFINE w == [Idle EXCEPT !.op = "process", !.pc = "rows", !.q = q]
  <2>1. w \in HandlerType /\ WellFormed(w) /\ w.pc = "rows"
    BY DEF Idle, HandlerType, WellFormed, Stepping, NoForm, NoStep
  <2>. QED
    BY <1>2, <1>5, <2>1 DEF ProcessRead
<1>6. ASSUME NEW decision \in {"approve", "reject"}, DecideRead(h, q, decision) PROVE IInv'
  <2> DEFINE w == [Idle EXCEPT !.op = decision, !.pc = "rows", !.q = q]
  <2>1. w \in HandlerType /\ WellFormed(w) /\ w.pc = "rows"
    BY DEF Idle, HandlerType, WellFormed, Stepping, NoForm, NoStep
  <2>. QED
    BY <1>2, <1>6, <2>1 DEF DecideRead
<1>. QED
  BY <1>1, <1>3, <1>4, <1>5, <1>6

(* What a handler knows about itself.                                      *)
LEMMA HandlerFacts ==
  ASSUME IInv, NEW h \in Handlers
  PROVE  /\ work[h] \in HandlerType /\ WellFormed(work[h])
         /\ StepStands(work[h]) /\ OwnerStands(work[h])
         /\ work[h].pc # "idle" => work[h].q \in Vacs
BY DEF IInv, TypeOK, WellFormed, Idle

(* submit takes the request and deletes its rows.                          *)
LEMMA SubmitTakeKeeps ==
  ASSUME IInv, NEW h \in Handlers, SubmitTake(h)
  PROVE  IInv'
<1> DEFINE q == work[h].q
           w == [work[h] EXCEPT !.pc = "insert", !.owns = TRUE, !.held = Ids(approvals[q])]
<1>1. CASE status[q] # "DRAFT"
  BY <1>1, HandlerEnds DEF SubmitTake, Proceed
<1>2. CASE status[q] = "DRAFT"
  <2>1. Becomes(h, w) /\ UNCHANGED tables /\ work[h].pc = "take" /\ work[h].op = "submit"
    BY <1>2 DEF SubmitTake, Proceed, At
  <2>2. q \in Vacs /\ work[h] \in HandlerType /\ WellFormed(work[h])
    BY <2>1, HandlerFacts
  <2>3. Ids(approvals[q]) \subseteq Nat \X Nat
    BY <2>2 DEF IInv, TypeOK, Ids, IdOf, StepType
  <2>4. w \in HandlerType
    BY <2>2, <2>3 DEF HandlerType
  <2>5. w.op = "submit" /\ w.pc = "insert" /\ w.q = q /\ w.owns /\ w.held = Ids(approvals[q])
        /\ w.levels = work[h].levels
    BY <2>1, <2>2 DEF HandlerType
  <2>6. WellFormed(w)
    BY <2>1, <2>2, <2>5 DEF WellFormed, Stepping
  <2>7. StepStands(w) /\ OwnerStands(w)
    BY <1>2, <2>5 DEF StepStands, OwnerStands, Stepping, Ids
  <2>8. \A g \in Handlers \ {h} : work[g].q = q =>
           ~work[g].owns /\ work[g].held \intersect Ids(approvals[q]) = {}
    BY DEF SubmitTake, RequestFree, StepsFree, Rivals
  <2>9. \A g \in Handlers \ {h} : work[g].q = w.q /\ w.q # NoRow =>
           ~(work[g].owns /\ w.owns) /\ work[g].held \intersect w.held = {}
    BY <2>5, <2>8
  <2>10. work' = [work EXCEPT ![h] = w]
    BY <2>1 DEF Becomes
  <2>. QED
    BY <2>1, <2>4, <2>6, <2>7, <2>9, <2>10, HandlerMoves
<1>. QED
  BY <1>1, <1>2

(* updateApprovals counts the locked levels and deletes the others.        *)
LEMMA ProcessRowsKeeps ==
  ASSUME IInv, NEW h \in Handlers, NEW n \in Levels, ProcessRows(h, n)
  PROVE  IInv'
<1> DEFINE w == [work[h] EXCEPT !.pc = "delete", !.levels = n,
                                !.locked = Cardinality(StepsIn(work[h].q, Locked))]
<1>1. Becomes(h, w) /\ UNCHANGED tables /\ work[h].pc = "rows" /\ work[h].op = "process"
  BY DEF ProcessRows, Proceed, At
<1>2. work[h].q \in Vacs /\ work[h] \in HandlerType /\ WellFormed(work[h])
  BY <1>1, HandlerFacts
<1>3. Cardinality(StepsIn(work[h].q, Locked)) \in Nat
  <2>1. IsFiniteSet(StepsIn(work[h].q, Locked))
    BY <1>2, FS_Subset DEF IInv, RowsIdentified, StepsIn
  <2>. QED
    BY <2>1, FS_CardinalityType
<1>4. w \in HandlerType
  BY <1>2, <1>3, RequestConstants DEF HandlerType
<1>5. /\ w.op = "process" /\ w.pc = "delete" /\ w.q = work[h].q /\ w.levels = n
      /\ w.held = work[h].held /\ w.owns = work[h].owns
  BY <1>1, <1>2 DEF HandlerType
<1>6. w.held = {} /\ ~w.owns
  BY <1>1, <1>2, <1>5 DEF WellFormed, Stepping
<1>7. WellFormed(w) /\ StepStands(w) /\ OwnerStands(w)
  BY <1>2, <1>5, <1>6, RequestConstants DEF WellFormed, StepStands, OwnerStands, Stepping
<1>. QED
  BY <1>1, <1>4, <1>6, <1>7, HandlerMoves DEF Becomes

(* The rows updateApprovals deletes are not locked by another handler.     *)
LEMMA ProcessDeleteKeeps ==
  ASSUME IInv, NEW h \in Handlers, ProcessDelete(h)
  PROVE  IInv'
<1> DEFINE q    == work[h].q
           gone == Ids(StepsIn(q, {"PENDING", "SKIPPED"}))
           w    == [work[h] EXCEPT !.pc = "insert", !.held = gone]
<1>1. Becomes(h, w) /\ UNCHANGED tables /\ work[h].pc = "delete" /\ work[h].op = "process"
  BY DEF ProcessDelete, Proceed, At
<1>2. q \in Vacs /\ work[h] \in HandlerType /\ WellFormed(work[h])
  BY <1>1, HandlerFacts
<1>3. gone \subseteq Nat \X Nat
  BY <1>2 DEF IInv, TypeOK, Ids, IdOf, StepType, StepsIn
<1>4. w \in HandlerType
  BY <1>2, <1>3 DEF HandlerType
<1>5. w.op = "process" /\ w.pc = "insert" /\ w.q = q /\ w.held = gone
      /\ w.levels = work[h].levels /\ w.owns = work[h].owns
  BY <1>1, <1>2 DEF HandlerType
<1>6. ~w.owns
  BY <1>1, <1>2, <1>5 DEF WellFormed
<1>7. WellFormed(w)
  BY <1>1, <1>2, <1>5, <1>6 DEF WellFormed, Stepping
<1>8. \A x \in approvals[q] : IdOf(x) \in gone => x.status \in {"PENDING", "SKIPPED"}
  BY <1>2 DEF IInv, RowsIdentified, Ids, StepsIn
<1>9. gone \subseteq Ids(approvals[q])
  BY DEF Ids, StepsIn
<1>10. StepStands(w) /\ OwnerStands(w)
  BY <1>5, <1>8, <1>9 DEF StepStands, OwnerStands, Stepping
<1>11. \A g \in Handlers \ {h} : work[g].q = q => work[g].held \intersect gone = {}
  BY DEF ProcessDelete, StepsFree, Rivals
<1>. QED
  BY <1>1, <1>4, <1>5, <1>6, <1>7, <1>10, <1>11, HandlerMoves DEF Becomes

(* decide reads the first pending level: the lower ones of its batch have  *)
(* approved.                                                               *)
LEMMA DecideRowsKeeps ==
  ASSUME IInv, NEW h \in Handlers, DecideRows(h)
  PROVE  IInv'
<1> DEFINE q == work[h].q
<1>1. CASE currentPendingStep(q) = {}
  BY <1>1, HandlerEnds DEF DecideRows
<1>2. CASE currentPendingStep(q) # {}
  <2>1. PICK x \in currentPendingStep(q) :
           Becomes(h, [work[h] EXCEPT !.pc = "step", !.step = IdOf(x)])
    BY <1>2 DEF DecideRows
  <2> DEFINE w == [work[h] EXCEPT !.pc = "step", !.step = IdOf(x)]
  <2>2. UNCHANGED tables /\ work[h].pc = "rows" /\ work[h].op \in {"approve", "reject"}
    BY DEF DecideRows
  <2>3. q \in Vacs /\ work[h] \in HandlerType /\ WellFormed(work[h])
    BY <2>2, HandlerFacts
  <2>4. /\ x \in approvals[q] /\ x.status = "PENDING"
        /\ \A y \in approvals[q] : y.status = "PENDING" => x.seq <= y.seq
    BY <2>1 DEF currentPendingStep, StepsIn
  <2>5. approvals[q] \subseteq StepType
    BY <2>3 DEF IInv, TypeOK
  <2>6. IdOf(x) \in Nat \X Nat /\ IdOf(x)[1] = x.batch /\ IdOf(x)[2] = x.seq
    BY <2>4, <2>5 DEF StepType, IdOf
  <2>7. w \in HandlerType
    BY <2>3, <2>6 DEF HandlerType
  <2>8. /\ w.op = work[h].op /\ w.pc = "step" /\ w.q = q /\ w.step = IdOf(x)
        /\ w.held = work[h].held /\ w.owns = work[h].owns
    BY <2>3 DEF HandlerType
  <2>9. w.held = {} /\ ~w.owns
    BY <2>2, <2>3, <2>8 DEF WellFormed, Stepping
  <2>10. WellFormed(w)
    BY <2>2, <2>3, <2>8, <2>9 DEF WellFormed, Stepping
  <2>11. x.batch <= batches[q]
    BY <2>3, <2>4 DEF IInv, RowsIdentified
  <2>12. ASSUME NEW y \in approvals[q], y.batch = x.batch, y.seq < x.seq
         PROVE  y.status = "APPROVED"
    <3>1. y.status # "PENDING"
      BY <2>4, <2>5, <2>12 DEF StepType
    <3>2. y.status \notin {"REJECTED", "SKIPPED"}
      BY <2>3, <2>4, <2>12 DEF IInv, RestSkipped
    <3>. QED
      BY <2>5, <3>1, <3>2 DEF StepType, ApprovalStatus
  <2>13. StepStands(w)
    BY <2>6, <2>8, <2>11, <2>12 DEF StepStands, Stepping
  <2>14. OwnerStands(w)
    BY <2>8 DEF OwnerStands
  <2>. QED
    BY <2>1, <2>2, <2>7, <2>9, <2>10, <2>13, <2>14, HandlerMoves DEF Becomes
<1>. QED
  BY <1>1, <1>2

(* The conditional write of the step locks its row.                        *)
LEMMA TakeStepKeeps ==
  ASSUME IInv, NEW h \in Handlers, TakeStep(h)
  PROVE  IInv'
<1> DEFINE q  == work[h].q
           id == work[h].step
           w  == [work[h] EXCEPT !.held = {id},
                                 !.pc = IF work[h].op = "approve" THEN "count" ELSE "return"]
<1>1. CASE id \notin Ids(StepsIn(q, {"PENDING"}))
  BY <1>1, HandlerEnds DEF TakeStep, Proceed
<1>2. CASE id \in Ids(StepsIn(q, {"PENDING"}))
  <2>1. Becomes(h, w) /\ UNCHANGED tables /\ work[h].pc = "step"
    BY <1>2 DEF TakeStep, Proceed
  <2>2. q \in Vacs /\ work[h] \in HandlerType /\ WellFormed(work[h]) /\ StepStands(work[h])
    BY <2>1, HandlerFacts
  <2>3. w \in HandlerType
    BY <2>2 DEF HandlerType
  <2>4. /\ w.op = work[h].op /\ w.pc \in {"count", "return"} /\ w.q = q /\ w.step = id
        /\ w.held = {id} /\ w.owns = work[h].owns
    BY <2>2 DEF HandlerType
  <2>5. ~w.owns /\ w.op \in {"approve", "reject"}
    BY <2>1, <2>2, <2>4 DEF WellFormed
  <2>6. WellFormed(w)
    BY <2>2, <2>4, <2>5 DEF WellFormed, Stepping
  <2>7. StepStands(w)
    BY <1>2, <2>1, <2>2, <2>4 DEF StepStands, Stepping
  <2>8. OwnerStands(w)
    BY <2>4 DEF OwnerStands
  <2>9. \A g \in Handlers \ {h} : work[g].q = w.q /\ w.q # NoRow =>
           ~(work[g].owns /\ w.owns) /\ work[g].held \intersect w.held = {}
    BY <2>4, <2>5 DEF TakeStep, StepsFree, Rivals
  <2>10. work' = [work EXCEPT ![h] = w]
    BY <2>1 DEF Becomes
  <2>. QED
    BY <2>1, <2>3, <2>6, <2>7, <2>8, <2>9, <2>10, HandlerMoves
<1>. QED
  BY <1>1, <1>2

(* The conditional transition to APPROVED locks the request.               *)
LEMMA FinalizeKeeps ==
  ASSUME IInv, NEW h \in Handlers, Finalize(h)
  PROVE  IInv'
<1> DEFINE q == work[h].q
           w == [work[h] EXCEPT !.pc = "vacancy", !.owns = TRUE,
                                !.seats = headcount[form[q].position]]
<1>1. CASE status[q] # "PENDING_APPROVAL"
  BY <1>1, HandlerEnds DEF Finalize, Proceed
<1>2. CASE status[q] = "PENDING_APPROVAL"
  <2>1. Becomes(h, w) /\ UNCHANGED tables /\ work[h].pc = "finalize"
    BY <1>2 DEF Finalize, Proceed
  <2>2. q \in Vacs /\ work[h] \in HandlerType /\ WellFormed(work[h]) /\ StepStands(work[h])
    BY <2>1, HandlerFacts
  <2>3. headcount[form[q].position] \in Nat
    BY <1>2, <2>2 DEF IInv, TypeOK, FormFilled, Forms
  <2>4. w \in HandlerType
    BY <2>2, <2>3 DEF HandlerType
  <2>5. /\ w.op = work[h].op /\ w.pc = "vacancy" /\ w.q = q /\ w.step = work[h].step
        /\ w.held = work[h].held /\ w.owns
    BY <2>2 DEF HandlerType
  <2>6. WellFormed(w)
    BY <2>1, <2>2, <2>5 DEF WellFormed, Stepping
  <2>7. StepStands(w)
    BY <2>1, <2>2, <2>5 DEF StepStands, Stepping
  <2>8. OwnerStands(w)
    BY <1>2, <2>5 DEF OwnerStands
  <2>9. \A g \in Handlers \ {h} : work[g].q = w.q /\ w.q # NoRow =>
           ~(work[g].owns /\ w.owns) /\ work[g].held \intersect w.held = {}
    BY <2>5 DEF Finalize, RequestFree, Rivals, IInv, LocksDisjoint
  <2>10. work' = [work EXCEPT ![h] = w]
    BY <2>1 DEF Becomes
  <2>. QED
    BY <2>1, <2>4, <2>6, <2>7, <2>8, <2>9, <2>10, HandlerMoves
<1>. QED
  BY <1>1, <1>2
-----------------------------------------------------------------------------
Ordered(S) == \A x, y \in S : x.batch = y.batch /\ x.seq < y.seq /\ y.status \in Locked
                                => x.status = "APPROVED"

(* What RowsChange asks of the rows of a request.                          *)
Orderly(q) ==
    /\ approvals'[q] \subseteq StepType
    /\ RowsIdentified(q)' /\ RestSkipped(q)' /\ Ordered(approvals'[q])
    /\ batches'[q] >= batches[q]
    /\ \A y \in approvals'[q] :
          \/ y.batch > batches[q]
          \/ \E x \in approvals[q] : IdOf(x) = IdOf(y) /\ (x.status # "PENDING" => y = x)

(* Approving a pending level whose lower levels have approved.             *)
LEMMA ApproveOrderly ==
  ASSUME IInv, NEW q \in Vacs, NEW z \in approvals[q], z.status = "PENDING",
         \A y \in approvals[q] : y.batch = z.batch /\ y.seq < z.seq => y.status = "APPROVED",
         approvals'[q] = Approved(q, IdOf(z)), batches'[q] = batches[q]
  PROVE  /\ Orderly(q)
         /\ \A y \in approvals'[q] : y.status \in {"REJECTED", "SKIPPED"} => y \in approvals[q]
         /\ \A x \in approvals[q] : x # z => x \in approvals'[q]
         /\ \A y \in approvals'[q] : y \in approvals[q] \ {z} \/ y.status = "APPROVED"
<1> DEFINE z1 == [z EXCEPT !.status = "APPROVED"]
           new == approvals'[q]
<1>1. RowsIdentified(q) /\ RestSkipped(q) /\ TypeOK /\ Ordered(approvals[q])
  BY DEF IInv, DecidedInOrder, Ordered
<1>2. new = (approvals[q] \ {z}) \union {z1} /\ new \subseteq StepType /\ IsFiniteSet(new)
  BY <1>1, ApprovedFacts
<1>3. approvals[q] \subseteq StepType /\ batches[q] \in Nat
  BY <1>1 DEF TypeOK
<1>4. z1.batch = z.batch /\ z1.seq = z.seq /\ z1.status = "APPROVED" /\ IdOf(z1) = IdOf(z)
  BY <1>3 DEF StepType, IdOf
<1> HIDE DEF z1
<1>5. RowsIdentified(q)'
  <2>1. \A x \in new : x.batch <= batches'[q]
    BY <1>1, <1>2, <1>4 DEF RowsIdentified
  <2>2. \A x, y \in new : IdOf(x) = IdOf(y) => x = y
    BY <1>1, <1>2, <1>4 DEF RowsIdentified
  <2>3. (\A x, y \in new : IdOf(x) = IdOf(y) => x = y) =>
           (\A x, y \in approvals[q] : IdOf(x) = IdOf(y) => x = y)'
    BY DEF IdOf
  <2>. QED
    BY <1>2, <2>1, <2>2, <2>3 DEF RowsIdentified
<1>6. RestSkipped(q)'
  BY <1>1, <1>2, <1>4 DEF RestSkipped
<1>7. Ordered(new)
  BY <1>1, <1>2, <1>4 DEF Ordered
<1>8. \A y \in new : \E x \in approvals[q] : IdOf(x) = IdOf(y) /\ (x.status # "PENDING" => y = x)
  BY <1>2, <1>4
<1>9. /\ \A y \in new : y.status \in {"REJECTED", "SKIPPED"} => y \in approvals[q]
      /\ \A x \in approvals[q] : x # z => x \in new
      /\ \A y \in new : y \in approvals[q] \ {z} \/ y.status = "APPROVED"
  BY <1>2, <1>4
<1>. QED
  BY <1>2, <1>3, <1>5, <1>6, <1>7, <1>8, <1>9 DEF Orderly

(* Deleting some levels and adding new ones.                               *)
LEMMA InsertOrderly ==
  ASSUME IInv, NEW q \in Vacs, NEW K \in SUBSET approvals[q],
         NEW first \in Nat \ {0}, NEW n \in Nat \ {0},
         approvals'[q] = K \union NewSteps(q, first, n), batches'[q] = batches[q] + 1
  PROVE  /\ Orderly(q)
         /\ \E x \in approvals'[q] : x.status = "PENDING"
         /\ \A y \in approvals'[q] : y \in K \/ y.status = "PENDING"
<1> DEFINE N == NewSteps(q, first, n)
<1>1. RowsIdentified(q) /\ RestSkipped(q) /\ TypeOK /\ Ordered(approvals[q])
  BY DEF IInv, DecidedInOrder, Ordered
<1>2. approvals[q] \subseteq StepType /\ batches[q] \in Nat
  BY <1>1 DEF TypeOK
<1>3. /\ N \subseteq StepType /\ IsFiniteSet(N) /\ N # {}
      /\ \A x \in N : x.batch = batches[q] + 1 /\ x.status = "PENDING"
      /\ \A x, y \in N : IdOf(x) = IdOf(y) => x = y
  BY <1>2, NewStepsFacts
<1> HIDE DEF N
<1>4. approvals'[q] = K \union N
  BY DEF N
<1>5. \A x \in K : x.batch \in Nat /\ x.batch <= batches[q]
  BY <1>1, <1>2 DEF RowsIdentified, StepType
<1>6. RowsIdentified(q)'
  <2>1. IsFiniteSet(approvals'[q])
    BY <1>1, <1>3, <1>4, FS_Subset, FS_Union DEF RowsIdentified
  <2>2. \A x \in approvals'[q] : x.batch <= batches'[q]
    BY <1>2, <1>3, <1>4, <1>5
  <2>3. \A x, y \in approvals'[q] : IdOf(x) = IdOf(y) => x = y
    <3>1. \A x \in K, y \in N : IdOf(x) # IdOf(y)
      BY <1>2, <1>3, <1>5, IdParts
    <3>. QED
      BY <1>1, <1>3, <1>4, <3>1 DEF RowsIdentified
  <2>4. (\A x, y \in approvals'[q] : IdOf(x) = IdOf(y) => x = y) =>
           (\A x, y \in approvals[q] : IdOf(x) = IdOf(y) => x = y)'
    BY DEF IdOf
  <2>. QED
    BY <2>1, <2>2, <2>3, <2>4 DEF RowsIdentified
<1>7. \A x \in K, y \in N : x.batch # y.batch
  BY <1>2, <1>3, <1>5
<1>8. RestSkipped(q)'
  BY <1>1, <1>3, <1>4, <1>7 DEF RestSkipped
<1>9. Ordered(approvals'[q])
  BY <1>1, <1>3, <1>4, <1>7 DEF Ordered, Locked
<1>. QED
  BY <1>2, <1>3, <1>4, <1>6, <1>8, <1>9 DEF Orderly

(* Rejecting a pending level whose lower levels have approved, and         *)
(* skipping the pending levels after it.                                   *)
LEMMA RejectOrderly ==
  ASSUME IInv, NEW h \in Handlers, NEW q \in Vacs, work[h].q = q,
         NEW z \in approvals[q], z.status = "PENDING", work[h].step = IdOf(z),
         \A y \in approvals[q] : y.batch = z.batch /\ y.seq < z.seq => y.status = "APPROVED",
         approvals'[q] = RejectedBy(h), batches'[q] = batches[q]
  PROVE  /\ Orderly(q)
         /\ \A x \in approvals[q] : x # z /\ IdOf(x) \notin Later(h) => x \in approvals'[q]
<1> DEFINE f == [x \in approvals[q] |->
                   IF x = z THEN [x EXCEPT !.status = "REJECTED"]
                   ELSE IF x.status = "PENDING" /\ x.seq > z.seq
                        THEN [x EXCEPT !.status = "SKIPPED"] ELSE x]
           new == approvals'[q]
<1>1. RowsIdentified(q) /\ RestSkipped(q) /\ TypeOK /\ Ordered(approvals[q])
  BY DEF IInv, DecidedInOrder, Ordered
<1>2. approvals[q] \subseteq StepType /\ batches[q] \in Nat
  BY <1>1 DEF TypeOK
<1>3. \A x \in approvals[q] : IdOf(x) = IdOf(z) <=> x = z
  BY <1>1 DEF RowsIdentified
<1>4. IdOf(z)[2] = z.seq
  BY DEF IdOf
<1>5. \A x \in approvals[q] : x # z =>
         (IdOf(x) \in Later(h) <=> x.status = "PENDING" /\ x.seq > z.seq)
  BY <1>1, <1>3, <1>4, IdParts DEF Later, StepsIn, Ids, RowsIdentified
<1>6. new = {f[x] : x \in approvals[q]}
  <2>1. \A x \in approvals[q] :
           f[x] = IF IdOf(x) = work[h].step THEN [x EXCEPT !.status = "REJECTED"]
                  ELSE IF IdOf(x) \in Later(h) THEN [x EXCEPT !.status = "SKIPPED"] ELSE x
    BY <1>3, <1>5
  <2> HIDE DEF f
  <2>2. \A y : y \in RejectedBy(h) <=> \E x \in approvals[q] : y = f[x]
    <3>1. \A y : y \in RejectedBy(h) <=> \E x \in approvals[q] :
             y = IF IdOf(x) = work[h].step THEN [x EXCEPT !.status = "REJECTED"]
                 ELSE IF IdOf(x) \in Later(h) THEN [x EXCEPT !.status = "SKIPPED"] ELSE x
      BY Zenon DEF RejectedBy
    <3>2. ASSUME NEW y, y \in RejectedBy(h)
          PROVE  \E x \in approvals[q] : y = f[x]
      <4>1. PICK x \in approvals[q] :
               y = IF IdOf(x) = work[h].step THEN [x EXCEPT !.status = "REJECTED"]
                   ELSE IF IdOf(x) \in Later(h) THEN [x EXCEPT !.status = "SKIPPED"] ELSE x
        BY <3>1, <3>2, Zenon
      <4>2. y = f[x]
        BY <2>1, <4>1, Zenon
      <4>. QED
        BY <4>2
    <3>3. ASSUME NEW x \in approvals[q]
          PROVE  f[x] \in RejectedBy(h)
      BY <2>1, <3>1, Zenon
    <3>. QED
      BY <3>2, <3>3, Zenon
  <2>3. \A y : y \in new <=> y \in {f[x] : x \in approvals[q]}
    BY <2>2
  <2>. QED
    BY <2>3
<1>7. \A x \in approvals[q] :
         /\ f[x] \in StepType /\ f[x].batch = x.batch /\ f[x].seq = x.seq
         /\ f[x].status = IF x = z THEN "REJECTED"
                          ELSE IF x.status = "PENDING" /\ x.seq > z.seq THEN "SKIPPED"
                               ELSE x.status
         /\ x # z /\ ~(x.status = "PENDING" /\ x.seq > z.seq) => f[x] = x
  BY <1>2 DEF StepType, ApprovalStatus
<1> HIDE DEF f
<1>8. \A y \in new : \E x \in approvals[q] : y = f[x]
  BY <1>6
<1>9. \A x \in approvals[q] : IdOf(f[x]) = IdOf(x)
  BY <1>7 DEF IdOf
<1>10. IsFiniteSet(new)
  BY <1>1, <1>6, ImageFinite DEF RowsIdentified
<1>11. RowsIdentified(q)'
  <2>1. \A x \in new : x.batch <= batches'[q]
    BY <1>1, <1>7, <1>8 DEF RowsIdentified
  <2>2. \A x, y \in new : IdOf(x) = IdOf(y) => x = y
    BY <1>1, <1>8, <1>9 DEF RowsIdentified
  <2>3. (\A x, y \in new : IdOf(x) = IdOf(y) => x = y) =>
           (\A x, y \in approvals[q] : IdOf(x) = IdOf(y) => x = y)'
    BY DEF IdOf
  <2>. QED
    BY <1>10, <2>1, <2>2, <2>3 DEF RowsIdentified
<1>12. \A u, v \in approvals[q] :
          u.batch = v.batch /\ u.seq < v.seq /\ f[u].status \in {"REJECTED", "SKIPPED"}
            => f[v].status = "SKIPPED"
  <2> SUFFICES ASSUME NEW u \in approvals[q], NEW v \in approvals[q],
                      u.batch = v.batch, u.seq < v.seq, f[u].status \in {"REJECTED", "SKIPPED"}
               PROVE  f[v].status = "SKIPPED"
    OBVIOUS
  <2>1. /\ u.seq \in Nat /\ v.seq \in Nat /\ z.seq \in Nat
        /\ u.status \in ApprovalStatus /\ v.status \in ApprovalStatus
    BY <1>2 DEF StepType
  <2>2. v # z
    BY <1>7, <2>1
  <2>3. CASE u.status \in {"REJECTED", "SKIPPED"}
    <3>1. v.status = "SKIPPED"
      BY <1>1, <2>3 DEF RestSkipped
    <3>. QED
      BY <1>7, <2>2, <3>1
  <2>4. CASE u.status \notin {"REJECTED", "SKIPPED"}
    <3>1. u.status = "PENDING" /\ v.seq > z.seq
      BY <1>7, <2>1, <2>4
    <3>2. v.status \notin Locked
      BY <1>1, <3>1 DEF Ordered
    <3>. QED
      BY <1>7, <2>1, <2>2, <3>1, <3>2 DEF ApprovalStatus, Locked
  <2>. QED
    BY <2>3, <2>4
<1>13. RestSkipped(q)'
  <2>1. \A x, y \in new :
           x.batch = y.batch /\ x.seq < y.seq /\ x.status \in {"REJECTED", "SKIPPED"}
             => y.status = "SKIPPED"
    BY <1>7, <1>8, <1>12
  <2>. QED
    BY <2>1 DEF RestSkipped
<1>14. Ordered(new)
  <2> SUFFICES ASSUME NEW u \in approvals[q], NEW v \in approvals[q],
                      u.batch = v.batch, u.seq < v.seq, f[v].status \in Locked
               PROVE  f[u].status = "APPROVED"
    BY <1>7, <1>8 DEF Ordered
  <2>1. u.status = "APPROVED"
    <3>1. CASE v = z
      BY <3>1
    <3>2. CASE v # z
      BY <1>1, <1>7, <3>2 DEF Ordered, Locked
    <3>. QED
      BY <3>1, <3>2
  <2>. QED
    BY <1>7, <2>1
<1>15. \A y \in new : \E x \in approvals[q] : IdOf(x) = IdOf(y) /\ (x.status # "PENDING" => y = x)
  BY <1>7, <1>8, <1>9
<1>16. \A x \in approvals[q] : x # z /\ IdOf(x) \notin Later(h) => x \in new
  BY <1>5, <1>6, <1>7
<1>17. new \subseteq StepType
  BY <1>7, <1>8
<1>. QED
  BY <1>2, <1>11, <1>13, <1>14, <1>15, <1>16, <1>17 DEF Orderly
-----------------------------------------------------------------------------
(* A transaction that owns its request is the only one.                    *)
LEMMA SoleOwner ==
  ASSUME IInv, NEW h \in Handlers, work[h].q \in Vacs, work[h].owns
  PROVE  \A g \in Handlers \ {h} : work[g].q = work[h].q => ~work[g].owns
BY RequestConstants DEF IInv, LocksDisjoint

(* The rows another handler has locked are none of mine.                   *)
LEMMA RivalRows ==
  ASSUME IInv, NEW h \in Handlers, work[h].q \in Vacs
  PROVE  \A g \in Handlers \ {h} : work[g].q = work[h].q
            => work[g].held \intersect work[h].held = {}
BY RequestConstants DEF IInv, LocksDisjoint

(* Columns stay typed when the rows of one request change and h ends.      *)
LEMMA CommitType ==
  ASSUME TypeOK, NEW h \in Handlers, NEW q \in Vacs, NEW S, S \subseteq StepType,
         Finish(h), approvals' = [approvals EXCEPT ![q] = S],
         batches' \in [Vacs -> Nat], status' \in [Vacs -> RequestStatus], form' \in [Vacs -> Forms \union {NoForm}],
         vacancy' \in [Vacs -> Nat], positions' \subseteq Positions,
         headcount' \in [Positions -> Nat]
  PROVE  TypeOK'
<1>1. approvals' \in [Vacs -> SUBSET StepType]
  BY DEF TypeOK
<1>2. work' \in [Handlers -> HandlerType]
  BY IdleOK DEF TypeOK, Finish, Becomes
<1>. QED
  BY <1>1, <1>2 DEF TypeOK

(* An edit writes the form, whatever the status has become.                *)
LEMMA UpdateWriteKeeps ==
  ASSUME IInv, NEW h \in Handlers, UpdateWrite(h)
  PROVE  IInv'
<1>0. PICK q \in Vacs : work[h].q = q
  BY HandlerFacts DEF UpdateWrite, At
<1>1. /\ work[h].pc = "write" /\ Finish(h) /\ form' = [form EXCEPT ![q] = work[h].form]
      /\ UNCHANGED <<status, approvals, batches, positions, headcount, vacancy>>
  BY <1>0 DEF UpdateWrite, At, positionVars
<1>2. q \in Vacs /\ work[h].form \in Forms
  BY <1>0, <1>1, HandlerFacts DEF WellFormed, At
<1>3. TypeOK'
  BY <1>1, <1>2, IdleOK DEF IInv, TypeOK, Finish, Becomes
<1>4. (RowsIdentified(q) /\ RestSkipped(q) /\ CleanWhilePending(q) /\ FormFilled(q))'
  BY <1>1, <1>2 DEF IInv, TypeOK, RowsIdentified, RestSkipped, CleanWhilePending, FormFilled, StepsIn
<1>5. \A p \in Vacs \ {q} : form'[p] = form[p]
  BY <1>1 DEF IInv, TypeOK
<1>6. /\ status'[q] = "PENDING_APPROVAL" => \E x \in approvals'[q] : x.status = "PENDING"
      /\ vacancy'[q] > 0 <=> status'[q] = "APPROVED"
      /\ Ordered(approvals'[q])
  BY <1>1, <1>2 DEF IInv, SomeoneCanDecide, VacancyIffApproved, DecidedInOrder, Ordered, StepsIn
<1>7. batches'[q] >= batches[q]
  BY <1>1, <1>2 DEF IInv, TypeOK
<1>. QED
  BY <1>1, <1>2, <1>3, <1>4, <1>5, <1>6, <1>7, <1>0, RowsChange DEF Ordered

(* The commit of submit: new levels, request in approval.                  *)
LEMMA SubmitInsertKeeps ==
  ASSUME IInv, NEW h \in Handlers, SubmitInsert(h)
  PROVE  IInv'
<1>0. PICK q \in Vacs : work[h].q = q
  BY HandlerFacts DEF SubmitInsert, At
<1> DEFINE new == NewSteps(q, 1, work[h].levels)
<1>1. CASE Collide(Kept(h), new)
  BY <1>0, <1>1, HandlerEnds DEF SubmitInsert
<1>2. CASE ~Collide(Kept(h), new)
  <2>1. /\ work[h].op = "submit" /\ work[h].pc = "insert" /\ Finish(h)
        /\ status' = [status EXCEPT ![q] = "PENDING_APPROVAL"]
        /\ approvals' = [approvals EXCEPT ![q] = Kept(h) \union new]
        /\ batches' = [batches EXCEPT ![q] = @ + 1]
        /\ UNCHANGED <<form, positions, headcount, vacancy>>
    BY <1>0, <1>2 DEF SubmitInsert, At, Insert, positionVars
  <2>2. /\ q \in Vacs /\ work[h] \in HandlerType /\ WellFormed(work[h]) /\ OwnerStands(work[h])
    BY <1>0, <2>1, HandlerFacts
  <2>3. work[h].levels \in Nat \ {0} /\ work[h].owns
    BY <2>1, <2>2 DEF WellFormed, HandlerType
  <2>4. approvals'[q] = Kept(h) \union new /\ batches'[q] = batches[q] + 1
        /\ status'[q] = "PENDING_APPROVAL"
    BY <2>1, <2>2 DEF IInv, TypeOK
  <2>5. Kept(h) \in SUBSET approvals[q]
    BY <1>0 DEF Kept
  <2>6. /\ Orderly(q) /\ \E x \in approvals'[q] : x.status = "PENDING"
        /\ \A y \in approvals'[q] : y \in Kept(h) \/ y.status = "PENDING"
    BY <2>2, <2>3, <2>4, <2>5, InsertOrderly
  <2>7. CleanWhilePending(q)'
    <3>1. \A y \in approvals'[q] : y.status \notin {"REJECTED", "SKIPPED"}
      BY <2>1, <1>0, <2>2, <2>6 DEF Kept, OwnerStands
    <3>. QED
      BY <3>1 DEF CleanWhilePending, StepsIn
  <2>8. FormFilled(q)' /\ vacancy'[q] = 0
    BY <2>1, <2>2, <1>0 DEF IInv, FormFilled, OwnerStands, VacancyIffApproved, TypeOK
  <2>9. TypeOK'
    <3>1. approvals'[q] \subseteq StepType
      BY <2>6 DEF Orderly
    <3>2. Kept(h) \union new \subseteq StepType
      BY <2>4, <3>1
    <3>3. /\ batches' \in [Vacs -> Nat] /\ status' \in [Vacs -> RequestStatus]
          /\ form' \in [Vacs -> Forms \union {NoForm}] /\ vacancy' \in [Vacs -> Nat]
          /\ positions' \subseteq Positions /\ headcount' \in [Positions -> Nat]
      BY <2>1, <2>2 DEF IInv, TypeOK, RequestStatus
    <3>4. TypeOK
      BY DEF IInv
    <3> HIDE DEF new
    <3>. QED
      BY <2>1, <2>2, <3>2, <3>3, <3>4, CommitType
  <2>10. \A p \in Vacs \ {q} : /\ status'[p] = status[p] /\ form'[p] = form[p]
                               /\ approvals'[p] = approvals[p] /\ batches'[p] = batches[p]
                               /\ vacancy'[p] = vacancy[p]
    BY <2>1 DEF IInv, TypeOK
  <2>11. \A g \in Handlers \ {h} : work[g].q = q =>
            /\ ~work[g].owns
            /\ \A x \in approvals[q] : IdOf(x) \in work[g].held => x \in approvals'[q]
    BY <2>2, <2>3, <2>4, <1>0, SoleOwner, RivalRows DEF Kept
  <2> HIDE DEF new
  <2>. QED
    BY <2>1, <2>2, <2>4, <2>6, <2>7, <2>8, <2>9, <2>10, <2>11, <1>0, RowsChange DEF Orderly, Ordered
<1>. QED
  BY <1>1, <1>2

(* The commit of updateApprovals: new levels after the decided ones.       *)
LEMMA ProcessInsertKeeps ==
  ASSUME IInv, NEW h \in Handlers, ProcessInsert(h)
  PROVE  IInv'
<1>0. PICK q \in Vacs : work[h].q = q
  BY HandlerFacts DEF ProcessInsert, At
<1> DEFINE new == NewSteps(q, work[h].locked + 1, work[h].levels)
<1>1. CASE Collide(Kept(h), new)
  BY <1>0, <1>1, HandlerEnds DEF ProcessInsert
<1>2. CASE ~Collide(Kept(h), new)
  <2>1. /\ work[h].op = "process" /\ work[h].pc = "insert" /\ Finish(h)
        /\ approvals' = [approvals EXCEPT ![q] = Kept(h) \union new]
        /\ batches' = [batches EXCEPT ![q] = @ + 1]
        /\ UNCHANGED <<status, form, positions, headcount, vacancy>>
    BY <1>0, <1>2 DEF ProcessInsert, At, Insert, positionVars, requestVars
  <2>2. /\ q \in Vacs /\ work[h] \in HandlerType /\ WellFormed(work[h])
    BY <1>0, <2>1, HandlerFacts
  <2>3. work[h].levels \in Nat \ {0} /\ work[h].locked + 1 \in Nat \ {0}
    BY <2>1, <2>2 DEF WellFormed, HandlerType
  <2>4. approvals'[q] = Kept(h) \union new /\ batches'[q] = batches[q] + 1
    BY <2>1, <2>2 DEF IInv, TypeOK
  <2>5. Kept(h) \in SUBSET approvals[q]
    BY <1>0 DEF Kept
  <2>6. /\ Orderly(q) /\ \E x \in approvals'[q] : x.status = "PENDING"
        /\ \A y \in approvals'[q] : y \in Kept(h) \/ y.status = "PENDING"
    BY <2>2, <2>3, <2>4, <2>5, InsertOrderly
  <2>7. \A y \in approvals'[q] : y.status \in {"REJECTED", "SKIPPED"} => y \in approvals[q]
    BY <2>5, <2>6
  <2>8. CleanWhilePending(q)' /\ FormFilled(q)' /\ (vacancy'[q] > 0 <=> status'[q] = "APPROVED")
    BY <2>1, <2>2, <2>7 DEF IInv, CleanWhilePending, StepsIn, FormFilled, VacancyIffApproved
  <2>9. TypeOK'
    <3>1. approvals'[q] \subseteq StepType
      BY <2>6 DEF Orderly
    <3>2. Kept(h) \union new \subseteq StepType
      BY <2>4, <3>1
    <3>3. /\ batches' \in [Vacs -> Nat] /\ status' \in [Vacs -> RequestStatus]
          /\ form' \in [Vacs -> Forms \union {NoForm}] /\ vacancy' \in [Vacs -> Nat]
          /\ positions' \subseteq Positions /\ headcount' \in [Positions -> Nat]
      BY <2>1, <2>2 DEF IInv, TypeOK
    <3>4. TypeOK
      BY DEF IInv
    <3> HIDE DEF new
    <3>. QED
      BY <2>1, <2>2, <3>2, <3>3, <3>4, CommitType
  <2>10. \A p \in Vacs \ {q} : /\ status'[p] = status[p] /\ form'[p] = form[p]
                               /\ approvals'[p] = approvals[p] /\ batches'[p] = batches[p]
                               /\ vacancy'[p] = vacancy[p]
    BY <2>1 DEF IInv, TypeOK
  <2>11. \A g \in Handlers \ {h} : work[g].q = q =>
            \A x \in approvals[q] : IdOf(x) \in work[g].held => x \in approvals'[q]
    BY <2>2, <2>4, <1>0, RivalRows DEF Kept
  <2> HIDE DEF new
  <2>. QED
    BY <2>1, <2>2, <2>6, <2>7, <2>8, <2>9, <2>10, <2>11, <1>0, RowsChange DEF Orderly, Ordered
<1>. QED
  BY <1>1, <1>2

(* The step a transaction has locked is a pending row, and the lower       *)
(* levels of its batch have approved.                                      *)
LEMMA LockedStep ==
  ASSUME IInv, NEW h \in Handlers, NEW q \in Vacs, work[h].q = q, work[h].pc \in Stepping
  PROVE  \E z \in approvals[q] :
            /\ z.status = "PENDING" /\ IdOf(z) = work[h].step /\ work[h].held = {IdOf(z)}
            /\ \A y \in approvals[q] : y.batch = z.batch /\ y.seq < z.seq => y.status = "APPROVED"
<1>1. WellFormed(work[h]) /\ StepStands(work[h])
  BY DEF IInv
<1>2. PICK z \in approvals[q] : z.status = "PENDING" /\ IdOf(z) = work[h].step
  BY <1>1 DEF StepStands, Ids, StepsIn
<1>3. work[h].step[1] = z.batch /\ work[h].step[2] = z.seq
  BY <1>2 DEF IdOf
<1>. QED
  BY <1>1, <1>2, <1>3 DEF StepStands, WellFormed

(* The commit of a rejection: later levels skipped, request in draft.      *)
LEMMA ReturnKeeps ==
  ASSUME IInv, NEW h \in Handlers, Return(h)
  PROVE  IInv'
<1>0. PICK q \in Vacs : work[h].q = q
  BY HandlerFacts DEF Return
<1>1. CASE status[q] # "PENDING_APPROVAL"
  BY <1>0, <1>1, HandlerEnds DEF Return
<1>2. CASE status[q] = "PENDING_APPROVAL"
  <2>1. /\ work[h].pc = "return" /\ Finish(h) /\ RequestFree(h) /\ StepsFree(h, Later(h))
        /\ status' = [status EXCEPT ![q] = "DRAFT"]
        /\ approvals' = [approvals EXCEPT ![q] = RejectedBy(h)]
        /\ UNCHANGED <<form, batches, positions, headcount, vacancy>>
    BY <1>0, <1>2 DEF Return, positionVars
  <2>2. PICK z \in approvals[q] :
            /\ z.status = "PENDING" /\ IdOf(z) = work[h].step /\ work[h].held = {IdOf(z)}
            /\ \A y \in approvals[q] : y.batch = z.batch /\ y.seq < z.seq => y.status = "APPROVED"
    BY <1>0, <2>1, LockedStep DEF Stepping
  <2>3. approvals'[q] = RejectedBy(h) /\ batches'[q] = batches[q] /\ status'[q] = "DRAFT"
    BY <2>1 DEF IInv, TypeOK
  <2>4. /\ Orderly(q)
        /\ \A x \in approvals[q] : x # z /\ IdOf(x) \notin Later(h) => x \in approvals'[q]
    BY <1>0, <2>2, <2>3, RejectOrderly
  <2>5. CleanWhilePending(q)' /\ FormFilled(q)' /\ ~(vacancy'[q] > 0)
    BY <1>2, <2>1, <2>3 DEF IInv, CleanWhilePending, FormFilled, VacancyIffApproved
  <2>6. TypeOK'
    <3>1. RejectedBy(h) \subseteq StepType
      BY <2>3, <2>4 DEF Orderly
    <3>2. /\ batches' \in [Vacs -> Nat] /\ status' \in [Vacs -> RequestStatus]
          /\ form' \in [Vacs -> Forms \union {NoForm}] /\ vacancy' \in [Vacs -> Nat]
          /\ positions' \subseteq Positions /\ headcount' \in [Positions -> Nat]
      BY <2>1 DEF IInv, TypeOK, RequestStatus
    <3>3. TypeOK
      BY DEF IInv
    <3>. QED
      BY <2>1, <3>1, <3>2, <3>3, CommitType
  <2>7. \A p \in Vacs \ {q} : /\ status'[p] = status[p] /\ form'[p] = form[p]
                              /\ approvals'[p] = approvals[p] /\ batches'[p] = batches[p]
                              /\ vacancy'[p] = vacancy[p]
    BY <2>1 DEF IInv, TypeOK
  <2>8. ASSUME NEW g \in Handlers \ {h}, work[g].q = q
        PROVE  /\ ~work[g].owns
               /\ \A x \in approvals[q] : IdOf(x) \in work[g].held => x \in approvals'[q]
    <3>1. ~work[g].owns /\ work[g].held \intersect Later(h) = {}
      BY <1>0, <2>1, <2>8 DEF RequestFree, StepsFree, Rivals
    <3>2. IdOf(z) \notin work[g].held
      BY <1>0, <2>2, <2>8, RivalRows
    <3>. QED
      BY <2>4, <3>1, <3>2
  <2>. QED
    BY <1>0, <2>1, <2>3, <2>4, <2>5, <2>6, <2>7, <2>8, RowsChange DEF Orderly, Ordered
<1>. QED
  BY <1>1, <1>2

(* An approval with levels left commits; the last one goes on.             *)
LEMMA CountRemainingKeeps ==
  ASSUME IInv, NEW h \in Handlers, CountRemaining(h)
  PROVE  IInv'
<1>0. PICK q \in Vacs : work[h].q = q
  BY HandlerFacts DEF CountRemaining
<1>1. PICK z \in approvals[q] :
          /\ z.status = "PENDING" /\ IdOf(z) = work[h].step /\ work[h].held = {IdOf(z)}
          /\ \A y \in approvals[q] : y.batch = z.batch /\ y.seq < z.seq => y.status = "APPROVED"
  BY <1>0, LockedStep DEF CountRemaining, Stepping
<1>2. CASE Remaining(h) = {}
  <2> DEFINE w == [work[h] EXCEPT !.pc = "finalize"]
  <2>1. Becomes(h, w) /\ UNCHANGED tables /\ work[h].pc = "count"
    BY <1>2 DEF CountRemaining
  <2>2. /\ work[h] \in HandlerType /\ WellFormed(work[h]) /\ StepStands(work[h])
    BY HandlerFacts
  <2>3. w \in HandlerType
    BY <2>2 DEF HandlerType
  <2>4. /\ w.op = work[h].op /\ w.pc = "finalize" /\ w.q = q /\ w.step = work[h].step
        /\ w.held = work[h].held /\ w.owns = work[h].owns
    BY <1>0, <2>2 DEF HandlerType
  <2>5. WellFormed(w)
    BY <1>0, <2>1, <2>2, <2>4 DEF WellFormed, Stepping
  <2>6. \A y \in approvals[q] : IdOf(y) # work[h].step => y.status # "PENDING"
    BY <1>0, <1>2 DEF Remaining, Ids, StepsIn
  <2>7. StepStands(w)
    BY <1>0, <2>1, <2>2, <2>4, <2>6 DEF StepStands, Stepping
  <2>8. OwnerStands(w)
    BY <2>4 DEF OwnerStands
  <2>9. \A g \in Handlers \ {h} : work[g].q = w.q /\ w.q # NoRow =>
           ~(work[g].owns /\ w.owns) /\ work[g].held \intersect w.held = {}
    BY <1>0, <2>4 DEF IInv, LocksDisjoint
  <2>10. work' = [work EXCEPT ![h] = w]
    BY <2>1 DEF Becomes
  <2>. QED
    BY <2>1, <2>3, <2>5, <2>7, <2>8, <2>9, <2>10, HandlerMoves
<1>3. CASE Remaining(h) # {}
  <2>1. /\ Finish(h) /\ approvals' = [approvals EXCEPT ![q] = Approved(q, IdOf(z))]
        /\ UNCHANGED <<status, form, batches, positions, headcount, vacancy>>
    BY <1>0, <1>1, <1>3 DEF CountRemaining, requestVars, positionVars
  <2>2. approvals'[q] = Approved(q, IdOf(z)) /\ batches'[q] = batches[q] /\ status'[q] = status[q]
    BY <2>1 DEF IInv, TypeOK
  <2>3. /\ Orderly(q)
        /\ \A y \in approvals'[q] : y.status \in {"REJECTED", "SKIPPED"} => y \in approvals[q]
        /\ \A x \in approvals[q] : x # z => x \in approvals'[q]
    BY <1>1, <2>2, ApproveOrderly
  <2>4. \E x \in approvals'[q] : x.status = "PENDING"
    <3>1. PICK x \in approvals[q] : x.status = "PENDING" /\ IdOf(x) # work[h].step
      BY <1>0, <1>3 DEF Remaining, Ids, StepsIn
    <3>. QED
      BY <1>1, <2>3, <3>1
  <2>5. CleanWhilePending(q)' /\ FormFilled(q)' /\ (vacancy'[q] > 0 <=> status'[q] = "APPROVED")
    BY <2>1, <2>2, <2>3 DEF IInv, CleanWhilePending, StepsIn, FormFilled, VacancyIffApproved
  <2>6. TypeOK'
    <3>1. Approved(q, IdOf(z)) \subseteq StepType
      BY <2>2, <2>3 DEF Orderly
    <3>2. /\ batches' \in [Vacs -> Nat] /\ status' \in [Vacs -> RequestStatus]
          /\ form' \in [Vacs -> Forms \union {NoForm}] /\ vacancy' \in [Vacs -> Nat]
          /\ positions' \subseteq Positions /\ headcount' \in [Positions -> Nat]
      BY <2>1 DEF IInv, TypeOK
    <3>3. TypeOK
      BY DEF IInv
    <3>. QED
      BY <2>1, <3>1, <3>2, <3>3, CommitType
  <2>7. \A p \in Vacs \ {q} : /\ status'[p] = status[p] /\ form'[p] = form[p]
                              /\ approvals'[p] = approvals[p] /\ batches'[p] = batches[p]
                              /\ vacancy'[p] = vacancy[p]
    BY <2>1 DEF IInv, TypeOK
  <2>8. \A g \in Handlers \ {h} : work[g].q = q =>
           \A x \in approvals[q] : IdOf(x) \in work[g].held => x \in approvals'[q]
    BY <1>0, <1>1, <2>3, RivalRows
  <2>. QED
    BY <1>0, <2>1, <2>2, <2>3, <2>4, <2>5, <2>6, <2>7, <2>8, RowsChange DEF Orderly, Ordered
<1>. QED
  BY <1>2, <1>3

(* The commit of the last approval opens the vacancy.                      *)
LEMMA OpenVacancyKeeps ==
  ASSUME IInv, NEW h \in Handlers, OpenVacancy(h)
  PROVE  IInv'
<1>0. PICK q \in Vacs : work[h].q = q
  BY HandlerFacts DEF OpenVacancy
<1> DEFINE ok == vacancy[q] = 0
                 /\ (form[q].type = "NEW_POSITION" => form[q].position \notin positions)
<1>1. PICK z \in approvals[q] :
          /\ z.status = "PENDING" /\ IdOf(z) = work[h].step /\ work[h].held = {IdOf(z)}
          /\ \A y \in approvals[q] : y.batch = z.batch /\ y.seq < z.seq => y.status = "APPROVED"
  BY <1>0, LockedStep DEF OpenVacancy, Stepping
<1>2. CASE ~ok
  BY <1>0, <1>2, HandlerEnds DEF OpenVacancy
<1>3. CASE ok
  <2>1. /\ work[h].pc = "vacancy" /\ Finish(h) /\ GrownPosition(h)
        /\ approvals' = [approvals EXCEPT ![q] = Approved(q, IdOf(z))]
        /\ vacancy' = [vacancy EXCEPT ![q] = form[q].openings]
        /\ status' = [status EXCEPT ![q] = "APPROVED"]
        /\ UNCHANGED <<form, batches>>
    BY <1>0, <1>1, <1>3 DEF OpenVacancy
  <2>2. /\ approvals'[q] = Approved(q, IdOf(z)) /\ batches'[q] = batches[q]
        /\ status'[q] = "APPROVED" /\ vacancy'[q] = form[q].openings
    BY <2>1 DEF IInv, TypeOK
  <2>3. status[q] = "PENDING_APPROVAL" /\ work[h].owns
    BY <1>0, <2>1, HandlerFacts DEF OwnerStands, WellFormed
  <2>4. form[q] \in Forms /\ form[q].openings \in Nat \ {0} /\ form[q].position \in Positions
    BY <2>3, RequestConstants DEF IInv, FormFilled, Forms
  <2>5. /\ Orderly(q)
        /\ \A x \in approvals[q] : x # z => x \in approvals'[q]
    BY <1>1, <2>2, ApproveOrderly
  <2>6. CleanWhilePending(q)' /\ FormFilled(q)' /\ vacancy'[q] > 0
    BY <2>1, <2>2, <2>4 DEF CleanWhilePending, FormFilled
  <2>7. TypeOK'
    <3>1. Approved(q, IdOf(z)) \subseteq StepType
      BY <2>2, <2>5 DEF Orderly
    <3>2. /\ batches' \in [Vacs -> Nat] /\ status' \in [Vacs -> RequestStatus]
          /\ form' \in [Vacs -> Forms \union {NoForm}] /\ vacancy' \in [Vacs -> Nat]
      BY <2>1, <2>4 DEF IInv, TypeOK, RequestStatus
    <3>3. positions' \subseteq Positions /\ headcount' \in [Positions -> Nat]
      BY <1>0, <2>1, <2>4 DEF IInv, TypeOK, GrownPosition
    <3>4. TypeOK
      BY DEF IInv
    <3>. QED
      BY <2>1, <3>1, <3>2, <3>3, <3>4, CommitType
  <2>8. \A p \in Vacs \ {q} : /\ status'[p] = status[p] /\ form'[p] = form[p]
                              /\ approvals'[p] = approvals[p] /\ batches'[p] = batches[p]
                              /\ vacancy'[p] = vacancy[p]
    BY <2>1 DEF IInv, TypeOK
  <2>9. \A g \in Handlers \ {h} : work[g].q = q =>
           /\ ~work[g].owns
           /\ \A x \in approvals[q] : IdOf(x) \in work[g].held => x \in approvals'[q]
    BY <1>0, <1>1, <2>3, <2>5, RivalRows, SoleOwner
  <2>. QED
    BY <1>0, <2>1, <2>2, <2>5, <2>6, <2>7, <2>8, <2>9, RowsChange DEF Orderly, Ordered
<1>. QED
  BY <1>2, <1>3
-----------------------------------------------------------------------------
(* A new request has no rows, no vacancy and no handler that owns it.      *)
LEMMA CreateKeeps ==
  ASSUME IInv, NEW q \in Vacs, NEW f \in Forms, Create(q, f)
  PROVE  IInv'
<1>1. /\ status[q] = "NONE" /\ status' = [status EXCEPT ![q] = "DRAFT"]
      /\ form' = [form EXCEPT ![q] = f]
      /\ UNCHANGED <<approvals, batches, positions, headcount, vacancy, work>>
  BY DEF Create, positionVars
<1>2. TypeOK'
  BY <1>1 DEF IInv, TypeOK, RequestStatus
<1>3. \A p \in Vacs : /\ status'[p] = IF p = q THEN "DRAFT" ELSE status[p]
                      /\ form'[p] = IF p = q THEN f ELSE form[p]
  <2>1. status \in [Vacs -> RequestStatus] /\ form \in [Vacs -> Forms \union {NoForm}]
    BY DEF IInv, TypeOK
  <2>. QED
    BY <1>1, <2>1
<1>4. ASSUME NEW p \in Vacs
      PROVE  (RowsIdentified(p) /\ RestSkipped(p) /\ CleanWhilePending(p) /\ FormFilled(p))'
  <2>1. RowsIdentified(p)'
    BY <1>1 DEF IInv, RowsIdentified
  <2>3. RestSkipped(p)'
    BY <1>1 DEF IInv, RestSkipped
  <2>2. CleanWhilePending(p)' /\ FormFilled(p)'
    BY <1>1, <1>3 DEF IInv, CleanWhilePending, FormFilled, StepsIn
  <2>. QED
    BY <2>1, <2>2, <2>3
<1>5. ASSUME NEW g \in Handlers
      PROVE  (WellFormed(work[g]) /\ StepStands(work[g]) /\ OwnerStands(work[g]))'
  <2>1. WellFormed(work[g]) /\ StepStands(work[g]) /\ OwnerStands(work[g])
    BY DEF IInv
  <2>2. WellFormed(work[g])' /\ StepStands(work[g])'
    BY <1>1, <2>1 DEF WellFormed, StepStands, StepsIn
  <2>3. work[g].op # "none" => work[g].q \in Vacs
    BY <2>1 DEF WellFormed
  <2>4. work[g].pc \in {"vacancy", "insert"} => work[g].op # "none"
    BY <2>1, IdleOK DEF WellFormed
  <2>5. OwnerStands(work[g])'
    BY <1>1, <1>3, <2>1, <2>3, <2>4 DEF OwnerStands
  <2>. QED
    BY <2>2, <2>5
<1>6. (LocksDisjoint /\ SomeoneCanDecide /\ VacancyIffApproved /\ DecidedInOrder)'
  BY <1>1, <1>3 DEF IInv, LocksDisjoint, SomeoneCanDecide, VacancyIffApproved, DecidedInOrder,
                    StepsIn
<1>. QED
  BY <1>2, <1>4, <1>5, <1>6 DEF IInv

(* Nothing else the invariant says depends on the positions.               *)
LEMMA PositionsFree ==
  ASSUME IInv, TypeOK', UNCHANGED <<status, form, approvals, batches, vacancy, work>>
  PROVE  IInv'
<1>1. ASSUME NEW q \in Vacs
      PROVE  (RowsIdentified(q) /\ RestSkipped(q) /\ CleanWhilePending(q) /\ FormFilled(q))'
  BY DEF IInv, RowsIdentified, RestSkipped, CleanWhilePending, FormFilled, StepsIn
<1>2. ASSUME NEW g \in Handlers
      PROVE  (WellFormed(work[g]) /\ StepStands(work[g]) /\ OwnerStands(work[g]))'
  BY DEF IInv, WellFormed, StepStands, OwnerStands, StepsIn
<1>3. (LocksDisjoint /\ SomeoneCanDecide /\ VacancyIffApproved /\ DecidedInOrder)'
  BY DEF IInv, LocksDisjoint, SomeoneCanDecide, VacancyIffApproved, DecidedInOrder, StepsIn
<1>. QED
  BY <1>1, <1>2, <1>3 DEF IInv

(* The headcount of a position is set.                                     *)
LEMMA ResizeKeeps ==
  ASSUME IInv, NEW p \in Positions, NEW n \in Openings, ResizePosition(p, n)
  PROVE  IInv'
<1>1. /\ headcount' = [headcount EXCEPT ![p] = n]
      /\ UNCHANGED <<status, form, approvals, batches, positions, vacancy, work>>
  BY DEF ResizePosition, requestVars
<1>2. TypeOK'
  BY <1>1, RequestConstants DEF IInv, TypeOK
<1>. QED
  BY <1>1, <1>2, PositionsFree

(* A step of a handler in flight.                                          *)
LEMMA HandlerStepKeeps ==
  ASSUME IInv, NEW h \in Handlers, HandlerStep(h)
  PROVE  IInv'
BY UpdateWriteKeeps, SubmitTakeKeeps, SubmitInsertKeeps, ProcessRowsKeeps, ProcessDeleteKeeps,
   ProcessInsertKeeps, DecideRowsKeeps, TakeStepKeeps, ReturnKeeps, CountRemainingKeeps,
   FinalizeKeeps, OpenVacancyKeeps DEF HandlerStep

LEMMA InitIInv == Init => IInv
<1> SUFFICES ASSUME Init PROVE IInv
  OBVIOUS
<1>1. TypeOK
  BY RequestConstants, IdleOK DEF Init, TypeOK, RequestStatus, StepType
<1>2. \A q \in Vacs : /\ status[q] = "NONE" /\ approvals[q] = {} /\ batches[q] = 0
                      /\ vacancy[q] = 0
  BY DEF Init
<1>3. \A q \in Vacs : RowsIdentified(q) /\ RestSkipped(q) /\ CleanWhilePending(q) /\ FormFilled(q)
  BY <1>2, FS_EmptySet DEF RowsIdentified, RestSkipped, CleanWhilePending, FormFilled
<1>4. \A h \in Handlers : work[h] = Idle
  BY DEF Init
<1>5. \A h \in Handlers : WellFormed(work[h]) /\ StepStands(work[h]) /\ OwnerStands(work[h])
  BY <1>4, IdleOK, IdleStands
<1>6. LocksDisjoint
  BY <1>4, IdleOK DEF LocksDisjoint
<1>7. SomeoneCanDecide /\ VacancyIffApproved /\ DecidedInOrder
  BY <1>2 DEF SomeoneCanDecide, VacancyIffApproved, DecidedInOrder
<1>. QED
  BY <1>1, <1>3, <1>5, <1>6, <1>7 DEF IInv

LEMMA NextIInv == IInv /\ [Next]_vars => IInv'
<1> SUFFICES ASSUME IInv, [Next]_vars PROVE IInv'
  OBVIOUS
<1>1. ASSUME NEW q \in Vacs, NEW f \in Forms, Create(q, f) PROVE IInv'
  BY <1>1, CreateKeeps
<1>2. ASSUME NEW h \in Handlers, Request(h) PROVE IInv'
  BY <1>2, RequestKeeps
<1>3. ASSUME NEW h \in Handlers, HandlerStep(h) PROVE IInv'
  BY <1>3, HandlerStepKeeps
<1>4. ASSUME NEW h \in Handlers, Rollback(h) PROVE IInv'
  BY <1>4, HandlerEnds DEF Rollback
<1>5. ASSUME NEW p \in Positions, NEW n \in Openings, ResizePosition(p, n) PROVE IInv'
  BY <1>5, ResizeKeeps
<1>6. CASE UNCHANGED vars
  <2>1. UNCHANGED <<status, form, approvals, batches, positions, headcount, vacancy, work>>
    BY <1>6 DEF vars, tables, requestVars, positionVars
  <2>2. TypeOK'
    BY <2>1 DEF IInv, TypeOK
  <2>. QED
    BY <2>1, <2>2, PositionsFree
<1>. QED
  BY <1>1, <1>2, <1>3, <1>4, <1>5, <1>6 DEF Next

(* The invariant holds in every reachable state.                           *)
THEOREM RequestsInductive == Spec => []IInv
BY InitIInv, NextIInv, PTL DEF Spec

(* Columns and handlers are always well typed.                             *)
THEOREM RequestsTyped == Spec => []TypeOK
<1>1. IInv => TypeOK
  BY DEF IInv
<1>. QED
  BY <1>1, RequestsInductive, PTL

(* A request in approval always has a level left to decide it.             *)
THEOREM ApprovalCanGoOn == Spec => []SomeoneCanDecide
<1>1. IInv => SomeoneCanDecide
  BY DEF IInv
<1>. QED
  BY <1>1, RequestsInductive, PTL

(* The vacancies are those of the approved requests.                       *)
THEOREM VacancyOnApproval == Spec => []VacancyIffApproved
<1>1. IInv => VacancyIffApproved
  BY DEF IInv
<1>. QED
  BY <1>1, RequestsInductive, PTL

(* Levels are decided in order.                                            *)
THEOREM LevelsInOrder == Spec => []DecidedInOrder
<1>1. IInv => DecidedInOrder
  BY DEF IInv
<1>. QED
  BY <1>1, RequestsInductive, PTL
-----------------------------------------------------------------------------
(* The rows of a request change only when a transaction commits.           *)
LEMMA OnlyCommits ==
  ASSUME [Next]_vars
  PROVE  \/ approvals' = approvals
         \/ \E h \in Handlers : SubmitInsert(h) \/ ProcessInsert(h) \/ Return(h)
                               \/ CountRemaining(h) \/ OpenVacancy(h)
<1>1. ASSUME NEW h \in Handlers, Request(h) PROVE approvals' = approvals
  BY <1>1 DEF Request, UpdateRead, SubmitRead, ProcessRead, DecideRead, tables
<1>2. ASSUME NEW h \in Handlers, HandlerStep(h)
      PROVE  approvals' = approvals \/ SubmitInsert(h) \/ ProcessInsert(h) \/ Return(h)
               \/ CountRemaining(h) \/ OpenVacancy(h)
  BY <1>2 DEF HandlerStep, UpdateWrite, SubmitTake, ProcessRows, ProcessDelete, DecideRows,
              TakeStep, Finalize, Proceed, tables
<1>3. ASSUME NEW h \in Handlers, Rollback(h) PROVE approvals' = approvals
  BY <1>3 DEF Rollback, tables
<1>4. ASSUME NEW q \in Vacs, NEW f \in Forms, Create(q, f) PROVE approvals' = approvals
  BY <1>4 DEF Create
<1>5. ASSUME NEW p \in Positions, NEW n \in Openings, ResizePosition(p, n)
      PROVE  approvals' = approvals
  BY <1>5 DEF ResizePosition
<1>6. CASE UNCHANGED vars
  BY <1>6 DEF vars, tables
<1>. QED
  BY <1>1, <1>2, <1>3, <1>4, <1>5, <1>6 DEF Next

(* A transaction that commits rows keeps those decided, submit excepted.   *)
LEMMA CommitsKeepDecisions ==
  ASSUME IInv, NEW h \in Handlers, NEW q \in Vacs, work[h].q = q,
         NEW x \in approvals[q], x.status \in Locked,
         \/ ProcessInsert(h) \/ Return(h) \/ CountRemaining(h) \/ OpenVacancy(h)
  PROVE  x \in approvals'[q]
<1>0. /\ approvals \in [Vacs -> SUBSET StepType] /\ RowsIdentified(q) /\ TypeOK
      /\ OwnerStands(work[h])
  BY DEF IInv, TypeOK
<1>1. CASE ProcessInsert(h)
  <2>1. IdOf(x) \notin work[h].held
    BY <1>0, <1>1 DEF ProcessInsert, At, OwnerStands, Locked
  <2>2. x \in Kept(h)
    BY <2>1 DEF Kept
  <2>. QED
    BY <1>0, <1>1, <2>2 DEF ProcessInsert, Insert, tables
<1>2. CASE work[h].pc \in Stepping
  <2>1. PICK z \in approvals[q] : z.status = "PENDING" /\ IdOf(z) = work[h].step
    BY <1>2, LockedStep
  <2>2. IdOf(x) # work[h].step
    BY <1>0, <2>1 DEF RowsIdentified, Locked
  <2>3. IdOf(x) \notin Later(h)
    BY <1>0 DEF RowsIdentified, Later, Ids, StepsIn, Locked
  <2>4. x \in RejectedBy(h) /\ x \in Approved(q, work[h].step)
    BY <2>2, <2>3 DEF RejectedBy, Approved
  <2>. QED
    BY <1>0, <1>2, <2>4
       DEF ProcessInsert, At, Return, CountRemaining, OpenVacancy, Stepping, tables
<1>. QED
  BY <1>1, <1>2 DEF Return, CountRemaining, OpenVacancy, Stepping

(* A decision is never changed, and only a new submission removes it.      *)
THEOREM DecisionsKept == Spec => DecisionsStand
<1>1. IInv /\ [Next]_vars => \A q \in Vacs : DecisionKept(q)
  <2> SUFFICES ASSUME IInv, [Next]_vars, NEW q \in Vacs,
                      NEW x \in approvals[q], x.status \in Locked, x \notin approvals'[q]
               PROVE  status[q] = "DRAFT" /\ status'[q] = "PENDING_APPROVAL"
    BY DEF DecisionKept
  <2>1. PICK h \in Handlers : SubmitInsert(h) \/ ProcessInsert(h) \/ Return(h)
                              \/ CountRemaining(h) \/ OpenVacancy(h)
    BY OnlyCommits
  <2>2. approvals \in [Vacs -> SUBSET StepType] /\ status \in [Vacs -> RequestStatus]
    BY DEF IInv, TypeOK
  <2>3. work[h].q = q
    BY <2>1, <2>2 DEF SubmitInsert, ProcessInsert, Insert, Return, CountRemaining, OpenVacancy, tables
  <2>4. SubmitInsert(h)
    BY <2>1, <2>3, CommitsKeepDecisions
  <2>5. status[q] = "DRAFT"
    BY <2>3, <2>4, HandlerFacts DEF SubmitInsert, At, OwnerStands
  <2>. QED
    BY <2>2, <2>3, <2>4, <2>5 DEF SubmitInsert, tables
<1>. QED
  BY <1>1, RequestsInductive, PTL DEF Spec, DecisionsStand

(* A request is approved by the commit that opens its vacancy.             *)
LEMMA OnlyOpenVacancyApproves ==
  ASSUME IInv, [Next]_vars, NEW q \in Vacs, status'[q] = "APPROVED", status[q] # "APPROVED"
  PROVE  \E h \in Handlers : OpenVacancy(h) /\ work[h].q = q
<1>0. status \in [Vacs -> RequestStatus] /\ status' # status
  BY DEF IInv, TypeOK
<1>1. ASSUME NEW h \in Handlers, Request(h) PROVE FALSE
  BY <1>0, <1>1 DEF Request, UpdateRead, SubmitRead, ProcessRead, DecideRead, tables, requestVars
<1>2. ASSUME NEW h \in Handlers, HandlerStep(h) PROVE OpenVacancy(h) /\ work[h].q = q
  <2>1. CASE OpenVacancy(h)
    BY <1>0, <2>1 DEF OpenVacancy, tables, requestVars
  <2>2. CASE SubmitInsert(h)
    BY <1>0, <2>2 DEF SubmitInsert, tables, requestVars
  <2>3. CASE Return(h)
    BY <1>0, <2>3 DEF Return, tables, requestVars
  <2>. QED
    BY <1>0, <1>2, <2>1, <2>2, <2>3
       DEF HandlerStep, UpdateWrite, SubmitTake, ProcessRows, ProcessDelete, ProcessInsert,
           DecideRows, TakeStep, CountRemaining, Finalize, Proceed, tables, requestVars
<1>3. ASSUME NEW h \in Handlers, Rollback(h) PROVE FALSE
  BY <1>0, <1>3 DEF Rollback, tables, requestVars
<1>4. ASSUME NEW p \in Vacs, NEW f \in Forms, Create(p, f) PROVE FALSE
  BY <1>0, <1>4 DEF Create
<1>5. ASSUME NEW p \in Positions, NEW n \in Openings, ResizePosition(p, n) PROVE FALSE
  BY <1>0, <1>5 DEF ResizePosition, requestVars
<1>6. CASE UNCHANGED vars
  BY <1>0, <1>6 DEF vars, tables, requestVars
<1>. QED
  BY <1>1, <1>2, <1>3, <1>4, <1>5, <1>6 DEF Next

(* A request becomes approved by the approval of the last of its levels.   *)
THEOREM LastLevelApproves == Spec => ApprovedByEveryLevel
<1>1. IInv /\ [Next]_vars => \A q \in Vacs : status'[q] = "APPROVED" /\ status[q] # "APPROVED"
                                             => LastOfItsLevels(q)
  <2> SUFFICES ASSUME IInv, [Next]_vars, NEW q \in Vacs,
                      status'[q] = "APPROVED", status[q] # "APPROVED"
               PROVE  LastOfItsLevels(q)
    OBVIOUS
  <2>1. PICK h \in Handlers : OpenVacancy(h) /\ work[h].q = q
    BY OnlyOpenVacancyApproves
  <2>2. PICK z \in approvals[q] :
          /\ z.status = "PENDING" /\ IdOf(z) = work[h].step
          /\ \A y \in approvals[q] : y.batch = z.batch /\ y.seq < z.seq => y.status = "APPROVED"
    BY <2>1, LockedStep DEF OpenVacancy, Stepping
  <2>3. approvals \in [Vacs -> SUBSET StepType] /\ RowsIdentified(q)
    BY DEF IInv, TypeOK
  <2>4. approvals'[q] = Approved(q, IdOf(z)) /\ batches'[q] = batches[q]
    BY <2>1, <2>2, <2>3 DEF OpenVacancy, tables, requestVars
  <2>5. \A y \in approvals'[q] : y \in approvals[q] \ {z} \/ y.status = "APPROVED"
    BY <2>2, <2>4, ApproveOrderly
  <2>6. StepsIn(q, {"REJECTED", "SKIPPED"}) = {}
    BY <2>1, HandlerFacts DEF OpenVacancy, OwnerStands, IInv, CleanWhilePending
  <2>7. \A y \in approvals[q] : y.status \notin {"REJECTED", "SKIPPED"}
    BY <2>6 DEF StepsIn
  <2>8. z.batch = work[h].step[1]
    BY <2>2 DEF IdOf
  <2>9. \A y \in approvals[q] \ {z} : y.batch = z.batch => y.status = "APPROVED"
    <3>1. \A y \in approvals[q] \ {z} : IdOf(y) # work[h].step
      BY <2>2, <2>3 DEF RowsIdentified
    <3>2. \A y \in approvals[q] : y.batch = z.batch /\ IdOf(y) # work[h].step
                                     => y.status # "PENDING"
      BY <2>1, <2>8, HandlerFacts DEF OpenVacancy, StepStands
    <3>. QED
      BY <2>3, <2>7, <3>1, <3>2 DEF StepType, ApprovalStatus
  <2>. QED
    BY <2>2, <2>5, <2>7, <2>9 DEF LastOfItsLevels
<1>. QED
  BY <1>1, RequestsInductive, PTL DEF Spec, ApprovedByEveryLevel
=============================================================================
