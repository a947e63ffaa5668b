------------------------ MODULE GoalLifecycleProofs ------------------------
(***************************************************************************)
(* Proofs about GoalLifecycle for every number of key results, values,     *)
(* requests and handlers in flight.  A step moves one handler and leaves   *)
(* the tables alone (HandlerMoves), or writes under the lock of the goal,  *)
(* held by the handler or by nobody (Commits), or writes rows no handler   *)
(* under the lock stands on (Besides).                                     *)
(***************************************************************************)
EXTENDS GoalLifecycle, ScoreTheorems

Locking == {"checkIn", "request", "approve", "reject"}

(* A handler that has ended is one, and has locked nothing.                *)
LEMMA IdleOK ==
  /\ Idle \in HandlerType /\ HandlerStands(Idle)
  /\ Idle.op = "none" /\ Idle.pc = "idle" /\ Idle.locks = 0
<1>1. Idle \in HandlerType
  BY DEF Idle, HandlerType
<1>2. HandlerStands(Idle)
  BY DEF Idle, HandlerStands, LockState, OfKeyResult
<1>. QED
  BY <1>1, <1>2 DEF Idle

(* The rows a handler holds.                                               *)
Rows(w) == {LockOrder(w.op)[i] : i \in 1..w.locks}

(* The goal is locked first, the request after it.                         *)
LEMMA HeldRows ==
  ASSUME NEW w \in HandlerType, LockState(w)
  PROVE  /\ w.op \notin Locking => Rows(w) = {}
         /\ w.locks = 0 => Rows(w) = {}
         /\ w.op \in Locking /\ w.locks = 1 => Rows(w) = {"goal"}
         /\ w.op \in Locking /\ w.locks = 2 => Rows(w) = {"goal", "request"} /\ w.pc # "lock"
         /\ w.locks \in {0, 1, 2}
         /\ w.op \in Locking /\ w.pc \in {"read", "write"} => "goal" \in Rows(w)
         /\ w.op \in {"checkIn", "request"} => w.locks \in {0, 1}
<1>1. w.locks \in {0, 1, 2}
  BY DEF HandlerType
<1>2. CASE w.op \notin Locking
  <2>1. w.locks = 0
    BY <1>2 DEF LockState, Locking
  <2>. QED
    BY <1>2, <2>1 DEF Rows
<1>3. CASE w.op \in {"checkIn", "request"}
  <2>1. LockOrder(w.op) = <<"goal">>
    BY <1>3 DEF LockOrder
  <2>2. (w.pc = "lock" /\ w.locks = 0) \/ (w.pc \in {"read", "write"} /\ w.locks = 1)
    BY <1>3 DEF LockState
  <2>. QED
    BY <1>3, <2>1, <2>2 DEF Rows, Locking
<1>4. CASE w.op \in {"approve", "reject"}
  <2>1. LockOrder(w.op) = <<"goal", "request">>
    BY <1>4 DEF LockOrder
  <2>2. (w.pc = "lock" /\ w.locks \in {0, 1}) \/ (w.pc \in {"read", "write"} /\ w.locks = 2)
    BY <1>4 DEF LockState
  <2>3. 1..2 = {1, 2} /\ 1..1 = {1} /\ 1..0 = {}
    OBVIOUS
  <2>. QED
    BY <1>4, <2>1, <2>2, <2>3 DEF Rows, Locking
<1>. QED
  BY <1>1, <1>2, <1>3, <1>4 DEF Locking

(* What holds of a handler.                                                *)
LEMMA HandlerFacts ==
  ASSUME IInv, NEW h \in Handlers
  PROVE  /\ work[h] \in HandlerType /\ HandlerStands(work[h]) /\ LockState(work[h])
         /\ Holds(h) = Rows(work[h])
BY DEF IInv, WellTyped, HandlerStands, Holds, Rows

(* A step of one handler that leaves the tables alone.                     *)
LEMMA HandlerMoves ==
  ASSUME IInv, UNCHANGED tables, NEW h \in Handlers, NEW w \in HandlerType,
         work' = [work EXCEPT ![h] = w], HandlerStands(w),
         \A g \in Handlers \ {h} : Holds(g) \intersect Rows(w) = {}
  PROVE  IInv'
<1>1. \A g \in Handlers : work'[g] = IF g = h THEN w ELSE work[g]
  BY DEF IInv, WellTyped
<1>2. /\ cycle' = cycle /\ goal' = goal /\ krs' = krs /\ latest' = latest
      /\ checkIns' = checkIns /\ requests' = requests /\ result' = result
  BY DEF tables, evidence
<1>3. WellTyped'
  BY <1>2 DEF IInv, WellTyped
<1>4. RowsAgree'
  BY <1>2 DEF IInv, RowsAgree, Reported, Present, Pending, Approved
<1>5. \A g \in Handlers : HandlerStands(work[g])'
  <2> SUFFICES ASSUME NEW g \in Handlers PROVE HandlerStands(work[g])'
    OBVIOUS
  <2>1. HandlerStands(work'[g])
    BY <1>1 DEF IInv
  <2>2. Pending' = Pending /\ Reported' = Reported
    BY <1>2 DEF Pending, Reported
  <2>. QED
    BY <1>2, <2>1, <2>2 DEF HandlerStands, LockState
<1>6. \A g \in Handlers : Holds(g)' = IF g = h THEN Rows(w) ELSE Holds(g)
  BY <1>1 DEF Holds, Rows
<1>7. LocksDisjoint'
  BY <1>6 DEF IInv, LocksDisjoint
<1>. QED
  BY <1>3, <1>4, <1>5, <1>7 DEF IInv

(* A handler that keeps its locks, or has none.                            *)
LEMMA HandlerGoesOn ==
  ASSUME IInv, UNCHANGED tables, NEW h \in Handlers, NEW w \in HandlerType,
         work' = [work EXCEPT ![h] = w], HandlerStands(w),
         w.locks = 0 \/ (w.op = work[h].op /\ w.locks = work[h].locks)
  PROVE  IInv'
<1>1. Rows(w) = {} \/ Rows(w) = Holds(h)
  BY HandlerFacts, HeldRows DEF HandlerStands, Rows
<1>2. \A g \in Handlers \ {h} : Holds(g) \intersect Rows(w) = {}
  BY <1>1 DEF IInv, LocksDisjoint
<1>. QED
  BY <1>2, HandlerMoves

(* A handler that ends without a write.                                    *)
LEMMA HandlerEnds ==
  ASSUME IInv, UNCHANGED tables, NEW h \in Handlers, Finish(h)
  PROVE  IInv'
<1>1. work' = [work EXCEPT ![h] = Idle]
  BY DEF Finish, Becomes
<1>. QED
  BY <1>1, IdleOK, HandlerGoesOn
-----------------------------------------------------------------------------
(* Locking.                                                                *)

(* A row is locked when nobody else holds it.                              *)
LEMMA LockKeeps ==
  ASSUME IInv, NEW h \in Handlers, Lock(h)
  PROVE  IInv'
<1> DEFINE order == LockOrder(work[h].op)
           n  == work[h].locks + 1
           pc == IF n = Len(order) THEN "read" ELSE "lock"
           w  == [work[h] EXCEPT !.locks = n, !.pc = pc]
<1>1. /\ work[h].pc = "lock" /\ Free(h, order[n])
      /\ work' = [work EXCEPT ![h] = w] /\ UNCHANGED tables
  BY DEF Lock, Becomes
<1>2. work[h] \in HandlerType /\ LockState(work[h]) /\ HandlerStands(work[h]) /\ Holds(h) = Rows(work[h])
  BY HandlerFacts
<1>3. work[h].op \in Locking /\ work[h].locks \in {0, 1}
  BY <1>1, <1>2 DEF LockState, Locking
<1>4. \/ work[h].op \in {"checkIn", "request"} /\ order = <<"goal">> /\ work[h].locks = 0
      \/ work[h].op \in {"approve", "reject"} /\ order = <<"goal", "request">>
  <2>1. CASE work[h].op \in {"checkIn", "request"}
    <3>1. order = <<"goal">>
      BY <2>1 DEF LockOrder
    <3>2. work[h].locks = 0
      BY <1>1, <1>2, <2>1 DEF LockState
    <3>. QED
      BY <2>1, <3>1, <3>2
  <2>2. CASE work[h].op \in {"approve", "reject"}
    BY <2>2 DEF LockOrder
  <2>. QED
    BY <1>3, <2>1, <2>2 DEF Locking
<1>5. /\ w \in HandlerType /\ w.op = work[h].op /\ w.locks = n /\ w.kr = work[h].kr
      /\ w.pc = pc /\ pc \in {"read", "lock"}
  <2>1. pc \in {"read", "lock"} /\ n \in 0..2
    BY <1>3
  <2> HIDE DEF pc, n
  <2>. QED
    BY <1>2, <2>1 DEF HandlerType
<1>6. LockState(w)
  <2>0. Len(<<"goal">>) = 1 /\ Len(<<"goal", "request">>) = 2
    OBVIOUS
  <2> HIDE DEF w
  <2>1. CASE work[h].op \in {"checkIn", "request"}
    <3>0. order = <<"goal">> /\ n = 1
      BY <1>4, <2>1
    <3>1. pc = "read"
      BY <2>0, <3>0
    <3>2. w.pc = "read" /\ w.locks = 1 /\ w.op \in {"checkIn", "request"}
      BY <1>5, <2>1, <3>0, <3>1
    <3>. QED
      BY <3>2 DEF LockState
  <2>2. CASE work[h].op \in {"approve", "reject"}
    <3>1. order = <<"goal", "request">>
      BY <1>4, <2>2
    <3>2. (n = 1 /\ pc = "lock") \/ (n = 2 /\ pc = "read")
      BY <1>3, <2>0, <3>1
    <3>. QED
      BY <1>5, <2>2, <3>2 DEF LockState
  <2>. QED
    BY <1>3, <2>1, <2>2 DEF Locking
<1>7. HandlerStands(w)
  <2> HIDE DEF w, pc
  <2>. QED
    BY <1>2, <1>5, <1>6 DEF HandlerStands
<1>8. Rows(w) = Rows(work[h]) \union {order[n]}
  <2> HIDE DEF w
  <2>1. CASE work[h].locks = 0
    BY <1>2, <1>3, <1>4, <1>5, <1>6, <2>1, HeldRows
  <2>2. CASE work[h].locks = 1
    BY <1>2, <1>3, <1>4, <1>5, <1>6, <2>2, HeldRows
  <2>. QED
    BY <1>3, <2>1, <2>2
<1>9. \A g \in Handlers \ {h} : Holds(g) \intersect Rows(w) = {}
  BY <1>1, <1>2, <1>8 DEF IInv, LocksDisjoint, Free
<1>. QED
  BY <1>1, <1>5, <1>7, <1>9, HandlerMoves

(* Each request takes an idle handler, without locks.                      *)
LEMMA BeginKeeps ==
  ASSUME IInv, UNCHANGED tables, NEW h \in Handlers, NEW w \in HandlerType,
         Becomes(h, w), w.locks = 0, w.op \in OfKeyResult => w.kr \in KeyResults,
         \/ w.op \in Locking /\ w.pc = "lock"
         \/ w.op \notin Locking /\ w.pc = "write"
  PROVE  IInv'
<1>1. HandlerStands(w)
  BY DEF HandlerStands, LockState, Locking
<1>. QED
  BY <1>1, HandlerGoesOn DEF Becomes

(* Request: the handlers that begin.                                       *)
LEMMA RequestKeeps ==
  ASSUME IInv, NEW h \in Handlers, Request(h)
  PROVE  IInv'
<1>1. ASSUME NEW op \in {"closeCycle", "cancelCycle", "activate", "cancel"},
             NEW from \in {"NONE", "DRAFT", "ACTIVE"},
             Becomes(h, [Idle EXCEPT !.op = op, !.pc = "write", !.from = from]), UNCHANGED tables
      PROVE  IInv'
  <2> DEFINE w == [Idle EXCEPT !.op = op, !.pc = "write", !.from = from]
  <2>1. w \in HandlerType /\ w.locks = 0 /\ w.op = op /\ w.pc = "write"
    BY IdleOK DEF HandlerType
  <2>. QED
    BY <1>1, <2>1, BeginKeeps DEF OfKeyResult, Locking
<1>2. ASSUME NEW op \in OfKeyResult \ {"checkIn"}, NEW k \in KeyResults,
             Becomes(h, [Idle EXCEPT !.op = op, !.pc = "write", !.kr = k]), UNCHANGED tables
      PROVE  IInv'
  <2> DEFINE w == [Idle EXCEPT !.op = op, !.pc = "write", !.kr = k]
  <2>1. w \in HandlerType /\ w.locks = 0 /\ w.op = op /\ w.kr = k /\ w.pc = "write"
    BY IdleOK DEF HandlerType, OfKeyResult
  <2>. QED
    BY <1>2, <2>1, BeginKeeps DEF OfKeyResult, Locking
<1>3. ASSUME NEW op \in {"request", "approve", "reject"}, NEW r \in Nat,
             Becomes(h, [Idle EXCEPT !.op = op, !.pc = "lock", !.request = r]), UNCHANGED tables
      PROVE  IInv'
  <2> DEFINE w == [Idle EXCEPT !.op = op, !.pc = "lock", !.request = r]
  <2>1. w \in HandlerType /\ w.locks = 0 /\ w.op = op /\ w.pc = "lock"
    BY IdleOK DEF HandlerType
  <2>. QED
    BY <1>3, <2>1, BeginKeeps DEF OfKeyResult, Locking
<1>4. CASE CloseCycle(h)
  BY <1>1, <1>4 DEF CloseCycle
<1>5. CASE CancelCycle(h)
  BY <1>1, <1>5 DEF CancelCycle
<1>6. CASE ActivateGoal(h)
  <2> DEFINE w == [Idle EXCEPT !.op = "activate", !.pc = "write"]
  <2>1. w \in HandlerType /\ w.locks = 0 /\ w.op = "activate" /\ w.pc = "write"
    BY IdleOK DEF HandlerType
  <2>2. Becomes(h, w) /\ UNCHANGED tables
    BY <1>6 DEF ActivateGoal, Begin
  <2>. QED
    BY <2>1, <2>2, BeginKeeps DEF OfKeyResult, Locking
<1>7. CASE CancelGoal(h)
  <2> DEFINE w == [Idle EXCEPT !.op = "cancel", !.pc = "write"]
  <2>1. w \in HandlerType /\ w.locks = 0 /\ w.op = "cancel" /\ w.pc = "write"
    BY IdleOK DEF HandlerType
  <2>2. Becomes(h, w) /\ UNCHANGED tables
    BY <1>7 DEF CancelGoal, Begin
  <2>. QED
    BY <2>1, <2>2, BeginKeeps DEF OfKeyResult, Locking
<1>8. ASSUME NEW k \in KeyResults, ReadStructure(h, k) PROVE IInv'
  BY <1>2, <1>8 DEF ReadStructure, OfKeyResult
<1>9. ASSUME NEW k \in KeyResults, CheckIn(h, k) PROVE IInv'
  <2> DEFINE w == [Idle EXCEPT !.op = "checkIn", !.pc = "lock", !.kr = k, !.kind = krs[k].metric.kind]
  <2>1. krs[k].metric.kind \in Kinds
    <3>1. krs[k] \in Definitions
      BY <1>9 DEF CheckIn, Present, IInv, WellTyped
    <3>. QED
      BY <3>1, GoalConstants DEF Metric
  <2>2. w \in HandlerType /\ w.locks = 0 /\ w.op = "checkIn" /\ w.kr = k /\ w.pc = "lock"
    BY <2>1, IdleOK DEF HandlerType
  <2>3. Becomes(h, w) /\ UNCHANGED tables
    BY <1>9 DEF CheckIn
  <2>. QED
    BY <2>2, <2>3, BeginKeeps DEF Locking
<1>10. CASE RequestCompletion(h)
  <2> DEFINE w == [Idle EXCEPT !.op = "request", !.pc = "lock"]
  <2>1. w \in HandlerType /\ w.locks = 0 /\ w.op = "request" /\ w.pc = "lock"
    BY IdleOK DEF HandlerType
  <2>2. Becomes(h, w) /\ UNCHANGED tables
    BY <1>10 DEF RequestCompletion, Begin
  <2>. QED
    BY <2>1, <2>2, BeginKeeps DEF OfKeyResult, Locking
<1>11. ASSUME NEW r \in DOMAIN requests, Review(h, r) PROVE IInv'
  <2>1. r \in Nat
    BY DEF IInv, WellTyped
  <2>. QED
    BY <1>3, <1>11, <2>1 DEF Review
<1>. QED
  BY <1>4, <1>5, <1>6, <1>7, <1>8, <1>9, <1>10, <1>11 DEF Request

(* What is read under the lock holds until the write.                      *)
LEMMA ReadsKeep ==
  ASSUME IInv, NEW h \in Handlers,
         ReadCheckIn(h) \/ ReadRequest(h) \/ ReadApproval(h) \/ ReadRejection(h)
  PROVE  IInv'
<1> DEFINE w == [work[h] EXCEPT !.pc = "write"]
<1>1. /\ work[h] \in HandlerType /\ LockState(work[h]) /\ HandlerStands(work[h])
      /\ UNCHANGED tables /\ work[h].pc = "read"
  BY HandlerFacts DEF ReadCheckIn, ReadRequest, ReadApproval, ReadRejection, At
<1>2. /\ w \in HandlerType /\ w.op = work[h].op /\ w.locks = work[h].locks /\ w.kr = work[h].kr
      /\ w.pc = "write"
  BY <1>1 DEF HandlerType
<1> HIDE DEF w
<1>3. LockState(w)
  BY <1>1, <1>2 DEF LockState
<1>4. ASSUME work' = [work EXCEPT ![h] = w], HandlerStands(w) PROVE IInv'
  BY <1>1, <1>2, <1>4, HandlerGoesOn
<1>5. CASE Finish(h)
  BY <1>1, <1>5, HandlerEnds
<1>6. CASE ReadCheckIn(h) /\ ~Finish(h)
  <2>1. Pending = {} /\ work[h].op = "checkIn" /\ work' = [work EXCEPT ![h] = w]
    BY <1>6 DEF ReadCheckIn, At, GoTo, w
  <2>2. HandlerStands(w)
    BY <1>1, <1>2, <1>3, <2>1 DEF HandlerStands, OfKeyResult
  <2>. QED
    BY <1>4, <2>1, <2>2
<1>7. CASE ReadRequest(h) /\ ~Finish(h)
  <2>1. /\ goal = "ACTIVE" /\ Present # {} /\ Pending = {} /\ Present \subseteq Reported
        /\ work[h].op = "request" /\ work' = [work EXCEPT ![h] = w]
    BY <1>7 DEF ReadRequest, At, GoTo, Open, w
  <2>2. HandlerStands(w)
    BY <1>1, <1>2, <1>3, <2>1 DEF HandlerStands, OfKeyResult
  <2>. QED
    BY <1>4, <2>1, <2>2
<1>8. CASE ReadApproval(h) /\ ~Finish(h)
  <2> DEFINE x == [work[h] EXCEPT !.pc = "write", !.rows = Snapshot]
  <2>1. /\ work[h].request \in Pending /\ goal = "ACTIVE" /\ Present \subseteq Reported
        /\ work[h].op = "approve" /\ work' = [work EXCEPT ![h] = x]
    BY <1>8 DEF ReadApproval, At, Open, Becomes
  <2>2. Present = Reported /\ Reported \subseteq KeyResults
    BY <2>1 DEF IInv, RowsAgree, Reported
  <2>3. \A k \in Reported : krs[k] \in Definitions /\ latest[k] \in Values
    BY <2>2 DEF IInv, WellTyped, Present, Reported
  <2>4. Snapshot \in [Reported -> Row] /\ \A k \in Reported : Snapshot[k].value = latest[k]
    <3>1. Snapshot = [k \in Reported |-> [weight |-> krs[k].weight, metric |-> krs[k].metric,
                                         value |-> latest[k]]]
      BY <2>2 DEF Snapshot
    <3>2. \A k \in Reported : [weight |-> krs[k].weight, metric |-> krs[k].metric,
                              value |-> latest[k]] \in Row
      BY <2>3 DEF Row
    <3>. QED
      BY <3>1, <3>2
  <2>5. Snapshot \in RowsOver(KeyResults)
    BY <2>2, <2>4 DEF RowsOver
  <2>6. /\ x \in HandlerType /\ x.op = "approve" /\ x.locks = work[h].locks
        /\ x.pc = "write" /\ x.rows = Snapshot /\ x.request = work[h].request
    BY <1>1, <2>1, <2>5 DEF HandlerType
  <2> HIDE DEF x
  <2>7. LockState(x)
    BY <1>1, <2>1, <2>6 DEF LockState
  <2>8. HandlerStands(x)
    BY <2>1, <2>4, <2>6, <2>7 DEF HandlerStands, OfKeyResult
  <2>. QED
    BY <1>1, <2>1, <2>6, <2>8, HandlerGoesOn
<1>9. CASE ReadRejection(h) /\ ~Finish(h)
  <2>1. work[h].op = "reject" /\ work' = [work EXCEPT ![h] = w]
    BY <1>9 DEF ReadRejection, At, GoTo, w
  <2>2. HandlerStands(w)
    BY <1>1, <1>2, <1>3, <2>1 DEF HandlerStands, OfKeyResult
  <2>. QED
    BY <1>4, <2>1, <2>2
<1>. QED
  BY <1>5, <1>6, <1>7, <1>8, <1>9
-----------------------------------------------------------------------------
(* Writes. *)

(* A write when nobody else has locked the goal.                           *)
LEMMA Commits ==
  ASSUME IInv, NEW h \in Handlers, Finish(h), WellTyped', RowsAgree',
         \A g \in Handlers \ {h} : "goal" \notin Holds(g)
  PROVE  IInv'
<1>1. \A g \in Handlers : work'[g] = IF g = h THEN Idle ELSE work[g]
  BY DEF IInv, WellTyped, Finish, Becomes
<1>2. \A g \in Handlers : HandlerStands(work[g])'
  <2> SUFFICES ASSUME NEW g \in Handlers PROVE HandlerStands(work[g])'
    OBVIOUS
  <2>1. CASE g = h
    <3>1. work'[g] = Idle
      BY <1>1, <2>1
    <3>. QED
      BY <3>1, IdleOK DEF HandlerStands, LockState, OfKeyResult
  <2>2. CASE g # h
    <3>1. work'[g] = work[g] /\ HandlerStands(work[g])
      BY <1>1, <2>2, HandlerFacts
    <3>2. ~(work[g].op \in Locking /\ work[g].pc \in {"read", "write"})
      BY <2>2, HandlerFacts, HeldRows
    <3>. QED
      BY <3>1, <3>2 DEF HandlerStands, LockState, Locking
  <2>. QED
    BY <2>1, <2>2
<1>3. \A g \in Handlers : Holds(g)' = IF g = h THEN {} ELSE Holds(g)
  <2>1. Rows(Idle) = {}
    BY IdleOK, HeldRows DEF HandlerStands
  <2>. QED
    BY <1>1, <2>1 DEF Holds, Rows
<1>4. LocksDisjoint'
  BY <1>3 DEF IInv, LocksDisjoint
<1>. QED
  BY <1>2, <1>4 DEF IInv

(* A write of the period or of key results, which no handler stands on.    *)
LEMMA Besides ==
  ASSUME IInv, UNCHANGED <<goal, evidence, requests, result>>,
         cycle' \in {"DRAFT", "ACTIVE", "CLOSED", "CANCELLED"},
         krs' \in [KeyResults -> Definitions \union {NoKR}], Reported \subseteq Present',
         work' = work \/ \E h \in Handlers : Finish(h)
  PROVE  IInv'
<1>1. \A g \in Handlers : work'[g] = Idle \/ work'[g] = work[g]
  BY DEF IInv, WellTyped, Finish, Becomes
<1>2. /\ goal' = goal /\ latest' = latest /\ checkIns' = checkIns /\ requests' = requests
      /\ result' = result /\ Reported' = Reported /\ Pending' = Pending /\ Approved' = Approved
  BY DEF evidence, Reported, Pending, Approved
<1>3. work' \in [Handlers -> HandlerType]
  BY IdleOK DEF IInv, WellTyped, Finish, Becomes
<1>4. WellTyped'
  BY <1>2, <1>3 DEF IInv, WellTyped
<1>5. RowsAgree'
  BY <1>2 DEF IInv, RowsAgree
<1>6. \A g \in Handlers : HandlerStands(work[g])'
  <2> SUFFICES ASSUME NEW g \in Handlers PROVE HandlerStands(work[g])'
    OBVIOUS
  <2>1. HandlerStands(work'[g])
    BY <1>1, IdleOK DEF IInv
  <2>. QED
    BY <1>2, <2>1 DEF HandlerStands, LockState
<1>7. LocksDisjoint'
  <2>1. Rows(Idle) = {}
    BY IdleOK, HeldRows DEF HandlerStands
  <2>2. \A g \in Handlers : Holds(g)' \subseteq Holds(g)
    BY <1>1, <2>1 DEF Holds, Rows
  <2>. QED
    BY <2>2 DEF IInv, LocksDisjoint
<1>. QED
  BY <1>4, <1>5, <1>6, <1>7 DEF IInv

(* A handler that writes has the goal to itself.                           *)
LEMMA OwnGoal ==
  ASSUME IInv, NEW h \in Handlers, work[h].op \in Locking, work[h].pc \in {"read", "write"}
  PROVE  \A g \in Handlers \ {h} : "goal" \notin Holds(g)
<1>1. "goal" \in Holds(h)
  BY HandlerFacts, HeldRows
<1>. QED
  BY <1>1 DEF IInv, LocksDisjoint

(* WriteCycle, WriteKR: the period and the key results.                    *)
LEMMA BesidesKeep ==
  ASSUME IInv, NEW h \in Handlers, WriteCycle(h) \/ WriteKR(h)
  PROVE  IInv'
<1>1. /\ WellTyped /\ RowsAgree /\ work[h] \in HandlerType /\ HandlerStands(work[h])
  BY HandlerFacts DEF IInv
<1>2. CASE WriteCycle(h)
  <2>1. UNCHANGED <<goal, krs, evidence, requests, result>> /\ Finish(h)
        /\ cycle' \in {cycle, "CLOSED", "CANCELLED"}
    BY <1>2 DEF WriteCycle
  <2>2. Reported \subseteq Present'
    BY <1>1, <2>1 DEF RowsAgree, Present
  <2>. QED
    BY <1>1, <2>1, <2>2, Besides DEF WellTyped
<1>3. CASE WriteKR(h)
  <2> DEFINE k  == work[h].kr
             op == work[h].op
  <2>1. UNCHANGED <<cycle, goal, evidence, requests, result>> /\ Finish(h)
        /\ op \in {"createKR", "editKR", "retarget", "deleteKR"}
    BY <1>3 DEF WriteKR
  <2>2. k \in KeyResults
    BY <1>1, <2>1 DEF HandlerStands, OfKeyResult
  <2>3. \/ krs' = krs
        \/ op = "deleteKR" /\ k \notin Reported /\ krs' = [krs EXCEPT ![k] = NoKR]
        \/ \E d \in Definitions : krs' = [krs EXCEPT ![k] = d]
    BY <1>3 DEF WriteKR, Writable, Edit
  <2>4. \A d \in Definitions : d # NoKR
    BY GoalConstants DEF NoKR, Metric, Kinds
  <2>5. krs' \in [KeyResults -> Definitions \union {NoKR}] /\ Reported \subseteq Present'
    <3>1. CASE krs' = krs
      BY <1>1, <3>1 DEF WellTyped, RowsAgree, Present
    <3>2. CASE k \notin Reported /\ krs' = [krs EXCEPT ![k] = NoKR]
      BY <1>1, <2>2, <3>2 DEF WellTyped, RowsAgree, Present
    <3>3. ASSUME NEW d \in Definitions, krs' = [krs EXCEPT ![k] = d]
          PROVE  krs' \in [KeyResults -> Definitions \union {NoKR}] /\ Reported \subseteq Present'
      BY <1>1, <2>2, <2>4, <3>3 DEF WellTyped, RowsAgree, Present
    <3>. QED
      BY <2>3, <3>1, <3>2, <3>3
  <2>. QED
    BY <1>1, <2>1, <2>5, Besides DEF WellTyped
<1>. QED
  BY <1>2, <1>3

(* WriteGoal, under no lock of its own.                                    *)
LEMMA WriteGoalKeeps ==
  ASSUME IInv, NEW h \in Handlers, WriteGoal(h)
  PROVE  IInv'
<1>1. /\ WellTyped /\ RowsAgree /\ work[h] \in HandlerType /\ Free(h, "goal") /\ Finish(h)
      /\ UNCHANGED <<cycle, krs, evidence, requests, result>>
      /\ goal' = goal \/ (goal \in {"DRAFT", "ACTIVE"} /\ goal' \in {"ACTIVE", "CANCELLED"})
  BY DEF WriteGoal, IInv, WellTyped
<1>2. work' \in [Handlers -> HandlerType]
  BY <1>1, IdleOK DEF WellTyped, Finish, Becomes
<1>3. WellTyped'
  BY <1>1, <1>2 DEF WellTyped, evidence
<1>4. RowsAgree'
  BY <1>1 DEF RowsAgree, Reported, Present, Pending, Approved, evidence
<1>. QED
  BY <1>1, <1>3, <1>4, Commits DEF Free

(* WriteCheckIn.                                                           *)
LEMMA WriteCheckInKeeps ==
  ASSUME IInv, NEW h \in Handlers, NEW v \in Values, WriteCheckIn(h, v)
  PROVE  IInv'
<1> DEFINE k == work[h].kr
<1>1. /\ WellTyped /\ RowsAgree /\ Finish(h) /\ At(h, "checkIn", "write")
      /\ UNCHANGED <<cycle, goal, krs, requests, result>> /\ checkIns < MaxCheckIns
  BY DEF WriteCheckIn, IInv
<1>2. HandlerStands(work[h])
  BY HandlerFacts
<1>3. Pending = {} /\ k \in KeyResults
  BY <1>1, <1>2 DEF At, HandlerStands, OfKeyResult
<1>4. \/ latest' = latest /\ checkIns' = checkIns
      \/ k \in Present /\ latest' = [latest EXCEPT ![k] = v] /\ checkIns' = checkIns + 1
  BY DEF WriteCheckIn, evidence
<1>5. work' \in [Handlers -> HandlerType]
  BY <1>1, IdleOK DEF WellTyped, Finish, Becomes
<1>6. WellTyped'
  BY <1>1, <1>3, <1>4, <1>5, GoalConstants DEF WellTyped
<1>7. Reported' \subseteq Present' /\ Pending' = Pending /\ Approved' = Approved
  BY <1>1, <1>3, <1>4 DEF WellTyped, RowsAgree, Reported, Present, Pending, Approved
<1>8. RowsAgree'
  BY <1>1, <1>3, <1>7 DEF RowsAgree
<1>9. \A g \in Handlers \ {h} : "goal" \notin Holds(g)
  BY <1>1, OwnGoal DEF At, Locking
<1>. QED
  BY <1>1, <1>6, <1>8, <1>9, Commits

(* WriteRequest: the first pending request.                                *)
LEMMA WriteRequestKeeps ==
  ASSUME IInv, NEW h \in Handlers, WriteRequest(h)
  PROVE  IInv'
<1> DEFINE n == Len(requests) + 1
<1>1. /\ WellTyped /\ RowsAgree /\ Finish(h) /\ At(h, "request", "write")
      /\ UNCHANGED <<cycle, goal, krs, evidence, result>> /\ Len(requests) < MaxRequests
      /\ requests' = Append(requests, "PENDING")
  BY DEF WriteRequest, IInv
<1>2. Pending = {} /\ Reported # {} /\ goal = "ACTIVE"
  BY <1>1, HandlerFacts DEF At, HandlerStands
<1>3. /\ requests \in Seq({"PENDING", "APPROVED", "REJECTED"}) /\ Len(requests) \in Nat
      /\ MaxRequests \in Nat
  BY <1>1, GoalConstants DEF WellTyped
<1>4. /\ requests' \in Seq({"PENDING", "APPROVED", "REJECTED"}) /\ Len(requests') = n
      /\ DOMAIN requests' = 1..n /\ DOMAIN requests = 1..Len(requests)
      /\ \A r \in 1..n : requests'[r] = IF r = n THEN "PENDING" ELSE requests[r]
  BY <1>1, <1>3
<1>5. work' \in [Handlers -> HandlerType]
  BY <1>1, IdleOK DEF WellTyped, Finish, Becomes
<1>6. WellTyped'
  BY <1>1, <1>3, <1>4, <1>5 DEF WellTyped, evidence
<1>7. Pending' = {n} /\ Approved' = Approved
  <2>1. \A r \in 1..n : r = n \/ r \in 1..Len(requests)
    BY <1>3
  <2>2. n \in 1..n /\ n \notin 1..Len(requests) /\ 1..Len(requests) \subseteq 1..n
    BY <1>3
  <2>3. \A r \in 1..n : requests'[r] = "PENDING" <=> r = n
    BY <1>2, <1>4, <2>1 DEF Pending
  <2>4. Pending' = {n}
    BY <1>4, <2>2, <2>3 DEF Pending
  <2>5. \A r : r \in Approved' <=> r \in Approved
    BY <1>4, <2>1, <2>2 DEF Approved
  <2>. QED
    BY <2>4, <2>5
<1>8. RowsAgree'
  BY <1>1, <1>2, <1>7 DEF RowsAgree, Reported, Present, evidence
<1>9. \A g \in Handlers \ {h} : "goal" \notin Holds(g)
  BY <1>1, OwnGoal DEF At, Locking
<1>. QED
  BY <1>1, <1>6, <1>8, <1>9, Commits

(* A decision on the pending request.                                      *)
LEMMA Decided ==
  ASSUME WellTyped, NEW r \in Pending, \A q \in Pending : q = r,
         NEW s \in {"APPROVED", "REJECTED"}, requests' = [requests EXCEPT ![r] = s]
  PROVE  /\ requests' \in Seq({"PENDING", "APPROVED", "REJECTED"}) /\ Len(requests') = Len(requests)
         /\ Pending' = {}
         /\ Approved' = IF s = "APPROVED" THEN Approved \union {r} ELSE Approved
<1>1. requests \in Seq({"PENDING", "APPROVED", "REJECTED"}) /\ r \in DOMAIN requests
  BY DEF WellTyped, Pending
<1>2. /\ requests' \in Seq({"PENDING", "APPROVED", "REJECTED"}) /\ Len(requests') = Len(requests)
      /\ DOMAIN requests' = DOMAIN requests
      /\ \A q \in DOMAIN requests : requests'[q] = IF q = r THEN s ELSE requests[q]
  BY <1>1
<1>3. Pending' = {}
  BY <1>1, <1>2 DEF Pending
<1>4. requests[r] = "PENDING"
  BY DEF Pending
<1>5. CASE s = "APPROVED"
  <2>1. \A q : q \in Approved' <=> q \in Approved \/ q = r
    BY <1>1, <1>2, <1>5 DEF Approved
  <2>. QED
    BY <1>2, <1>3, <1>5, <2>1
<1>6. CASE s = "REJECTED"
  <2>1. \A q : q \in Approved' <=> q \in Approved
    BY <1>1, <1>2, <1>4, <1>6 DEF Approved
  <2>. QED
    BY <1>2, <1>3, <1>6, <2>1
<1>. QED
  BY <1>5, <1>6

(* What an approval writes: the last values of all key results reported.   *)
LEMMA ApprovalFacts ==
  ASSUME IInv, NEW h \in Handlers, WriteApproval(h)
  PROVE  /\ work[h].request \in Pending /\ goal = "ACTIVE" /\ goal' = "COMPLETED"
         /\ requests' = [requests EXCEPT ![work[h].request] = "APPROVED"]
         /\ result'.rows \in [Reported -> Row] /\ result' # NoResult
         /\ DOMAIN result'.rows # {}
         /\ result'.achievement = GoalProgress(WeightsOf(result'.rows), Achieved(result'.rows))
         /\ \A k \in Reported : result'.rows[k].value = latest[k]
         /\ result'.rows \in RowsOver(KeyResults)
<1> DEFINE rows == work[h].rows
<1>1. /\ work[h].request \in Pending /\ goal = "ACTIVE" /\ rows \in [Reported -> Row]
      /\ \A k \in Reported : rows[k].value = latest[k]
  BY HandlerFacts DEF WriteApproval, At, HandlerStands
<1>2. /\ requests' = [requests EXCEPT ![work[h].request] = "APPROVED"] /\ goal' = "COMPLETED"
      /\ result' = [rows |-> rows, achievement |-> GoalProgress(WeightsOf(rows), Achieved(rows))]
  BY <1>1 DEF WriteApproval
<1>3. result'.rows = rows /\ result'.achievement = GoalProgress(WeightsOf(rows), Achieved(rows))
  BY <1>2
<1>4. Reported # {} /\ Reported \subseteq KeyResults
  BY <1>1 DEF IInv, RowsAgree, Reported
<1>5. rows # <<>> /\ DOMAIN rows # {}
  <2>1. DOMAIN rows # {}
    BY <1>1, <1>4
  <2>2. DOMAIN <<>> = {}
    OBVIOUS
  <2>. QED
    BY <2>1, <2>2
<1>6. result' # NoResult
  BY <1>3, <1>5 DEF NoResult
<1>7. rows \in RowsOver(KeyResults)
  BY <1>1, <1>4 DEF RowsOver
<1> HIDE DEF rows
<1>. QED
  BY <1>1, <1>2, <1>3, <1>5, <1>6, <1>7

(* WriteApproval: the goal is completed with its result.                   *)
LEMMA WriteApprovalKeeps ==
  ASSUME IInv, NEW h \in Handlers, WriteApproval(h)
  PROVE  IInv'
<1>1. /\ WellTyped /\ RowsAgree /\ Finish(h) /\ At(h, "approve", "write")
      /\ UNCHANGED <<cycle, krs, evidence>>
  BY DEF WriteApproval, IInv
<1>2. /\ work[h].request \in Pending /\ goal = "ACTIVE" /\ goal' = "COMPLETED"
      /\ requests' = [requests EXCEPT ![work[h].request] = "APPROVED"]
      /\ result' # NoResult /\ result'.rows \in RowsOver(KeyResults)
      /\ DOMAIN result'.rows # {}
      /\ result'.achievement = GoalProgress(WeightsOf(result'.rows), Achieved(result'.rows))
  BY ApprovalFacts
<1>3. Approved = {} /\ \A q \in Pending : q = work[h].request
  BY <1>1, <1>2 DEF RowsAgree
<1>4. /\ requests' \in Seq({"PENDING", "APPROVED", "REJECTED"}) /\ Len(requests') = Len(requests)
      /\ Pending' = {} /\ Approved' = {work[h].request}
  BY <1>1, <1>2, <1>3, Decided
<1>5. work' \in [Handlers -> HandlerType]
  BY <1>1, IdleOK DEF WellTyped, Finish, Becomes
<1>6. WellTyped'
  BY <1>1, <1>2, <1>4, <1>5 DEF WellTyped, evidence
<1>7. RowsAgree'
  BY <1>1, <1>2, <1>4 DEF RowsAgree, Reported, Present, evidence
<1>8. \A g \in Handlers \ {h} : "goal" \notin Holds(g)
  BY <1>1, OwnGoal DEF At, Locking
<1>. QED
  BY <1>1, <1>6, <1>7, <1>8, Commits

(* WriteRejection: the goal stays as it was.                               *)
LEMMA WriteRejectionKeeps ==
  ASSUME IInv, NEW h \in Handlers, WriteRejection(h)
  PROVE  IInv'
<1>1. /\ WellTyped /\ RowsAgree /\ Finish(h) /\ At(h, "reject", "write")
      /\ UNCHANGED <<cycle, goal, krs, evidence, result>>
  BY DEF WriteRejection, IInv
<1>2. \/ requests' = requests
      \/ /\ work[h].request \in Pending
         /\ requests' = [requests EXCEPT ![work[h].request] = "REJECTED"]
  BY DEF WriteRejection
<1>3. /\ requests' \in Seq({"PENDING", "APPROVED", "REJECTED"}) /\ Len(requests') = Len(requests)
      /\ Pending' \subseteq Pending /\ Approved' = Approved
  <2>1. CASE requests' = requests
    BY <1>1, <2>1 DEF WellTyped, Pending, Approved
  <2>2. CASE /\ work[h].request \in Pending
             /\ requests' = [requests EXCEPT ![work[h].request] = "REJECTED"]
    <3>1. \A q \in Pending : q = work[h].request
      BY <1>1, <2>2 DEF RowsAgree
    <3>. QED
      BY <1>1, <2>2, <3>1, Decided
  <2>. QED
    BY <1>2, <2>1, <2>2
<1>4. work' \in [Handlers -> HandlerType]
  BY <1>1, IdleOK DEF WellTyped, Finish, Becomes
<1>5. WellTyped'
  BY <1>1, <1>3, <1>4 DEF WellTyped, evidence
<1>6. RowsAgree'
  BY <1>1, <1>3 DEF RowsAgree, Reported, Present, evidence
<1>7. \A g \in Handlers \ {h} : "goal" \notin Holds(g)
  BY <1>1, OwnGoal DEF At, Locking
<1>. QED
  BY <1>1, <1>5, <1>6, <1>7, Commits

(* CreateGoal: nobody stands on a goal there is not.                       *)
LEMMA CreateGoalKeeps ==
  ASSUME IInv, CreateGoal
  PROVE  IInv'
<1>1. /\ goal = "NONE" /\ goal' = "DRAFT" /\ cycle' = cycle /\ krs' = krs /\ latest' = latest
      /\ checkIns' = checkIns /\ requests' = requests /\ result' = result /\ work' = work
  BY DEF CreateGoal, evidence
<1>2. /\ Reported' = Reported /\ Present' = Present /\ Pending' = Pending /\ Approved' = Approved
  BY <1>1 DEF Reported, Present, Pending, Approved
<1>3. WellTyped' /\ RowsAgree'
  BY <1>1, <1>2 DEF IInv, WellTyped, RowsAgree
<1>4. \A g \in Handlers : HandlerStands(work[g])'
  BY <1>1, <1>2, HandlerFacts DEF HandlerStands, LockState
<1>5. LocksDisjoint'
  BY <1>1 DEF IInv, LocksDisjoint, Holds
<1>. QED
  BY <1>3, <1>4, <1>5 DEF IInv

(* ActivateCycle.                                                          *)
LEMMA ActivateCycleKeeps ==
  ASSUME IInv, ActivateCycle
  PROVE  IInv'
<1>1. Reported \subseteq Present'
  BY DEF ActivateCycle, IInv, RowsAgree, Present
<1>. QED
  BY <1>1, Besides DEF ActivateCycle, IInv, WellTyped
-----------------------------------------------------------------------------
(* The invariant. *)

(* It holds when there is nothing yet.                                     *)
LEMMA InitIInv == Init => IInv
<1> SUFFICES ASSUME Init PROVE IInv
  OBVIOUS
<1>1. requests = <<>> /\ DOMAIN requests = {} /\ Len(requests) = 0
  BY DEF Init
<1>2. Reported = {} /\ Pending = {} /\ Approved = {} /\ \A g \in Handlers : work[g] = Idle
  BY <1>1 DEF Init, Reported, Pending, Approved
<1>3. 0 \in 0..MaxCheckIns /\ 0 <= MaxRequests
  BY GoalConstants
<1>4. WellTyped
  BY <1>1, <1>3, IdleOK DEF Init, WellTyped
<1>5. RowsAgree
  BY <1>2 DEF Init, RowsAgree
<1>6. Rows(Idle) = {}
  BY IdleOK, HeldRows DEF HandlerStands
<1>7. LocksDisjoint
  BY <1>2, <1>6 DEF LocksDisjoint, Holds, Rows
<1>. QED
  BY <1>2, <1>4, <1>5, <1>7, IdleOK DEF IInv

(* Every step keeps it.                                                    *)
LEMMA NextIInv == IInv /\ [Next]_vars => IInv'
<1> SUFFICES ASSUME IInv, [Next]_vars PROVE IInv'
  OBVIOUS
<1>1. CASE UNCHANGED vars
  <2>1. /\ cycle' = cycle /\ goal' = goal /\ krs' = krs /\ latest' = latest
        /\ checkIns' = checkIns /\ requests' = requests /\ result' = result /\ work' = work
    BY <1>1 DEF vars, tables, evidence
  <2>2. Reported' = Reported /\ Present' = Present /\ Pending' = Pending /\ Approved' = Approved
    BY <2>1 DEF Reported, Present, Pending, Approved
  <2>3. WellTyped' /\ RowsAgree' /\ LocksDisjoint'
    <3>1. WellTyped' /\ RowsAgree'
      BY <2>1, <2>2 DEF IInv, WellTyped, RowsAgree
    <3>2. \A g \in Handlers : Holds(g)' = Holds(g)
      BY <2>1 DEF Holds
    <3>. QED
      BY <3>1, <3>2 DEF IInv, LocksDisjoint
  <2>4. \A g \in Handlers : HandlerStands(work[g])'
    BY <2>1, <2>2, HandlerFacts DEF HandlerStands, LockState
  <2>. QED
    BY <2>3, <2>4 DEF IInv
<1>2. ASSUME NEW h \in Handlers, HandlerStep(h) PROVE IInv'
  BY <1>2, LockKeeps, BesidesKeep, WriteGoalKeeps, ReadsKeep, WriteCheckInKeeps, WriteRequestKeeps,
     WriteApprovalKeeps, WriteRejectionKeeps DEF HandlerStep
<1>3. ASSUME NEW h \in Handlers, Fail(h) PROVE IInv'
  BY <1>3, HandlerEnds DEF Fail
<1>. QED
  BY <1>1, <1>2, <1>3, RequestKeeps, CreateGoalKeeps, ActivateCycleKeeps DEF Next

(* Rows, handlers and locks agree in every state: what a handler read under*)
(* the lock of the goal still holds when it writes.                        *)
THEOREM GoalsInductive == Spec => []IInv
<1>. QED
  BY InitIInv, NextIInv, PTL DEF Spec

(* Every row and every handler is of its type.                             *)
THEOREM GoalsTyped == Spec => []WellTyped
<1>1. IInv => WellTyped
  BY DEF IInv
<1>. QED
  BY <1>1, GoalsInductive, PTL

(* The rows of a result: their weights, and what was achieved of each.     *)
LEMMA RowsHave ==
  ASSUME NEW rows \in RowsOver(KeyResults)
  PROVE  /\ IsFiniteSet(DOMAIN rows) /\ DOMAIN rows \subseteq Int
         /\ DOMAIN WeightsOf(rows) = DOMAIN rows /\ DOMAIN Achieved(rows) = DOMAIN rows
         /\ \A k \in DOMAIN rows : WeightsOf(rows)[k] \in Weight /\ Achieved(rows)[k] \in Share
<1>1. PICK S \in SUBSET KeyResults : rows \in [S -> Row]
  BY DEF RowsOver
<1>2. DOMAIN rows \subseteq KeyResults
  BY <1>1
<1>3. IsFiniteSet(DOMAIN rows) /\ DOMAIN rows \subseteq Int
  <2>1. IsFiniteSet(KeyResults) /\ \A k \in KeyResults : k \in Int
    BY GoalConstants
  <2>. QED
    BY <1>2, <2>1, FS_Subset
<1>4. ASSUME NEW k \in DOMAIN rows
      PROVE  rows[k].weight \in Weight /\ rows[k].metric \in Metric /\ rows[k].value \in Value
  <2>1. rows[k] \in Row
    BY <1>1
  <2>2. PICK d \in Definitions, v \in Values :
           rows[k] = [weight |-> d.weight, metric |-> d.metric, value |-> v]
    BY <2>1 DEF Row
  <2>3. d \in [weight : Weight, metric : Metric] /\ v \in Value
    BY GoalConstants
  <2>. QED
    BY <2>2, <2>3
<1>5. ASSUME NEW k \in DOMAIN rows PROVE KeyResultProgress(rows[k].metric, rows[k].value) \in Share
  BY <1>4, ProgressIsShare
<1>. QED
  BY <1>3, <1>4, <1>5 DEF WeightsOf, Achieved

(* ... and an achievement is a percentage, whatever is checked in and      *)
(* whichever key results have a weight.                                    *)
THEOREM GoalsWellTyped == Spec => []TypeOK
<1>1. IInv => TypeOK
  <2>. SUFFICES ASSUME IInv, result # NoResult PROVE result.achievement \in 0..Whole
    BY DEF IInv, TypeOK
  <2> DEFINE rows == result.rows
             weight == WeightsOf(rows)
             percent == Achieved(rows)
  <2>1. rows \in RowsOver(KeyResults) /\ result.achievement = GoalProgress(weight, percent)
    BY DEF IInv, WellTyped, RowsAgree
  <2>2. /\ IsFiniteSet(DOMAIN weight)
        /\ \A k \in DOMAIN weight : weight[k] \in Weight /\ percent[k] \in Share
    BY <2>1, RowsHave
  <2> HIDE DEF weight, percent
  <2>3. GoalProgress(weight, percent) \in Share
    BY <2>2, GoalProgressIsShare
  <2>. QED
    BY <2>1, <2>3 DEF Share
<1>. QED
  BY <1>1, GoalsInductive, PTL

(* The achievement of a completed goal lies between those of its key       *)
(* results, and the weights stored with it sum 100 and account for it up to*)
(* a hundredth per key result, however equal shares are rounded.           *)
THEOREM AchievementsAccounted == Spec => []AchievementAccounted
<1>1. IInv => AchievementAccounted
  <2>. SUFFICES ASSUME IInv, result # NoResult, WeightsReady(WeightsOf(result.rows))
                PROVE  AchievementAccounted
    BY DEF AchievementAccounted
  <2> DEFINE rows == result.rows
             weight == WeightsOf(rows)
             percent == Achieved(rows)
             sum == SumFunction([k \in DOMAIN weight |-> EffectiveWeights(weight)[k] * percent[k]])
             n == Cardinality(DOMAIN weight)
  <2>1. /\ rows \in RowsOver(KeyResults) /\ DOMAIN rows # {}
        /\ result.achievement = GoalProgress(weight, percent)
    BY DEF IInv, WellTyped, RowsAgree
  <2>2. /\ IsFiniteSet(DOMAIN weight) /\ DOMAIN weight # {} /\ DOMAIN weight \subseteq Int
        /\ DOMAIN weight = DOMAIN rows /\ WeightsReady(weight)
        /\ \A k \in DOMAIN weight : weight[k] \in Weight /\ percent[k] \in Share /\ percent[k] \in Int
    <3>1. \A v \in Share : v \in Int
      BY DEF Share
    <3>. QED
      BY <2>1, <3>1, RowsHave
  <2> HIDE DEF weight, percent
  <2>3. /\ \E k \in DOMAIN weight : percent[k] <= GoalProgress(weight, percent)
        /\ \E k \in DOMAIN weight : percent[k] >= GoalProgress(weight, percent)
    BY <2>2, GoalProgressBetween
  <2>4. SumFunction(EffectiveWeights(weight)) = Whole
    BY <2>2, EffectiveWeightsSum
  <2>5. RoundDiv(sum, Whole) - GoalProgress(weight, percent) \in -n..n
    BY <2>2, EffectiveAccounts
  <2>. QED
    BY <2>1, <2>2, <2>3, <2>4, <2>5 DEF AchievementAccounted, weight, percent
<1>. QED
  BY <1>1, GoalsInductive, PTL
-----------------------------------------------------------------------------
(* What follows from it. *)

(* A set whose elements are all the same has at most one.                  *)
LEMMA AtMostOne ==
  ASSUME NEW S, \A x, y \in S : x = y
  PROVE  Cardinality(S) <= 1
<1>1. CASE S = {}
  BY <1>1, FS_EmptySet
<1>2. CASE S # {}
  <2>1. PICK x : x \in S
    BY <1>2
  <2>2. S = {x}
    BY <2>1
  <2>. QED
    BY <2>2, FS_Singleton
<1>. QED
  BY <1>1, <1>2

(* A goal is completed exactly by the approval of one request, which leaves*)
(* its result, whatever reviewers, cancellations and activations overlap.  *)
THEOREM CompletedByOneApproval == Spec => []CompletedByApproval
<1>1. IInv => CompletedByApproval
  BY AtMostOne DEF IInv, RowsAgree, CompletedByApproval
<1>. QED
  BY <1>1, GoalsInductive, PTL

(* Check-ins, requests and reviews never wait for each other in a circle.  *)
THEOREM NobodyWaitsInCircle == Spec => []NoWaitCycle
<1>1. IInv => NoWaitCycle
  <2> SUFFICES ASSUME IInv, NEW h \in Handlers, Waiting(h), NEW g \in Handlers \ {h},
                      Wants(h) \in Holds(g), Waiting(g)
               PROVE  FALSE
    BY DEF NoWaitCycle
  <2> DEFINE State(f) == \/ work[f].locks = 0 /\ Holds(f) = {} /\ Wants(f) = "goal"
                         \/ Holds(f) = {"goal"} /\ Wants(f) = "request"
  <2>1. ASSUME NEW f \in Handlers, Waiting(f) PROVE State(f)
    <3>1. /\ work[f] \in HandlerType /\ LockState(work[f]) /\ Holds(f) = Rows(work[f])
          /\ work[f].pc = "lock"
      BY <2>1, HandlerFacts DEF Waiting
    <3>2. work[f].op \in Locking
      BY <3>1 DEF LockState, Locking
    <3>3. CASE work[f].op \in {"checkIn", "request"}
      <4>1. work[f].locks = 0 /\ LockOrder(work[f].op) = <<"goal">>
        BY <3>1, <3>3 DEF LockState, LockOrder
      <4>. QED
        BY <3>1, <4>1, HeldRows DEF Wants
    <3>4. CASE work[f].op \in {"approve", "reject"}
      <4>1. work[f].locks \in {0, 1} /\ LockOrder(work[f].op) = <<"goal", "request">>
        BY <3>1, <3>4 DEF LockState, LockOrder
      <4>2. CASE work[f].locks = 0
        BY <3>1, <4>1, <4>2, HeldRows DEF Wants
      <4>3. CASE work[f].locks = 1
        BY <3>1, <3>2, <4>1, <4>3, HeldRows DEF Wants
      <4>. QED
        BY <4>1, <4>2, <4>3
    <3>. QED
      BY <3>2, <3>3, <3>4 DEF Locking
  <2>2. Holds(g) = {"goal"} /\ Wants(g) = "request"
    BY <2>1 DEF IInv, LocksDisjoint
  <2>3. PICK f \in Handlers \ {g} : "request" \in Holds(f)
    BY <2>2 DEF Waiting, Free
  <2>4. "goal" \in Holds(f)
    <3>1. /\ work[f] \in HandlerType /\ LockState(work[f]) /\ Holds(f) = Rows(work[f])
      BY HandlerFacts
    <3>. QED
      BY <2>3, <3>1, HeldRows
  <2>. QED
    BY <2>2, <2>3, <2>4 DEF IInv, LocksDisjoint
<1>. QED
  BY <1>1, GoalsInductive, PTL
-----------------------------------------------------------------------------
(* The lifecycle implements GoalReview. *)

(* A step that changes nothing the reviewers see.                          *)
LEMMA Unseen ==
  ASSUME phase' = phase, result' = result, phase = "review" => latest' = latest
  PROVE  UNCHANGED GR!vars
<1>1. outcome' = outcome
  BY DEF outcome
<1>2. claim' = claim
  <2>1. CASE phase = "review"
    BY <2>1 DEF claim, Reported
  <2>2. CASE phase # "review"
    BY <2>2 DEF claim
  <2>. QED
    BY <2>1, <2>2
<1>. QED
  BY <1>1, <1>2 DEF GR!vars

(* Most steps.                                                             *)
LEMMA StutterSteps ==
  ASSUME UNCHANGED <<goal, requests, result, latest>>
  PROVE  UNCHANGED GR!vars
<1>1. phase' = phase
  BY DEF phase, Pending
<1>. QED
  BY <1>1, Unseen

(* WriteRequest submits the last values.                                   *)
LEMMA RequestSubmits ==
  ASSUME IInv, NEW h \in Handlers, WriteRequest(h)
  PROVE  GR!Submit
<1>1. Pending = {} /\ goal = "ACTIVE"
  BY HandlerFacts DEF WriteRequest, At, HandlerStands
<1>2. goal' = "ACTIVE" /\ latest' = latest /\ result' = result /\ requests' = Append(requests, "PENDING")
  BY <1>1 DEF WriteRequest, evidence
<1>3. Pending' # {}
  <2>1. requests \in Seq({"PENDING", "APPROVED", "REJECTED"})
    BY DEF IInv, WellTyped
  <2>2. /\ Len(requests) + 1 \in DOMAIN requests' /\ requests'[Len(requests) + 1] = "PENDING"
    BY <1>2, <2>1
  <2>. QED
    BY <2>2 DEF Pending
<1>4. phase = "open" /\ phase' = "review"
  BY <1>1, <1>2, <1>3 DEF phase
<1>5. claim' = [k \in Reported |-> latest[k]]
  BY <1>2, <1>4 DEF claim, Reported
<1>6. Reported \subseteq KeyResults /\ \A k \in Reported : latest[k] \in Values
  BY DEF Reported, IInv, WellTyped
<1>7. claim' \in Claims
  <2>1. claim' \in [Reported -> Values]
    BY <1>5, <1>6
  <2>. QED
    BY <1>6, <2>1 DEF Claims
<1>8. outcome' = outcome
  BY <1>2 DEF outcome
<1>. QED
  BY <1>4, <1>7, <1>8 DEF GR!Submit

(* WriteApproval accepts them.                                             *)
LEMMA ApprovalAccepts ==
  ASSUME IInv, NEW h \in Handlers, WriteApproval(h)
  PROVE  GR!Accept
<1>1. /\ work[h].request \in Pending /\ goal = "ACTIVE" /\ goal' = "COMPLETED"
      /\ result'.rows \in [Reported -> Row] /\ result' # NoResult
      /\ \A k \in Reported : result'.rows[k].value = latest[k]
  BY ApprovalFacts
<1>2. phase = "review" /\ phase' = "accepted"
  BY <1>1 DEF phase
<1>3. claim' = NoClaim /\ claim = [k \in Reported |-> latest[k]]
  BY <1>2 DEF claim
<1>4. outcome' = [k \in Reported |-> latest[k]]
  <2>1. outcome' = [k \in DOMAIN result'.rows |-> result'.rows[k].value]
    BY <1>1 DEF outcome
  <2>2. DOMAIN result'.rows = Reported
    BY <1>1
  <2>3. outcome' = [k \in Reported |-> result'.rows[k].value]
    BY <2>1, <2>2
  <2>. QED
    BY <1>1, <2>3
<1>. QED
  BY <1>2, <1>3, <1>4 DEF GR!Accept

(* WriteRejection returns them, unless the goal was cancelled meanwhile.   *)
LEMMA RejectionReturns ==
  ASSUME IInv, NEW h \in Handlers, WriteRejection(h)
  PROVE  GR!Return \/ UNCHANGED GR!vars
<1>1. goal' = goal /\ latest' = latest /\ result' = result
  BY DEF WriteRejection, evidence
<1>2. CASE requests' = requests
  BY <1>1, <1>2, StutterSteps
<1>3. CASE requests' # requests
  <2>1. work[h].request \in Pending /\ requests' = [requests EXCEPT ![work[h].request] = "REJECTED"]
    BY <1>3 DEF WriteRejection
  <2>2. \A q \in Pending : q = work[h].request
    BY <2>1 DEF IInv, RowsAgree
  <2>3. Pending' = {}
    BY <2>1, <2>2, Decided DEF IInv
  <2>4. CASE goal \in {"COMPLETED", "CANCELLED"}
    <3>1. phase' = phase /\ phase # "review"
      BY <1>1, <2>4 DEF phase
    <3>. QED
      BY <1>1, <3>1, Unseen
  <2>5. CASE goal \notin {"COMPLETED", "CANCELLED"}
    <3>1. phase = "review" /\ phase' = "open"
      BY <1>1, <2>1, <2>3, <2>5 DEF phase
    <3>2. claim' = NoClaim /\ outcome' = outcome
      BY <1>1, <3>1 DEF claim, outcome
    <3>. QED
      BY <3>1, <3>2 DEF GR!Return
  <2>. QED
    BY <2>4, <2>5
<1>. QED
  BY <1>2, <1>3

(* WriteGoal drops the goal, or is not seen.                               *)
LEMMA CancelDrops ==
  ASSUME IInv, NEW h \in Handlers, WriteGoal(h)
  PROVE  GR!Drop \/ UNCHANGED GR!vars
<1>1. latest' = latest /\ result' = result /\ Pending' = Pending
  BY DEF WriteGoal, evidence, Pending
<1>2. \/ goal' = goal
      \/ goal = "DRAFT" /\ goal' = "ACTIVE"
      \/ goal \in {"DRAFT", "ACTIVE"} /\ goal' = "CANCELLED"
  BY DEF WriteGoal
<1>3. CASE goal' = goal \/ (goal = "DRAFT" /\ goal' = "ACTIVE")
  <2>1. phase' = phase
    BY <1>1, <1>3 DEF phase
  <2>. QED
    BY <1>1, <2>1, Unseen
<1>4. CASE goal \in {"DRAFT", "ACTIVE"} /\ goal' = "CANCELLED"
  <2>1. phase \in {"open", "review"} /\ phase' = "dropped"
    BY <1>4 DEF phase
  <2>2. claim' = NoClaim /\ outcome' = outcome
    BY <1>1, <2>1 DEF claim, outcome
  <2>. QED
    BY <2>1, <2>2 DEF GR!Drop
<1>. QED
  BY <1>2, <1>3, <1>4

(* A check-in is not under review.                                         *)
LEMMA CheckInUnseen ==
  ASSUME IInv, NEW h \in Handlers, NEW v \in Values, WriteCheckIn(h, v)
  PROVE  UNCHANGED GR!vars
<1>1. goal' = goal /\ result' = result /\ requests' = requests
  BY DEF WriteCheckIn
<1>2. Pending = {}
  BY HandlerFacts DEF WriteCheckIn, At, HandlerStands
<1>3. phase' = phase /\ phase # "review"
  BY <1>1, <1>2 DEF phase, Pending
<1>. QED
  BY <1>1, <1>3, Unseen

(* CreateGoal opens what was open.                                         *)
LEMMA CreationUnseen ==
  ASSUME CreateGoal
  PROVE  UNCHANGED GR!vars
<1>1. /\ goal = "NONE" /\ goal' = "DRAFT" /\ Pending' = Pending /\ result' = result
      /\ latest' = latest
  BY DEF CreateGoal, evidence, Pending
<1>2. phase' = phase
  BY <1>1 DEF phase
<1>. QED
  BY <1>1, <1>2, Unseen

(* Every step of the lifecycle is a step of the review or is not seen.     *)
LEMMA StepsImplement == IInv /\ [Next]_vars => [GR!Next]_(GR!vars)
<1> SUFFICES ASSUME IInv, [Next]_vars PROVE GR!Next \/ UNCHANGED GR!vars
  OBVIOUS
<1>1. CASE UNCHANGED vars
  BY <1>1, StutterSteps DEF vars, tables, evidence
<1>2. CASE ActivateCycle
  BY <1>2, StutterSteps DEF ActivateCycle, evidence
<1>3. CASE CreateGoal
  BY <1>3, CreationUnseen
<1>4. ASSUME NEW h \in Handlers, Request(h) PROVE UNCHANGED GR!vars
  <2>1. UNCHANGED tables
    BY <1>4 DEF Request, CloseCycle, CancelCycle, ActivateGoal, CancelGoal, ReadStructure, CheckIn,
       RequestCompletion, Review
  <2>. QED
    BY <2>1, StutterSteps DEF tables, evidence
<1>5. ASSUME NEW h \in Handlers, Fail(h) PROVE UNCHANGED GR!vars
  BY <1>5, StutterSteps DEF Fail, tables, evidence
<1>6. ASSUME NEW h \in Handlers, HandlerStep(h) PROVE GR!Next \/ UNCHANGED GR!vars
  <2>1. CASE Lock(h) \/ ReadCheckIn(h) \/ ReadRequest(h) \/ ReadApproval(h) \/ ReadRejection(h)
    <3>1. UNCHANGED tables
      BY <2>1 DEF Lock, ReadCheckIn, ReadRequest, ReadApproval, ReadRejection
    <3>. QED
      BY <3>1, StutterSteps DEF tables, evidence
  <2>2. CASE WriteCycle(h) \/ WriteKR(h)
    BY <2>2, StutterSteps DEF WriteCycle, WriteKR, evidence
  <2>3. CASE WriteGoal(h)
    BY <2>3, CancelDrops DEF GR!Next
  <2>4. ASSUME NEW v \in Values, WriteCheckIn(h, v) PROVE UNCHANGED GR!vars
    BY <2>4, CheckInUnseen
  <2>5. CASE WriteRequest(h)
    BY <2>5, RequestSubmits DEF GR!Next
  <2>6. CASE WriteApproval(h)
    BY <2>6, ApprovalAccepts DEF GR!Next
  <2>7. CASE WriteRejection(h)
    BY <2>7, RejectionReturns DEF GR!Next
  <2>. QED
    BY <1>6, <2>1, <2>2, <2>3, <2>4, <2>5, <2>6, <2>7 DEF HandlerStep
<1>. QED
  BY <1>1, <1>2, <1>3, <1>4, <1>5, <1>6 DEF Next

(* What is submitted is what is decided on and what the result keeps, and a*)
(* goal that has ended stays so.                                           *)
THEOREM LifecycleImplementsReview == Spec => ImplementsReview
<1>1. Init => GR!Init
  BY DEF Init, GR!Init, phase, claim, outcome, Pending
<1>. QED
  BY <1>1, StepsImplement, GoalsInductive, PTL DEF Spec, ImplementsReview, GR!Spec
=============================================================================
