--------------------------- MODULE GoalLifecycle ---------------------------
(***************************************************************************)
(* A goal, its key results and check-ins, the period (goal cycle) it       *)
(* belongs to and its formal completion: apps/api/src/goals.               *)
(*                                                                         *)
(* work[h] is a handler in flight.  Handlers that change the goal or its   *)
(* structure read first, outside any transaction, and write later; check-  *)
(* ins, requests and reviews run in a transaction that locks the goal's row*)
(* (FOR UPDATE), reads again and writes with its commit.  A conditional    *)
(* update waits for that lock and so does the insert of a key result, whose*)
(* foreign key takes FOR KEY SHARE.  Permissions are not modelled: any     *)
(* handler may also be refused (Fail).                                     *)
(***************************************************************************)
EXTENDS GoalAchievement, Sequences

CONSTANTS
    Organizational, \* its type is COMPANY or AREA, not INDIVIDUAL
    KeyResults,     \* key results that may be created, numbers in their order
    Definitions,    \* weights and metrics in use: [weight, metric]
    Values,         \* values checked in: [kind, value]
    MaxCheckIns,    \* bound: check-ins
    MaxRequests,    \* bound: completion requests
    Handlers        \* handlers that may be in flight at once

ASSUME GoalConstants ==
    /\ KeyResults \subseteq Nat /\ IsFiniteSet(KeyResults)
    /\ Organizational \in BOOLEAN
    /\ Definitions \subseteq [weight : Weight, metric : Metric]
    /\ Values \subseteq Value
    /\ MaxCheckIns \in Nat /\ MaxRequests \in Nat

VARIABLES
    cycle,    \* status of the goal's period
    goal,     \* its status, NONE before it is created
    krs,      \* its key results: [weight, metric], or NoKR
    latest,   \* value of the last check-in of each key result
    checkIns, \* check-ins so far
    requests, \* statuses of its completion requests, in order
    result,   \* the GoalResult: [rows, achievement], or NoResult
    work      \* the handlers in flight

evidence == <<latest, checkIns>>
tables   == <<cycle, goal, krs, evidence, requests, result>>
vars     == <<tables, work>>
-----------------------------------------------------------------------------
NoKR     == [weight |-> NoWeight, metric |-> [kind |-> "NONE", start |-> 0, target |-> 0]]
NoValue  == [kind |-> "NONE", value |-> 0]
NoResult == [rows |-> <<>>, achievement |-> -1]
Idle     == [op |-> "none", pc |-> "idle", kr |-> 0, kind |-> "NONE", request |-> 0, from |-> "NONE",
             locks |-> 0, rows |-> <<>>]

Present  == {k \in KeyResults : krs[k] # NoKR}
Reported == {k \in KeyResults : latest[k] # NoValue}
Pending  == {r \in DOMAIN requests : requests[r] = "PENDING"}

WeightsOf(rows) == [k \in DOMAIN rows |-> rows[k].weight]

At(h, op, pc)   == work[h].op = op /\ work[h].pc = pc
Becomes(h, rec) == work' = [work EXCEPT ![h] = rec]
GoTo(h, pc)     == work' = [work EXCEPT ![h].pc = pc]
Finish(h)       == Becomes(h, Idle)
Refuse(h)       == Finish(h) /\ UNCHANGED tables
Begin(h, op, pc) == work[h] = Idle /\ Becomes(h, [Idle EXCEPT !.op = op, !.pc = pc])

(* Mutant: a rejection locks the request before the goal. *)
LockOrderByRequest(op) ==
    CASE op \in {"checkIn", "request"} -> <<"goal">>
      [] op = "approve"                -> <<"goal", "request">>
      [] op = "reject"                 -> <<"request", "goal">>
      [] OTHER                         -> <<>>

(* Rows locked by a transaction, in order.                                 *)
LockOrder(op) ==
    CASE op \in {"checkIn", "request"}  -> <<"goal">>
      [] op \in {"approve", "reject"}   -> <<"goal", "request">>
      [] OTHER                          -> <<>>

Holds(h)     == {LockOrder(work[h].op)[i] : i \in 1..work[h].locks}
Free(h, row) == \A g \in Handlers \ {h} : row \notin Holds(g)

Lock(h) ==
    LET order == LockOrder(work[h].op)
        n     == work[h].locks + 1
    IN  /\ work[h].pc = "lock"
        /\ Free(h, order[n])
        /\ Becomes(h, [work[h] EXCEPT !.locks = n, !.pc = IF n = Len(order) THEN "read" ELSE "lock"])
        /\ UNCHANGED tables
-----------------------------------------------------------------------------
(* The period.  It is activated by its own handler or with the performance *)
(* cycle it is linked to; closing and cancelling count rows first.         *)

ActivateCycle ==
    /\ cycle = "DRAFT" /\ cycle' = "ACTIVE"
    /\ UNCHANGED <<goal, krs, evidence, requests, result, work>>

CloseCycle(h) ==
    /\ goal \notin {"ACTIVE", "DRAFT"}
    /\ work[h] = Idle
    /\ Becomes(h, [Idle EXCEPT !.op = "closeCycle", !.pc = "write", !.from = "ACTIVE"])
    /\ UNCHANGED tables

CancelCycle(h) ==
    /\ cycle \in {"DRAFT", "ACTIVE"}
    /\ Pending = {}
    /\ work[h] = Idle
    /\ Becomes(h, [Idle EXCEPT !.op = "cancelCycle", !.pc = "write", !.from = cycle])
    /\ UNCHANGED tables

WriteCycle(h) ==
    /\ work[h].op \in {"closeCycle", "cancelCycle"}
    /\ cycle' = IF cycle # work[h].from THEN cycle
                ELSE IF work[h].op = "closeCycle" THEN "CLOSED" ELSE "CANCELLED"
    /\ Finish(h)
    /\ UNCHANGED <<goal, krs, evidence, requests, result>>
-----------------------------------------------------------------------------
(* The goal and its structure.                                             *)

CreateGoal ==
    /\ goal = "NONE" /\ goal' = "DRAFT"
    /\ UNCHANGED <<cycle, krs, evidence, requests, result, work>>

Structure == [k \in Present |-> krs[k]]

(* assertGoalActivationReady.                                              *)
ActivateGoal(h) ==
    /\ goal = "DRAFT" /\ cycle = "ACTIVE"
    /\ Present # {} /\ WeightsReady(WeightsOf(Structure))
    /\ Begin(h, "activate", "write")
    /\ UNCHANGED tables

CancelGoal(h) ==
    /\ goal \in {"DRAFT", "ACTIVE"}
    /\ Pending = {}
    /\ Begin(h, "cancel", "write")
    /\ UNCHANGED tables

(* Mutant: the status is not part of the update's condition. *)
WriteGoalAlways(h) ==
    /\ work[h].op \in {"activate", "cancel"}
    /\ Free(h, "goal")
    /\ goal' = IF work[h].op = "activate" THEN "ACTIVE" ELSE "CANCELLED"
    /\ Finish(h)
    /\ UNCHANGED <<cycle, krs, evidence, requests, result>>

WriteGoal(h) ==
    /\ work[h].op \in {"activate", "cancel"}
    /\ Free(h, "goal")
    /\ goal' = CASE work[h].op = "activate" /\ goal = "DRAFT" -> "ACTIVE"
                 [] work[h].op = "cancel" /\ goal \in {"DRAFT", "ACTIVE"} -> "CANCELLED"
                 [] OTHER -> goal
    /\ Finish(h)
    /\ UNCHANGED <<cycle, krs, evidence, requests, result>>

(* createKeyResult, updateKeyResult, deleteKeyResult: the goal's status is *)
(* read, and the key result written by id.  Of an active organizational    *)
(* goal the target alone may be edited.                                    *)
ReadStructure(h, k) ==
    /\ work[h] = Idle
    /\ \E op \in {"createKR", "editKR", "retarget", "deleteKR"} :
          /\ IF op = "retarget" THEN goal = "ACTIVE" /\ Organizational ELSE goal = "DRAFT"
          /\ (op = "createKR") <=> (k \notin Present)
          /\ Becomes(h, [Idle EXCEPT !.op = op, !.pc = "write", !.kr = k])
    /\ UNCHANGED tables

Edit(k, op) ==
    \E d \in Definitions :
       /\ op = "retarget" => d = [krs[k] EXCEPT !.metric.target = d.metric.target]
       /\ krs' = [krs EXCEPT ![k] = d]

(* A foreign key protects a key result with check-ins.                     *)
Writable(op, k) ==
    CASE op = "createKR" -> k \notin Present
      [] op = "deleteKR" -> k \in Present \ Reported
      [] OTHER           -> k \in Present

WriteKR(h) ==
    LET k  == work[h].kr
        op == work[h].op
    IN  /\ op \in {"createKR", "editKR", "retarget", "deleteKR"}
        /\ op = "createKR" => Free(h, "goal")
        /\ IF ~Writable(op, k) THEN UNCHANGED krs
           ELSE IF op = "deleteKR" THEN krs' = [krs EXCEPT ![k] = NoKR]
           ELSE Edit(k, op)
        /\ Finish(h)
        /\ UNCHANGED <<cycle, goal, evidence, requests, result>>
-----------------------------------------------------------------------------
(* createCheckIn.  The statuses and the kind of the metric are read before *)
(* the transaction; under the lock only a pending request is asked for. The*)
(* sequence it takes is free because it is read and used under the lock.   *)

CheckIn(h, k) ==
    /\ goal = "ACTIVE" /\ cycle = "ACTIVE"
    /\ k \in Present
    /\ work[h] = Idle
    /\ Becomes(h, [Idle EXCEPT !.op = "checkIn", !.pc = "lock", !.kr = k,
                               !.kind = krs[k].metric.kind])
    /\ UNCHANGED tables

(* Mutant: the pending request is asked for before the lock alone. *)
ReadCheckInOnce(h) ==
    /\ At(h, "checkIn", "read")
    /\ GoTo(h, "write")
    /\ UNCHANGED tables

ReadCheckIn(h) ==
    /\ At(h, "checkIn", "read")
    /\ IF Pending # {} THEN Finish(h) ELSE GoTo(h, "write")
    /\ UNCHANGED tables

(* resolveCheckInValues takes a value of the metric's kind; the foreign key*)
(* refuses a key result deleted meanwhile.                                 *)
WriteCheckIn(h, v) ==
    /\ At(h, "checkIn", "write")
    /\ v.kind = work[h].kind
    /\ checkIns < MaxCheckIns
    /\ IF work[h].kr \in Present
       THEN latest' = [latest EXCEPT ![work[h].kr] = v] /\ checkIns' = checkIns + 1
       ELSE UNCHANGED evidence
    /\ Finish(h)
    /\ UNCHANGED <<cycle, goal, krs, requests, result>>
-----------------------------------------------------------------------------
(* requestCompletion, approve, reject.                                     *)

Open == goal = "ACTIVE" /\ cycle = "ACTIVE"

RequestCompletion(h) == Begin(h, "request", "lock") /\ UNCHANGED tables

ReadRequest(h) ==
    /\ At(h, "request", "read")
    /\ IF Open /\ Present # {} /\ Pending = {} /\ Present \subseteq Reported
       THEN GoTo(h, "write") ELSE Finish(h)
    /\ UNCHANGED tables

WriteRequest(h) ==
    /\ At(h, "request", "write")
    /\ Len(requests) < MaxRequests
    /\ requests' = Append(requests, "PENDING")
    /\ Finish(h)
    /\ UNCHANGED <<cycle, goal, krs, evidence, result>>

Review(h, r) ==
    /\ work[h] = Idle
    /\ \E op \in {"approve", "reject"} :
          Becomes(h, [Idle EXCEPT !.op = op, !.pc = "lock", !.request = r])
    /\ UNCHANGED tables

(* The key results and their last values, as the result will keep them.    *)
Snapshot == [k \in Present |-> [weight |-> krs[k].weight, metric |-> krs[k].metric,
                                value |-> latest[k]]]

ReadApproval(h) ==
    /\ At(h, "approve", "read")
    /\ IF work[h].request \in Pending /\ Open /\ Present \subseteq Reported
       THEN Becomes(h, [work[h] EXCEPT !.pc = "write", !.rows = Snapshot])
       ELSE Finish(h)
    /\ UNCHANGED tables

Achieved(rows) == [k \in DOMAIN rows |-> KeyResultProgress(rows[k].metric, rows[k].value)]

WriteApproval(h) ==
    LET rows == work[h].rows
    IN  /\ At(h, "approve", "write")
        /\ IF work[h].request \in Pending /\ goal = "ACTIVE"
           THEN /\ requests' = [requests EXCEPT ![work[h].request] = "APPROVED"]
                /\ goal' = "COMPLETED"
                /\ result' = [rows |-> rows,
                              achievement |-> GoalProgress(WeightsOf(rows), Achieved(rows))]
           ELSE UNCHANGED <<requests, goal, result>>
        /\ Finish(h)
        /\ UNCHANGED <<cycle, krs, evidence>>

ReadRejection(h) ==
    /\ At(h, "reject", "read")
    /\ IF work[h].request \in Pending THEN GoTo(h, "write") ELSE Finish(h)
    /\ UNCHANGED tables

WriteRejection(h) ==
    /\ At(h, "reject", "write")
    /\ requests' = IF work[h].request \in Pending
                   THEN [requests EXCEPT ![work[h].request] = "REJECTED"] ELSE requests
    /\ Finish(h)
    /\ UNCHANGED <<cycle, goal, krs, evidence, result>>

(* A handler is refused or fails, or its process stops: a transaction is   *)
(* rolled back and its locks are released.                                 *)
Fail(h) == work[h] # Idle /\ Finish(h) /\ UNCHANGED tables
-----------------------------------------------------------------------------
Init ==
    /\ cycle = "DRAFT" /\ goal = "NONE"
    /\ krs = [k \in KeyResults |-> NoKR]
    /\ latest = [k \in KeyResults |-> NoValue] /\ checkIns = 0
    /\ requests = <<>> /\ result = NoResult
    /\ work = [h \in Handlers |-> Idle]

Request(h) ==
    \/ CloseCycle(h) \/ CancelCycle(h)
    \/ ActivateGoal(h) \/ CancelGoal(h)
    \/ \E k \in KeyResults : ReadStructure(h, k) \/ CheckIn(h, k)
    \/ RequestCompletion(h) \/ \E r \in DOMAIN requests : Review(h, r)

HandlerStep(h) ==
    \/ Lock(h) \/ WriteCycle(h) \/ WriteGoal(h) \/ WriteKR(h)
    \/ ReadCheckIn(h) \/ \E v \in Values : WriteCheckIn(h, v)
    \/ ReadRequest(h) \/ WriteRequest(h)
    \/ ReadApproval(h) \/ WriteApproval(h)
    \/ ReadRejection(h) \/ WriteRejection(h)

Next ==
    \/ ActivateCycle \/ CreateGoal
    \/ \E h \in Handlers : Request(h) \/ HandlerStep(h) \/ Fail(h)

Spec == Init /\ [][Next]_vars
-----------------------------------------------------------------------------
(* Properties. *)

Row == {[weight |-> d.weight, metric |-> d.metric, value |-> v] : d \in Definitions, v \in Values}

RowsOver(K) == UNION {[S -> Row] : S \in SUBSET K}

HandlerType ==
    [op : {"none", "closeCycle", "cancelCycle", "activate", "cancel", "createKR", "editKR",
           "retarget", "deleteKR", "checkIn", "request", "approve", "reject"},
     pc : {"idle", "lock", "read", "write"}, kr : KeyResults \union {0},
     kind : Kinds \union {"NONE"}, request : Nat,
     from : {"NONE", "DRAFT", "ACTIVE"}, locks : 0..2, rows : RowsOver(KeyResults) \union {<<>>}]

WellTyped ==
    /\ cycle \in {"DRAFT", "ACTIVE", "CLOSED", "CANCELLED"}
    /\ goal \in {"NONE", "DRAFT", "ACTIVE", "COMPLETED", "CANCELLED"}
    /\ krs \in [KeyResults -> Definitions \union {NoKR}]
    /\ latest \in [KeyResults -> Values \union {NoValue}]
    /\ checkIns \in 0..MaxCheckIns
    /\ requests \in Seq({"PENDING", "APPROVED", "REJECTED"}) /\ Len(requests) <= MaxRequests
    /\ result = NoResult \/ result.rows \in RowsOver(KeyResults)
    /\ work \in [Handlers -> HandlerType]

(* Rows and handlers are well typed, and an achievement is a percentage.   *)
TypeOK == WellTyped /\ (result # NoResult => result.achievement \in 0..Whole)

Approved == {r \in DOMAIN requests : requests[r] = "APPROVED"}

(* A goal is completed exactly by the approval of one request, which leaves*)
(* its result, whatever reviewers, cancellations and activations overlap.  *)
CompletedByApproval ==
    /\ goal = "COMPLETED" <=> result # NoResult
    /\ goal = "COMPLETED" <=> Approved # {}
    /\ Cardinality(Approved) <= 1 /\ Cardinality(Pending) <= 1

(* The formal achievement lies between those of the key results, and the   *)
(* stored weights account for it up to a cent per key result, when none or *)
(* all of them have a weight and these sum 100.                            *)
AchievementAccounted ==
    LET rows      == result.rows
        weight    == WeightsOf(rows)
        percent   == Achieved(rows)
        effective == EffectiveWeights(weight)
        sum       == SumFunction([k \in DOMAIN rows |-> effective[k] * percent[k]])
        cents     == Cardinality(DOMAIN rows)
    IN  result # NoResult /\ WeightsReady(weight) =>
          /\ \E k \in DOMAIN rows : percent[k] <= result.achievement
          /\ \E k \in DOMAIN rows : percent[k] >= result.achievement
          /\ SumFunction(effective) = Whole
          /\ RoundDiv(sum, Whole) - result.achievement \in -cents..cents

(* The completion as its reviewers see it: the last values are under review*)
(* while a request is pending, and are kept by the result.                 *)
Claims  == UNION {[K -> Values] : K \in SUBSET KeyResults}
NoClaim == [k \in {0} |-> NoValue]

phase ==
    CASE goal = "COMPLETED" -> "accepted"
      [] goal = "CANCELLED" -> "dropped"
      [] OTHER              -> IF Pending = {} THEN "open" ELSE "review"

claim   == IF phase = "review" THEN [k \in Reported |-> latest[k]] ELSE NoClaim
outcome == IF result = NoResult THEN NoClaim
           ELSE [k \in DOMAIN result.rows |-> result.rows[k].value]

GR == INSTANCE GoalReview

(* What is submitted is what is decided on and what the result keeps, and a*)
(* goal that has ended stays so.                                           *)
ImplementsReview == GR!Spec

Wants(h) == LockOrder(work[h].op)[work[h].locks + 1]

Waiting(h) == work[h].pc = "lock" /\ ~Free(h, Wants(h))

(* Whoever waits for a row waits for a handler that can go on.             *)
NoWaitCycle ==
    \A h \in Handlers :
       Waiting(h) => \A g \in Handlers \ {h} : Wants(h) \in Holds(g) => ~Waiting(g)

(* What a handler stands on: the rows it has locked, and what it read under*)
(* the lock of the goal.  With it and RowsAgree the properties are         *)
(* inductive.                                                              *)
LockState(w) ==
    CASE w.op \in {"checkIn", "request"} ->
            (w.pc = "lock" /\ w.locks = 0) \/ (w.pc \in {"read", "write"} /\ w.locks = 1)
      [] w.op \in {"approve", "reject"} ->
            (w.pc = "lock" /\ w.locks \in {0, 1}) \/ (w.pc \in {"read", "write"} /\ w.locks = 2)
      [] OTHER -> w.pc \in {"idle", "write"} /\ w.locks = 0

OfKeyResult == {"createKR", "editKR", "retarget", "deleteKR", "checkIn"}

HandlerStands(w) ==
    /\ LockState(w)
    /\ w.op \in OfKeyResult => w.kr \in KeyResults
    /\ w.op = "checkIn" /\ w.pc = "write" => Pending = {}
    /\ w.op = "request" /\ w.pc = "write" => goal = "ACTIVE" /\ Pending = {} /\ Reported # {}
    /\ w.op = "approve" /\ w.pc = "write" =>
          /\ goal = "ACTIVE" /\ w.request \in Pending
          /\ w.rows \in [Reported -> Row]
          /\ \A k \in Reported : w.rows[k].value = latest[k]

LocksDisjoint == \A g, h \in Handlers : g # h => Holds(g) \intersect Holds(h) = {}

RowsAgree ==
    /\ Reported \subseteq Present
    /\ Pending # {} => Reported # {}
    /\ \A r, q \in Pending : r = q
    /\ \A r, q \in Approved : r = q
    /\ goal = "COMPLETED" <=> result # NoResult
    /\ goal = "COMPLETED" <=> Approved # {}
    /\ result # NoResult =>
          /\ DOMAIN result.rows # {}
          /\ result.achievement = GoalProgress(WeightsOf(result.rows), Achieved(result.rows))

IInv ==
    /\ WellTyped /\ RowsAgree /\ LocksDisjoint
    /\ \A h \in Handlers : HandlerStands(work[h])
=============================================================================
