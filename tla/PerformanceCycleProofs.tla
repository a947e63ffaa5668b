----------------------- MODULE PerformanceCycleProofs -----------------------
(***************************************************************************)
(* Proofs about PerformanceCycle for every set of evaluators, competencies,*)
(* goals and handlers in flight.  A step moves one handler and leaves the  *)
(* tables alone (HandlerMoves), or ends its handler and writes tables that *)
(* the others still stand on (HandlerEnds).                                *)
(***************************************************************************)
EXTENDS PerformanceCycle, ScoreTheorems

(* A partial function is a function on a part.                             *)
LEMMA PartialFacts ==
  ASSUME NEW S, NEW T
  PROVE  /\ \A D \in SUBSET S : \A f \in [D -> T] : f \in Partial(S, T)
         /\ \A f \in Partial(S, T) : DOMAIN f \in SUBSET S /\ f \in [DOMAIN f -> T]
BY DEF Partial

(* The function on nothing is one.                                         *)
LEMMA NoneOK == ASSUME NEW S, NEW T PROVE None \in Partial(S, T)
<1>1. None \in [{} -> T] /\ {} \in SUBSET S
  BY DEF None
<1>. QED
  BY <1>1, PartialFacts

(* A handler that has ended is one, and stands on nothing.                 *)
LEMMA IdleOK ==
  /\ Idle \in HandlerType /\ Idle.op = "none" /\ Idle.pc = "idle" /\ ~Idle.known
  /\ HandlerStands(Idle) /\ ~Activating(Idle) /\ Idle.op \notin Answering
<1>1. None \in ScoreRows /\ None \in GoalRows /\ Self \in Evaluators
  BY NoneOK, PerformanceConstants DEF ScoreRows, GoalRows
<1>2. Idle \in HandlerType
  BY <1>1 DEF Idle, HandlerType
<1>3. Idle.op = "none" /\ Idle.pc = "idle" /\ ~Idle.known
  BY DEF Idle
<1>. QED
  BY <1>2, <1>3 DEF HandlerStands, Activating, Answering

(* A handler's step is a change of its record alone.                       *)
LEMMA Moved ==
  ASSUME WellTyped, NEW h \in Handlers, NEW w, work' = [work EXCEPT ![h] = w]
  PROVE  \A g \in Handlers : work'[g] = IF g = h THEN w ELSE work[g]
BY DEF WellTyped

(* The locks are still held by one each after a handler has moved that     *)
(* takes none another holds.                                               *)
LEMMA LocksKept ==
  ASSUME WellTyped, LocksHeld, NEW h \in Handlers, NEW w, work' = [work EXCEPT ![h] = w],
         Activating(w) => Activating(work[h]) \/ CycleFree(h),
         w.op \in Answering =>
            (work[h].op \in Answering /\ work[h].eval = w.eval) \/ EvaluationFree(h, w.eval)
  PROVE  LocksHeld'
<1>1. \A g \in Handlers : work'[g] = IF g = h THEN w ELSE work[g]
  BY Moved
<1>. SUFFICES ASSUME NEW g \in Handlers, NEW f \in Handlers, g # f
              PROVE  /\ ~(Activating(work'[g]) /\ Activating(work'[f]))
                     /\ work'[g].op \in Answering /\ work'[f].op \in Answering =>
                           work'[g].eval # work'[f].eval
  BY DEF LocksHeld, Activating, Answering
<1>2. \A x \in Handlers \ {h} :
         /\ ~(Activating(w) /\ Activating(work[x]))
         /\ w.op \in Answering /\ work[x].op \in Answering => w.eval # work[x].eval
  BY DEF LocksHeld, Activating, CycleFree, EvaluationFree, Rivals
<1>3. CASE g = h
  BY <1>1, <1>2, <1>3
<1>4. CASE f = h
  BY <1>1, <1>2, <1>4
<1>5. CASE g # h /\ f # h
  BY <1>1, <1>5 DEF LocksHeld
<1>. QED
  BY <1>3, <1>4, <1>5

(* A step of one handler that leaves the tables alone.                     *)
LEMMA HandlerMoves ==
  ASSUME IInv, UNCHANGED tables, NEW h \in Handlers, NEW w \in HandlerType,
         work' = [work EXCEPT ![h] = w], HandlerStands(w),
         Activating(w) => Activating(work[h]) \/ CycleFree(h),
         w.op \in Answering =>
            (work[h].op \in Answering /\ work[h].eval = w.eval) \/ EvaluationFree(h, w.eval)
  PROVE  IInv'
<1>1. \A g \in Handlers : work'[g] = IF g = h THEN w ELSE work[g]
  BY Moved DEF IInv
<1>2. UNCHANGED <<cycle, config, participant, evals, answers, score, goals, result, crossed, joined>>
  BY DEF tables, sheets, ghosts
<1>3. Existing' = Existing /\ Submitted' = Submitted
  BY <1>2 DEF Existing, Submitted
<1>4. WellTyped'
  <2>1. work' \in [Handlers -> HandlerType]
    BY DEF IInv, WellTyped
  <2>. QED
    BY <1>2, <2>1 DEF IInv, WellTyped
<1>5. ScoreIsOfAnswers' /\ ResultIsOfScores'
  BY <1>2, <1>3 DEF IInv, ScoreIsOfAnswers, ResultIsOfScores
<1>6. ExclusionApart' /\ ClosedIsSettled' /\ RowsAgree'
  BY <1>2, <1>3 DEF IInv, ExclusionApart, ClosedIsSettled, RowsAgree
<1>7. LocksHeld'
  BY LocksKept DEF IInv
<1>8. ASSUME NEW g \in Handlers PROVE HandlerStands(work[g])'
  <2>1. HandlerStands(work'[g])
    BY <1>1 DEF IInv
  <2>. QED
    BY <1>2, <1>3, <2>1 DEF HandlerStands
<1>. QED
  BY <1>4, <1>5, <1>6, <1>7, <1>8 DEF IInv

(* The columns of the tables, without the handlers.                        *)
TablesTyped ==
  /\ cycle \in {"DRAFT", "ACTIVE", "CLOSED", "CANCELLED"}
  /\ config \in Configurations
  /\ participant \in {"NONE", "ACTIVE", "COMPLETED", "EXCLUDED"}
  /\ evals \in [Evaluators -> {"NONE", "PENDING", "IN_PROGRESS", "SUBMITTED"}]
  /\ answers \in [Evaluators -> AnswerRows]
  /\ score \in [Evaluators -> Scores \union {NoScore}]
  /\ goals \in [DOMAIN GoalWeights -> Achievements \union {NotActive, Underway}]
  /\ result.status \in {"NONE", "CALCULATED", "RELEASED"}
  /\ result.config \in Configurations \union {NoConfig}
  /\ result.scores \in ScoreRows /\ result.goals \in GoalRows

(* A step that ends its handler and writes tables.                         *)
LEMMA HandlerEnds ==
  ASSUME IInv, NEW h \in Handlers, work' = [work EXCEPT ![h] = Idle],
         TablesTyped', ScoreIsOfAnswers', ResultIsOfScores', ExclusionApart', ClosedIsSettled',
         RowsAgree', \A w \in {work[g] : g \in Handlers \ {h}} : HandlerStands(w)'
  PROVE  IInv'
<1>1. \A g \in Handlers : work'[g] = IF g = h THEN Idle ELSE work[g]
  BY Moved DEF IInv
<1>2. WellTyped'
  <2>1. work' \in [Handlers -> HandlerType]
    BY IdleOK DEF IInv, WellTyped
  <2>. QED
    BY <2>1 DEF TablesTyped, WellTyped
<1>3. LocksHeld'
  BY IdleOK, LocksKept DEF IInv
<1>4. HandlerStands(Idle)'
  BY IdleOK DEF HandlerStands, Answering
<1>5. ASSUME NEW g \in Handlers PROVE HandlerStands(work[g])'
  <2>1. CASE g = h
    BY <1>1, <1>4, <2>1 DEF HandlerStands
  <2>2. CASE g # h
    <3> DEFINE x == work[g]
    <3>1. x \in {work[f] : f \in Handlers \ {h}}
      BY <2>2
    <3>2. work'[g] = x
      BY <1>1, <2>2
    <3>. QED
      BY <3>1, <3>2 DEF HandlerStands
  <2>. QED
    BY <2>1, <2>2
<1>. QED
  BY <1>2, <1>3, <1>5 DEF IInv
-----------------------------------------------------------------------------
(* Steps that leave the tables alone.                                      *)

(* A handler that has read its row begins to write.                        *)
LEMMA BeginKeeps ==
  ASSUME IInv, UNCHANGED tables, NEW h \in Handlers, work[h] = Idle,
         NEW w \in HandlerType, work' = [work EXCEPT ![h] = w], HandlerStands(w),
         ~Activating(w), w.op \notin Answering
  PROVE  IInv'
BY HandlerMoves

(* Every request: its reading is what its handler stands on.               *)
LEMMA RequestKeeps ==
  ASSUME IInv, NEW h \in Handlers, Request(h)
  PROVE  IInv'
<1>0. /\ WellTyped /\ config \in Configurations
      /\ cycle \in {"DRAFT", "ACTIVE", "CLOSED", "CANCELLED"}
  BY DEF IInv, WellTyped
<1>1. CASE Activate(h)
  <2> DEFINE w == [Idle EXCEPT !.op = "activate", !.pc = "write"]
  <2>1. w \in HandlerType /\ w.op = "activate" /\ w.pc = "write" /\ w.known = FALSE
    BY <1>0, IdleOK DEF HandlerType, Idle
  <2>2. work[h] = Idle /\ work' = [work EXCEPT ![h] = w] /\ UNCHANGED tables
    BY <1>1 DEF Activate, Begin, Becomes
  <2> HIDE DEF w
  <2>3. HandlerStands(w) /\ ~Activating(w) /\ w.op \notin Answering
    BY <2>1 DEF HandlerStands, Activating, Answering
  <2>. QED
    BY <2>1, <2>2, <2>3, BeginKeeps
<1>2. CASE Close(h)
  <2> DEFINE w == [Idle EXCEPT !.op = "close", !.pc = "write", !.from = "ACTIVE"]
  <2>1. w \in HandlerType /\ w.op = "close" /\ w.pc = "write" /\ w.known = FALSE
    BY <1>0, IdleOK DEF HandlerType, Idle
  <2>2. work[h] = Idle /\ work' = [work EXCEPT ![h] = w] /\ UNCHANGED tables /\ participant # "ACTIVE"
    BY <1>2 DEF Close, Becomes
  <2> HIDE DEF w
  <2>3. HandlerStands(w) /\ ~Activating(w) /\ w.op \notin Answering
    BY <2>1, <2>2 DEF HandlerStands, Activating, Answering
  <2>. QED
    BY <2>1, <2>2, <2>3, BeginKeeps
<1>3. CASE Cancel(h)
  <2> DEFINE w == [Idle EXCEPT !.op = "cancel", !.pc = "write", !.from = cycle]
  <2>1. work[h] = Idle /\ work' = [work EXCEPT ![h] = w] /\ UNCHANGED tables
        /\ cycle \in {"DRAFT", "ACTIVE"}
    BY <1>3 DEF Cancel, Becomes
  <2>2. w \in HandlerType /\ w.op = "cancel" /\ w.pc = "write" /\ w.known = FALSE
    BY <2>1, IdleOK DEF HandlerType, Idle
  <2> HIDE DEF w
  <2>3. HandlerStands(w) /\ ~Activating(w) /\ w.op \notin Answering
    BY <2>2 DEF HandlerStands, Activating, Answering
  <2>. QED
    BY <2>1, <2>2, <2>3, BeginKeeps
<1>4. CASE Assign(h) \/ JoinAsLeader(h)
  <2> DEFINE w(from, pc) == [Idle EXCEPT !.op = "assign", !.from = from, !.pc = pc]
  <2>1. PICK from \in {"DRAFT", "ACTIVE"}, pc \in {"open", "write"} :
          /\ work[h] = Idle /\ work' = [work EXCEPT ![h] = w(from, pc)] /\ UNCHANGED tables
          /\ from = "ACTIVE" => pc = "open"
    <3>1. CASE Assign(h)
      <4>1. /\ work' = [work EXCEPT ![h] = w(cycle, IF cycle = "ACTIVE" THEN "open" ELSE "write")]
            /\ work[h] = Idle /\ UNCHANGED tables /\ cycle \in {"DRAFT", "ACTIVE"}
        BY <3>1 DEF Assign, Becomes
      <4> HIDE DEF w
      <4>. QED
        BY <4>1
    <3>2. CASE JoinAsLeader(h)
      <4>1. /\ work' = [work EXCEPT ![h] = w("DRAFT", "write")]
            /\ work[h] = Idle /\ UNCHANGED tables
        BY <3>2 DEF JoinAsLeader, Becomes
      <4> HIDE DEF w
      <4>. QED
        BY <4>1
    <3>. QED
      BY <1>4, <3>1, <3>2
  <2>2. /\ w(from, pc) \in HandlerType /\ w(from, pc).op = "assign" /\ w(from, pc).pc = pc
        /\ w(from, pc).from = from /\ w(from, pc).known = FALSE
    BY <2>1, IdleOK DEF HandlerType, Idle
  <2> HIDE DEF w
  <2>3. HandlerStands(w(from, pc)) /\ ~Activating(w(from, pc)) /\ w(from, pc).op \notin Answering
    BY <2>1, <2>2 DEF HandlerStands, Activating, Answering
  <2>. QED
    BY <2>1, <2>2, <2>3, BeginKeeps
<1>5. CASE Exclude(h) \/ RemoveDraft(h)
  <2> DEFINE w(op) == [Idle EXCEPT !.op = op, !.pc = "write", !.known = TRUE]
  <2>1. PICK op \in {"exclude", "remove"} :
          /\ work[h] = Idle /\ work' = [work EXCEPT ![h] = w(op)] /\ UNCHANGED tables
          /\ op = "exclude" => Submitted = {}
          /\ participant # "NONE"
    BY <1>5 DEF Exclude, RemoveDraft, BeginOnRow, Becomes
  <2>2. w(op) \in HandlerType /\ w(op).op = op /\ w(op).pc = "write"
    BY <1>0, <2>1, IdleOK DEF HandlerType
  <2> HIDE DEF w
  <2>3. HandlerStands(w(op)) /\ ~Activating(w(op)) /\ w(op).op \notin Answering
    BY <2>1, <2>2 DEF HandlerStands, Activating, Answering
  <2>. QED
    BY <2>1, <2>2, <2>3, BeginKeeps
<1>6. ASSUME NEW e \in Evaluators, NEW op \in Answering, Answer(h, e, op) PROVE IInv'
  <2> DEFINE w == [Idle EXCEPT !.op = op, !.pc = "write", !.eval = e]
  <2>1. /\ work[h] = Idle /\ work' = [work EXCEPT ![h] = w] /\ UNCHANGED tables
        /\ EvaluationFree(h, e) /\ evals[e] \in {"PENDING", "IN_PROGRESS"}
        /\ op = "submit" => participant # "EXCLUDED"
    BY <1>6 DEF Answer, Becomes
  <2>2. w \in HandlerType /\ w.op = op /\ w.pc = "write" /\ w.eval = e /\ w.known = FALSE
    BY <1>6, IdleOK DEF HandlerType, Idle
  <2> HIDE DEF w
  <2>3. HandlerStands(w) /\ ~Activating(w)
    BY <2>1, <2>2 DEF HandlerStands, Activating, Answering
  <2>. QED
    BY <2>1, <2>2, <2>3, HandlerMoves
<1>7. CASE Calculate(h)
  <2> DEFINE w == [Idle EXCEPT !.op = "calculate", !.pc = "scores", !.holds = TRUE, !.config = config]
  <2>1. work[h] = Idle /\ work' = [work EXCEPT ![h] = w] /\ UNCHANGED tables
    BY <1>7 DEF Calculate, Becomes
  <2>2. /\ w \in HandlerType /\ w.op = "calculate" /\ w.pc = "scores" /\ w.known = FALSE
        /\ w.config \in Configurations
    BY <1>0, IdleOK DEF HandlerType, Idle
  <2> HIDE DEF w
  <2>3. HandlerStands(w) /\ ~Activating(w) /\ w.op \notin Answering
    BY <2>2 DEF HandlerStands, Activating, Answering
  <2>. QED
    BY <2>1, <2>2, <2>3, BeginKeeps
<1>8. CASE Release(h)
  <2> DEFINE w == [Idle EXCEPT !.op = "release", !.pc = "write", !.holds = TRUE]
  <2>1. work[h] = Idle /\ work' = [work EXCEPT ![h] = w] /\ UNCHANGED tables
    BY <1>8 DEF Release, Becomes
  <2>2. w \in HandlerType /\ w.op = "release" /\ w.pc = "write" /\ w.known = FALSE
    BY <1>0, IdleOK DEF HandlerType, Idle
  <2> HIDE DEF w
  <2>3. HandlerStands(w) /\ ~Activating(w) /\ w.op \notin Answering
    BY <2>2 DEF HandlerStands, Activating, Answering
  <2>. QED
    BY <2>1, <2>2, <2>3, BeginKeeps
<1>9. CASE Update(h)
  <2> DEFINE w == [Idle EXCEPT !.op = "update", !.pc = "write"]
  <2>1. w \in HandlerType /\ w.op = "update" /\ w.pc = "write" /\ w.known = FALSE
    BY <1>0, IdleOK DEF HandlerType, Idle
  <2>2. work[h] = Idle /\ work' = [work EXCEPT ![h] = w] /\ UNCHANGED tables
    BY <1>9 DEF Update, Begin, Becomes
  <2> HIDE DEF w
  <2>3. HandlerStands(w) /\ ~Activating(w) /\ w.op \notin Answering
    BY <2>1 DEF HandlerStands, Activating, Answering
  <2>. QED
    BY <2>1, <2>2, <2>3, BeginKeeps
<1>. QED
  BY <1>1, <1>2, <1>3, <1>4, <1>5, <1>6, <1>7, <1>8, <1>9 DEF Request

(* Steps inside a transaction, and failures.                               *)
LEMMA ReadsKeep ==
  ASSUME IInv, NEW h \in Handlers,
         \/ ActivateWrite(h) \/ ListPending(h) \/ OpenAssign(h)
         \/ ReadScores(h) \/ Gate(h) \/ LoadGoals(h) \/ Fail(h)
  PROVE  IInv'
<1>0. /\ WellTyped /\ work[h] \in HandlerType /\ HandlerStands(work[h]) /\ config \in Configurations
      /\ score \in [Evaluators -> Scores \union {NoScore}] /\ ScoreIsOfAnswers
  BY DEF IInv, WellTyped
<1>1. ASSUME Finish(h), UNCHANGED tables PROVE IInv'
  BY <1>1, IdleOK, HandlerMoves DEF Finish, Becomes
<1>2. CASE ActivateWrite(h)
  <2> DEFINE w == [work[h] EXCEPT !.pc = "list"]
  <2>1. CASE cycle = "DRAFT"
    <3>1. /\ work' = [work EXCEPT ![h] = w] /\ UNCHANGED tables
          /\ work[h].op = "activate" /\ CycleFree(h)
      BY <1>2, <2>1 DEF ActivateWrite, GoTo, At
    <3>2. w \in HandlerType /\ w.op = "activate" /\ w.pc = "list" /\ w.known = work[h].known
      BY <1>0, <3>1 DEF HandlerType
    <3> HIDE DEF w
    <3>3. HandlerStands(w) /\ w.op \notin Answering
      BY <1>0, <3>2 DEF HandlerStands, Answering
    <3>. QED
      BY <3>1, <3>2, <3>3, HandlerMoves
  <2>. QED
    BY <1>1, <1>2, <2>1 DEF ActivateWrite
<1>3. CASE ListPending(h)
  <2> DEFINE l == participant = "ACTIVE" /\ Existing = {}
             k == participant # "NONE"
             w == [work[h] EXCEPT !.pc = "commit", !.known = k, !.listed = l]
  <2>1. /\ work' = [work EXCEPT ![h] = w] /\ UNCHANGED tables
        /\ work[h].op = "activate" /\ Activating(work[h])
    BY <1>3 DEF ListPending, Becomes, At, Activating
  <2>2. l \in BOOLEAN /\ k \in BOOLEAN /\ (l => Existing = {}) /\ (k => participant # "NONE")
    OBVIOUS
  <2> HIDE DEF l, k
  <2>3. w \in HandlerType /\ w.op = "activate" /\ w.known = k /\ w.listed = l
    BY <1>0, <2>1, <2>2 DEF HandlerType
  <2> HIDE DEF w
  <2>4. HandlerStands(w) /\ w.op \notin Answering
    BY <1>0, <2>2, <2>3 DEF HandlerStands, Answering
  <2>. QED
    BY <2>1, <2>3, <2>4, HandlerMoves
<1>7. CASE OpenAssign(h)
  <2> DEFINE w == [work[h] EXCEPT !.pc = "write", !.config = config]
  <2>1. work' = [work EXCEPT ![h] = w] /\ UNCHANGED tables /\ work[h].op = "assign"
    BY <1>7 DEF OpenAssign, Becomes, At
  <2>2. /\ w \in HandlerType /\ w.op = "assign" /\ w.config \in Configurations
        /\ w.known = work[h].known
    BY <1>0, <2>1 DEF HandlerType
  <2> HIDE DEF w
  <2>3. HandlerStands(w) /\ w.op \notin Answering /\ ~Activating(w)
    BY <1>0, <2>2 DEF HandlerStands, Answering, Activating
  <2>. QED
    BY <2>1, <2>2, <2>3, HandlerMoves
<1>4. CASE ReadScores(h)
  <2> DEFINE conf == work[h].config
             pc == AfterScores(conf)
             s  == [e \in Existing |-> score[e]]
             w  == [work[h] EXCEPT !.pc = pc, !.scores = s]
  <2>1. CASE ~(Finish(h) /\ UNCHANGED tables)
    <3>1. /\ work' = [work EXCEPT ![h] = w] /\ UNCHANGED tables
          /\ Existing # {} /\ Existing = Submitted /\ work[h].op = "calculate"
          /\ Divisible(conf, s)
      BY <1>4, <2>1 DEF ReadScores, Becomes, At
    <3>2. pc \in {"gate", "write"} /\ (pc = "write" => ~(conf.goals > 0))
      BY DEF AfterScores
    <3>3. s \in ScoreRows
      <4>1. \A e \in Existing : score[e] \in Scores
        BY <1>0, <3>1 DEF IInv, RowsAgree
      <4>2. Existing \in SUBSET Evaluators /\ s \in [Existing -> Scores]
        BY <4>1 DEF Existing
      <4>. QED
        BY <4>2, PartialFacts DEF ScoreRows
    <3> HIDE DEF pc, s
    <3>4. /\ w \in HandlerType /\ w.op = "calculate" /\ w.pc = pc /\ w.scores = s
          /\ w.config = conf /\ w.known = work[h].known
      BY <1>0, <3>1, <3>2, <3>3 DEF HandlerType
    <3> HIDE DEF w
    <3>5. HandlerStands(w) /\ w.op \notin Answering /\ ~Activating(w)
      BY <1>0, <3>1, <3>2, <3>4 DEF HandlerStands, Answering, Activating, s
    <3>. QED
      BY <3>1, <3>4, <3>5, HandlerMoves
  <2>. QED
    BY <1>1, <2>1
<1>5. CASE Gate(h)
  <2> DEFINE w == [work[h] EXCEPT !.pc = "load"]
  <2>1. CASE ~(Finish(h) /\ UNCHANGED tables)
    <3>1. /\ work' = [work EXCEPT ![h] = w] /\ UNCHANGED tables
          /\ work[h].op = "calculate" /\ work[h].pc = "gate"
      BY <1>5, <2>1 DEF Gate, GoTo, At
    <3>2. /\ w \in HandlerType /\ w.op = "calculate" /\ w.scores = work[h].scores /\ w.pc = "load"
          /\ w.config = work[h].config /\ w.known = work[h].known
      BY <1>0, <3>1 DEF HandlerType
    <3> HIDE DEF w
    <3>3. HandlerStands(w) /\ w.op \notin Answering /\ ~Activating(w)
      BY <1>0, <3>1, <3>2 DEF HandlerStands, Answering, Activating
    <3>. QED
      BY <3>1, <3>2, <3>3, HandlerMoves
  <2>. QED
    BY <1>1, <2>1
<1>6. CASE LoadGoals(h)
  <2> DEFINE G == Achieving(work[h].config)
             a == [g \in G |-> goals[g]]
             w == [work[h] EXCEPT !.pc = "write", !.goals = a]
  <2>1. CASE ~(Finish(h) /\ UNCHANGED tables)
    <3>1. /\ work' = [work EXCEPT ![h] = w] /\ UNCHANGED tables
          /\ work[h].op = "calculate" /\ work[h].pc = "load"
          /\ Integrable(Merit(work[h].config, work[h].scores), Attained(a))
      BY <1>6, <2>1 DEF LoadGoals, Becomes, At
    <3>2. a \in GoalRows
      <4>1. G \in SUBSET DOMAIN GoalWeights /\ a \in [G -> Achievements]
        BY <1>0 DEF WellTyped, Achieving, Applicable
      <4>. QED
        BY <4>1, PartialFacts DEF GoalRows
    <3> HIDE DEF a
    <3>3. /\ w \in HandlerType /\ w.op = "calculate" /\ w.scores = work[h].scores /\ w.goals = a
          /\ w.config = work[h].config /\ w.known = work[h].known
      BY <1>0, <3>1, <3>2 DEF HandlerType
    <3> HIDE DEF w
    <3>4. HandlerStands(w) /\ w.op \notin Answering /\ ~Activating(w)
      BY <1>0, <3>1, <3>3 DEF HandlerStands, Answering, Activating
    <3>. QED
      BY <3>1, <3>3, <3>4, HandlerMoves
  <2>. QED
    BY <1>1, <2>1
<1>. QED
  BY <1>1, <1>2, <1>3, <1>4, <1>5, <1>6, <1>7 DEF Fail
-----------------------------------------------------------------------------
(* Steps that write the tables and end their handler.                      *)

(* What a handler's record says of it.                                     *)
LEMMA InvFacts ==
  ASSUME IInv
  PROVE  /\ TablesTyped /\ ScoreIsOfAnswers /\ ResultIsOfScores /\ ExclusionApart /\ ClosedIsSettled
         /\ RowsAgree /\ LocksHeld /\ Submitted \subseteq Existing
         /\ \A h \in Handlers : HandlerStands(work[h]) /\ work[h] \in HandlerType
<1>1. Submitted \subseteq Existing
  BY DEF Submitted, Existing
<1>2. WellTyped => TablesTyped /\ \A h \in Handlers : work[h] \in HandlerType
  BY DEF WellTyped, TablesTyped
<1>. QED
  BY <1>1, <1>2 DEF IInv

(* New evaluations are all pending, there are some, and none is a client's.*)
LEMMA Attached ==
  ASSUME NEW weights, Attach(weights)
  PROVE  /\ evals' \in [Evaluators -> {"NONE", "PENDING", "IN_PROGRESS", "SUBMITTED"}]
         /\ Submitted' = {} /\ Existing' # {} /\ \A e \in Existing' : TypeOf[e] # "CLIENT"
<1>1. PICK E \in SUBSET Invitees(weights) :
        Self \in E /\ evals' = [e \in Evaluators |-> IF e \in E THEN "PENDING" ELSE "NONE"]
  BY DEF Attach
<1>2. E \subseteq Evaluators /\ \A e \in E : TypeOf[e] # "CLIENT"
  BY DEF Invitees
<1>3. Submitted' = {}
  BY <1>1 DEF Submitted
<1>4. Self \in Existing' /\ Existing' \subseteq E
  BY <1>1, <1>2 DEF Existing
<1>. QED
  BY <1>1, <1>2, <1>3, <1>4

(* Evaluations are attached to a participant that had none, and the other  *)
(* handlers still stand: none of them reads one that is new.               *)
LEMMA AttachKeeps ==
  ASSUME IInv, NEW h \in Handlers, work' = [work EXCEPT ![h] = Idle],
         Existing = {}, NEW weights, Attach(weights),
         UNCHANGED <<config, answers, score, goals, result, crossed>>,
         cycle' \in {"DRAFT", "ACTIVE", "CLOSED", "CANCELLED"},
         participant' \in {"ACTIVE", "COMPLETED", "EXCLUDED"},
         participant' # participant => participant' = "ACTIVE",
         ClosedIsSettled',
         \A g \in Handlers \ {h} :
            /\ work[g].op = "close" => joined' \/ participant' # "ACTIVE"
            /\ Activating(work[g]) => ~work[g].known
  PROVE  IInv'
<1>1. /\ evals' \in [Evaluators -> {"NONE", "PENDING", "IN_PROGRESS", "SUBMITTED"}]
      /\ Submitted' = {} /\ Existing' # {} /\ Submitted = {}
      /\ \A e \in Existing' : TypeOf[e] # "CLIENT"
  BY Attached, InvFacts
<1>2. result = NoResult
  BY InvFacts DEF ResultIsOfScores
<1>3. TablesTyped'
  BY <1>1, InvFacts DEF TablesTyped
<1>4. ScoreIsOfAnswers' /\ ResultIsOfScores'
  BY <1>1, <1>2 DEF ScoreIsOfAnswers, ResultIsOfScores
<1>5. ExclusionApart'
  BY <1>1, <1>2, InvFacts DEF ExclusionApart
<1>6. RowsAgree'
  BY <1>1, InvFacts DEF RowsAgree
<1>7. ASSUME NEW g \in Handlers \ {h} PROVE HandlerStands(work[g])'
  <2> DEFINE w == work[g]
  <2>1. w \in HandlerType /\ HandlerStands(w)
    BY InvFacts
  <2>2. w.op \notin Answering
    BY <2>1 DEF HandlerStands, Existing, HandlerType
  <2>3. ~(w.op = "calculate" /\ w.pc \in {"gate", "load", "write"})
    BY <2>1 DEF HandlerStands
  <2>4. w.op = "activate" /\ w.pc = "commit" => ~w.known
    BY DEF Activating
  <2>5. w.op = "close" => joined' \/ participant' # "ACTIVE"
    OBVIOUS
  <2> HIDE DEF w
  <2>6. w.op # "submit"
    BY <2>2 DEF Answering
  <2>7. \A x : x = w => HandlerStands(x)'
    BY <1>1, <2>1, <2>2, <2>3, <2>4, <2>5, <2>6 DEF HandlerStands
  <2>. QED
    BY <2>7 DEF w, HandlerStands
<1>8. \A w \in {work[g] : g \in Handlers \ {h}} : HandlerStands(w)'
  BY <1>7 DEF HandlerStands
<1>. QED
  BY <1>1, <1>3, <1>4, <1>5, <1>6, <1>8, HandlerEnds

(* The activation's last step.                                             *)
LEMMA ActivateCommitKeeps ==
  ASSUME IInv, NEW h \in Handlers, ActivateCommit(h)
  PROVE  IInv'
<1>0. /\ work' = [work EXCEPT ![h] = Idle] /\ At(h, "activate", "commit")
      /\ UNCHANGED <<config, participant, answers, score, goals, result, crossed, joined>>
  BY DEF ActivateCommit, Finish, Becomes, ghosts
<1>1. CASE work[h].listed /\ work[h].known
  <2>1. cycle' = "ACTIVE" /\ Attach(config.weights)
    BY <1>1 DEF ActivateCommit
  <2>2. Existing = {}
    BY <1>0, <1>1, InvFacts DEF HandlerStands, At
  <2>3. participant \in {"ACTIVE", "COMPLETED", "EXCLUDED"}
    BY <1>1, InvFacts DEF HandlerStands, TablesTyped
  <2>4. ASSUME NEW g \in Handlers \ {h}
        PROVE  /\ ~Activating(work[g])
               /\ work[g].op = "close" => joined \/ participant # "ACTIVE"
    BY <1>0, InvFacts DEF LocksHeld, Activating, At, HandlerStands
  <2>5. ClosedIsSettled'
    BY <2>1 DEF ClosedIsSettled
  <2>. QED
    BY <1>0, <2>1, <2>2, <2>3, <2>4, <2>5, AttachKeeps
<1>2. CASE ~(work[h].listed /\ work[h].known)
  <2>1. evals' = evals /\ cycle' \in {cycle, "ACTIVE"}
    BY <1>2 DEF ActivateCommit
  <2>2. Existing' = Existing /\ Submitted' = Submitted
    BY <2>1 DEF Existing, Submitted
  <2>3. TablesTyped'
    BY <1>0, <2>1, InvFacts DEF TablesTyped
  <2>4. ScoreIsOfAnswers' /\ ResultIsOfScores' /\ ExclusionApart' /\ RowsAgree'
    BY <1>0, <2>1, <2>2, InvFacts DEF ScoreIsOfAnswers, ResultIsOfScores, ExclusionApart, RowsAgree
  <2>5. ClosedIsSettled'
    BY <1>0, <2>1, InvFacts DEF ClosedIsSettled
  <2>6. \A w \in {work[g] : g \in Handlers \ {h}} : HandlerStands(w)'
    BY <1>0, <2>1, <2>2, InvFacts DEF HandlerStands
  <2>. QED
    BY <1>0, <2>3, <2>4, <2>5, <2>6, HandlerEnds
<1>. QED
  BY <1>1, <1>2

(* Closing or cancelling the cycle.                                        *)
LEMMA WriteCycleKeeps ==
  ASSUME IInv, NEW h \in Handlers, WriteCycle(h)
  PROVE  IInv'
<1>0. /\ work' = [work EXCEPT ![h] = Idle]
      /\ UNCHANGED <<config, participant, evals, answers, score, goals, result, crossed, joined>>
      /\ cycle' \in {cycle, "CLOSED", "CANCELLED"}
      /\ cycle' = "CLOSED" => cycle = "CLOSED" \/ work[h].op = "close"
  BY DEF WriteCycle, Finish, Becomes, ghosts, sheets
<1>1. Existing' = Existing /\ Submitted' = Submitted
  BY <1>0 DEF Existing, Submitted
<1>2. TablesTyped'
  BY <1>0, InvFacts DEF TablesTyped
<1>3. ScoreIsOfAnswers' /\ ResultIsOfScores' /\ ExclusionApart' /\ RowsAgree'
  BY <1>0, <1>1, InvFacts DEF ScoreIsOfAnswers, ResultIsOfScores, ExclusionApart, RowsAgree
<1>4. ClosedIsSettled'
  BY <1>0, InvFacts DEF ClosedIsSettled, HandlerStands
<1>5. \A w \in {work[g] : g \in Handlers \ {h}} : HandlerStands(w)'
  BY <1>0, <1>1, InvFacts DEF HandlerStands
<1>. QED
  BY <1>0, <1>2, <1>3, <1>4, <1>5, HandlerEnds

(* An edit of the cycle: everyone else keeps to what it read.              *)
LEMMA WriteUpdateKeeps ==
  ASSUME IInv, NEW h \in Handlers, WriteUpdate(h)
  PROVE  IInv'
<1>0. /\ work' = [work EXCEPT ![h] = Idle] /\ config' \in Configurations
      /\ UNCHANGED <<cycle, participant, evals, answers, score, goals, result, crossed, joined>>
  BY DEF WriteUpdate, Finish, Becomes, ghosts, sheets
<1>1. Existing' = Existing /\ Submitted' = Submitted
  BY <1>0 DEF Existing, Submitted
<1>2. TablesTyped'
  BY <1>0, InvFacts DEF TablesTyped
<1>3. ScoreIsOfAnswers' /\ ResultIsOfScores' /\ ExclusionApart' /\ RowsAgree' /\ ClosedIsSettled'
  BY <1>0, <1>1, InvFacts
     DEF ScoreIsOfAnswers, ResultIsOfScores, ExclusionApart, RowsAgree, ClosedIsSettled
<1>4. \A w \in {work[g] : g \in Handlers \ {h}} : HandlerStands(w)'
  BY <1>0, <1>1, InvFacts DEF HandlerStands
<1>. QED
  BY <1>0, <1>2, <1>3, <1>4, HandlerEnds

(* Creating the participation.                                             *)
LEMMA WriteAssignKeeps ==
  ASSUME IInv, NEW h \in Handlers, WriteAssign(h)
  PROVE  IInv'
<1>0. /\ work' = [work EXCEPT ![h] = Idle]
      /\ UNCHANGED <<cycle, config, answers, score, goals, result, crossed>>
  BY DEF WriteAssign, Finish, Becomes
<1>1. CASE UNCHANGED <<participant, evals, joined>>
  <2>1. Existing' = Existing /\ Submitted' = Submitted
    BY <1>1 DEF Existing, Submitted
  <2>2. TablesTyped'
    BY <1>0, <1>1, InvFacts DEF TablesTyped
  <2>3. /\ ScoreIsOfAnswers' /\ ResultIsOfScores' /\ ExclusionApart' /\ RowsAgree'
        /\ ClosedIsSettled'
    BY <1>0, <1>1, <2>1, InvFacts
       DEF ScoreIsOfAnswers, ResultIsOfScores, ExclusionApart, RowsAgree, ClosedIsSettled
  <2>4. \A w \in {work[g] : g \in Handlers \ {h}} : HandlerStands(w)'
    BY <1>0, <1>1, <2>1, InvFacts DEF HandlerStands
  <2>. QED
    BY <1>0, <2>2, <2>3, <2>4, HandlerEnds
<1>2. CASE /\ participant = "NONE" /\ Create
           /\ IF work[h].from = "ACTIVE" THEN Attach(work[h].config.weights) ELSE UNCHANGED evals
  <2>1. /\ participant' = "ACTIVE"
        /\ joined' = (joined \/ cycle \notin {"DRAFT", "ACTIVE"} \/ \E g \in Handlers : work[g].op = "close")
    BY <1>2 DEF Create
  <2>2. Existing = {} /\ Submitted = {} /\ result = NoResult
    BY <1>2, InvFacts DEF RowsAgree, ResultIsOfScores
  <2>3. ClosedIsSettled'
    BY <1>0, <2>1 DEF ClosedIsSettled
  <2>4. ASSUME NEW g \in Handlers \ {h}
        PROVE  ~work[g].known /\ (work[g].op = "close" => joined')
    <3>1. HandlerStands(work[g])
      BY InvFacts
    <3>. QED
      BY <1>2, <2>1, <3>1 DEF HandlerStands
  <2>5. CASE Attach(work[h].config.weights)
    <3>1. cycle' \in {"DRAFT", "ACTIVE", "CLOSED", "CANCELLED"}
      BY <1>0, InvFacts DEF TablesTyped
    <3>. QED
      BY <1>0, <2>1, <2>2, <2>3, <2>4, <2>5, <3>1, AttachKeeps
  <2>6. CASE UNCHANGED evals
    <3>1. Existing' = {} /\ Submitted' = {}
      BY <2>2, <2>6 DEF Existing, Submitted
    <3>2. TablesTyped'
      BY <1>0, <2>1, <2>6, InvFacts DEF TablesTyped
    <3>3. /\ ScoreIsOfAnswers' /\ ResultIsOfScores' /\ ExclusionApart' /\ RowsAgree'
      BY <1>0, <2>1, <2>2, <3>1, InvFacts DEF ScoreIsOfAnswers, ResultIsOfScores, ExclusionApart, RowsAgree
    <3>4. ASSUME NEW w, HandlerStands(w), w.op = "close" => joined'
          PROVE  HandlerStands(w)'
      BY <1>0, <2>1, <2>2, <2>6, <3>1, <3>4 DEF HandlerStands
    <3>5. \A w \in {work[g] : g \in Handlers \ {h}} :
             HandlerStands(w) /\ (w.op = "close" => joined')
      BY <2>4, InvFacts
    <3>6. \A w \in {work[g] : g \in Handlers \ {h}} : HandlerStands(w)'
      BY <3>4, <3>5
    <3>. QED
      BY <1>0, <2>3, <3>2, <3>3, <3>6, HandlerEnds
  <2>. QED
    BY <1>2, <2>5, <2>6
<1>. QED
  BY <1>1, <1>2 DEF WriteAssign

(* A handler that finds its row gone only ends.                            *)
LEMMA OnlyEnds ==
  ASSUME IInv, NEW h \in Handlers, work' = [work EXCEPT ![h] = Idle], UNCHANGED tables
  PROVE  IInv'
BY IdleOK, HandlerMoves

(* Excluding leaves the evaluations and the result alone: the others stand *)
(* on what they did as long as the memory of an overlap is kept.           *)
LEMMA WriteExcludeKeeps ==
  ASSUME IInv, NEW h \in Handlers, WriteExclude(h)
  PROVE  IInv'
<1>0. /\ work' = [work EXCEPT ![h] = Idle]
      /\ UNCHANGED <<cycle, config, evals, answers, score, goals, result, joined>>
  BY DEF WriteExclude, Finish, Becomes, sheets
<1>1. CASE work[h].known
  <2>1. /\ participant' = "EXCLUDED"
        /\ crossed' = (crossed \/ \E g \in Handlers : work[g].op = "submit")
        /\ crossed \/ Submitted = {}
    BY <1>1, InvFacts DEF WriteExclude, HandlerStands, At
  <2>2. Existing' = Existing /\ Submitted' = Submitted
    BY <1>0 DEF Existing, Submitted
  <2>3. TablesTyped'
    BY <1>0, <2>1, InvFacts DEF TablesTyped
  <2>4. ScoreIsOfAnswers' /\ ResultIsOfScores' /\ ClosedIsSettled' /\ RowsAgree'
    BY <1>0, <2>1, <2>2, InvFacts DEF ScoreIsOfAnswers, ResultIsOfScores, ClosedIsSettled, RowsAgree
  <2>5. ExclusionApart'
    BY <1>0, <2>1, <2>2, InvFacts DEF ExclusionApart, ResultIsOfScores
  <2>6. \A w \in {work[g] : g \in Handlers \ {h}} : HandlerStands(w)'
    <3>1. crossed => crossed'
      BY <2>1
    <3>2. ASSUME NEW w \in HandlerType, HandlerStands(w), w.op = "submit" => crossed'
          PROVE  HandlerStands(w)'
      BY <1>0, <2>1, <2>2, <3>1, <3>2 DEF HandlerStands
    <3>3. ASSUME NEW w \in {work[g] : g \in Handlers \ {h}}
          PROVE  w \in HandlerType /\ HandlerStands(w) /\ (w.op = "submit" => crossed')
      BY <2>1, InvFacts
    <3>. QED
      BY <3>2, <3>3
  <2>. QED
    BY <1>0, <2>3, <2>4, <2>5, <2>6, HandlerEnds
<1>2. CASE ~work[h].known
  BY <1>0, <1>2, OnlyEnds DEF WriteExclude, tables, sheets, ghosts
<1>. QED
  BY <1>1, <1>2

(* Removing makes what the others have read the row of nobody, on which    *)
(* none of them stands.                                                    *)
LEMMA WriteRemoveKeeps ==
  ASSUME IInv, NEW h \in Handlers, WriteRemove(h)
  PROVE  IInv'
<1>0. UNCHANGED <<cycle, config, evals, answers, score, goals, result, crossed, joined>>
  BY DEF WriteRemove, sheets, ghosts
<1>1. CASE work[h].known /\ Existing = {}
  <2> DEFINE lost(g) == [work[g] EXCEPT !.known = FALSE]
  <2>1. /\ participant' = "NONE"
        /\ work' = [g \in Handlers |-> IF g = h THEN Idle ELSE lost(g)]
    BY <1>1 DEF WriteRemove
  <2>2. \A g \in Handlers : work'[g] = IF g = h THEN Idle ELSE lost(g)
    BY <2>1
  <2>3. ASSUME NEW g \in Handlers
        PROVE  /\ lost(g) \in HandlerType /\ ~lost(g).known
               /\ lost(g).op = work[g].op /\ lost(g).pc = work[g].pc /\ lost(g).eval = work[g].eval
               /\ lost(g).from = work[g].from /\ lost(g).config = work[g].config
               /\ lost(g).scores = work[g].scores /\ lost(g).goals = work[g].goals
    BY InvFacts DEF HandlerType
  <2> HIDE DEF lost
  <2>4. work' \in [Handlers -> HandlerType]
    BY <2>1, <2>3, IdleOK
  <2>5. Existing' = Existing /\ Submitted' = Submitted
    BY <1>0 DEF Existing, Submitted
  <2>6. WellTyped'
    BY <1>0, <2>1, <2>4, InvFacts DEF TablesTyped, WellTyped
  <2>7. Submitted = {} /\ result = NoResult
    BY <1>1, InvFacts DEF ResultIsOfScores
  <2>8. ScoreIsOfAnswers' /\ ResultIsOfScores' /\ ClosedIsSettled' /\ RowsAgree' /\ ExclusionApart'
    BY <1>0, <1>1, <2>1, <2>5, <2>7, InvFacts
       DEF ScoreIsOfAnswers, ResultIsOfScores, ClosedIsSettled, RowsAgree, ExclusionApart
  <2>9. LocksHeld'
    <3>1. ASSUME NEW g \in Handlers
          PROVE  /\ Activating(work'[g]) => Activating(work[g])
                 /\ work'[g].op \in Answering =>
                       work[g].op \in Answering /\ work'[g].eval = work[g].eval
      BY <2>2, <2>3, IdleOK DEF Activating
    <3>2. LocksHeld
      BY InvFacts
    <3>. QED
      BY <3>1, <3>2 DEF LocksHeld, Activating, Answering
  <2>10. ASSUME NEW g \in Handlers PROVE HandlerStands(work[g])'
    <3>1. HandlerStands(work[g])
      BY InvFacts
    <3>2. CASE g = h
      <4>1. HandlerStands(Idle)'
        BY IdleOK DEF HandlerStands, Answering
      <4>. QED
        BY <2>2, <3>2, <4>1 DEF HandlerStands
    <3>3. CASE g # h
      <4>1. ASSUME NEW w, w = lost(g) PROVE HandlerStands(w)'
        BY <1>0, <2>1, <2>3, <2>5, <3>1, <4>1 DEF HandlerStands
      <4>. QED
        BY <2>2, <3>3, <4>1 DEF HandlerStands
    <3>. QED
      BY <3>2, <3>3
  <2>. QED
    BY <2>6, <2>8, <2>9, <2>10 DEF IInv
<1>2. CASE ~(work[h].known /\ Existing = {})
  <2>1. participant' = participant /\ work' = [work EXCEPT ![h] = Idle]
    BY <1>2 DEF WriteRemove, Finish, Becomes
  <2>. QED
    BY <1>0, <2>1, OnlyEnds DEF tables, sheets, ghosts
<1>. QED
  BY <1>1, <1>2
-----------------------------------------------------------------------------
(* Answers.                                                                *)

LEMMA PutKeeps ==
  ASSUME NEW S, NEW T, NEW f \in Partial(S, T), NEW x \in S, NEW y \in T
  PROVE  Put(f, x, y) \in Partial(S, T)
<1>1. DOMAIN f \in SUBSET S /\ f \in [DOMAIN f -> T]
  BY PartialFacts
<1>2. DOMAIN f \union {x} \in SUBSET S /\ Put(f, x, y) \in [DOMAIN f \union {x} -> T]
  BY <1>1 DEF Put
<1>. QED
  BY <1>2, PartialFacts

(* Only an evaluation that is not submitted is answered.                   *)
LEMMA SaveKeeps ==
  ASSUME IInv, NEW h \in Handlers, NEW c \in DOMAIN Competencies, NEW r \in Ratings, Save(h, c, r)
  PROVE  IInv'
<1> DEFINE e == work[h].eval
<1>0. /\ work' = [work EXCEPT ![h] = Idle] /\ work[h].op \in Answering
      /\ UNCHANGED <<cycle, config, participant, score, goals, result, crossed, joined>>
  BY DEF Save, Finish, Becomes, ghosts, Answering
<1>1. e \in Evaluators /\ evals[e] \in {"PENDING", "IN_PROGRESS"}
  BY <1>0, InvFacts DEF HandlerStands, HandlerType
<1>2. /\ evals' = IF evals[e] = "PENDING" THEN [evals EXCEPT ![e] = "IN_PROGRESS"] ELSE evals
      /\ answers' = IF work[h].op = "rate" THEN answers
                    ELSE [answers EXCEPT ![e] = Put(answers[e], c, r)]
  BY DEF Save
<1> HIDE DEF e
<1>3. evals \in [Evaluators -> {"NONE", "PENDING", "IN_PROGRESS", "SUBMITTED"}]
      /\ answers \in [Evaluators -> AnswerRows]
  BY InvFacts DEF TablesTyped
<1>4. /\ evals' \in [Evaluators -> {"NONE", "PENDING", "IN_PROGRESS", "SUBMITTED"}]
      /\ \A x \in Evaluators : x # e => evals'[x] = evals[x]
      /\ evals'[e] \in {"PENDING", "IN_PROGRESS"}
  BY <1>1, <1>2, <1>3
<1>5. Existing' = Existing /\ Submitted' = Submitted /\ e \notin Submitted
  BY <1>1, <1>4 DEF Existing, Submitted
<1>6. /\ answers' \in [Evaluators -> AnswerRows]
      /\ \A x \in Submitted : answers'[x] = answers[x]
  <2>1. Put(answers[e], c, r) \in AnswerRows
    BY <1>1, <1>3, PutKeeps DEF AnswerRows
  <2>2. Submitted \subseteq Evaluators
    BY DEF Submitted
  <2>. QED
    BY <1>1, <1>2, <1>3, <1>5, <2>1, <2>2
<1>7. TablesTyped'
  BY <1>0, <1>4, <1>6, InvFacts DEF TablesTyped
<1>8. ScoreIsOfAnswers'
  BY <1>0, <1>5, <1>6, InvFacts DEF ScoreIsOfAnswers
<1>9. ResultIsOfScores' /\ ClosedIsSettled' /\ RowsAgree' /\ ExclusionApart'
  BY <1>0, <1>5, InvFacts DEF ResultIsOfScores, ClosedIsSettled, RowsAgree, ExclusionApart
<1>10. \A w \in {work[g] : g \in Handlers \ {h}} : HandlerStands(w)'
  <2>1. ASSUME NEW w \in HandlerType, HandlerStands(w) PROVE HandlerStands(w)'
    <3>1. w.op \in Answering => evals'[w.eval] \in {"PENDING", "IN_PROGRESS"}
      BY <1>4, <2>1 DEF HandlerStands, HandlerType
    <3>. QED
      BY <1>0, <1>5, <2>1, <3>1 DEF HandlerStands
  <2>2. \A w \in {work[g] : g \in Handlers \ {h}} : w \in HandlerType /\ HandlerStands(w)
    BY InvFacts
  <2>. QED
    BY <2>1, <2>2
<1>. QED
  BY <1>0, <1>7, <1>8, <1>9, <1>10, HandlerEnds

(* A submission: its evaluation was open under its lock, so no result      *)
(* stands and none is being written.                                       *)
LEMMA SubmitKeeps ==
  ASSUME IInv, NEW h \in Handlers, Submit(h)
  PROVE  IInv'
<1> DEFINE e == work[h].eval
           ready == Required \subseteq DOMAIN answers[e] /\ ScoreReady(Competencies, answers[e])
           s == EvaluationScore(Competencies, answers[e])
<1>0. /\ work' = [work EXCEPT ![h] = Idle] /\ work[h].op = "submit"
      /\ UNCHANGED <<cycle, config, participant, answers, goals, result, joined>>
  BY DEF Submit, Finish, Becomes
<1>1. e \in Evaluators /\ evals[e] \in {"PENDING", "IN_PROGRESS"}
  BY <1>0, InvFacts DEF HandlerStands, HandlerType, Answering
<1>2. CASE ~ready
  BY <1>0, <1>2, OnlyEnds DEF Submit, tables, sheets, ghosts
<1>3. CASE ready
  <2>1. /\ evals' = [evals EXCEPT ![e] = "SUBMITTED"] /\ score' = [score EXCEPT ![e] = s]
        /\ crossed' = (crossed \/ \E g \in Handlers : work[g].op = "exclude")
    BY <1>3 DEF Submit
  <2>2. /\ evals \in [Evaluators -> {"NONE", "PENDING", "IN_PROGRESS", "SUBMITTED"}]
        /\ score \in [Evaluators -> Scores \union {NoScore}]
        /\ answers \in [Evaluators -> AnswerRows]
    BY InvFacts DEF TablesTyped
  <2>3. s \in Scores /\ s = EvaluationScore(Competencies, answers[e])
    BY <1>1, <1>3, <2>2 DEF Scores
  <2>4. \A g \in Handlers \ {h} : work[g].op \in Answering => work[g].eval # e
    BY <1>0, InvFacts DEF LocksHeld, Answering
  <2>5. crossed \/ participant # "EXCLUDED"
    BY <1>0, InvFacts DEF HandlerStands
  <2> HIDE DEF e, s, ready
  <2>6. /\ evals' \in [Evaluators -> {"NONE", "PENDING", "IN_PROGRESS", "SUBMITTED"}]
        /\ score' \in [Evaluators -> Scores \union {NoScore}]
        /\ evals'[e] = "SUBMITTED" /\ score'[e] = s
        /\ \A x \in Evaluators : x # e => evals'[x] = evals[x] /\ score'[x] = score[x]
    BY <1>1, <2>1, <2>2, <2>3
  <2>7. Existing' = Existing /\ Submitted' = Submitted \union {e} /\ Existing # Submitted
    BY <1>1, <2>6 DEF Existing, Submitted
  <2>8. result = NoResult
    BY <2>7, InvFacts DEF ResultIsOfScores
  <2>9. TablesTyped'
    BY <1>0, <2>6, InvFacts DEF TablesTyped
  <2>10. ScoreIsOfAnswers'
    <3>1. ASSUME NEW x \in Submitted' PROVE score'[x] = EvaluationScore(Competencies, answers'[x])
      <4>1. CASE x = e
        BY <1>0, <2>3, <2>6, <4>1
      <4>2. CASE x # e
        BY <1>0, <2>6, <2>7, <4>2, InvFacts DEF ScoreIsOfAnswers, Submitted
      <4>. QED
        BY <4>1, <4>2
    <3>. QED
      BY <3>1 DEF ScoreIsOfAnswers
  <2>11. ResultIsOfScores' /\ ClosedIsSettled'
    BY <1>0, <2>8, InvFacts DEF ResultIsOfScores, ClosedIsSettled
  <2>12. ExclusionApart'
    BY <1>0, <2>1, <2>5, <2>8, InvFacts DEF ExclusionApart
  <2>13. RowsAgree'
    BY <1>0, <2>3, <2>6, <2>7, InvFacts DEF RowsAgree, Submitted
  <2>14. \A w \in {work[g] : g \in Handlers \ {h}} : HandlerStands(w)'
    <3>1. ASSUME NEW w \in HandlerType, HandlerStands(w),
                 w.op = "exclude" => crossed', w.op \in Answering => w.eval # e
          PROVE  HandlerStands(w)'
      <4>1. w.op \in Answering => evals'[w.eval] \in {"PENDING", "IN_PROGRESS"}
        BY <2>6, <3>1 DEF HandlerStands, HandlerType
      <4>2. crossed => crossed'
        BY <2>1
      <4>. QED
        BY <1>0, <2>7, <3>1, <4>1, <4>2 DEF HandlerStands
    <3>2. ASSUME NEW w \in {work[g] : g \in Handlers \ {h}}
          PROVE  /\ w \in HandlerType /\ HandlerStands(w)
                 /\ w.op = "exclude" => crossed'
                 /\ w.op \in Answering => w.eval # e
      BY <2>1, <2>4, InvFacts
    <3>. QED
      BY <3>1, <3>2
  <2>. QED
    BY <1>0, <2>9, <2>10, <2>11, <2>12, <2>13, <2>14, HandlerEnds
<1>. QED
  BY <1>2, <1>3
-----------------------------------------------------------------------------
(* Goals and results.                                                      *)

LEMMA GoalsKeep ==
  ASSUME IInv, NEW g \in DOMAIN GoalWeights, GoalMoves(g)
  PROVE  IInv'
<1>0. UNCHANGED <<cycle, config, participant, evals, answers, score, result, work, crossed, joined>>
  BY DEF GoalMoves, sheets, ghosts
<1>1. Existing' = Existing /\ Submitted' = Submitted
  BY <1>0 DEF Existing, Submitted
<1>2. goals \in [DOMAIN GoalWeights -> Achievements \union {NotActive, Underway}]
  BY InvFacts DEF TablesTyped
<1>3. goals' \in [DOMAIN GoalWeights -> Achievements \union {NotActive, Underway}]
  BY <1>2 DEF GoalMoves
<1>4. WellTyped'
  BY <1>0, <1>3 DEF IInv, WellTyped
<1>5. /\ ScoreIsOfAnswers' /\ ResultIsOfScores' /\ ExclusionApart' /\ ClosedIsSettled'
      /\ RowsAgree' /\ LocksHeld'
  BY <1>0, <1>1 DEF IInv, ScoreIsOfAnswers, ResultIsOfScores, ExclusionApart, ClosedIsSettled,
                    RowsAgree, LocksHeld, Activating
<1>6. ASSUME NEW h \in Handlers PROVE HandlerStands(work[h])'
  BY <1>0, <1>1 DEF IInv, HandlerStands
<1>. QED
  BY <1>4, <1>5, <1>6 DEF IInv

(* The scores the result is made of are still those of every evaluation.   *)
LEMMA WriteResultKeeps ==
  ASSUME IInv, NEW h \in Handlers, WriteResult(h)
  PROVE  IInv'
<1>0. /\ work' = [work EXCEPT ![h] = Idle] /\ At(h, "calculate", "write")
      /\ UNCHANGED <<cycle, config, evals, answers, score, goals, crossed, joined>>
  BY DEF WriteResult, Finish, Becomes, sheets, ghosts
<1> DEFINE c == work[h].config
           s == work[h].scores
           a == work[h].goals
           o == Overall(c, s, a)
<1>1. CASE ~(result = NoResult /\ participant = "ACTIVE" /\ Merit(c, s) \in Share)
  BY <1>0, <1>1, OnlyEnds DEF WriteResult, tables, sheets, ghosts
<1>2. CASE result = NoResult /\ participant = "ACTIVE" /\ Merit(c, s) \in Share
  <2>1. /\ participant' = "COMPLETED"
        /\ result' = [status |-> "CALCULATED", config |-> c, scores |-> s, goals |-> a, overall |-> o]
    BY <1>2 DEF WriteResult
  <2>2. s \in ScoreRows /\ a \in GoalRows
    BY InvFacts DEF HandlerType
  <2>3. /\ Existing # {} /\ Existing = Submitted /\ s = [e \in Existing |-> score[e]]
        /\ c \in Configurations /\ Divisible(c, s)
        /\ c.goals > 0 => Integrable(Merit(c, s), Attained(a))
    BY <1>0, InvFacts DEF HandlerStands, At
  <2>4. Existing' = Existing /\ Submitted' = Submitted
    BY <1>0 DEF Existing, Submitted
  <2>5. ResultIsOfScores'
    BY <1>0, <2>1, <2>3, <2>4 DEF ResultIsOfScores
  <2>6. result'.status = "CALCULATED" /\ NoResult.status = "NONE"
    BY <2>1 DEF NoResult
  <2>7. result' = [status |-> result'.status, config |-> result'.config, scores |-> result'.scores,
                   goals |-> result'.goals, overall |-> result'.overall]
    BY <2>1
  <2>8. result'.config = c /\ result'.scores = s /\ result'.goals = a
    BY <2>1
  <2>14. Merit(c, s) \in Share
    BY <1>2
  <2> HIDE DEF c, s, a, o
  <2>9. TablesTyped'
    BY <1>0, <2>1, <2>2, <2>3, <2>6, <2>8, InvFacts DEF TablesTyped
  <2>10. ScoreIsOfAnswers' /\ ClosedIsSettled'
    BY <1>0, <2>1, <2>4, InvFacts DEF ScoreIsOfAnswers, ClosedIsSettled
  <2>11. ExclusionApart'
    BY <2>1, <2>6 DEF ExclusionApart
  <2>12. RowsAgree'
    <3>1. (participant = "NONE" => Existing = {})' /\ (\A e \in Submitted : score[e] \in Scores)'
          /\ \A e \in Existing' : TypeOf[e] # "CLIENT"
      BY <1>0, <2>1, <2>4, InvFacts DEF RowsAgree
    <3>3. /\ result'.config \in Configurations /\ Divisible(result'.config, result'.scores)
          /\ Merit(result'.config, result'.scores) \in Share
          /\ result'.config.goals > 0 =>
               Integrable(Merit(result'.config, result'.scores), Attained(result'.goals))
      BY <2>3, <2>8, <2>14
    <3>2. (result.status = "NONE" <=> result = NoResult)'
      BY <2>6
    <3>. QED
      BY <2>7, <3>1, <3>2, <3>3 DEF RowsAgree
  <2>13. \A w \in {work[g] : g \in Handlers \ {h}} : HandlerStands(w)'
    BY <1>0, <2>1, <2>4, InvFacts DEF HandlerStands
  <2>. QED
    BY <1>0, <2>5, <2>9, <2>10, <2>11, <2>12, <2>13, HandlerEnds
<1>. QED
  BY <1>1, <1>2

LEMMA WriteReleaseKeeps ==
  ASSUME IInv, NEW h \in Handlers, WriteRelease(h)
  PROVE  IInv'
<1>0. /\ work' = [work EXCEPT ![h] = Idle]
      /\ UNCHANGED <<cycle, config, participant, evals, answers, score, goals, crossed, joined>>
  BY DEF WriteRelease, Finish, Becomes, sheets, ghosts
<1>1. CASE result.status # "CALCULATED"
  BY <1>0, <1>1, OnlyEnds DEF WriteRelease, tables, sheets, ghosts
<1>2. CASE result.status = "CALCULATED"
  <2>1. result' = [result EXCEPT !.status = "RELEASED"]
    BY <1>2 DEF WriteRelease
  <2>2. result = [status |-> result.status, config |-> result.config, scores |-> result.scores,
                  goals |-> result.goals, overall |-> result.overall]
    BY InvFacts DEF RowsAgree
  <2>3. result' = [status |-> "RELEASED", config |-> result.config, scores |-> result.scores,
                   goals |-> result.goals, overall |-> result.overall]
    BY <2>1, <2>2
  <2>4. /\ result'.status = "RELEASED" /\ result'.scores = result.scores
        /\ result'.goals = result.goals /\ result'.overall = result.overall
        /\ result'.config = result.config
    BY <2>3
  <2>5. result # NoResult /\ result' # NoResult
    BY <1>2, <2>4 DEF NoResult
  <2>6. Existing' = Existing /\ Submitted' = Submitted
    BY <1>0 DEF Existing, Submitted
  <2>7. TablesTyped'
    BY <1>0, <2>4, InvFacts DEF TablesTyped
  <2>8. ScoreIsOfAnswers' /\ ClosedIsSettled'
    BY <1>0, <2>6, InvFacts DEF ScoreIsOfAnswers, ClosedIsSettled
  <2>9. ResultIsOfScores' /\ ExclusionApart'
    BY <1>0, <2>4, <2>5, <2>6, InvFacts DEF ResultIsOfScores, ExclusionApart
  <2>10. RowsAgree'
    BY <1>0, <2>3, <2>4, <2>5, <2>6, InvFacts DEF RowsAgree
  <2>11. \A w \in {work[g] : g \in Handlers \ {h}} : HandlerStands(w)'
    BY <1>0, <2>6, InvFacts DEF HandlerStands
  <2>. QED
    BY <1>0, <2>7, <2>8, <2>9, <2>10, <2>11, HandlerEnds
<1>. QED
  BY <1>1, <1>2, InvFacts DEF TablesTyped
-----------------------------------------------------------------------------
(* The induction.                                                          *)

LEMMA InitIInv == Init => IInv
<1>. SUFFICES ASSUME Init PROVE IInv
  OBVIOUS
<1>1. \A h \in Handlers : work[h] = Idle
  BY DEF Init
<1>2. Existing = {} /\ Submitted = {} /\ result = NoResult
  BY DEF Init, Existing, Submitted
<1>3. /\ NoResult.status = "NONE" /\ NoResult.scores = None /\ NoResult.goals = None
      /\ NoResult.config = NoConfig
      /\ NoResult = [status |-> NoResult.status, config |-> NoResult.config,
                     scores |-> NoResult.scores, goals |-> NoResult.goals,
                     overall |-> NoResult.overall]
  BY DEF NoResult
<1>4. WellTyped
  <2>1. None \in ScoreRows /\ None \in GoalRows /\ None \in AnswerRows
    BY NoneOK DEF ScoreRows, GoalRows, AnswerRows
  <2>2. config \in Configurations
    BY DEF Init
  <2>3. evals \in [Evaluators -> {"NONE", "PENDING", "IN_PROGRESS", "SUBMITTED"}]
    BY DEF Init
  <2>4. answers \in [Evaluators -> AnswerRows]
    BY <2>1 DEF Init
  <2>5. score \in [Evaluators -> Scores \union {NoScore}]
    BY DEF Init
  <2>6. goals \in [DOMAIN GoalWeights -> Achievements \union {NotActive, Underway}]
    BY DEF Init
  <2>7. work \in [Handlers -> HandlerType]
    BY IdleOK DEF Init
  <2>8. cycle = "DRAFT" /\ participant = "NONE"
    BY DEF Init
  <2>. QED
    BY <1>2, <1>3, <2>1, <2>2, <2>3, <2>4, <2>5, <2>6, <2>7, <2>8 DEF WellTyped
<1>5. ScoreIsOfAnswers /\ ResultIsOfScores /\ RowsAgree
  BY <1>2, <1>3 DEF ScoreIsOfAnswers, ResultIsOfScores, RowsAgree
<1>6. ExclusionApart /\ ClosedIsSettled
  BY <1>2 DEF ExclusionApart, ClosedIsSettled, Init
<1>7. LocksHeld
  BY <1>1, IdleOK DEF LocksHeld
<1>8. \A h \in Handlers : HandlerStands(work[h])
  BY <1>1, IdleOK
<1>. QED
  BY <1>4, <1>5, <1>6, <1>7, <1>8 DEF IInv

LEMMA NextIInv == IInv /\ [Next]_vars => IInv'
<1>. SUFFICES ASSUME IInv, [Next]_vars PROVE IInv'
  OBVIOUS
<1>1. CASE UNCHANGED vars
  <2>1. UNCHANGED <<cycle, config, participant, evals, answers, score, goals, result, work, crossed,
                    joined>>
    BY <1>1 DEF vars, tables, sheets, ghosts
  <2>2. Existing' = Existing /\ Submitted' = Submitted
    BY <2>1 DEF Existing, Submitted
  <2>3. WellTyped' /\ LocksHeld'
    BY <2>1 DEF IInv, WellTyped, LocksHeld, Activating
  <2>4. /\ ScoreIsOfAnswers' /\ ResultIsOfScores' /\ ExclusionApart' /\ ClosedIsSettled'
        /\ RowsAgree'
    BY <2>1, <2>2 DEF IInv, ScoreIsOfAnswers, ResultIsOfScores, ExclusionApart, ClosedIsSettled,
                      RowsAgree
  <2>5. ASSUME NEW h \in Handlers PROVE HandlerStands(work[h])'
    BY <2>1, <2>2 DEF IInv, HandlerStands
  <2>. QED
    BY <2>3, <2>4, <2>5 DEF IInv
<1>2. ASSUME NEW g \in DOMAIN GoalWeights, GoalMoves(g) PROVE IInv'
  BY <1>2, GoalsKeep
<1>3. ASSUME NEW h \in Handlers, Request(h) \/ HandlerStep(h) \/ Fail(h) PROVE IInv'
  <2>1. CASE Request(h)
    BY <2>1, RequestKeeps
  <2>2. CASE \/ ActivateWrite(h) \/ ListPending(h) \/ OpenAssign(h)
             \/ ReadScores(h) \/ Gate(h) \/ LoadGoals(h) \/ Fail(h)
    BY <2>2, ReadsKeep
  <2>3. CASE ActivateCommit(h) \/ WriteCycle(h) \/ WriteUpdate(h) \/ WriteAssign(h)
    BY <2>3, ActivateCommitKeeps, WriteCycleKeeps, WriteUpdateKeeps, WriteAssignKeeps
  <2>4. CASE WriteExclude(h) \/ WriteRemove(h)
    BY <2>4, WriteExcludeKeeps, WriteRemoveKeeps
  <2>5. ASSUME NEW c \in DOMAIN Competencies, NEW r \in Ratings, Save(h, c, r) PROVE IInv'
    BY <2>5, SaveKeeps
  <2>6. CASE Submit(h) \/ WriteResult(h) \/ WriteRelease(h)
    BY <2>6, SubmitKeeps, WriteResultKeeps, WriteReleaseKeeps
  <2>. QED
    BY <1>3, <2>1, <2>2, <2>3, <2>4, <2>5, <2>6 DEF HandlerStep
<1>. QED
  BY <1>1, <1>2, <1>3 DEF Next

(* In every reachable state a handler in flight still stands on what it    *)
(* read, each lock is held once, and the tables agree.                     *)
THEOREM PerformanceInductive == Spec => []IInv
BY InitIInv, NextIInv, PTL DEF Spec

(* The rows of the cycle and its handlers always have their types.         *)
THEOREM PerformanceTyped == Spec => []WellTyped
<1>1. IInv => WellTyped
  BY DEF IInv
<1>. QED
  BY <1>1, PerformanceInductive, PTL

(* The score of a submitted evaluation remains that of its answers.        *)
THEOREM ScoresKept == Spec => []ScoreIsOfAnswers
<1>1. IInv => ScoreIsOfAnswers
  BY DEF IInv
<1>. QED
  BY <1>1, PerformanceInductive, PTL

(* A result rests on every evaluation, as they still are.                  *)
THEOREM ResultsRest == Spec => []ResultIsOfScores
<1>1. IInv => ResultIsOfScores
  BY DEF IInv
<1>. QED
  BY <1>1, PerformanceInductive, PTL

(* An excluded person has no result and no submitted evaluation, but for a *)
(* submission that overlapped the exclusion.                               *)
THEOREM ExclusionsApart == Spec => []ExclusionApart
<1>1. IInv => ExclusionApart
  BY DEF IInv
<1>. QED
  BY <1>1, PerformanceInductive, PTL

(* A closed cycle has no active participant but one that joined late.      *)
THEOREM ClosedSettled == Spec => []ClosedIsSettled
<1>1. IInv => ClosedIsSettled
  BY DEF IInv
<1>. QED
  BY <1>1, PerformanceInductive, PTL
-----------------------------------------------------------------------------
(* What scores and results amount to.                                      *)

LEMMA ShareFacts == Whole \in Nat /\ \A s \in Share : s \in Int /\ 0 <= s /\ s <= Whole
BY DEF Share, Whole

(* The scores that answers get are percentages.                            *)
LEMMA ScoresAreShares == \A v \in Scores : v \in Share /\ v \in Int
<1>. SUFFICES ASSUME NEW a \in AnswerRows, ScoreReady(Competencies, a)
              PROVE  EvaluationScore(Competencies, a) \in Share
  BY DEF Scores, Share
<1>1. DOMAIN a \subseteq DOMAIN Competencies
  BY PartialFacts DEF AnswerRows
<1>2. /\ IsFiniteSet(DOMAIN Competencies)
      /\ \A c \in DOMAIN Competencies : /\ Competencies[c].weight \in Nat \union {NoWeight}
                                        /\ Competencies[c].low \in Int /\ Competencies[c].high \in Int
  BY PerformanceConstants
<1>. QED
  BY <1>1, <1>2, EvaluationScoreIsShare

(* Scores that a result may rest on: no client gives one.                  *)
Countable(conf, scores) ==
  /\ conf \in Configurations /\ DOMAIN scores # {} /\ DOMAIN scores \subseteq Evaluators
  /\ \A e \in DOMAIN scores : TypeOf[e] # "CLIENT" /\ scores[e] \in Share
  /\ Divisible(conf, scores)

(* Their types are the first four, and weigh something together.           *)
LEMMA TypesInvited ==
  ASSUME NEW conf, NEW scores, Countable(conf, scores)
  PROVE  LET T == PresentTypes(TypeOf, scores)
         IN  /\ T \in SUBSET (1..4) /\ T # {}
             /\ \A t \in T : conf.weights[Types[t]] \in Nat
             /\ Configured(conf.weights, T) \in Nat \ {0}
<1> DEFINE T == PresentTypes(TypeOf, scores)
           here == [t \in T |-> conf.weights[Types[t]]]
<1>1. DOMAIN Types = 1..5 /\ Types[5] = "CLIENT"
  BY DEF Types
<1>2. T \subseteq DOMAIN Types /\ \A t \in T : \E e \in DOMAIN scores : TypeOf[e] = Types[t]
  BY DEF PresentTypes
<1>3. ASSUME NEW t \in T PROVE t \in 1..4
  <2>1. t \in {1, 2, 3, 4, 5} /\ t # 5
    BY <1>1, <1>2 DEF Countable
  <2>. QED
    BY <2>1
<1>4. T # {}
  <2>1. PICK e \in DOMAIN scores : e \in Evaluators
    BY DEF Countable
  <2>2. PICK t \in DOMAIN Types : TypeOf[e] = Types[t]
    BY <2>1, PerformanceConstants
  <2>. QED
    BY <2>1, <2>2 DEF PresentTypes
<1>5. \A t \in T : here[t] \in Nat /\ here[t] = conf.weights[Types[t]]
  <2>1. \A c \in Configurations : \A t \in DOMAIN Types : c.weights[Types[t]] \in Share
    BY PerformanceConstants
  <2>2. conf \in Configurations
    BY DEF Countable
  <2>3. \A t \in T : conf.weights[Types[t]] \in Nat
    BY <1>2, <2>1, <2>2 DEF Share
  <2>. QED
    BY <2>3
<1>6. IsFiniteSet(T)
  BY <1>3, FewTypes, FS_Subset
<1>7. Configured(conf.weights, T) = SumFunctionOnSet(here, T)
  BY DEF Configured, SumFunction
<1>8. Configured(conf.weights, T) > 0
  BY DEF Divisible, Countable
<1> HIDE DEF T, here
<1>9. SumFunctionOnSet(here, T) \in Nat
  BY <1>5, <1>6, SumPart
<1>10. Configured(conf.weights, T) \in Nat \ {0}
  BY <1>7, <1>8, <1>9
<1>11. T \in SUBSET (1..4)
  BY <1>3
<1>. QED
  BY <1>4, <1>5, <1>10, <1>11 DEF T

(* What the types make of them lies between the scores, but for a hundredth*)
(* when one of them is left less than nothing.                             *)
LEMMA MeritFacts ==
  ASSUME NEW conf, NEW scores, Countable(conf, scores), Merit(conf, scores) \in Share
  PROVE  LET shares == Effective(conf.weights, PresentTypes(TypeOf, scores))
             merit  == Merit(conf, scores)
             slack  == IF \E t \in DOMAIN shares : shares[t] < 0 THEN 1 ELSE 0
         IN  /\ \A t \in DOMAIN shares : shares[t] >= -1
             /\ SumFunction(shares) = Whole
             /\ \E e \in DOMAIN scores : scores[e] <= merit + slack
             /\ \E e \in DOMAIN scores : scores[e] >= merit - slack
<1> DEFINE weights == conf.weights
           T == PresentTypes(TypeOf, scores)
           shares == Effective(weights, T)
           E == DOMAIN scores
           merit == Merit(conf, scores)
           slack == IF \E t \in DOMAIN shares : shares[t] < 0 THEN 1 ELSE 0
<1>1. /\ T \in SUBSET (1..4) /\ T # {}
      /\ \A t \in T : weights[Types[t]] \in Nat
      /\ Configured(weights, T) \in Nat \ {0}
  BY TypesInvited
<1>2. IsFiniteSet(E)
  <2>1. E \in SUBSET Evaluators /\ IsFiniteSet(Evaluators)
    BY PerformanceConstants DEF Countable
  <2>. QED
    BY <2>1, FS_Subset
<1>3. \A e \in E : scores[e] \in Int /\ 0 <= scores[e] /\ scores[e] <= Whole
  <2>1. \A e \in E : scores[e] \in Share
    BY DEF Countable
  <2>. QED
    BY <2>1, ShareFacts
<1>4. merit \in Int /\ 0 <= merit /\ merit <= Whole /\ Whole \in Int
  BY ShareFacts
<1>5. merit = Consolidate(weights, TypeOf, scores) /\ T = PresentTypes(TypeOf, scores)
      /\ shares = Effective(weights, T) /\ E = DOMAIN scores
  BY DEF Merit
<1> HIDE DEF weights, T, shares, E, merit
<1>6. /\ DOMAIN shares = T /\ Max(T) \in T /\ SumFunction(shares) = Whole
      /\ \A t \in T \ {Max(T)} : shares[t] \in Nat
      /\ shares[Max(T)] \in Nat \union {-1}
  BY <1>1, <1>5, EffectiveShares
<1>7. \A t \in T : shares[t] \in Int /\ shares[t] >= -1
  BY <1>6
<1>8. slack \in {0, 1} /\ (slack = 0 => \A t \in T : shares[t] \in Nat)
  BY <1>6, <1>7
<1> HIDE DEF slack
<1>9. ASSUME NEW lo \in Int, NEW hi \in Int, hi - lo <= Whole,
             \A e \in E : lo <= scores[e] /\ scores[e] <= hi
      PROVE  lo - slack <= merit /\ merit <= hi + slack
  <2>1. /\ lo - 1 <= merit /\ merit <= hi + 1
        /\ (\A t \in T : shares[t] \in Nat) => lo <= merit /\ merit <= hi
    BY <1>1, <1>2, <1>3, <1>5, <1>9, ConsolidateBounds
  <2>. QED
    BY <1>4, <1>8, <2>1
<1>10. ASSUME \A e \in E : ~(scores[e] <= merit + slack) PROVE FALSE
  <2> DEFINE lo == merit + slack + 1
  <2>1. lo \in Int /\ Whole - lo <= Whole /\ ~(lo - slack <= merit)
    BY <1>4, <1>8
  <2>2. \A e \in E : lo <= scores[e] /\ scores[e] <= Whole
    BY <1>3, <1>4, <1>8, <1>10
  <2> HIDE DEF lo
  <2>. QED
    BY <1>4, <1>9, <2>1, <2>2
<1>11. ASSUME \A e \in E : ~(scores[e] >= merit - slack) PROVE FALSE
  <2> DEFINE hi == merit - slack - 1
  <2>1. hi \in Int /\ hi - 0 <= Whole /\ ~(merit <= hi + slack)
    BY <1>4, <1>8
  <2>2. \A e \in E : 0 <= scores[e] /\ scores[e] <= hi
    BY <1>3, <1>4, <1>8, <1>11
  <2> HIDE DEF hi
  <2>. QED
    BY <1>4, <1>9, <2>1, <2>2
<1>. QED
  BY <1>6, <1>7, <1>10, <1>11 DEF weights, T, shares, E, merit, slack

(* The scores of a result.                                                 *)
LEMMA ResultScoresAre ==
  ASSUME IInv, result # NoResult
  PROVE  /\ Countable(result.config, result.scores)
         /\ Merit(result.config, result.scores) \in Share
         /\ result.overall = Overall(result.config, result.scores, result.goals)
<1>1. /\ Existing # {} /\ Existing = Submitted
      /\ result.scores = [e \in Existing |-> score[e]]
      /\ result.overall = Overall(result.config, result.scores, result.goals)
  BY DEF IInv, ResultIsOfScores
<1>2. /\ \A e \in Existing : TypeOf[e] # "CLIENT"
      /\ \A e \in Submitted : score[e] \in Scores
      /\ result.config \in Configurations /\ Divisible(result.config, result.scores)
      /\ Merit(result.config, result.scores) \in Share
  BY DEF IInv, RowsAgree
<1>3. \A e \in Existing : score[e] \in Share /\ e \in Evaluators
  BY <1>1, <1>2, ScoresAreShares DEF Existing
<1>. QED
  BY <1>1, <1>2, <1>3 DEF Countable

(* Scores and results are percentages, whenever the weights were edited.   *)
THEOREM PerformanceWellTyped == Spec => []TypeOK
<1>1. IInv => TypeOK
  <2>. SUFFICES ASSUME IInv PROVE TypeOK
    OBVIOUS
  <2>1. Whole \in Nat
    BY DEF Whole
  <2>2. \A e \in Evaluators : score[e] \in NoScore..Whole
    <3>1. \A e \in Evaluators : score[e] \in Scores \union {NoScore}
      BY DEF IInv, WellTyped
    <3>. QED
      BY <2>1, <3>1, ScoresAreShares DEF Share, NoScore
  <2>3. result.overall \in -1..Whole
    <3>1. CASE result = NoResult
      BY <2>1, <3>1 DEF NoResult
    <3>2. CASE result # NoResult
      <4> DEFINE conf == result.config
                 gw == conf.goals
                 merit == Merit(conf, result.scores)
                 attained == Attained(result.goals)
      <4>1. /\ result.overall = Overall(conf, result.scores, result.goals)
            /\ merit \in Share /\ conf \in Configurations
        BY <3>2, ResultScoresAre DEF Countable
      <4>2. CASE gw = 0
        <5>1. result.overall = merit
          BY <4>1, <4>2 DEF Overall
        <5> HIDE DEF merit
        <5>. QED
          BY <4>1, <5>1, ShareFacts
      <4>3. CASE gw # 0
        <5>1. gw \in Nat /\ Whole - gw \in Nat /\ gw > 0
          <6>1. gw \in Share
            BY <4>1, PerformanceConstants
          <6> HIDE DEF gw
          <6>. QED
            BY <4>3, <6>1, ShareFacts
        <5>2. Integrable(merit, attained)
          BY <3>2, <5>1 DEF IInv, RowsAgree
        <5>3. result.overall = Integrate(merit, attained, Whole - gw, gw)
          BY <4>1, <4>3 DEF Overall
        <5> HIDE DEF merit, attained, gw
        <5>4. attained \in Share
          BY <5>2 DEF Integrable
        <5>5. /\ result.overall \in Int /\ 0 <= result.overall
              /\ result.overall <= (Whole - gw) + gw
          BY <4>1, <5>1, <5>3, <5>4, IntegrateWithin
        <5>. QED
          BY <2>1, <5>1, <5>5
      <4>. QED
        BY <4>2, <4>3
    <3>. QED
      BY <3>1, <3>2
  <2>. QED
    BY <2>2, <2>3 DEF IInv, TypeOK
<1>. QED
  BY <1>1, PerformanceInductive, PTL

(* The types that have evaluations share the whole of every result, none   *)
(* less than nothing but for a hundredth that rounding takes from the last *)
(* of them, and what they make of the scores lies between the lowest and   *)
(* the highest, but for that hundredth: for all weights, also if an edit   *)
(* came between the evaluations and their result.                          *)
THEOREM MeritsAccounted == Spec => []MeritAccounted
<1>1. IInv => MeritAccounted
  <2>. SUFFICES ASSUME IInv, result # NoResult PROVE MeritAccounted
    BY DEF MeritAccounted
  <2>1. /\ Countable(result.config, result.scores)
        /\ Merit(result.config, result.scores) \in Share
    BY ResultScoresAre
  <2>. QED
    BY <2>1, MeritFacts DEF MeritAccounted
<1>. QED
  BY <1>1, PerformanceInductive, PTL
-----------------------------------------------------------------------------
(* The refinement: of all the steps, four are seen.                        *)

(* A step that changes neither the evaluations nor the result is not seen. *)
LEMMA Unseen ==
  ASSUME UNCHANGED <<evals, score, result>>
  PROVE  UNCHANGED EO!vars
BY DEF EO!vars, invited, given, verdict, published, Existing, Submitted

(* Attaching evaluations to a person that had none invites.                *)
LEMMA AttachInvites ==
  ASSUME IInv, Existing = {}, NEW weights, Attach(weights), UNCHANGED <<score, result>>
  PROVE  EO!Invite
<1>1. Existing' \in SUBSET Evaluators /\ Submitted' = {} /\ Submitted = {}
  BY Attached, InvFacts DEF Existing
<1>2. given = [e \in {} |-> score[e]] /\ given' = [e \in {} |-> score'[e]]
  BY <1>1 DEF given
<1>. QED
  BY <1>1, <1>2 DEF EO!Invite, invited, given, verdict, published

LEMMA SubmitGives ==
  ASSUME IInv, NEW h \in Handlers, Submit(h)
  PROVE  UNCHANGED EO!vars \/ EO!Give(work[h].eval)
<1> DEFINE e == work[h].eval
           s == EvaluationScore(Competencies, answers[e])
           ready == Required \subseteq DOMAIN answers[e] /\ ScoreReady(Competencies, answers[e])
<1>1. CASE ~ready
  BY <1>1, Unseen DEF Submit
<1>2. CASE ready
  <2>1. /\ evals' = [evals EXCEPT ![e] = "SUBMITTED"] /\ score' = [score EXCEPT ![e] = s]
        /\ result' = result
    BY <1>2 DEF Submit
  <2>2. e \in Evaluators /\ evals[e] \in {"PENDING", "IN_PROGRESS"}
    BY InvFacts DEF Submit, HandlerStands, HandlerType, Answering
  <2>3. /\ evals \in [Evaluators -> {"NONE", "PENDING", "IN_PROGRESS", "SUBMITTED"}]
        /\ score \in [Evaluators -> Scores \union {NoScore}]
        /\ answers \in [Evaluators -> AnswerRows]
    BY InvFacts DEF TablesTyped
  <2>4. s \in Scores
    BY <1>2, <2>2, <2>3 DEF Scores
  <2> HIDE DEF e, s, ready
  <2>5. Existing' = Existing /\ Submitted' = Submitted \union {e} /\ e \in Existing \ Submitted
    BY <2>1, <2>2, <2>3 DEF Existing, Submitted
  <2>6. score'[e] = s /\ \A x \in Submitted : score'[x] = score[x]
    BY <2>1, <2>2, <2>3, <2>5 DEF Submitted
  <2>7. /\ DOMAIN given = Submitted /\ DOMAIN given' = Submitted'
        /\ \A x \in Submitted : given[x] = score[x]
        /\ \A x \in Submitted' : given'[x] = score'[x]
    BY DEF given
  <2>8. e \in invited \ DOMAIN given /\ DOMAIN given' = DOMAIN given \union {e}
    BY <2>5, <2>7 DEF invited
  <2>9. given'[e] \in Scores /\ \A x \in DOMAIN given : given'[x] = given[x]
    BY <2>4, <2>5, <2>6, <2>7
  <2>10. UNCHANGED <<invited, verdict, published>>
    BY <2>1, <2>5 DEF invited, verdict, published
  <2>11. EO!Give(e)
    BY <2>8, <2>9, <2>10 DEF EO!Give
  <2>. QED
    BY <2>11 DEF e
<1>. QED
  BY <1>1, <1>2

LEMMA ResultDecides ==
  ASSUME IInv, NEW h \in Handlers, WriteResult(h)
  PROVE  UNCHANGED EO!vars \/ EO!Decide
<1>0. UNCHANGED <<evals, score>> /\ At(h, "calculate", "write")
  BY DEF WriteResult, sheets
<1> DEFINE writes == /\ result = NoResult /\ participant = "ACTIVE"
                     /\ Merit(work[h].config, work[h].scores) \in Share
<1>1. CASE ~writes
  BY <1>0, <1>1, Unseen DEF WriteResult
<1>2. CASE writes
  <2>1. result'.scores = work[h].scores /\ result'.status = "CALCULATED"
    BY <1>2 DEF WriteResult
  <2>2. Existing # {} /\ Existing = Submitted /\ work[h].scores = [e \in Existing |-> score[e]]
    BY <1>0, InvFacts DEF HandlerStands, At
  <2>3. Existing' = Existing /\ given' = given
    BY <1>0 DEF Existing, given, Submitted
  <2>4. given = [e \in Existing |-> score[e]] /\ DOMAIN given = Existing
    BY <2>2 DEF given
  <2>5. verdict = EO!NoVerdict /\ verdict' = given
    BY <1>2, <2>1, <2>2, <2>4 DEF verdict, NoResult, None, EO!NoVerdict
  <2>6. ~published /\ ~published'
    BY <1>2, <2>1 DEF published, NoResult
  <2>. QED
    BY <2>2, <2>3, <2>4, <2>5, <2>6 DEF EO!Decide, invited, published
<1>. QED
  BY <1>1, <1>2

LEMMA ReleasePublishes ==
  ASSUME IInv, NEW h \in Handlers, WriteRelease(h)
  PROVE  UNCHANGED EO!vars \/ EO!Publish
<1>0. UNCHANGED <<evals, score>>
  BY DEF WriteRelease, sheets
<1>1. CASE result.status # "CALCULATED"
  BY <1>0, <1>1, Unseen DEF WriteRelease
<1>2. CASE result.status = "CALCULATED"
  <2>1. result' = [result EXCEPT !.status = "RELEASED"]
    BY <1>2 DEF WriteRelease
  <2>2. result = [status |-> result.status, config |-> result.config, scores |-> result.scores,
                  goals |-> result.goals, overall |-> result.overall]
    BY InvFacts DEF RowsAgree
  <2>3. result'.status = "RELEASED" /\ result'.scores = result.scores
    BY <2>1, <2>2
  <2>4. Existing # {} /\ DOMAIN result.scores = Existing
    BY <1>2, InvFacts DEF ResultIsOfScores, NoResult
  <2>5. verdict # EO!NoVerdict
    BY <2>4 DEF verdict, EO!NoVerdict
  <2>6. UNCHANGED <<invited, given, verdict>>
    BY <1>0, <2>3 DEF invited, given, verdict, Existing, Submitted
  <2>. QED
    BY <1>2, <2>3, <2>5, <2>6 DEF EO!Publish, published
<1>. QED
  BY <1>1, <1>2

(* A save opens an evaluation, which is not seen.                          *)
LEMMA SaveUnseen ==
  ASSUME IInv, NEW h \in Handlers, NEW c \in DOMAIN Competencies, NEW r \in Ratings, Save(h, c, r)
  PROVE  UNCHANGED EO!vars
<1> DEFINE e == work[h].eval
<1>1. e \in Evaluators /\ evals[e] \in {"PENDING", "IN_PROGRESS"}
  BY InvFacts DEF Save, HandlerStands, HandlerType, Answering
<1>2. /\ evals' = IF evals[e] = "PENDING" THEN [evals EXCEPT ![e] = "IN_PROGRESS"] ELSE evals
      /\ UNCHANGED <<score, result>>
  BY DEF Save
<1> HIDE DEF e
<1>3. evals \in [Evaluators -> {"NONE", "PENDING", "IN_PROGRESS", "SUBMITTED"}]
  BY InvFacts DEF TablesTyped
<1>4. Existing' = Existing /\ Submitted' = Submitted
  BY <1>1, <1>2, <1>3 DEF Existing, Submitted
<1>. QED
  BY <1>2, <1>4 DEF EO!vars, invited, given, verdict, published

LEMMA StepsImplement == IInv /\ [Next]_vars => [EO!Next]_(EO!vars)
<1>. SUFFICES ASSUME IInv, [Next]_vars PROVE UNCHANGED EO!vars \/ EO!Next
  OBVIOUS
<1>1. CASE UNCHANGED vars
  BY <1>1, Unseen DEF vars, tables, sheets
<1>2. ASSUME NEW g \in DOMAIN GoalWeights, GoalMoves(g) PROVE UNCHANGED EO!vars
  BY <1>2, Unseen DEF GoalMoves, sheets
<1>3. ASSUME NEW h \in Handlers, Request(h) \/ HandlerStep(h) \/ Fail(h)
      PROVE  UNCHANGED EO!vars \/ EO!Next
  <2>1. CASE Request(h) \/ Fail(h)
    <3>1. UNCHANGED tables
      BY <2>1 DEF Request, Fail, Activate, Close, Cancel, Update, Assign, JoinAsLeader,
                  Exclude, RemoveDraft, Answer, Calculate, Release
    <3>. QED
      BY <3>1, Unseen DEF tables, sheets
  <2>2. CASE \/ ActivateWrite(h) \/ ListPending(h) \/ OpenAssign(h)
             \/ ReadScores(h) \/ Gate(h) \/ LoadGoals(h)
             \/ WriteCycle(h) \/ WriteUpdate(h) \/ WriteExclude(h) \/ WriteRemove(h)
    <3>1. UNCHANGED <<sheets, result>>
      BY <2>2 DEF ActivateWrite, ListPending, OpenAssign, ReadScores, Gate, LoadGoals, WriteCycle,
                  WriteUpdate, WriteExclude, WriteRemove, tables
    <3>. QED
      BY <3>1, Unseen DEF sheets
  <2>3. CASE ActivateCommit(h)
    <3>1. UNCHANGED <<score, result>> /\ At(h, "activate", "commit")
      BY <2>3 DEF ActivateCommit
    <3>2. CASE work[h].listed /\ work[h].known
      <4>1. Existing = {} /\ Attach(config.weights)
        BY <2>3, <3>1, <3>2, InvFacts DEF ActivateCommit, HandlerStands, At
      <4>. QED
        BY <3>1, <4>1, AttachInvites DEF EO!Next
    <3>3. CASE ~(work[h].listed /\ work[h].known)
      BY <2>3, <3>1, <3>3, Unseen DEF ActivateCommit
    <3>. QED
      BY <3>2, <3>3
  <2>4. CASE WriteAssign(h)
    <3>1. UNCHANGED <<score, result>>
      BY <2>4 DEF WriteAssign
    <3>2. CASE UNCHANGED evals
      BY <3>1, <3>2, Unseen
    <3>3. CASE ~UNCHANGED evals
      <4>1. Existing = {} /\ Attach(work[h].config.weights)
        BY <2>4, <3>3, InvFacts DEF WriteAssign, RowsAgree
      <4>. QED
        BY <3>1, <4>1, AttachInvites DEF EO!Next
    <3>. QED
      BY <3>2, <3>3
  <2>5. ASSUME NEW c \in DOMAIN Competencies, NEW r \in Ratings, Save(h, c, r)
        PROVE  UNCHANGED EO!vars
    BY <2>5, SaveUnseen
  <2>6. CASE Submit(h)
    <3>1. work[h].eval \in Evaluators
      BY InvFacts DEF HandlerType
    <3>. QED
      BY <2>6, <3>1, SubmitGives DEF EO!Next
  <2>7. CASE WriteResult(h) \/ WriteRelease(h)
    BY <2>7, ResultDecides, ReleasePublishes DEF EO!Next
  <2>. QED
    BY <1>3, <2>1, <2>2, <2>3, <2>4, <2>5, <2>6, <2>7 DEF HandlerStep
<1>. QED
  BY <1>1, <1>2, <1>3 DEF Next

LEMMA InitImplements == Init => EO!Init
<1>. SUFFICES ASSUME Init PROVE EO!Init
  OBVIOUS
<1>1. Existing = {} /\ Submitted = {} /\ result = NoResult
  BY DEF Init, Existing, Submitted
<1>2. given = EO!NoVerdict
  BY <1>1 DEF given, EO!NoVerdict
<1>3. verdict = EO!NoVerdict /\ ~published
  BY <1>1 DEF verdict, published, NoResult, None, EO!NoVerdict
<1>. QED
  BY <1>1, <1>2, <1>3 DEF EO!Init, invited, published

(* However the handlers overlap, who evaluates, the scores given and the   *)
(* verdict are settled once.                                               *)
THEOREM CycleImplementsOutcome == Spec => ImplementsOutcome
<1>1. Spec => [][EO!Next]_(EO!vars)
  BY PerformanceInductive, StepsImplement, PTL DEF Spec
<1>. QED
  BY <1>1, InitImplements, PTL DEF Spec, ImplementsOutcome, EO!Spec
=============================================================================
