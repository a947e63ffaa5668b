-------------------------- MODULE PerformanceCycle --------------------------
(***************************************************************************)
(* One person in a performance cycle: the participation, the evaluations   *)
(* others and the person fill in, and the result                           *)
(* (apps/api/src/performance: cycles, participants, evaluations, results). *)
(*                                                                         *)
(* work[h] is a handler in flight; known says that the participant it has  *)
(* read is still the person's, by its id.  Assigning, excluding, removing, *)
(* editing and closing the cycle read outside any transaction and write by *)
(* id; answers lock their evaluation and results the participant (FOR      *)
(* UPDATE), and write with their commit.  Permissions, the dates of the    *)
(* phases and the directory are not modelled: any handler may also be      *)
(* refused (Fail).                                                         *)
(***************************************************************************)
EXTENDS ResultScores

CONSTANTS
    Evaluators,       \* who may evaluate the person
    Self,             \* the person
    TypeOf,           \* type of each evaluation
    Configurations,   \* [weights, goals, period]: weight of each type of evaluation, and
                      \* the weight and the goal cycle of the goals, 0 for none
    Competencies,     \* those of the cycle: [weight, required, low, high]
    Ratings,          \* values answered
    GoalWeights,      \* weight of each applicable goal, or NoWeight
    PeriodOf,         \* goal cycle of each goal
    Achievements,     \* results a goal may get
    Handlers          \* handlers that may be in flight at once

ASSUME PerformanceConstants ==
    /\ IsFiniteSet(Evaluators) /\ Self \in Evaluators /\ TypeOf[Self] = "SELF"
    /\ \A e \in Evaluators : TypeOf[e] \in {Types[t] : t \in DOMAIN Types}
    /\ \A c \in Configurations :
          /\ \A t \in DOMAIN Types : c.weights[Types[t]] \in Share
          /\ SumFunction([t \in DOMAIN Types |-> c.weights[Types[t]]]) = Whole
          /\ c.goals \in Share
    /\ IsFiniteSet(DOMAIN Competencies)
    /\ \A c \in DOMAIN Competencies :
          /\ Competencies[c].weight \in Nat \union {NoWeight}
          /\ Competencies[c].low \in Int /\ Competencies[c].high \in Int
    /\ Ratings \subseteq Int
    /\ IsFiniteSet(DOMAIN GoalWeights) /\ DOMAIN GoalWeights \subseteq Int
    /\ \A g \in DOMAIN GoalWeights : GoalWeights[g] \in Weight
    /\ Achievements \subseteq Share

VARIABLES
    cycle,       \* status of the cycle
    config,      \* its weights and its composition of the result
    participant, \* status of the person's row, NONE without one
    evals,       \* status of each evaluation, NONE before it is created
    answers,     \* ratings given in each evaluation
    score,       \* its scorePercentage, NoScore while null
    goals,       \* the goals of the person: NotActive, Underway or achievement
    result,      \* the PerformanceResult, with what it was calculated by, or NoResult
    work,        \* the handlers in flight
    crossed,     \* history: an exclusion and a submission overlapped
    joined       \* history: the row was created during or after a closing

ghosts == <<crossed, joined>>
sheets == <<evals, answers, score>>
tables == <<cycle, config, participant, sheets, goals, result, ghosts>>
vars   == <<tables, work>>
-----------------------------------------------------------------------------
NoScore   == -1
NotActive == -2   \* DRAFT or CANCELLED
Underway  == -1   \* ACTIVE, without a result
None      == [x \in {} |-> 0]
NoConfig  == [weights |-> None, goals |-> 0, period |-> 0]
NoResult  == [status |-> "NONE", config |-> NoConfig, scores |-> None, goals |-> None, overall |-> -1]
Idle      == [op |-> "none", pc |-> "idle", known |-> FALSE, eval |-> Self, from |-> "NONE",
              holds |-> FALSE, listed |-> FALSE, config |-> NoConfig, scores |-> None,
              goals |-> None]

Existing  == {e \in Evaluators : evals[e] # "NONE"}
Submitted == {e \in Evaluators : evals[e] = "SUBMITTED"}

At(h, op, pc)    == work[h].op = op /\ work[h].pc = pc
Becomes(h, rec)  == work' = [work EXCEPT ![h] = rec]
GoTo(h, pc)      == work' = [work EXCEPT ![h].pc = pc]
Finish(h)        == Becomes(h, Idle)
Begin(h, op, pc) == work[h] = Idle /\ Becomes(h, [Idle EXCEPT !.op = op, !.pc = pc])

Rivals(h) == Handlers \ {h}

Answering == {"respond", "rate", "submit"}

ParticipantFree(h) == \A g \in Rivals(h) : ~work[g].holds
CycleFree(h)       == \A g \in Rivals(h) : ~(work[g].op = "activate" /\ work[g].pc \in {"list", "commit"})
EvaluationFree(h, e) == \A g \in Rivals(h) : ~(work[g].op \in Answering /\ work[g].eval = e)
-----------------------------------------------------------------------------
(* The cycle.  Activating it gives evaluations to the participants that    *)
(* have none; the evaluations of one are created together, its own among   *)
(* them and others as the directory says.                                  *)

Activate(h) ==
    /\ cycle = "DRAFT"
    /\ Begin(h, "activate", "write")
    /\ UNCHANGED tables

ActivateWrite(h) ==
    /\ At(h, "activate", "write")
    /\ CycleFree(h)
    /\ IF cycle = "DRAFT" THEN GoTo(h, "list") ELSE Finish(h)
    /\ UNCHANGED tables

ListPending(h) ==
    /\ At(h, "activate", "list")
    /\ Becomes(h, [work[h] EXCEPT !.pc = "commit", !.known = (participant # "NONE"),
                                  !.listed = (participant = "ACTIVE" /\ Existing = {})])
    /\ UNCHANGED tables

(* materializeExtraEvaluations: a group is invited when it has a weight in *)
(* the cycle as it was read, clients never are, and a manager is with or   *)
(* without.                                                                *)
Invitees(weights) ==
    {e \in Evaluators : \/ TypeOf[e] \in {"SELF", "MANAGER"}
                        \/ TypeOf[e] \in {"PEER", "REPORT"} /\ weights[TypeOf[e]] > 0}

(* attachEvaluationsTx.                                                    *)
Attach(weights) ==
    \E E \in SUBSET Invitees(weights) :
       /\ Self \in E
       /\ evals' = [e \in Evaluators |-> IF e \in E THEN "PENDING" ELSE "NONE"]

(* A row listed and then removed fails the transaction.                    *)
ActivateCommit(h) ==
    /\ At(h, "activate", "commit")
    /\ work[h].listed => ParticipantFree(h)
    /\ IF work[h].listed /\ ~work[h].known THEN UNCHANGED <<cycle, evals>>
       ELSE cycle' = "ACTIVE" /\ (IF work[h].listed THEN Attach(config.weights) ELSE UNCHANGED evals)
    /\ Finish(h)
    /\ UNCHANGED <<config, participant, answers, score, goals, result, ghosts>>

(* Mutant: closing does not ask whether participants are still active. *)
CloseUncounted(h) ==
    /\ work[h] = Idle
    /\ Becomes(h, [Idle EXCEPT !.op = "close", !.pc = "write", !.from = "ACTIVE"])
    /\ UNCHANGED tables

Close(h) ==
    /\ participant # "ACTIVE"
    /\ work[h] = Idle
    /\ Becomes(h, [Idle EXCEPT !.op = "close", !.pc = "write", !.from = "ACTIVE"])
    /\ UNCHANGED tables

Cancel(h) ==
    /\ cycle \in {"DRAFT", "ACTIVE"}
    /\ work[h] = Idle
    /\ Becomes(h, [Idle EXCEPT !.op = "cancel", !.pc = "write", !.from = cycle])
    /\ UNCHANGED tables

WriteCycle(h) ==
    /\ work[h].op \in {"close", "cancel"}
    /\ CycleFree(h)
    /\ cycle' = IF cycle # work[h].from THEN cycle
                ELSE IF work[h].op = "close" THEN "CLOSED" ELSE "CANCELLED"
    /\ Finish(h)
    /\ UNCHANGED <<config, participant, sheets, goals, result, ghosts>>

(* update, while the cycle is a draft or active: evaluations, results and  *)
(* handlers that have read the cycle keep to what they read.               *)
Update(h) ==
    /\ cycle \in {"DRAFT", "ACTIVE"}
    /\ Begin(h, "update", "write")
    /\ UNCHANGED tables

(* The row is written by its id, whatever its status has become.           *)
WriteUpdate(h) ==
    /\ At(h, "update", "write")
    /\ CycleFree(h)
    /\ config' \in Configurations
    /\ Finish(h)
    /\ UNCHANGED <<cycle, participant, sheets, goals, result, ghosts>>
-----------------------------------------------------------------------------
(* The participation.                                                      *)

Assign(h) ==
    /\ cycle \in {"DRAFT", "ACTIVE"} /\ participant = "NONE"
    /\ work[h] = Idle
    /\ Becomes(h, [Idle EXCEPT !.op = "assign", !.from = cycle,
                               !.pc = IF cycle = "ACTIVE" THEN "open" ELSE "write"])
    /\ UNCHANGED tables

(* materializeParticipantTx reads the cycle again, for its weights alone.  *)
OpenAssign(h) ==
    /\ At(h, "assign", "open")
    /\ Becomes(h, [work[h] EXCEPT !.pc = "write", !.config = config])
    /\ UNCHANGED tables

Create ==
    /\ participant' = "ACTIVE"
    /\ joined' = (joined \/ cycle \notin {"DRAFT", "ACTIVE"} \/ \E g \in Handlers : work[g].op = "close")

(* The unique index refuses a second row.  Evaluations are created when the*)
(* cycle was read as active.                                               *)
WriteAssign(h) ==
    /\ At(h, "assign", "write")
    /\ \/ participant # "NONE" /\ UNCHANGED <<participant, evals, joined>>
       \/ /\ participant = "NONE"
          /\ Create
          /\ IF work[h].from = "ACTIVE" THEN Attach(work[h].config.weights) ELSE UNCHANGED evals
    /\ Finish(h)
    /\ UNCHANGED <<cycle, config, answers, score, goals, result, crossed>>

(* ensureOwnParticipant: a manager that sends goals becomes a participant  *)
(* of the active cycle, without evaluations.                               *)
JoinAsLeader(h) ==
    /\ cycle = "ACTIVE" /\ participant = "NONE"
    /\ work[h] = Idle
    /\ Becomes(h, [Idle EXCEPT !.op = "assign", !.pc = "write", !.from = "DRAFT"])
    /\ UNCHANGED tables

BeginOnRow(h, op) ==
    work[h] = Idle /\ Becomes(h, [Idle EXCEPT !.op = op, !.pc = "write", !.known = TRUE])

(* Mutant: an exclusion does not ask for submitted evaluations. *)
ExcludeUnasked(h) ==
    /\ cycle = "ACTIVE" /\ participant \in {"ACTIVE", "COMPLETED"}
    /\ BeginOnRow(h, "exclude")
    /\ UNCHANGED tables

Exclude(h) ==
    /\ cycle = "ACTIVE" /\ participant \in {"ACTIVE", "COMPLETED"}
    /\ Submitted = {}
    /\ BeginOnRow(h, "exclude")
    /\ UNCHANGED tables

WriteExclude(h) ==
    /\ At(h, "exclude", "write")
    /\ ParticipantFree(h)
    /\ IF work[h].known
       THEN /\ participant' = "EXCLUDED"
            /\ crossed' = (crossed \/ \E g \in Handlers : work[g].op = "submit")
       ELSE UNCHANGED <<participant, crossed>>
    /\ Finish(h)
    /\ UNCHANGED <<cycle, config, sheets, goals, result, joined>>

RemoveDraft(h) ==
    /\ cycle = "DRAFT" /\ participant # "NONE" /\ Existing = {}
    /\ BeginOnRow(h, "remove")
    /\ UNCHANGED tables

(* A foreign key keeps a participant that has evaluations.  What others    *)
(* have read is then the row of nobody, even if the person gets another.   *)
WriteRemove(h) ==
    /\ At(h, "remove", "write")
    /\ ParticipantFree(h)
    /\ IF work[h].known /\ Existing = {}
       THEN /\ participant' = "NONE"
            /\ work' = [g \in Handlers |-> IF g = h THEN Idle ELSE [work[g] EXCEPT !.known = FALSE]]
       ELSE UNCHANGED participant /\ Finish(h)
    /\ UNCHANGED <<cycle, config, sheets, goals, result, ghosts>>
-----------------------------------------------------------------------------
(* upsertResponse, upsertGoalRating and submit: one transaction each under *)
(* the lock of the evaluation.  A goal rating does not ask for the         *)
(* participant.                                                            *)

(* Mutant: the status is read before the lock alone. *)
AnswerUnlocked(h, e, op) ==
    /\ evals[e] \in {"PENDING", "IN_PROGRESS"}
    /\ cycle = "ACTIVE"
    /\ op # "rate" => participant = "ACTIVE"
    /\ work[h] = Idle
    /\ Becomes(h, [Idle EXCEPT !.op = op, !.pc = "write", !.eval = e])
    /\ UNCHANGED tables

Answer(h, e, op) ==
    /\ EvaluationFree(h, e)
    /\ evals[e] \in {"PENDING", "IN_PROGRESS"}
    /\ cycle = "ACTIVE"
    /\ op # "rate" => participant = "ACTIVE"
    /\ work[h] = Idle
    /\ Becomes(h, [Idle EXCEPT !.op = op, !.pc = "write", !.eval = e])
    /\ UNCHANGED tables

Put(f, x, y) == [z \in DOMAIN f \union {x} |-> IF z = x THEN y ELSE f[z]]

Save(h, c, rating) ==
    LET e == work[h].eval
    IN  /\ work[h].op \in {"respond", "rate"}
        /\ work[h].op = "respond" => rating \in Competencies[c].low..Competencies[c].high
        /\ answers' = IF work[h].op = "rate" THEN answers
                      ELSE [answers EXCEPT ![e] = Put(answers[e], c, rating)]
        /\ evals' = IF evals[e] = "PENDING" THEN [evals EXCEPT ![e] = "IN_PROGRESS"] ELSE evals
        /\ Finish(h)
        /\ UNCHANGED <<cycle, config, participant, score, goals, result, ghosts>>

Required == {c \in DOMAIN Competencies : Competencies[c].required}

Submit(h) ==
    LET e == work[h].eval
    IN  /\ work[h].op = "submit"
        /\ IF Required \subseteq DOMAIN answers[e] /\ ScoreReady(Competencies, answers[e])
           THEN /\ evals' = [evals EXCEPT ![e] = "SUBMITTED"]
                /\ score' = [score EXCEPT ![e] = EvaluationScore(Competencies, answers[e])]
                /\ crossed' = (crossed \/ \E g \in Handlers : work[g].op = "exclude")
           ELSE UNCHANGED <<evals, score, crossed>>
        /\ Finish(h)
        /\ UNCHANGED <<cycle, config, participant, answers, goals, result, joined>>
-----------------------------------------------------------------------------
(* The goals of the person move on their own (GoalLifecycle).              *)
GoalMoves(g) ==
    /\ \/ goals[g] = NotActive /\ goals' = [goals EXCEPT ![g] = Underway]
       \/ goals[g] = Underway /\ \E a \in Achievements \union {NotActive} :
                                    goals' = [goals EXCEPT ![g] = a]
    /\ UNCHANGED <<cycle, config, participant, sheets, result, work, ghosts>>

(* calculate and release, under the participant's lock.  A calculation     *)
(* reads the cycle once: its weights and its period of goals are those of  *)
(* the result.                                                             *)

Calculate(h) ==
    /\ ParticipantFree(h)
    /\ participant = "ACTIVE" /\ cycle = "ACTIVE" /\ result = NoResult
    /\ work[h] = Idle
    /\ Becomes(h, [Idle EXCEPT !.op = "calculate", !.pc = "scores", !.holds = TRUE,
                               !.config = config])
    /\ UNCHANGED tables

Divisible(conf, scores) == Configured(conf.weights, PresentTypes(TypeOf, scores)) > 0

AfterScores(conf) == IF conf.goals > 0 THEN "gate" ELSE "write"

(* Mutant: the scores that there are make the result. *)
ReadScoresSoFar(h) ==
    LET scores == [e \in Submitted |-> score[e]]
    IN  /\ At(h, "calculate", "scores")
        /\ IF Submitted # {} /\ Divisible(work[h].config, scores)
           THEN Becomes(h, [work[h] EXCEPT !.pc = AfterScores(work[h].config), !.scores = scores])
           ELSE Finish(h)
        /\ UNCHANGED tables

ReadScores(h) ==
    LET scores == [e \in Existing |-> score[e]]
    IN  /\ At(h, "calculate", "scores")
        /\ IF Existing # {} /\ Existing = Submitted /\ Divisible(work[h].config, scores)
           THEN Becomes(h, [work[h] EXCEPT !.pc = AfterScores(work[h].config), !.scores = scores])
           ELSE Finish(h)
        /\ UNCHANGED tables

(* The goals of the period that was read.                                  *)
Applicable(conf) == {g \in DOMAIN goals : PeriodOf[g] = conf.period}

(* findIncompleteApplicableGoals.                                          *)
Gate(h) ==
    /\ At(h, "calculate", "gate")
    /\ IF \A g \in Applicable(work[h].config) : goals[g] # Underway THEN GoTo(h, "load") ELSE Finish(h)
    /\ UNCHANGED tables

Achieving(conf) == {g \in Applicable(conf) : goals[g] \in Achievements}

WeightsOver(G) == [g \in G |-> GoalWeights[g]]

Merit(conf, scores) == Consolidate(conf.weights, TypeOf, scores)
Attained(achieved)  == AggregateGoals(WeightsOver(DOMAIN achieved), achieved)

(* loadApplicableGoalResultsForEmployee, with the refusals of the          *)
(* aggregation and of the integration.                                     *)
LoadGoals(h) ==
    LET G        == Achieving(work[h].config)
        achieved == [g \in G |-> goals[g]]
    IN  /\ At(h, "calculate", "load")
        /\ IF /\ G # {} /\ WeightsReady(WeightsOver(G))
              /\ Integrable(Merit(work[h].config, work[h].scores), Attained(achieved))
           THEN Becomes(h, [work[h] EXCEPT !.pc = "write", !.goals = achieved])
           ELSE Finish(h)
        /\ UNCHANGED tables

Overall(conf, scores, achieved) ==
    LET goalsWeight == conf.goals
    IN  IF goalsWeight = 0 THEN Merit(conf, scores)
        ELSE Integrate(Merit(conf, scores), Attained(achieved), Whole - goalsWeight, goalsWeight)

(* The table refuses a merit that is no percentage.                        *)
WriteResult(h) ==
    LET w == work[h]
    IN  /\ At(h, "calculate", "write")
        /\ IF result = NoResult /\ participant = "ACTIVE" /\ Merit(w.config, w.scores) \in Share
           THEN /\ participant' = "COMPLETED"
                /\ result' = [status |-> "CALCULATED", config |-> w.config, scores |-> w.scores,
                              goals |-> w.goals, overall |-> Overall(w.config, w.scores, w.goals)]
           ELSE UNCHANGED <<participant, result>>
        /\ Finish(h)
        /\ UNCHANGED <<cycle, config, sheets, goals, ghosts>>

Release(h) ==
    /\ ParticipantFree(h)
    /\ participant = "COMPLETED" /\ cycle \in {"ACTIVE", "CLOSED"}
    /\ result.status = "CALCULATED"
    /\ work[h] = Idle
    /\ Becomes(h, [Idle EXCEPT !.op = "release", !.pc = "write", !.holds = TRUE])
    /\ UNCHANGED tables

WriteRelease(h) ==
    /\ At(h, "release", "write")
    /\ result' = IF result.status = "CALCULATED" THEN [result EXCEPT !.status = "RELEASED"] ELSE result
    /\ Finish(h)
    /\ UNCHANGED <<cycle, config, participant, sheets, goals, ghosts>>

(* A handler is refused or fails, or its process stops.                    *)
Fail(h) == work[h] # Idle /\ Finish(h) /\ UNCHANGED tables
-----------------------------------------------------------------------------
Init ==
    /\ cycle = "DRAFT" /\ config \in Configurations /\ participant = "NONE"
    /\ evals = [e \in Evaluators |-> "NONE"]
    /\ answers = [e \in Evaluators |-> None]
    /\ score = [e \in Evaluators |-> NoScore]
    /\ goals = [g \in DOMAIN GoalWeights |-> NotActive]
    /\ result = NoResult
    /\ work = [h \in Handlers |-> Idle]
    /\ crossed = FALSE /\ joined = FALSE

Request(h) ==
    \/ Activate(h) \/ Close(h) \/ Cancel(h) \/ Update(h)
    \/ Assign(h) \/ JoinAsLeader(h) \/ Exclude(h) \/ RemoveDraft(h)
    \/ \E e \in Evaluators, op \in Answering : Answer(h, e, op)
    \/ Calculate(h) \/ Release(h)

HandlerStep(h) ==
    \/ ActivateWrite(h) \/ ListPending(h) \/ ActivateCommit(h) \/ WriteCycle(h)
    \/ WriteUpdate(h) \/ OpenAssign(h) \/ WriteAssign(h) \/ WriteExclude(h) \/ WriteRemove(h)
    \/ (\E c \in DOMAIN Competencies, r \in Ratings : Save(h, c, r)) \/ Submit(h)
    \/ ReadScores(h) \/ Gate(h) \/ LoadGoals(h) \/ WriteResult(h) \/ WriteRelease(h)

Next ==
    \/ \E g \in DOMAIN GoalWeights : GoalMoves(g)
    \/ \E h \in Handlers : Request(h) \/ HandlerStep(h) \/ Fail(h)

Spec == Init /\ [][Next]_vars
-----------------------------------------------------------------------------
(* Properties. *)

Partial(S, T) == UNION {[D -> T] : D \in SUBSET S}

(* The scores that answers may get.                                        *)
AnswerRows == Partial(DOMAIN Competencies, Ratings)
Scores     == {EvaluationScore(Competencies, a) : a \in {b \in AnswerRows : ScoreReady(Competencies, b)}}

ScoreRows == Partial(Evaluators, Scores)
GoalRows  == Partial(DOMAIN GoalWeights, Achievements)

HandlerType ==
    [op : {"none", "activate", "close", "cancel", "update", "assign", "exclude", "remove",
           "calculate", "release"} \union Answering,
     pc : {"idle", "write", "list", "commit", "open", "scores", "gate", "load"},
     known : BOOLEAN, eval : Evaluators, from : {"NONE", "DRAFT", "ACTIVE"},
     holds : BOOLEAN, listed : BOOLEAN, config : Configurations \union {NoConfig},
     scores : ScoreRows, goals : GoalRows]

WellTyped ==
    /\ cycle \in {"DRAFT", "ACTIVE", "CLOSED", "CANCELLED"}
    /\ config \in Configurations
    /\ participant \in {"NONE", "ACTIVE", "COMPLETED", "EXCLUDED"}
    /\ evals \in [Evaluators -> {"NONE", "PENDING", "IN_PROGRESS", "SUBMITTED"}]
    /\ answers \in [Evaluators -> AnswerRows]
    /\ score \in [Evaluators -> Scores \union {NoScore}]
    /\ goals \in [DOMAIN GoalWeights -> Achievements \union {NotActive, Underway}]
    /\ result.status \in {"NONE", "CALCULATED", "RELEASED"}
    /\ result.config \in Configurations \union {NoConfig}
    /\ result.scores \in ScoreRows /\ result.goals \in GoalRows
    /\ work \in [Handlers -> HandlerType]

(* Rows and handlers are well typed, and scores and results are            *)
(* percentages.                                                            *)
TypeOK ==
    /\ WellTyped
    /\ \A e \in Evaluators : score[e] \in NoScore..Whole
    /\ result.overall \in -1..Whole

(* The score of a submitted evaluation is that of its answers, which nobody*)
(* changes any more.                                                       *)
ScoreIsOfAnswers ==
    \A e \in Submitted : score[e] = EvaluationScore(Competencies, answers[e])

(* A result rests on every evaluation of the person, all submitted, as they*)
(* are now, by the weights that its calculation read.                      *)
ResultIsOfScores ==
    LET scores == [e \in Existing |-> score[e]]
    IN  result # NoResult =>
          /\ Existing # {} /\ Existing = Submitted
          /\ result.scores = scores
          /\ result.overall = Overall(result.config, scores, result.goals)

(* The types that have evaluations share the whole of the result, and what *)
(* they make of the scores lies between the lowest and the highest one,    *)
(* however the weights divide and whenever they were edited.  The type that*)
(* takes what rounding leaves may be left a hundredth less than nothing    *)
(* when an edit took its weight after its evaluations were created; what   *)
(* they make is then off by a hundredth at most.                           *)
MeritAccounted ==
    LET scores == result.scores
        shares == Effective(result.config.weights, PresentTypes(TypeOf, scores))
        merit  == Merit(result.config, scores)
        slack  == IF \E t \in DOMAIN shares : shares[t] < 0 THEN 1 ELSE 0
    IN  result # NoResult =>
          /\ \A t \in DOMAIN shares : shares[t] >= -1
          /\ SumFunction(shares) = Whole
          /\ \E e \in DOMAIN scores : scores[e] <= merit + slack
          /\ \E e \in DOMAIN scores : scores[e] >= merit - slack

(* A participant is completed exactly by its result; one that is excluded  *)
(* has neither a result nor a submitted evaluation, unless the exclusion   *)
(* overlapped a submission.                                                *)
ExclusionApart ==
    /\ participant = "COMPLETED" => result # NoResult
    /\ result # NoResult => participant = "COMPLETED" \/ (participant = "EXCLUDED" /\ crossed)
    /\ participant = "EXCLUDED" /\ ~crossed => Submitted = {}

(* A closed cycle has no active participant but one created while it was   *)
(* being closed, or later on an older reading.                             *)
ClosedIsSettled == cycle = "CLOSED" /\ participant = "ACTIVE" => joined

invited   == Existing
given     == [e \in Submitted |-> score[e]]
verdict   == result.scores
published == result.status = "RELEASED"

EO == INSTANCE EvaluationOutcome

(* Who evaluates, the scores given and the verdict are settled once.       *)
ImplementsOutcome == EO!Spec

(* What a handler stands on.  With it, with the locks of the activation and*)
(* of each evaluation, and with what the tables owe each other, the        *)
(* properties are inductive.                                               *)
HandlerStands(w) ==
    /\ w.op \in Answering => evals[w.eval] \in {"PENDING", "IN_PROGRESS"}
    /\ w.op = "exclude" => crossed \/ Submitted = {}
    /\ w.op = "submit" => crossed \/ participant # "EXCLUDED"
    /\ w.op = "close" => joined \/ participant # "ACTIVE"
    /\ w.known => participant # "NONE"
    /\ w.op = "activate" /\ w.pc = "commit" /\ w.listed /\ w.known => Existing = {}
    /\ w.op = "assign" /\ w.pc = "write" /\ w.from = "ACTIVE" => w.config \in Configurations
    /\ w.op = "calculate" => w.config \in Configurations
    /\ w.op = "calculate" /\ w.pc \in {"gate", "load", "write"} =>
          /\ Existing # {} /\ Existing = Submitted
          /\ w.scores = [e \in Existing |-> score[e]]
          /\ Divisible(w.config, w.scores)
    /\ w.op = "calculate" /\ w.pc = "write" /\ w.config.goals > 0 =>
          Integrable(Merit(w.config, w.scores), Attained(w.goals))

Activating(w) == w.op = "activate" /\ w.pc \in {"list", "commit"}

LocksHeld ==
    \A g, h \in Handlers : g # h =>
       /\ ~(Activating(work[g]) /\ Activating(work[h]))
       /\ work[g].op \in Answering /\ work[h].op \in Answering => work[g].eval # work[h].eval

RowsAgree ==
    /\ \A e \in Existing : TypeOf[e] # "CLIENT"
    /\ participant = "NONE" => Existing = {}
    /\ \A e \in Submitted : score[e] \in Scores
    /\ result.status = "NONE" <=> result = NoResult
    /\ result # NoResult =>
          /\ result.config \in Configurations /\ Divisible(result.config, result.scores)
          /\ Merit(result.config, result.scores) \in Share
    /\ result # NoResult /\ result.config.goals > 0 =>
          Integrable(Merit(result.config, result.scores), Attained(result.goals))
    /\ result = [status |-> result.status, config |-> result.config, scores |-> result.scores,
                 goals |-> result.goals, overall |-> result.overall]

IInv ==
    /\ WellTyped /\ ScoreIsOfAnswers /\ ResultIsOfScores /\ ExclusionApart /\ ClosedIsSettled
    /\ RowsAgree /\ LocksHeld
    /\ \A h \in Handlers : HandlerStands(work[h])
=============================================================================
