# Talento: verification of the HR platform

Talento is a multi-tenant HR platform: a NestJS API over PostgreSQL through Prisma
(`src/apps/api`), a Next.js client (`src/apps/web`), shared types (`src/packages/shared`) and
documents (`src/docs`). This directory holds TLA+ modules translated from the API's services, the
TLC configurations that model-check them, and TLAPS proofs about them. Paths below are relative to
`src/apps/api/src` unless they start with `src/`.

## 1. The system

Every operation is an HTTP request handled by a service method. Handlers run concurrently (Node
interleaves them at every `await`, and several API processes may run); the only shared state is
PostgreSQL, at its default isolation READ COMMITTED. So a method is one of three things:

* one `$transaction` that takes the row lock (`FOR UPDATE`, or a conditional `updateMany`) before it
  decides: atomic on that row;
* a read, a check in the handler and a later unconditional `update` by id: another handler may run
  between them;
* a transaction that locks several rows one after another: it may wait, and be waited for.

There are no queues and no background workers. Mail is sent inline and its failure is recorded.

### Components, state, operations

| Component | State it keeps | Operations | What makes it correct |
| --- | --- | --- | --- |
| Hiring `ats/hiring` | `Hiring`; writes to vacancy, application, offer, candidate, employee | advanceToHire, hire, tryCompleteHireFromContract, discardOtherFinalists | places counted right under concurrency; one hire per application, and per person as long as no e-mail changes; no deadlock inside a vacancy; nothing checked is stale at commit |
| Applications `ats/applications` | `Application.stage/status`, stage history | create, move | stages follow the matrix; terminal stages |
| Offers `ats/offers/offers.service.ts` | `JobOffer.status`, expiry | create, update, send, accept, reject, withdraw, expiry on read | status matrix; send and the move it triggers |
| Letters and contracts `ats/offers/*letter*`, `*contract*` | files, approval steps, send mode, signature | upload, remove, start approvals, decide, send, public sign | what is sent, signed and hired on is what was approved |
| Vacancies `ats/vacancies` | `Vacancy.status/headcount/filledCount` | update, publish, absorb the position's plazas | status matrix; capacity against the position |
| Candidates, public jobs, internal apply | `Candidate.status`, CV | create, update, remove, apply | a candidate's status agrees with the hires |
| Vacancy requests `ats/vacancy-requests` | request status, approval steps, position headcount | create, update, submit, approve, reject, replace pending levels | each step decided once and in order; one vacancy per approval |
| Interviews `ats/interviews` | interview status, answers, evaluator chain | create, start, complete, evaluatorDecision, cancel | terminal statuses; decision and stage agree |
| Goals `goals/*` | goal, key results, check-ins, completion requests, cycles | activate, cancel, check-in, request/approve/reject completion, close cycle | values under review are the values kept; one approval; nothing reopened |
| Performance `performance/*` | cycles, participants, evaluations, results, calibration, goal definitions | open, close, exclude, submit, calculate, calibrate, release, review | frozen results; statuses agree across the three levels |
| Authentication `auth` | sessions, refresh-token hashes, password hash | login, refresh, logout, change and forgotten password | a revoked session never yields a token |
| Organization `organization/*` | areas, positions, employees, reporting lines, import | create, update, remove, import | the chart has no cycle; import is all or nothing |
| Platform, RBAC, tenant guards, audit, mail, web | tenants, roles, logs | administration, request guards, logging | not modelled (section 7) |

### How they interact

* `OffersService.send` commits the offer and then calls `ApplicationsService.move`; interviews do
  the same after an evaluator's decision. The call is a second transaction.
* `HiringService.hire` locks vacancy, application and offer, and writes employee, vacancy,
  candidate, application, hiring, and then the applications, offers and candidates of the other
  finalists of the vacancy, in one transaction.
* Letter approval, sending and signature write `JobOffer.status` beside `OffersService`, without
  its lock; a complete contract triggers the hire.
* Capacity joins organization and recruiting: an employee who leaves opens a box of a position, and
  the next hire of any vacancy of that position takes it over.

### What is hard

Interleavings of handlers on rows read before they are locked, stale writes by id, lock order across
tables, a transaction aborted half-way (time limit, deadlock victim, crash), a second transaction
that never runs, repeated requests, and counters at their limit. `PROJECT.json` lists each under
`hazards` at the line where it bites, with the properties that watch it.

## 2. Modules

| Module | Models |
| --- | --- |
| `HiringPipeline` | vacancies, applications, offers, letters and contracts as the hire sees them, candidates, employees, and the hiring transaction; its properties and its inductive invariant |
| `Staffing` | the abstract promise of hiring: capacity only grows, a hire takes a free place and is final, and only a person who was renamed is hired again |
| `HiringPipelineProofs` | the theorems and their proofs |
| `MCHiringPipeline` | its small instances |
| `VacancyRequests` | vacancy requests, their approval levels, the vacancy and headcount the last approval writes; properties and inductive invariant |
| `VacancyRequestsProofs` | the theorems and their proofs |
| `MCVacancyRequests` | its small instances |
| `OfferDocuments` | the letter and the contract of an offer, statement by statement: uploads, approvals, sending, signature, removal, failures and crashes; its inductive invariant |
| `OfferDocumentsProofs`, `MCOfferDocuments` | theorems; small instance |
| `GoalAchievement` | pure arithmetic: progress of a key result, of a goal, effective weights |
| `GoalLifecycle` | a goal, its key results, check-ins, period, completion requests and reviews; its inductive invariant |
| `GoalReview` | the abstract promise of a review: what is submitted is what is decided on and kept |
| `GoalLifecycleProofs`, `MCGoalLifecycle` | theorems; small instance |
| `ResultScores` | pure arithmetic: score of an evaluation, consolidation by type, integration with goals |
| `PerformanceCycle` | a person in a cycle: participation, evaluations, result, release; its inductive invariant |
| `EvaluationOutcome` | the abstract promise of an evaluation: evaluators, scores and verdict are settled once |
| `PerformanceCycleProofs`, `MCPerformanceCycle` | theorems; small instance |
| `Interviews` | the interviews of an application and the evaluators' round; its inductive invariant |
| `InterviewsProofs`, `MCInterviews` | theorems; small instance |
| `SumTheorems` | lemmas about sums and products over finite sets |
| `ScoreTheorems` | lemmas and theorems about `GoalAchievement` and `ResultScores`, used by the proofs of both state machines |

How the modules meet:

* `OfferDocuments` refines what `HiringPipeline` knows of a document. The pipeline's `letter` and
  `contract` may become complete or incomplete whenever nobody holds the offer; the documents'
  module says when the code does so, and what the file, its approval and its signature are then.
* `Interviews` and `HiringPipeline` share the stage of an application. `MoveTo` has the stage matrix
  and, which the pipeline leaves out, the interview a move opens.
* `GoalLifecycle` and `PerformanceCycle` share the goals of a person: the second sees a goal as not
  active, under way or with an achievement, and lets it change (`GoalMoves`) between the queries of
  `calculate`. Both use `GoalAchievement`.
* `PerformanceCycle` sets off `ActivateCycle` of the goal period it is linked to.

The first two state machines meet in one row: the vacancy that `OpenVacancy` creates is a vacancy of
`HiringPipeline`, open, with `headcount` as requested and nothing filled. No operation of the
pipeline writes a request and no operation of the workflow writes an existing vacancy, so they are
checked apart.

### `HiringPipeline` and the code

*State.* `vacStatus`, `headcount`, `filled`, `occupants`, `stage`, `offer`, `candStatus` are columns;
`mail` is each candidate's e-mail, `hirings` the applications with a `Hiring` row and `workMail` the
e-mail of the employee each was hired as; `renamed` records whose e-mail, as candidate or as employee,
was ever changed. `letter` and `contract` hold the applications for which `isOfferLetterCompleteForHire`
and `isContractCompleteForHire` are true, `overdue` those whose `expiresAt` has passed. `owesMove` is
the program counter of a `send` between its commit and its `move`. `Application.status` is not a
variable: every write of a stage writes `CLOSED` exactly for the terminal stages.

*Requests.* `req[r]` is a handler in flight: operation, point reached (`pc`), what it remembers
(`seats` after the absorption, the candidate's `mail` as it was when the application was read, the finalists it read, which of their candidates it saw as HIRED) and
`held`, the rows it has locked or written. Writes of an open transaction are invisible to the others
under READ COMMITTED, so they stay in the request and reach the tables in `CommitHire` or
`CommitToHire`. A step that needs a row in somebody else's `held` is not enabled (`Wants`, `Blocks`).

| Code | Actions |
| --- | --- |
| `hiring.service.ts` `hire` 283-711 | `Begin`, `LockVacancy` (status, absorption, capacity), `LockApplication` (existing hiring, stage), `LockOffer` (offer, letter, contract), `CreateEmployee`, `UpdateCandidate`, `ReadSiblings`, `DiscardSibling`, `CommitHire` |
| `advanceToHire` 89-281 | `Begin`, `LockVacancy`, `LockApplication`, `ReadOfferToAdvance`, `CommitToHire` |
| `tryCompleteHireFromContract` 713-748 | `Begin` with `"hire"`: after its own checks it calls `hire` |
| error mapping 602-624 | `DeadlockAbort`, `Rollback` |
| `applications.service.ts` create, move | `CreateRead`/`CreateWrite`, `Move` |
| `public-jobs.service.ts`, `home.service.ts` apply | `Apply` |
| `offers.service.ts` | `OfferRead`/`OfferInsert`, `Send`, `SendMove`, `SendLost`, `Respond`, `Withdraw`, `ReadOffer`, `ExpiryPasses` (time) |
| letters and contracts | `LetterCompleted`, `LetterRemoved`, `LetterRead`/`LetterWrite`, `ContractChanges` |
| `vacancies.service.ts` update | `PatchVacancyRead`/`PatchVacancyWrite` |
| `interviews.service.ts` complete | `CompleteInterview` |
| `candidates.service.ts` update | `PatchCandidate` |
| `employees.service.ts` update, removeMany; `home.service.ts` updateProfile | `EmployeeLeaves`, `EmployeeRenamed` |

*Abstractions.* Stage-history rows, audit, mail and thank-you letters change no state a property
reads. A discarded finalist's three writes (application, offer, candidate) are one step that waits
for all three rows; a transaction that got one of them and then waits for another is represented by
the waits between siblings. Share locks of foreign keys are left out: an insert they delay commutes
with the steps of the transaction it waits for. The conditional updates that follow a row lock
(`filledCount` 509-524, stage 540-557) cannot miss while the lock is held and are part of
`CommitHire`. Pre-hire documents (CV, security study, medical exam) and the checks on position and
area gate the hire further: leaving them out allows more behaviours, never fewer. Likewise letters
and contracts may become complete in more states than their workflow allows. Employees created
outside hiring and removed candidates are not in the model, so the e-mails in `Taken` are those of
hires. An employee who leaves or is deleted keeps the e-mail in the unique index.

*Who is hired.* `Hiring` is unique by application, offer and employee, not by candidate. All that
keeps two vacancies from hiring one person is `CreateEmployee`: no employee may have the candidate's
e-mail (the query at `hiring.service.ts:465` and the unique index on company and e-mail). But
recruiters may change the candidate's e-mail (`candidates.service.ts:319-321`, `PatchCandidate`) and
the employee's (`employees.service.ts:295-297`, and employees their own, `home.service.ts:162`;
`EmployeeRenamed`), which frees the old one. After either the same person can be hired again, by
another vacancy and as a second employee. `Staffing` promises no more than that: who is hired twice
was renamed.

`Ops` restricts the clients to some operations in an instance; what the server does of its own
accord is always on. The theorems leave `Ops` arbitrary.

### `VacancyRequests` and the code

*State.* `status`, `form` (type, position, openings), `vacancy` and `headcount` are columns;
`approvals[q]` is the set of `VacancyApproval` rows of a request, each with its sequence, its status
and the batch of the statement that created it: batch and sequence stand for the row's id, so a row
deleted and created again with the same sequence is another row. `work[h]` is a handler: operation,
point reached, the request, the step it read (`step`), the number of decided levels it counted
(`locked`), the rows its transaction has written (`held`), whether it has written the request
(`owns`) and the headcount it read (`seats`). As in the pipeline, an open transaction's writes reach
the tables with its last statement.

| Code | Actions |
| --- | --- |
| `vacancy-requests.service.ts` create, update | `Create`; `UpdateRead`, `UpdateWrite` |
| submit 427-508 | `SubmitRead`, `SubmitTake` (conditional transition, delete of old rows), `SubmitInsert` (new rows, commit) |
| decide 538-702 | `DecideRead`, `DecideRows` (the first pending level), `TakeStep` (conditional write); a rejection goes on with `Return`, an approval with `CountRemaining`, `Finalize` |
| createVacancyFromApprovedRequest 750-867 | `OpenVacancy` with `GrownPosition` |
| `active-processes.service.ts` updateApprovals | `ProcessRead`, `ProcessRows`, `ProcessDelete`, `ProcessInsert` |
| `positions.service.ts` update | `ResizePosition` |
| errors, time limit, crash | `Rollback` |

*Abstractions.* Who may decide a level is not modelled: any level may be decided by somebody. Where
the levels come from (frozen plan, workflow, legacy flow) is a number in `Levels`, never zero, as all
three sources refuse or cannot give an empty list. A statement that locks several rows waits for all
of them at once; the orders this hides are waits that end when the other transaction does, or a
deadlock, whose victim is `Rollback`. A prisma `include` is a second query, hence `DecideRows`.
Positions are not removed, so a request's position still exists when it is approved. `CANCELLED` and
`REJECTED` are statuses of the schema that no code writes.

### `OfferDocuments` and the code

*State.* One document (`kind`), since the two mirror each other and share only the offer's row; the
actions ask `kind` where they differ. `file`, `approval`, `link`, `sent`, `signed` and `copy` are
columns, `steps` the approval rows (a batch and a sequence stand for the id), `disk` the storage.
`work[h]` is a handler: what it remembers, the step rows its transaction holds (`held`) and whether it
holds the offer's row (`owns`). `asked`, `torn` and `late` are history.

| Code | Actions |
| --- | --- |
| `offer-letter.service.ts` / `contract.service.ts` uploadSigned | `Upload` (store the file), `Store` (update the row), `Clean` (delete the old file), then the start of the approval; the `catch` deletes the new file (`Catch`, `Fail`, `End`) |
| `offer-letter-approvals.service.ts` / `contract-approvals.service.ts` start | `ReadApprovers`; without approvers `ClearSteps`, `Waive`; with them `DeleteSteps`, `InsertSteps`, `Mark`, `Start` |
| decide | `Decide`, `PickStep`, `WriteStep`, `Count`, `Mark`, `Conclude` |
| `offer-letter-send`, `contract-send` | `Load`, `Deliver` |
| `public-offer-letter`, `public-contract` sign | `OpenLink`, `Sign` |
| removeSigned (letter only) | `Remove`, `Unset`, `Unlink` |
| errors, crash | `Fail`, `Crash` |

*Abstractions.* Who decides, templates, editors and the contents of files. That only a candidate
about to be hired gets a contract is the pipeline's matter. A signed copy is the file it was made from.

### `GoalLifecycle` and the code

*State.* `cycle`, `goal`, `krs`, `requests` and `result` are rows; of the check-ins the last value of
each key result and their number. Handlers that change the goal or its structure read outside any
transaction and write later (`pc = "write"`); check-ins, requests and reviews lock rows in the order
`LockOrder` gives, read again and write with their commit.

| Code | Actions |
| --- | --- |
| `cycles.service.ts` activate, close, cancel | `ActivateCycle`; `CloseCycle`, `CancelCycle` (counts), `WriteCycle` (conditional update) |
| `goals.service.ts` create, activate, cancel | `CreateGoal`; `ActivateGoal`, `CancelGoal`, `WriteGoal` |
| createKeyResult, updateKeyResult, deleteKeyResult | `ReadStructure`, `WriteKR` |
| `progress.service.ts` createCheckIn | `CheckIn`, `Lock`, `ReadCheckIn`, `WriteCheckIn` |
| `completion.service.ts` requestCompletion, approve, reject | `RequestCompletion`, `Review`, `Lock`, `ReadRequest`/`ReadApproval`/`ReadRejection` and the writes |

*Abstractions.* Titles, dates, assignments, filters, permissions and the progress that is shown but not
stored. A check-in's sequence is read and used under the goal's lock, so its retry never fires and
the number is left out. `toFixed(2)` rounds a float; the model rounds the exact fraction half up.

### `PerformanceCycle` and the code

*State.* The rows of one person in one cycle: the cycle's status and its `config` (weights of the
types of evaluation, weight and period of the goals), participant, evaluations, answers, scores,
result, and the person's goals as a result sees them. A handler remembers whether the participant it
read is still the person's (`known`), for a row removed and created again is another row, and the
configuration it read. `crossed` and `joined` are history.

| Code | Actions |
| --- | --- |
| `cycles.service.ts` activate, close, cancel | `Activate`, `ActivateWrite`, `ListPending`, `ActivateCommit`; `Close`, `Cancel`, `WriteCycle` |
| `cycles.service.ts` update | `Update`/`WriteUpdate`: any configuration, in `DRAFT` or `ACTIVE` |
| `participants.service.ts` assign, exclude, removeDraft | `Assign`/`OpenAssign`/`WriteAssign`, `Exclude`/`WriteExclude`, `RemoveDraft`/`WriteRemove` |
| `goal-definition.service.ts` ensureOwnParticipant | `JoinAsLeader` |
| `evaluations.service.ts` upsertResponse, upsertGoalRating, submit | `Answer` (locks the evaluation), `Save`, `Submit` |
| `results.service.ts` calculate, release | `Calculate` (locks the participant), `ReadScores`, `Gate`, `LoadGoals`, `WriteResult`; `Release`, `WriteRelease` |

*Edits.* `update` replaces weights, goal weight and goal period while the cycle is `DRAFT` or `ACTIVE`
(`performance/cycle-transitions.ts` 40-47), by id, on a reading that may be old. Evaluations already
created stay, so a colleague may have been invited by a weight that is 0 when the result is
calculated; a calculation reads the cycle once (`results.service.ts` 306-351) and keeps to it.

*Abstractions.* Phase dates, competency edits, comments, the contents of goal ratings, analytics,
calibration. The directory (who is whose manager) is any set of evaluators with the person in it.

### `Interviews` and the code

*State.* `stage` of the application, the `evaluators` of its request, the interviews in the order they
were created (`by` is the set of interviewers, one or several: whichever of them decides completes
the interview for all), and the handlers. `evaluated`, `rejected`, `apart` and
`cut` are history.

| Code | Actions |
| --- | --- |
| `interviews.service.ts` create, update, start, complete, cancel | `Create`/`WriteCreate`; `Read` and then `WriteUpdate`, `CheckStart`/`MoveStart`/`WriteStart`, `WriteComplete`, `WriteCancel` |
| evaluatorDecision | `Read`, `CheckDecision`, `WriteDecision`, `ReadList`, `ReadRound`, `OpenNext` or `MoveDecision` |
| `applications.service.ts` move with ensurePendingInterview | `Move`, `MoveTo`, `Ensure` |
| `active-processes.service.ts` updateEvaluators | `UpdateEvaluators` |

*Abstractions.* Questions, answers, process templates and transcripts; who may do what.

## 3. Properties

`HiringPipeline`:

| Property | Says | Hazard |
| --- | --- | --- |
| `TypeOK` | columns and requests are well typed; no counter goes below zero | |
| `FilledCountIsHirings` | `filledCount` = number of `Hiring` rows of the vacancy, at most `headcount` | two hires of the last place; rollback half-way |
| `HiredIffRow` | stage `HIRED` exactly when a `Hiring` row exists | repeated hire; a discard overwriting a hire |
| `NoDeadlockInVacancy` | requests of one vacancy never wait in a circle | the comment at `hiring.service.ts` 300-301 |
| `ChecksHoldAtCommit` | vacancy status, stage, offer and contract are at the commit as checked | stale patches, letter writes, withdrawals during a hire |
| `StagesFollowMatrix` | a stage changes only along the matrix of `move`, by the advance, by a hire or its discard | the move after a send, concurrent moves |
| `ImplementsStaffing` | the pipeline implements `Staffing` with `capacity <- headcount`, `hired <- hirings`: only who was renamed is hired twice | double hire of a person, loss of a hire |
| `RequestsEnd` | a request in flight ends | waits across vacancies |

`VacancyRequests`:

| Property | Says | Hazard |
| --- | --- | --- |
| `TypeOK` | rows and handlers are well typed; sequences count from one | |
| `SomeoneCanDecide` | a request in approval has a pending level | levels replaced while the last one is decided; resubmission |
| `VacancyIffApproved` | a vacancy exists exactly for the approved requests | a stale submit reopening an approved request; a vacancy that cannot be created |
| `DecidedInOrder` | of levels created together, one is decided only after every lower one has approved | two approvers at once |
| `ApprovedByEveryLevel` | approval comes with the last level, all created with it having approved, none rejected | a count that misses a concurrent level |
| `DecisionsStand` | a decision is never changed, and only a new submission removes it | deciding twice; replacing levels that are being decided |

The order is stated per batch because the code keeps it only there: when pending levels are replaced
between the read and the write of a decision, numbers of the two batches may interleave.

`OfferDocuments` (for a letter and for a contract):

| Property | Says | Hazard |
| --- | --- | --- |
| `TypeOK` | columns, files and handlers are well typed | |
| `ApprovedHasNoPending` | an approved document has no step left to decide | a decision that counts while the approval is started again |
| `DecidedInOrder` | of steps created together, one is decided only after every lower one | two approvers at once; the write by id |
| `ApprovalIsOfTheFile` | an approved document names the file its approval was started for, unless its upload is about to start the approval again or stopped before it did (`torn`) | the last approval racing a new upload |
| `NamedFileStored` | the file the row names is on the disk, unless `torn` | overlapping uploads and removals |
| `SignatureIsOfTheContract` | a signed contract is the file the candidate signed, or one uploaded after the candidate opened the link (`late`) | a new contract under an old signature |
| `HandlersFinish` | every handler ends | steps and offer locked in opposite orders |

`GoalLifecycle`:

| Property | Says | Hazard |
| --- | --- | --- |
| `TypeOK` | rows are well typed, an achievement is a percentage | |
| `CompletedByApproval` | a goal is completed exactly by one approved request, which leaves its result; at most one request is pending | cancellation, activation and reviews that overlap |
| `AchievementAccounted` | the achievement is between those of the key results, and the effective weights sum 100 and account for it up to a cent per key result | rounding, missing weights |
| `NoWaitCycle` | whoever waits for a row waits for a handler that can go on | two reviewers and a check-in |
| `ImplementsReview` | `GoalReview` with the last values as the claim: values do not move under a reviewer, and the result keeps those decided on | a check-in that was read before the request |

`PerformanceCycle`:

| Property | Says | Hazard |
| --- | --- | --- |
| `TypeOK` | rows are well typed, scores and results are percentages | |
| `ScoreIsOfAnswers` | a submitted score is that of the answers stored | answers saved while the evaluation is submitted |
| `ResultIsOfScores` | a result rests on every evaluation of the person, all submitted, as they are now, and its overall is what the arithmetic makes of them by the configuration its calculation read | late evaluations, a second attempt |
| `MeritAccounted` | the weights in effect sum 100, none is below -0.01, and what they make of the scores lies between the lowest and the highest one, or a hundredth beyond when a weight in effect is negative | rounding of shares, weights edited after evaluations were created |
| `ExclusionApart` | completed exactly by a result; an excluded participant has none and no submitted evaluation, unless exclusion and submission overlapped (`crossed`) | stale exclusion |
| `ClosedIsSettled` | a closed cycle has no active participant but one created while it was being closed (`joined`) | the count before the close |
| `ImplementsOutcome` | `EvaluationOutcome`: evaluators, scores, verdict and publication are settled once | recalculation, second release |

`Interviews`:

| Property | Says | Hazard |
| --- | --- | --- |
| `TypeOK` | rows and handlers are well typed | |
| `EveryoneEvaluated` | the approval that moves an application to its offer has seen a completed interview of every evaluator it read | rescheduled, cancelled, reassigned interviews |
| `RejectionHolds` | a rejection that ran to its end ends the application, even one another approval has moved on | approval and rejection at once |
| `NotStranded` | an application under evaluation has an open interview or a handler that will open one, unless a decision stopped half way (`cut`) or an interview was ended apart from the round (`apart`) | the second transaction that never runs |

The exceptions named in these properties are what the code really allows, and each is a weakness worth
knowing:

* `torn`: an upload that fails after it wrote the row deletes, in its `catch`, the file the row
  names; one that crashes leaves the new file under the approval of the old one. Two first uploads
  at once collide on the unique sequence of the steps and end the same way.
* `late`: `sign` reads the contract by its token and writes by id, so a signature may land on a
  contract uploaded in between. A letter keeps `offerLetterCandidateSignedAt` when it is replaced.
* `crossed`: `exclude` counts submitted evaluations before its unconditional update.
* `joined`: `assign` on an older reading adds an active participant to a closed cycle.
* `cut`: the evaluator's decision is stored before the application moves or the next interview opens;
  nothing repeats the second half. `apart`: completing or cancelling an interview by its own route
  opens nothing.

Met while modelling, without a run of their own:

* Interviews are written by id after a check: a stale `update` or `start` reopens one that has ended,
  and two decisions on one interview open two next interviews. `evaluatorDecision` takes a
  `SCHEDULED` interview to `COMPLETED` (`src/docs/ats-interviews.md:26-34` has no such edge).
* A goal activated while its period is closed stays `ACTIVE` in it; a `CANCELLED` goal may keep a
  `PENDING` request; a check-in whose handler passed its checks may land on a `COMPLETED` goal
  (`src/docs/goals-progress.md:64`), which leaves the result as it is.
* Key results edited by two stale handlers may leave weights that do not sum 100 in an `ACTIVE` goal
  (the comment at `goal-progress.ts:108` assumes they do); hence the premise of `AchievementAccounted`.
* A participant that joined as a leader, or was assigned on a reading of `DRAFT`, has no evaluations
  in an active cycle (`src/docs/performance-evaluations.md:136` says there is always a `SELF`).
* One person can be hired by two vacancies after a change of e-mail (section 2); `Hiring` has no unique
  index on the candidate.
* `src/docs/performance-results.md:17-19` and `src/docs/performance-core.md:56` say that weights are
  editable in `DRAFT` alone; `isCycleMetadataEditable` allows `ACTIVE`. With SELF 0.10, MANAGER 79.90,
  PEER 0 and CLIENT 20 set after a colleague was invited, the shares of the three are 0.13, 99.88 and
  -0.01, and scores of 60, 60 and 0 make 60.01. `MeritAccounted` bounds how far that goes. When the
  merit leaves 0..100 altogether, the table refuses the result (`WriteResult`).
* The comment at `performance.helpers.ts:182-199` lets the weights of competencies and goals sum less
  or more than 100; the check `performance_cycles_goal_weights_range` of the table asks for 100
  exactly when there is a goal period, and the model with it (`goals` and `Whole - goals`).
* With weight 0 for `SELF` and nobody else invited, a submitted evaluation can neither be calculated
  nor excluded.

Statements of the repository that the code does not keep, each found by its own run:

* `TerminalStagesFinal` (`src/docs/ats-candidates.md:107`): the discard rewrites finalists it read
  without a lock, so one who has withdrawn meanwhile becomes `REJECTED`.
* `HireUsesOpenPlaza` (comment at `vacancy-capacity.ts:22`): two vacancies of a position each take
  over the same open box.
* `HiredOnAcceptedOffer` (`src/docs/ats-hiring.md:21`): a complete letter is enough, whatever the
  offer's status.
* `HeadcountOnlyGrows` (comment at `vacancy-requests.service.ts:778`): two last approvals for one
  position read the same headcount, and the smaller request, committed last, lowers it.
* `EditedOnlyInDraft` (message at `vacancy-requests.service.ts:1301`): the draft check and the write
  of an edit are two queries, and the write has no condition.

Two more divergences were met and need no run: `src/docs/ats-vacancies.md:75` says a rejection makes
the request `REJECTED` (the code returns it to `DRAFT`), and line 99 that an approval adds the
openings to the position's headcount (the code sets it to them when they are more).

## 4. Runs and bounds

| Run | Instance | Shows |
| --- | --- | --- |
| `HiringContention` | 2 vacancies of one position with one box, two people who both applied to both (4 applications, 3 of them finalists), 2 hires in flight, 3 e-mails of which one person's may change once; hire, move, leave, rename (201 thousand states) | the counting, rows, deadlock, staffing and liveness properties under contention |
| `HiringLifecycle` | 1 application from the job page to the employee, 2 requests in flight, every operation but changes of e-mail, a contract template, an offer that may expire (917 thousand states) | types, the stage matrix and the commit checks against every stale writer |
| `HiringTerminal` | 2 finalists of one vacancy | violation of `TerminalStagesFinal` |
| `HiringOpenPlaza` | 3 applications in 2 vacancies of one position | violation of `HireUsesOpenPlaza` |
| `HiringRejectedOffer` | 1 application | violation of `HiredOnAcceptedOffer` |
| `RequestApproval` | 1 request, 2 handlers, 1 or 2 levels, 1 or 2 openings, existing or new position, every operation, `MaxBatches` = 3 | the six properties of the workflow |
| `RequestHeadcount` | 2 requests for one position, 2 handlers | violation of `HeadcountOnlyGrows` |
| `RequestEdited` | 1 request, 2 handlers | violation of `EditedOnlyInDraft` |
| `DocumentFlow` | a letter or a contract, 2 handlers, 0 or 2 approvers, `MaxUploads` = 2, failure and crash at every step (265 thousand states) | the seven properties of the documents |
| `GoalCompletion` | 1 organizational goal, 2 key results with or without weight, values 1 and 3, 2 check-ins, 2 requests, 2 handlers (2.1 million states up to symmetry) | the five properties of the goal |
| `PerformanceResult` | 1 person, a self and a manager evaluation and a colleague; two configurations, one that invites the colleague and one with weights 0.10, 79.90 and 0 and a goal; 1 required competency, 2 handlers (1.3 million states up to symmetry) | the seven properties of the result |
| `InterviewRounds` | 2 employees, lists of one and two evaluators, interviews of one or both of them, `MaxInterviews` = 2, 2 handlers (2.7 million states) | the four properties of the round |

Two requests are enough for every pairwise race and for a wait cycle; two finalists per vacancy and
two vacancies per person give the discard something to discard, the deadlock its two orders, and the
last place its two takers. Counters need no explicit bound: every place counted is a hire, of which
there are at most as many as applications. The two passing runs split contention from breadth, since
their product is out of reach; the proofs cover both at once. `CHECK_DEADLOCK FALSE` everywhere: the
system really may stop, with all applications in terminal stages and no request in flight, or with
every request approved.

`MaxBatches`, the bound of `VacancyRequests`, caps how often levels are created for a request: three
are a submission, a replacement of its levels and a resubmission in any order, enough for a decision
or a replacement to be overtaken by a rejection and a new submission. It is a guard of `SubmitRead`
and `ProcessRead`, so handlers already in flight may pass it. Requests share only positions, which no
property of `RequestApproval` reads across requests, so one request suffices there.

The bounds of the other four: `MaxUploads` 2 gives every race a file to replace and a file that
replaces it; steps are at most two because order needs two. `MaxCheckIns` 2 lets a value be reported
and changed, `MaxRequests` 2 a request be rejected and repeated. `PerformanceCycle` needs no bound: a
participant is removed and created again as often as one likes, and a handler only remembers whether
its row is still there. `RenameOnce` bounds the pipeline's e-mails: each person in `Renaming` is
renamed at most once, which is enough to be hired twice. `MaxInterviews` 2 is a window on the first
two interviews of an application: one per evaluator, or one ended and one opened after it; a third
is not created, which stops the handler before its write, never after. `InterviewRounds` explores
applications that have not ended (`CONSTRAINT Underway`: after the end no property says anything that
can change, as `RejectionHolds` and `NotStranded` hold of terminal stages and no stage leaves them) and
identifies the two handlers (`SYMMETRY`, sound for its safety properties), as do `GoalCompletion` and
`PerformanceResult`, whose properties are safety too. `GoalCompletion` has the
organizational goal because it allows all that an individual one does and the edit of targets as
well.

*Fairness of `OfferDocuments`* (used by `HandlersFinish`): strong fairness of each handler's steps,
for the same reason: a row is granted to its waiters in turn, so others that take it, fail and are
repeated cannot keep it away for ever. `Fail` and `Crash` have no fairness. The goal, performance and
interview modules claim nothing about progress: every next step is up to a person.

*Fairness of the pipeline* (`FairSpec`, used by `RequestsEnd` alone): strong fairness of each request's steps, for
PostgreSQL queues the waiters of a row and grants it in order, so a row freed again and again is
eventually had; weak fairness of `DeadlockAbort`, for the deadlock detector breaks a standing cycle.
`Rollback` (time limit, lost connection) has no fairness: requests end without counting on timeouts.

## 5. Proofs

`HiringPipelineProofs` proves, for any applications, vacancies, positions, openings, operations and
e-mails, changes of e-mail and number of concurrent requests, from `PipelineConstants`,
`OneApplicationPerVacancy` (the unique index on candidate and vacancy) and `OneCandidatePerEmail`
(that on company and e-mail, at the start): `TypeCorrect`, `CountCorrect`, `RowsCorrect`,
`VacancyOrderIsEnough`, `CommitChecked`, `MatrixFollowed` and `Refinement`.

None of these is inductive: a hire that is about to commit would break them if it had forgotten what
it checked. `IInv` adds what makes a request trustworthy: `WellFormed` (it remembers the rows its
next statements need), `RowsDisjoint` (no row is locked twice), `HoldsItsRows` (a hire holds every
row it has passed), `ChecksStand` (what it checked is still true) and `MailsStand` (who was never
renamed has, and was hired by, the first e-mail). The
argument for `ChecksStand` is the code's own: every other writer of the row has to wait for it. The
discard is the exception, as it read finalists without locking them; what saves it is that their
vacancy is locked, so none of them can have been hired. That is also why `NoDeadlockInVacancy` holds:
in a circle of requests of one vacancy each holds a row, whoever holds a row of the hire holds the
vacancy row, and only one of them can.

`Refinement` rests on `MailsStand`: when a hire inserts its employee the e-mail it read is nobody's,
and its entry in the index is held until the commit. A candidate who was never renamed carries the
first e-mail in the request as in every earlier hire, so there is no earlier hire. Nothing is said
of the others, because the code does not keep it.

`Inductive` (Spec => []IInv) is proved by a lemma per action; the action properties and the
refinement follow from `IInv` and one step. TLC checked `IInv` on the instances first.

`VacancyRequestsProofs` proves, for any requests, positions, levels, bounds and number of concurrent
handlers, from `RequestConstants`: `RequestsTyped`, `ApprovalCanGoOn`, `VacancyOnApproval`,
`LevelsInOrder`, `DecisionsKept` and `LastLevelApproves`. Its `IInv` adds to the properties:
`RowsIdentified` (an id names one row), `RestSkipped` and `CleanWhilePending` (where rejected and
skipped levels may be), `LocksDisjoint`, `WellFormed`, `StepStands` (what a decision read stays true
until it has written: the lower levels of its batch have approved; once written the row is pending
and its own; after the count no level of the batch is pending) and `OwnerStands` (a transaction that
has written the request keeps its status). Two lemmas carry the argument: `HandlerMoves` for the steps
that touch one handler, and `RowsChange` for a commit, which says what a change to the rows of one
request must respect so that every other handler's reading stays true. The second is where batches
earn their place: new levels never have the batch an old decision refers to.

`InterviewsProofs` proves, for any employees, evaluator lists, number of interviews and handlers, from
`InterviewConstants`: `InterviewsTyped`, `RejectionsHold`, `RoundsGoOn` and `OfferAfterEveryone`. Its
`IInv` adds `CompletedEvaluated` (a completed HR interview has been evaluated by those it was given to)
and `HandlerStands` (an approval about to move has seen its whole list evaluated). No status is
trusted anywhere, since any handler may write it by id: evaluations are never forgotten, and that is
enough. A lemma per kind of change (a handler moves, a row is rewritten, a row is appended, the stage
moves) carries the actions.

`GoalLifecycleProofs` proves, for any key results, definitions, values and handlers, from
`GoalConstants`: `GoalsWellTyped`, `AchievementsAccounted`, `CompletedByOneApproval`, `NobodyWaitsInCircle` and
`LifecycleImplementsReview`. The argument is the lock of the goal: whatever a request or a review read
under it (`HandlerStands`) stays true, for `LocksDisjoint` keeps out everybody who could change it; the
writers that do not lock are conditional updates, which wait for it, or touch what nobody rests on.
`RowsAgree` says what the tables owe each other (values only of key results that exist, one pending
request, one approval). The refinement maps the last values to the claim, so a check-in during a
review would be a step `GoalReview` does not have.

`PerformanceCycleProofs` proves, for any evaluators, configurations and edits of them, competencies,
ratings, goals and handlers, from `PerformanceConstants`: `PerformanceWellTyped`, `MeritsAccounted`, `ScoresKept`, `ResultsRest`, `ExclusionsApart`,
`ClosedSettled` and `CycleImplementsOutcome`. Its `IInv` adds `HandlerStands`: an evaluation being
answered is open, so no result stands or is being written (`ResultIsOfScores` and the reading of the
scores ask for all of them submitted); a row that was listed and is still `known` has no evaluations
yet; a calculation rests on the configuration it read, whatever `config` has become; an exclusion, a submission or a closing still
has what it read, or its overlap is on record. `LocksHeld` says who may answer an evaluation and who
may activate, `RowsAgree` what the tables owe each other. `HandlerMoves` carries the steps that read,
`HandlerEnds` those that write.

`OfferDocumentsProofs` proves, for either document, any lists of approvers, uploads and handlers, from
`DocumentConstants`: `DocumentsTypeCorrect`, `ApprovedIsComplete`, `StepsDecidedInOrder`,
`ApprovalNeverMoves`, `NamedFileKept` and `SignatureNeverInherited`. Its `IInv` has four parts, each
kept by every step for a reason of its own. `FilesInv`: a stored file has a fresh name, so an upload
that cleans up or fails deletes either its own file or one the row has stopped naming. `StepsInv`:
rows of one start share a batch, and a row is held by one transaction. An upload holds all rows before
it inserts (with none held there were none, as the first sequence would collide); a decision holds its
own, whose lower ones are decided for good, since nothing makes a row pending again but a new start.
`ApprovalInv`: where there are rows, or an approval, of another file than the one named, the upload of
the named file is on its way to start again or has stopped (`torn`). `SignatureInv`: only the contract's
own upload and signing touch what a signature is about. One lemma per part covers the steps that do
not disturb it (`FilesStep`, `StepsMove`, `ApprovalMove`); `StepsReplaced` and `StepsDecided` are the
two changes to the rows.

*The arithmetic.* `SumTheorems` and `ScoreTheorems` say what the percentages and weights of goals and
results amount to for every number of rows, and four theorems of the state machines rest on them:
`GoalsWellTyped` and `PerformanceWellTyped` (every stored percentage is one, with two decimals),
`AchievementsAccounted` and `MeritsAccounted`.

* Sums are folds of the library over a finite set, in an order the library chooses. Induction over the
  set is done with a smallest counterexample (`SmallestSet`): were there subsets without a fold, or with
  a sum that breaks the claim, there would be a smallest, and it is one element more than a subset that
  keeps it. From that come `SumElement` (the order does not matter), comparison, scaling and splitting
  of sums, and the same for the products that bring competencies and types to a common denominator.
* Rounding is `RoundFacts`: a rounded quotient is within a half of the quotient. So it keeps between
  integers what lies between them (`RoundAtLeast`, `RoundAtMost`), and a mean, weighted or plain, stays
  between its least and its greatest term (`GoalProgressBetween`, `MeanWithin`).
* `AchievementsAccounted` compares two roundings: the achievement is the rounded mean, the stored
  weights are equal shares rounded one by one, of which the last row takes what is left. `ShareError`
  bounds the distance by one hundredth per row, for any number of rows.
* The last type present takes what rounding the others leaves (`EffectiveShares`). Nothing is assumed
  of its weight, as an edit of an active cycle may have taken it: the others round up by less than two
  hundredths together, so it is left no less than -0.01, and all shares still sum 100. What they make of
  the scores (`ConsolidateBounds`) is then within a hundredth of any bounds of the scores, since two
  scores are never more than 100 apart; with no negative share it is within the bounds. That clients
  are never invited (`Invitees`, `TypesInvited`) keeps the types to four.
* Nothing of the kind holds of key results: `EffectiveWeights` gives 155 rows without weights 0.65
  each, and the last -0.10. The accounting is proved all the same, and says nothing of the sign.
* The sum of a person's goals need not be a percentage, as every term is rounded by itself; the code
  refuses to integrate one that is not, and so does `LoadGoals` (`Integrable`), on which
  `PerformanceWellTyped` rests.

Assumptions on constants: in every configuration a cycle may be given, the weights of types are
percentages that sum 100.00 and the weight of the goals is a percentage (that of competencies is the
rest, as the table demands); weights of competencies are not negative and their scales have integer
ends, in whatever order; goals and key results have a percentage for a weight or none.

Model-checked only: `RequestsEnd` and `HandlersFinish` (liveness under fairness) and the five
violations. Every invariant and every action property that a passing run checks is proved. The request
workflow has no liveness property: nothing obliges an approver to decide.

## 6. Plan

Done: the pipeline, the requests, the offer's documents, goals, performance results and interviews.
Left, in order of how much rests on it:

1. An abstract `Approval` that `VacancyRequests` and `OfferDocuments` both implement. The two differ
   in what a late decision may overwrite, so it has to be weaker than either.
2. `GoalDefinition`: submission, review and unlocking of a person's goals, and the goals a submission
   activates without key results.
3. `OrgChart`: reporting lines under concurrent creates. `AuthSessions`: rotation of refresh tokens.

## 7. Not modelled

* Performance goal definitions and their approval: another writer of `Goal` (a submission makes draft
  individual goals active without asking for key results or an active period, and removes dropped
  drafts). `GoalLifecycle` has no such goal; one activated that way has nothing to complete and can
  only be cancelled, and until then keeps its owner's result from being calculated (`Gate`).
* Authentication: sessions and tokens are rows of one user written by id; login, refresh and logout
  touch no state of the other modules.
* Organization chart and import: administrative writes; a reporting line is checked for cycles outside
  the transaction that creates it, which `PROJECT.json` lists as a hazard without a property.
* Calibration, closing sessions, development plans, analytics: they annotate or read frozen results.
* Pre-hire documents: uploads that gate the hire; the pipeline takes them as met.
* Platform administration, RBAC and tenant guards: stateless checks or single-row writes.
* Audit, mail, observability, health: append-only or external.
* CV parsing, screening questions, profile fit, templates, branding: text processing.
* The web client: it shows what the API answers and keeps no state of its own beside it.
