--------------------------- MODULE OfferDocuments ---------------------------
(***************************************************************************)
(* The two documents of a job offer, its letter and its contract: they are *)
(* uploaded, approved level by level, sent, and signed by the candidate.   *)
(* apps/api/src/ats/offers/{offer-letter,contract}*.service.ts and         *)
(* public-{offer-letter,contract}.service.ts.  The services of the two     *)
(* documents mirror each other; a behaviour is about one, kind, and where  *)
(* they differ the action asks which.                                      *)
(*                                                                         *)
(* work[h] is a handler in flight, one statement per action.  A transaction*)
(* shows its writes with its commit; a statement that needs a locked row   *)
(* waits until it is free.  Files are numbered by their upload, because    *)
(* every stored file has a fresh name.                                     *)
(***************************************************************************)
EXTENDS Integers, FiniteSets

CONSTANTS
    Kinds,       \* the documents considered
    Approvers,   \* lengths of the company's approver list in use, 0 for none
    MaxUploads,  \* bound: uploads of the document
    Handlers     \* handlers that may be in flight at once

ASSUME DocumentConstants ==
    /\ Kinds \subseteq {"letter", "contract"}
    /\ Approvers \subseteq Nat
    /\ MaxUploads \in Nat

VARIABLES
    kind,      \* which document this is
    file,      \* file the offer's row names, 0 for none
    disk,      \* files stored
    uploads,   \* uploads begun: names the next file
    approval,  \* offerLetterApprovalStatus, contractApprovalStatus
    steps,     \* the approval rows of the document
    batches,   \* how often rows were created: their identity
    link,      \* the row has a sign token
    sent,      \* mode of the last sending, "NO" while sentAt is null
    signed,    \* ...CandidateSignedAt is set
    copy,      \* file the candidate's signed copy was made from, 0 for none
    work,      \* the handlers in flight
    asked,     \* history: file the row named when the approval was started
    torn,      \* history: the upload of the file the row names has stopped
    late       \* history: the last signature was begun on an earlier file

delivery == <<link, sent, signed, copy, late>>
flow     == <<approval, steps, batches, asked>>
files    == <<file, disk, uploads>>
tables   == <<kind, files, flow, delivery, torn>>
vars     == <<tables, work>>
-----------------------------------------------------------------------------
Idle == [op |-> "none", pc |-> "idle", file |-> 0, prev |-> 0, levels |-> 0,
         step |-> <<0, 0>>, held |-> {}, owns |-> FALSE]

IdOf(x)    == <<x.batch, x.seq>>
Ids(X)     == {IdOf(x) : x \in X}
Pending    == {x \in steps : x.status = "PENDING"}

Rivals(h)         == Handlers \ {h}
RowFree(h)        == \A g \in Rivals(h) : ~work[g].owns
StepsFree(h, ids) == \A g \in Rivals(h) : work[g].held \intersect ids = {}

At(h, op, pc)   == work[h].op = op /\ work[h].pc = pc
Becomes(h, rec) == work' = [work EXCEPT ![h] = rec]
GoTo(h, pc)     == work' = [work EXCEPT ![h].pc = pc]
Finish(h)       == Becomes(h, Idle)

(* An upload stops after the row has been made to name its file.           *)
Tears(h) == torn \/ (work[h].op = "upload" /\ work[h].pc # "store" /\ work[h].file = file)

(* An upload that fails deletes the file it has stored, whether or not the *)
(* row names it by now; a handler of any other kind only answers an error. *)
Catch(h) ==
    /\ disk' = disk \ (IF work[h].op = "upload" THEN {work[h].file} ELSE {})
    /\ torn' = Tears(h)
    /\ Finish(h)
    /\ UNCHANGED <<kind, file, uploads, flow, delivery>>

(* After its last write a handler may still fail, in its audit row or its  *)
(* answer.                                                                 *)
End(h) ==
    /\ Finish(h)
    /\ \/ UNCHANGED <<disk, torn>>
       \/ /\ work[h].op = "upload"
          /\ disk' = disk \ {work[h].file}
          /\ torn' = Tears(h)
-----------------------------------------------------------------------------
(* uploadSigned: the new file is stored, the row updated, the file it named*)
(* before deleted and the approval started again.                          *)

Upload(h) ==
    /\ work[h] = Idle
    /\ uploads < MaxUploads
    /\ uploads' = uploads + 1
    /\ disk' = disk \union {uploads + 1}
    /\ Becomes(h, [Idle EXCEPT !.op = "upload", !.pc = "store", !.file = uploads + 1,
                               !.prev = file])
    /\ UNCHANGED <<kind, file, flow, delivery, torn>>

(* Mutant: a new contract keeps the evidence of the old one, as a letter does. *)
StoreKeepsSignature(h) ==
    /\ At(h, "upload", "store")
    /\ RowFree(h)
    /\ file' = work[h].file
    /\ torn' = FALSE
    /\ GoTo(h, "clean")
    /\ UNCHANGED <<kind, disk, uploads, flow, delivery>>

(* Only a contract forgets that the old file was sent and signed.          *)
Store(h) ==
    /\ At(h, "upload", "store")
    /\ RowFree(h)
    /\ file' = work[h].file
    /\ IF kind = "contract"
       THEN link' = FALSE /\ sent' = "NO" /\ signed' = FALSE /\ UNCHANGED <<copy, late>>
       ELSE UNCHANGED delivery
    /\ GoTo(h, "clean")
    /\ torn' = FALSE
    /\ UNCHANGED <<kind, disk, uploads, flow>>

Clean(h) ==
    /\ At(h, "upload", "clean")
    /\ disk' = disk \ {work[h].prev}
    /\ Becomes(h, [work[h] EXCEPT !.pc = "approvers", !.prev = 0])
    /\ UNCHANGED <<kind, file, uploads, flow, delivery, torn>>

(* Mutant: an approval that was started once is not started again.         *)
ReadApproversOnce(h, n) ==
    /\ At(h, "upload", "approvers")
    /\ IF approval # "NOT_REQUIRED" THEN Finish(h)
       ELSE Becomes(h, [work[h] EXCEPT !.pc = IF n = 0 THEN "clear" ELSE "delete", !.levels = n])
    /\ UNCHANGED tables

(* startForFilledLetter, startForFilledContract.                           *)
ReadApprovers(h, n) ==
    /\ At(h, "upload", "approvers")
    /\ Becomes(h, [work[h] EXCEPT !.pc = IF n = 0 THEN "clear" ELSE "delete", !.levels = n])
    /\ UNCHANGED tables

(* Without approvers: two statements outside any transaction.  A contract  *)
(* is then sent at once.                                                   *)
ClearSteps(h) ==
    /\ At(h, "upload", "clear")
    /\ StepsFree(h, Ids(steps))
    /\ steps' = {}
    /\ GoTo(h, "waive")
    /\ UNCHANGED <<kind, files, approval, batches, asked, delivery, torn>>

Waive(h) ==
    /\ At(h, "upload", "waive")
    /\ RowFree(h)
    /\ approval' = "NOT_REQUIRED"
    /\ IF kind = "contract" THEN GoTo(h, "load") /\ UNCHANGED <<disk, torn>> ELSE End(h)
    /\ UNCHANGED <<kind, file, uploads, steps, batches, asked, delivery>>

(* With approvers: one transaction deletes the rows, creates new ones and  *)
(* sets the status.  An insert waits for the uncommitted rows of another   *)
(* upload, which have the same sequences, and fails on committed ones that *)
(* the delete did not see.                                                 *)
DeleteSteps(h) ==
    /\ At(h, "upload", "delete")
    /\ StepsFree(h, Ids(steps))
    /\ Becomes(h, [work[h] EXCEPT !.pc = "insert", !.held = Ids(steps)])
    /\ UNCHANGED tables

Kept(h) == {x \in steps : IdOf(x) \notin work[h].held}

(* Mutant: the steps are numbered from zero. *)
NewStepsFromZero(n) ==
    {[batch |-> batches + 1, seq |-> s, status |-> "PENDING"] : s \in 0..(n - 1)}

NewSteps(n) == {[batch |-> batches + 1, seq |-> s, status |-> "PENDING"] : s \in 1..n}

Inserting(g) == work[g].op = "upload" /\ work[g].pc \in {"mark", "commit"}

InsertSteps(h) ==
    /\ At(h, "upload", "insert")
    /\ \A g \in Rivals(h) : ~Inserting(g)
    /\ IF \E x \in Kept(h) : x.seq <= work[h].levels
       THEN Catch(h)
       ELSE GoTo(h, "mark") /\ UNCHANGED tables

Start(h) ==
    /\ At(h, "upload", "commit")
    /\ steps' = Kept(h) \union NewSteps(work[h].levels)
    /\ batches' = batches + 1
    /\ approval' = "PENDING"
    /\ asked' = file
    /\ sent' = "NO"
    /\ End(h)
    /\ UNCHANGED <<kind, file, uploads, link, signed, copy, late>>
-----------------------------------------------------------------------------
(* decide: one transaction that reads the offer, the step and the pending  *)
(* steps, writes the step by id and, when it was the last one or rejects,  *)
(* the status of the offer.                                                *)

Decide(h, verdict) ==
    /\ work[h] = Idle
    /\ file # 0
    /\ approval = "PENDING"
    /\ Becomes(h, [Idle EXCEPT !.op = verdict, !.pc = "steps"])
    /\ UNCHANGED tables

deciding == {"approve", "reject"}

(* Mutant: any pending step may be decided, not only the first. *)
AnyPending == Pending

FirstPending == {x \in Pending : \A y \in Pending : x.seq <= y.seq}

(* The caller names a step; any but the first pending one of its own is    *)
(* refused.                                                                *)
PickStep(h) ==
    /\ work[h].op \in deciding /\ work[h].pc = "steps"
    /\ \/ Finish(h)
       \/ \E x \in FirstPending : Becomes(h, [work[h] EXCEPT !.pc = "step", !.step = IdOf(x)])
    /\ UNCHANGED tables

(* The update by id fails when the row has been deleted, and does not ask  *)
(* whether it is still pending.                                            *)
WriteStep(h) ==
    LET id == work[h].step
    IN  /\ work[h].op \in deciding /\ work[h].pc = "step"
        /\ StepsFree(h, {id})
        /\ IF id \in Ids(steps)
           THEN Becomes(h, [work[h] EXCEPT !.held = {id},
                                           !.pc = IF work[h].op = "approve" THEN "count" ELSE "mark"])
           ELSE Finish(h)
        /\ UNCHANGED tables

Written(h) ==
    LET verdict == IF work[h].op = "approve" THEN "APPROVED" ELSE "REJECTED"
    IN  {IF IdOf(x) = work[h].step THEN [x EXCEPT !.status = verdict] ELSE x : x \in steps}

(* Mutant: the approval is complete although a step is left. *)
CountOneLeft(h) ==
    /\ At(h, "approve", "count")
    /\ IF Cardinality(Ids(Pending) \ {work[h].step}) > 1
       THEN steps' = Written(h) /\ Finish(h)
       ELSE GoTo(h, "mark") /\ UNCHANGED steps
    /\ UNCHANGED <<kind, files, approval, batches, asked, delivery, torn>>

Count(h) ==
    /\ At(h, "approve", "count")
    /\ IF Ids(Pending) \ {work[h].step} # {}
       THEN steps' = Written(h) /\ Finish(h)
       ELSE GoTo(h, "mark") /\ UNCHANGED steps
    /\ UNCHANGED <<kind, files, approval, batches, asked, delivery, torn>>

(* After the commit of the last approval the document is sent.             *)
Conclude(h) ==
    /\ work[h].op \in deciding /\ work[h].pc = "commit"
    /\ steps' = Written(h)
    /\ IF work[h].op = "approve"
       THEN approval' = "APPROVED" /\ Becomes(h, [Idle EXCEPT !.op = "approve", !.pc = "load"])
       ELSE approval' = "REJECTED" /\ Finish(h)
    /\ UNCHANGED <<kind, files, batches, asked, delivery, torn>>

(* Mutant: a decision locks the offer before its step. *)
MarkEarly(h) ==
    \/ /\ work[h].pc = "mark"
       /\ RowFree(h)
       /\ Becomes(h, [work[h] EXCEPT !.pc = "commit", !.owns = TRUE])
       /\ UNCHANGED tables
    \/ /\ work[h].op \in deciding /\ work[h].pc = "step"
       /\ RowFree(h)
       /\ Becomes(h, [work[h] EXCEPT !.owns = TRUE])
       /\ UNCHANGED tables

(* The update of the offer's row, the last statement of either transaction.*)
Mark(h) ==
    /\ work[h].pc = "mark"
    /\ RowFree(h)
    /\ Becomes(h, [work[h] EXCEPT !.pc = "commit", !.owns = TRUE])
    /\ UNCHANGED tables
-----------------------------------------------------------------------------
(* sendApprovedLetter, sendApprovedContract: by the approver's handler, or *)
(* by the upload of a contract nobody approves.                            *)

Load(h) ==
    /\ work[h].pc = "load"
    /\ IF file = 0 THEN Catch(h)
       ELSE Becomes(h, [work[h] EXCEPT !.pc = "deliver", !.prev = file]) /\ UNCHANGED tables

(* The file that was read is loaded; the row is written by id, with a sign *)
(* token where the company has digital signature.                          *)
Deliver(h, mode) ==
    /\ work[h].pc = "deliver"
    /\ RowFree(h)
    /\ IF work[h].prev \notin disk THEN Catch(h)
       ELSE /\ sent' = mode
            /\ link' = (mode = "DIGITAL_SIGNATURE")
            /\ End(h)
            /\ UNCHANGED <<kind, file, uploads, flow, signed, copy, late>>

(* sign: the candidate opens the link; the token's row is read, and written*)
(* by id once the signed copy is stored.                                   *)
OpenLink(h) ==
    /\ work[h] = Idle
    /\ link /\ ~signed
    /\ file # 0 /\ file \in disk
    /\ Becomes(h, [Idle EXCEPT !.op = "sign", !.pc = "sign", !.file = file])
    /\ UNCHANGED tables

Sign(h) ==
    /\ At(h, "sign", "sign")
    /\ RowFree(h)
    /\ signed' = TRUE
    /\ copy' = work[h].file
    /\ late' = (work[h].file # file)
    /\ Finish(h)
    /\ UNCHANGED <<kind, files, flow, link, sent, torn>>

(* removeSigned: only of a letter.                                         *)
Remove(h) ==
    /\ kind = "letter"
    /\ work[h] = Idle
    /\ file # 0
    /\ Becomes(h, [Idle EXCEPT !.op = "remove", !.pc = "unset", !.prev = file])
    /\ UNCHANGED tables

(* Mutant: the file is deleted before the row stops naming it. *)
UnsetAfterDelete(h) ==
    \/ /\ At(h, "remove", "unset")
       /\ disk' = disk \ {work[h].prev}
       /\ GoTo(h, "unlink")
       /\ UNCHANGED <<kind, file, uploads, flow, delivery, torn>>
    \/ /\ At(h, "remove", "unlink")
       /\ RowFree(h)
       /\ file' = 0
       /\ torn' = FALSE
       /\ Finish(h)
       /\ UNCHANGED <<kind, disk, uploads, flow, delivery>>

Unset(h) ==
    /\ At(h, "remove", "unset")
    /\ RowFree(h)
    /\ file' = 0
    /\ torn' = FALSE
    /\ GoTo(h, "unlink")
    /\ UNCHANGED <<kind, disk, uploads, flow, delivery>>

Unlink(h) ==
    /\ At(h, "remove", "unlink")
    /\ disk' = disk \ {work[h].prev}
    /\ Finish(h)
    /\ UNCHANGED <<kind, file, uploads, flow, delivery, torn>>

(* A statement fails, or the process stops: locks are released and nothing *)
(* of an open transaction remains.                                         *)
Fail(h) == work[h] # Idle /\ Catch(h)

Crash(h) ==
    /\ work[h] # Idle
    /\ torn' = Tears(h)
    /\ Finish(h)
    /\ UNCHANGED <<kind, files, flow, delivery>>
-----------------------------------------------------------------------------
Init ==
    /\ kind \in Kinds
    /\ file = 0 /\ disk = {} /\ uploads = 0
    /\ approval = "NOT_REQUIRED" /\ steps = {} /\ batches = 0 /\ asked = 0
    /\ link = FALSE /\ sent = "NO" /\ signed = FALSE /\ copy = 0 /\ late = FALSE
    /\ work = [h \in Handlers |-> Idle]
    /\ torn = FALSE

Request(h) ==
    \/ Upload(h) \/ OpenLink(h) \/ Remove(h)
    \/ \E verdict \in deciding : Decide(h, verdict)

UploadStep(h) ==
    \/ Store(h) \/ Clean(h) \/ (\E n \in Approvers : ReadApprovers(h, n))
    \/ ClearSteps(h) \/ Waive(h) \/ DeleteSteps(h) \/ InsertSteps(h) \/ Start(h)

DecideStep(h) == PickStep(h) \/ WriteStep(h) \/ Count(h) \/ Conclude(h)

Modes == {"DIGITAL_SIGNATURE", "ATTACHMENT"}

HandlerStep(h) ==
    \/ UploadStep(h) \/ DecideStep(h) \/ Mark(h)
    \/ Load(h) \/ \E mode \in Modes : Deliver(h, mode)
    \/ Sign(h) \/ Unset(h) \/ Unlink(h)

Next == \E h \in Handlers : Request(h) \/ HandlerStep(h) \/ Fail(h) \/ Crash(h)

(* The database grants a row to its waiters in turn, so a handler that can *)
(* go on again and again does: others that take the row, fail and are      *)
(* repeated do not keep it away for ever.                                  *)
Spec == Init /\ [][Next]_vars /\ \A h \in Handlers : SF_vars(HandlerStep(h))
-----------------------------------------------------------------------------
(* Properties. *)

Uploads  == 0..MaxUploads
StepType == [batch : Nat \ {0}, seq : Nat \ {0},
             status : {"PENDING", "APPROVED", "REJECTED"}]

HandlerType == [op : {"none", "upload", "approve", "reject", "sign", "remove"},
                pc : {"idle", "store", "clean", "approvers", "clear", "waive", "delete", "insert",
                      "mark", "commit", "steps", "step", "count", "load", "deliver", "sign",
                      "unset", "unlink"},
                file : Uploads, prev : Uploads, levels : Nat, step : Nat \X Nat,
                held : SUBSET (Nat \X Nat), owns : BOOLEAN]

(* Columns, files and handlers are well typed. *)
TypeOK ==
    /\ kind \in Kinds
    /\ file \in Uploads /\ copy \in Uploads /\ asked \in Uploads /\ uploads \in Uploads
    /\ disk \subseteq Uploads /\ torn \in BOOLEAN
    /\ approval \in {"NOT_REQUIRED", "PENDING", "APPROVED", "REJECTED"}
    /\ steps \subseteq StepType /\ batches \in Nat
    /\ link \in BOOLEAN /\ signed \in BOOLEAN /\ late \in BOOLEAN /\ sent \in Modes \union {"NO"}
    /\ work \in [Handlers -> HandlerType]

(* An approved document has no step left to decide, whoever decides,       *)
(* decides twice or uploads it again at the same time.                     *)
ApprovedHasNoPending == approval = "APPROVED" => Pending = {}

(* Among the steps created together one is decided only after every lower  *)
(* one has been.                                                           *)
DecidedInOrder ==
    \A x, y \in steps : x.batch = y.batch /\ x.seq < y.seq /\ y.status # "PENDING"
                           => x.status # "PENDING"

Restarting(w) ==
    w.op = "upload" /\ w.pc \in {"clean", "approvers", "clear", "waive", "delete", "insert",
                                 "mark", "commit"}

(* The file an approved document names is the one its approval was started *)
(* for, unless its upload is about to start it again or stopped before it  *)
(* did: no decision on an old file approves a new one for good.            *)
ApprovalIsOfTheFile ==
    approval = "APPROVED" /\ file # 0 =>
       \/ file = asked
       \/ torn
       \/ \E h \in Handlers : Restarting(work[h]) /\ work[h].file = file

(* The file the row names is stored, whatever uploads and removals overlap *)
(* or stop half way; only an upload that fails after it wrote the row      *)
(* deletes it.                                                             *)
NamedFileStored == file \in disk \union {0} \/ torn

(* A contract counts as signed only for the file the candidate signed: a   *)
(* new file never inherits a signature, and the one way to a signature of  *)
(* another file is a signing that began before the row named the new one.  *)
SignatureIsOfTheContract == kind = "contract" /\ signed => copy = file \/ late

(* No handler waits for ever for the rows of others.                       *)
HandlersFinish == \A h \in Handlers : work[h] # Idle ~> work[h] = Idle

(* Why they hold, in four parts; the steps of a handler disturb few of     *)
(* them.  Files have fresh names: one that waits to be named by the row is *)
(* on the disk, and nobody is about to delete it or the one that is named. *)
Storing(w) == w.op = "upload" /\ w.pc = "store"

FileStands(w) ==
    /\ w.file <= uploads /\ w.prev <= uploads
    /\ w.op = "upload" => w.file # 0
    /\ Storing(w) => w.file \in disk /\ w.file # file
    /\ w.pc \in {"clean", "unlink"} => w.prev # file \/ file = 0

FilesApart ==
    \A g, h \in Handlers :
       /\ Storing(work[g]) => work[h].prev # work[g].file
       /\ g # h /\ work[g].op = "upload" /\ work[h].op = "upload" => work[g].file # work[h].file

FilesInv == file <= uploads /\ NamedFileStored /\ FilesApart /\ \A h \in Handlers : FileStands(work[h])

(* Steps are created together and locked once.  Who creates them holds all *)
(* there were; who decides one holds it, knows the lower ones decided and, *)
(* about to approve, no other pending.                                     *)
StepStands(w) ==
    /\ w.op = "upload" /\ w.pc \in {"delete", "insert", "mark", "commit"} => w.levels # 0
    /\ w.op = "upload" /\ w.pc = "insert" => w.held = {} \/ w.held = Ids(steps)
    /\ w.op = "upload" /\ w.pc \in {"mark", "commit"} => w.held = Ids(steps)
    /\ w.op \in deciding /\ w.pc \in {"step", "count", "mark", "commit"} =>
          /\ w.step[1] <= batches
          /\ \A y \in steps : y.batch = w.step[1] /\ y.seq < w.step[2] => y.status # "PENDING"
    /\ w.op \in deciding /\ w.pc \in {"count", "mark", "commit"} =>
          w.held = {w.step} /\ w.step \in Ids(steps)
    /\ w.op = "approve" /\ w.pc \in {"mark", "commit"} => \A x \in Pending : IdOf(x) = w.step

StepsApart ==
    \A g, h \in Handlers : g # h =>
       work[g].held \intersect work[h].held = {} /\ ~(Inserting(g) /\ Inserting(h))

StepsTogether ==
    /\ \A x \in steps : x.batch = batches
    /\ \A x, y \in steps : x.seq = y.seq => x = y
    /\ steps # {} => \E x \in steps : x.seq = 1

StepsInv ==
    /\ ApprovedHasNoPending /\ DecidedInOrder
    /\ StepsTogether /\ StepsApart /\ \A h \in Handlers : StepStands(work[h])

(* There are steps only for the file the row names, or its upload will     *)
(* still see to it.                                                        *)
Covered ==
    \/ file = 0 \/ file = asked \/ torn
    \/ \E h \in Handlers : Restarting(work[h]) /\ work[h].file = file

ApprovalInv ==
    /\ steps # {} \/ approval = "APPROVED" => Covered
    /\ \A h \in Handlers : At(h, "upload", "waive") /\ work[h].file = file => steps = {} \/ asked = file

SignatureInv ==
    /\ SignatureIsOfTheContract
    /\ \A h \in Handlers : work[h].op = "remove" => kind = "letter"

IInv == TypeOK /\ FilesInv /\ StepsInv /\ ApprovalInv /\ SignatureInv
=============================================================================
