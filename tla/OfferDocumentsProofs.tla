------------------------ MODULE OfferDocumentsProofs ------------------------
(***************************************************************************)
(* Proofs about OfferDocuments for any lists of approvers, uploads and     *)
(* handlers in flight.  IInv has four parts besides the types; each step is*)
(* gone through once per part, and most are covered by the part's lemma on *)
(* steps that do not touch what it is about.                               *)
(***************************************************************************)
EXTENDS OfferDocuments, TLAPS

(* What an idle handler is.                                                *)
LEMMA IdleFacts ==
  /\ Idle \in HandlerType
  /\ Idle.op = "none" /\ Idle.pc = "idle" /\ Idle.file = 0 /\ Idle.prev = 0
  /\ Idle.held = {} /\ Idle.levels = 0 /\ Idle.step = <<0, 0>>
BY DocumentConstants DEF Idle, HandlerType, Uploads

(* A handler's step is a change of its record alone.                       *)
LEMMA Moved ==
  ASSUME TypeOK, NEW h \in Handlers, NEW w, work' = [work EXCEPT ![h] = w]
  PROVE  \A g \in Handlers : work'[g] = IF g = h THEN w ELSE work[g]
BY DEF TypeOK

(* A handler goes on: what becomes of its record.                          *)
Goes(h, pc, levels, held, step) ==
  \E w : /\ work' = [work EXCEPT ![h] = w]
         /\ w.op = work[h].op /\ w.pc = pc /\ w.file = work[h].file /\ w.prev = work[h].prev
         /\ w.levels = levels /\ w.held = held /\ w.step = step

LEMMA Going ==
  ASSUME TypeOK, NEW h \in Handlers
  PROVE  /\ \A pc : GoTo(h, pc) => Goes(h, pc, work[h].levels, work[h].held, work[h].step)
         /\ \A pc, n : Becomes(h, [work[h] EXCEPT !.pc = pc, !.levels = n])
                         => Goes(h, pc, n, work[h].held, work[h].step)
         /\ \A pc, r : Becomes(h, [work[h] EXCEPT !.pc = pc, !.held = r])
                         => Goes(h, pc, work[h].levels, r, work[h].step)
         /\ \A pc, r : Becomes(h, [work[h] EXCEPT !.held = r, !.pc = pc])
                         => Goes(h, pc, work[h].levels, r, work[h].step)
         /\ \A pc, i : Becomes(h, [work[h] EXCEPT !.pc = pc, !.step = i])
                         => Goes(h, pc, work[h].levels, work[h].held, i)
         /\ \A pc : Becomes(h, [work[h] EXCEPT !.pc = pc, !.owns = TRUE])
                         => Goes(h, pc, work[h].levels, work[h].held, work[h].step)
<1>0. work[h] \in HandlerType
  BY DEF TypeOK
<1>1. ASSUME NEW pc, GoTo(h, pc)
      PROVE  Goes(h, pc, work[h].levels, work[h].held, work[h].step)
  <2> DEFINE w == [work[h] EXCEPT !.pc = pc]
  <2>1. /\ w.op = work[h].op /\ w.pc = pc /\ w.file = work[h].file /\ w.prev = work[h].prev
        /\ w.levels = work[h].levels /\ w.held = work[h].held /\ w.step = work[h].step
    BY <1>0 DEF HandlerType
  <2>2. work' = [work EXCEPT ![h] = w]
    BY <1>1 DEF GoTo
  <2> HIDE DEF w
  <2>. QED
    BY <2>1, <2>2 DEF Goes
<1>2. ASSUME NEW pc, NEW n, Becomes(h, [work[h] EXCEPT !.pc = pc, !.levels = n])
      PROVE  Goes(h, pc, n, work[h].held, work[h].step)
  <2> DEFINE w == [work[h] EXCEPT !.pc = pc, !.levels = n]
  <2>1. /\ w.op = work[h].op /\ w.pc = pc /\ w.file = work[h].file /\ w.prev = work[h].prev
        /\ w.levels = n /\ w.held = work[h].held /\ w.step = work[h].step
    BY <1>0 DEF HandlerType
  <2>2. work' = [work EXCEPT ![h] = w]
    BY <1>2 DEF Becomes
  <2> HIDE DEF w
  <2>. QED
    BY <2>1, <2>2 DEF Goes
<1>3. ASSUME NEW pc, NEW r, Becomes(h, [work[h] EXCEPT !.pc = pc, !.held = r])
      PROVE  Goes(h, pc, work[h].levels, r, work[h].step)
  <2> DEFINE w == [work[h] EXCEPT !.pc = pc, !.held = r]
  <2>1. /\ w.op = work[h].op /\ w.pc = pc /\ w.file = work[h].file /\ w.prev = work[h].prev
        /\ w.levels = work[h].levels /\ w.held = r /\ w.step = work[h].step
    BY <1>0 DEF HandlerType
  <2>2. work' = [work EXCEPT ![h] = w]
    BY <1>3 DEF Becomes
  <2> HIDE DEF w
  <2>. QED
    BY <2>1, <2>2 DEF Goes
<1>4. ASSUME NEW pc, NEW r, Becomes(h, [work[h] EXCEPT !.held = r, !.pc = pc])
      PROVE  Goes(h, pc, work[h].levels, r, work[h].step)
  <2> DEFINE w == [work[h] EXCEPT !.held = r, !.pc = pc]
  <2>1. /\ w.op = work[h].op /\ w.pc = pc /\ w.file = work[h].file /\ w.prev = work[h].prev
        /\ w.levels = work[h].levels /\ w.held = r /\ w.step = work[h].step
    BY <1>0 DEF HandlerType
  <2>2. work' = [work EXCEPT ![h] = w]
    BY <1>4 DEF Becomes
  <2> HIDE DEF w
  <2>. QED
    BY <2>1, <2>2 DEF Goes
<1>5. ASSUME NEW pc, NEW i, Becomes(h, [work[h] EXCEPT !.pc = pc, !.step = i])
      PROVE  Goes(h, pc, work[h].levels, work[h].held, i)
  <2> DEFINE w == [work[h] EXCEPT !.pc = pc, !.step = i]
  <2>1. /\ w.op = work[h].op /\ w.pc = pc /\ w.file = work[h].file /\ w.prev = work[h].prev
        /\ w.levels = work[h].levels /\ w.held = work[h].held /\ w.step = i
    BY <1>0 DEF HandlerType
  <2>2. work' = [work EXCEPT ![h] = w]
    BY <1>5 DEF Becomes
  <2> HIDE DEF w
  <2>. QED
    BY <2>1, <2>2 DEF Goes
<1>6. ASSUME NEW pc, Becomes(h, [work[h] EXCEPT !.pc = pc, !.owns = TRUE])
      PROVE  Goes(h, pc, work[h].levels, work[h].held, work[h].step)
  <2> DEFINE w == [work[h] EXCEPT !.pc = pc, !.owns = TRUE]
  <2>1. /\ w.op = work[h].op /\ w.pc = pc /\ w.file = work[h].file /\ w.prev = work[h].prev
        /\ w.levels = work[h].levels /\ w.held = work[h].held /\ w.step = work[h].step
    BY <1>0 DEF HandlerType
  <2>2. work' = [work EXCEPT ![h] = w]
    BY <1>6 DEF Becomes
  <2> HIDE DEF w
  <2>. QED
    BY <2>1, <2>2 DEF Goes
<1>. QED
  BY <1>1, <1>2, <1>3, <1>4, <1>5, <1>6
-----------------------------------------------------------------------------
(* Types.                                                                  *)

LEMMA TypeMoves ==
  ASSUME TypeOK, UNCHANGED tables, NEW h \in Handlers, NEW w \in HandlerType,
         work' = [work EXCEPT ![h] = w]
  PROVE  TypeOK'
<1>1. UNCHANGED <<kind, file, disk, uploads, approval, steps, batches, asked, link, sent, signed,
                  copy, late, torn>>
  BY DEF tables, files, flow, delivery
<1>2. work' \in [Handlers -> HandlerType]
  BY DEF TypeOK
<1>. QED
  BY <1>1, <1>2 DEF TypeOK

(* The requests begin a record of the right type.                          *)
LEMMA TypeRequest ==
  ASSUME TypeOK, NEW h \in Handlers, Request(h)
  PROVE  TypeOK'
<1>0. /\ uploads \in Uploads /\ file \in Uploads /\ MaxUploads \in Nat
      /\ work \in [Handlers -> HandlerType]
  BY DocumentConstants DEF TypeOK
<1>1. CASE Upload(h)
  <2> DEFINE n == uploads + 1
             w == [Idle EXCEPT !.op = "upload", !.pc = "store", !.file = n, !.prev = file]
  <2>1. /\ uploads < MaxUploads /\ uploads' = n /\ disk' = disk \union {n}
        /\ work' = [work EXCEPT ![h] = w]
        /\ UNCHANGED <<kind, file, flow, delivery, torn>>
    BY <1>1 DEF Upload, Becomes
  <2>2. n \in Uploads
    BY <1>0, <2>1 DEF Uploads
  <2> HIDE DEF n
  <2>3. w \in HandlerType
    BY <1>0, <2>2, IdleFacts DEF HandlerType
  <2> HIDE DEF w
  <2>4. work' \in [Handlers -> HandlerType]
    BY <1>0, <2>1, <2>3
  <2>. QED
    BY <2>1, <2>2, <2>4 DEF TypeOK, flow, delivery
<1>2. CASE OpenLink(h)
  <2> DEFINE w == [Idle EXCEPT !.op = "sign", !.pc = "sign", !.file = file]
  <2>1. work' = [work EXCEPT ![h] = w] /\ UNCHANGED tables
    BY <1>2 DEF OpenLink, Becomes
  <2>2. w \in HandlerType
    BY <1>0, IdleFacts DEF HandlerType
  <2>. QED
    BY <2>1, <2>2, TypeMoves
<1>3. CASE Remove(h)
  <2> DEFINE w == [Idle EXCEPT !.op = "remove", !.pc = "unset", !.prev = file]
  <2>1. work' = [work EXCEPT ![h] = w] /\ UNCHANGED tables
    BY <1>3 DEF Remove, Becomes
  <2>2. w \in HandlerType
    BY <1>0, IdleFacts DEF HandlerType
  <2>. QED
    BY <2>1, <2>2, TypeMoves
<1>4. ASSUME NEW v \in deciding, Decide(h, v) PROVE TypeOK'
  <2> DEFINE w == [Idle EXCEPT !.op = v, !.pc = "steps"]
  <2>1. work' = [work EXCEPT ![h] = w] /\ UNCHANGED tables
    BY <1>4 DEF Decide, Becomes
  <2>2. w \in HandlerType
    BY <1>4, IdleFacts DEF HandlerType, deciding
  <2>. QED
    BY <2>1, <2>2, TypeMoves
<1>. QED
  BY <1>1, <1>2, <1>3, <1>4 DEF Request

(* The end of a handler, well or not.                                      *)
LEMMA EndTyped ==
  ASSUME TypeOK, NEW h \in Handlers
  PROVE  /\ Catch(h) => TypeOK'
         /\ End(h) => /\ work' \in [Handlers -> HandlerType]
                      /\ disk' \subseteq Uploads /\ torn' \in BOOLEAN
         /\ Finish(h) => work' \in [Handlers -> HandlerType]
<1>1. Finish(h) => work' \in [Handlers -> HandlerType]
  BY IdleFacts DEF Finish, Becomes, TypeOK
<1>2. disk \subseteq Uploads /\ torn \in BOOLEAN /\ Tears(h) \in BOOLEAN
  BY DEF TypeOK, Tears
<1>3. ASSUME Catch(h) PROVE TypeOK'
  <2>1. /\ work' \in [Handlers -> HandlerType] /\ disk' \subseteq Uploads /\ torn' \in BOOLEAN
        /\ UNCHANGED <<kind, file, uploads, approval, steps, batches, asked, link, sent, signed,
                       copy, late>>
    BY <1>1, <1>2, <1>3 DEF Catch, flow, delivery
  <2>. QED
    BY <2>1 DEF TypeOK
<1>4. ASSUME End(h) PROVE disk' \subseteq Uploads /\ torn' \in BOOLEAN
  BY <1>2, <1>4 DEF End
<1>5. End(h) => Finish(h)
  BY DEF End
<1>. QED
  BY <1>1, <1>3, <1>4, <1>5

(* A handler goes on to its next statement.                                *)
LEMMA PcTyped ==
  ASSUME TypeOK, NEW h \in Handlers,
         NEW pc \in {"idle", "store", "clean", "approvers", "clear", "waive", "delete", "insert",
                     "mark", "commit", "steps", "step", "count", "load", "deliver", "sign",
                     "unset", "unlink"},
         GoTo(h, pc)
  PROVE  work' \in [Handlers -> HandlerType]
<1> DEFINE w == [work[h] EXCEPT !.pc = pc]
<1>1. work[h] \in HandlerType
  BY DEF TypeOK
<1>2. w \in HandlerType
  BY <1>1 DEF HandlerType
<1>3. work' = [work EXCEPT ![h] = w]
  BY DEF GoTo
<1>. QED
  BY <1>2, <1>3 DEF TypeOK

LEMMA NewStepsTyped ==
  ASSUME TypeOK, NEW n \in Nat
  PROVE  NewSteps(n) \subseteq StepType
BY DEF TypeOK, NewSteps, StepType

LEMMA IdsTyped == ASSUME TypeOK PROVE Ids(steps) \subseteq Nat \X Nat
BY DEF TypeOK, Ids, IdOf, StepType

LEMMA TypeUpload ==
  ASSUME TypeOK, NEW h \in Handlers, UploadStep(h)
  PROVE  TypeOK'
<1>0. /\ work[h] \in HandlerType /\ file \in Uploads /\ uploads \in Uploads /\ disk \subseteq Uploads
      /\ work \in [Handlers -> HandlerType] /\ steps \subseteq StepType /\ batches \in Nat
  BY DEF TypeOK
<1>1. CASE Store(h)
  <2>1. /\ file' = work[h].file /\ GoTo(h, "clean") /\ torn' = FALSE
        /\ UNCHANGED <<kind, disk, uploads, approval, steps, batches, asked, copy, late>>
    BY <1>1 DEF Store, flow, delivery
  <2>2. file' \in Uploads
    BY <1>0, <2>1 DEF HandlerType
  <2>3. link' \in BOOLEAN /\ signed' \in BOOLEAN /\ sent' \in Modes \union {"NO"}
    BY <1>1 DEF Store, delivery, TypeOK
  <2>4. work' \in [Handlers -> HandlerType]
    BY <2>1, PcTyped
  <2>. QED
    BY <2>1, <2>2, <2>3, <2>4 DEF TypeOK
<1>2. CASE Clean(h)
  <2> DEFINE w == [work[h] EXCEPT !.pc = "approvers", !.prev = 0]
  <2>1. /\ disk' = disk \ {work[h].prev} /\ work' = [work EXCEPT ![h] = w]
        /\ UNCHANGED <<kind, file, uploads, flow, delivery, torn>>
    BY <1>2 DEF Clean, Becomes
  <2>2. w \in HandlerType
    BY <1>0, IdleFacts DEF HandlerType
  <2> HIDE DEF w
  <2>3. work' \in [Handlers -> HandlerType] /\ disk' \subseteq Uploads
    BY <1>0, <2>1, <2>2
  <2>. QED
    BY <2>1, <2>3 DEF TypeOK, flow, delivery
<1>3. ASSUME NEW n \in Approvers, ReadApprovers(h, n) PROVE TypeOK'
  <2> DEFINE pc == IF n = 0 THEN "clear" ELSE "delete"
             w == [work[h] EXCEPT !.pc = pc, !.levels = n]
  <2>1. work' = [work EXCEPT ![h] = w] /\ UNCHANGED tables
    BY <1>3 DEF ReadApprovers, Becomes
  <2>2. pc \in {"clear", "delete"} /\ n \in Nat
    BY DocumentConstants
  <2> HIDE DEF pc
  <2>3. w \in HandlerType
    BY <1>0, <2>2 DEF HandlerType
  <2>. QED
    BY <2>1, <2>3, TypeMoves
<1>4. CASE ClearSteps(h)
  <2>1. /\ steps' = {} /\ GoTo(h, "waive")
        /\ UNCHANGED <<kind, files, approval, batches, asked, delivery, torn>>
    BY <1>4 DEF ClearSteps
  <2>2. work' \in [Handlers -> HandlerType]
    BY <2>1, PcTyped
  <2>. QED
    BY <2>1, <2>2 DEF TypeOK, files, delivery
<1>5. CASE Waive(h)
  <2>1. approval' = "NOT_REQUIRED" /\ UNCHANGED <<kind, file, uploads, steps, batches, asked, delivery>>
    BY <1>5 DEF Waive
  <2>2. work' \in [Handlers -> HandlerType] /\ disk' \subseteq Uploads /\ torn' \in BOOLEAN
    <3>1. CASE GoTo(h, "load") /\ UNCHANGED <<disk, torn>>
      BY <3>1, PcTyped DEF TypeOK
    <3>2. CASE End(h)
      BY <3>2, EndTyped
    <3>. QED
      BY <1>5, <3>1, <3>2 DEF Waive
  <2>. QED
    BY <2>1, <2>2 DEF TypeOK, delivery
<1>6. CASE DeleteSteps(h)
  <2> DEFINE i == Ids(steps)
             w == [work[h] EXCEPT !.pc = "insert", !.held = i]
  <2>1. work' = [work EXCEPT ![h] = w] /\ UNCHANGED tables
    BY <1>6 DEF DeleteSteps, Becomes
  <2>2. i \in SUBSET (Nat \X Nat)
    BY IdsTyped
  <2> HIDE DEF i
  <2>3. w \in HandlerType
    BY <1>0, <2>2 DEF HandlerType
  <2>. QED
    BY <2>1, <2>3, TypeMoves
<1>7. CASE InsertSteps(h)
  <2>1. CASE Catch(h)
    BY <2>1, EndTyped
  <2>2. CASE GoTo(h, "mark") /\ UNCHANGED tables
    <3>1. work' \in [Handlers -> HandlerType]
      BY <2>2, PcTyped
    <3>. QED
      BY <2>2, <3>1 DEF TypeOK, tables, files, flow, delivery
  <2>. QED
    BY <1>7, <2>1, <2>2 DEF InsertSteps
<1>8. CASE Start(h)
  <2>1. /\ steps' = Kept(h) \union NewSteps(work[h].levels) /\ batches' = batches + 1
        /\ approval' = "PENDING" /\ asked' = file /\ sent' = "NO" /\ End(h)
        /\ UNCHANGED <<kind, file, uploads, link, signed, copy, late>>
    BY <1>8 DEF Start
  <2>2. steps' \subseteq StepType
    BY <1>0, <2>1, NewStepsTyped DEF Kept, HandlerType
  <2>3. work' \in [Handlers -> HandlerType] /\ disk' \subseteq Uploads /\ torn' \in BOOLEAN
    BY <2>1, EndTyped
  <2>4. batches' \in Nat /\ asked' \in Uploads
    BY <1>0, <2>1
  <2>. QED
    BY <2>1, <2>2, <2>3, <2>4 DEF TypeOK
<1>. QED
  BY <1>1, <1>2, <1>3, <1>4, <1>5, <1>6, <1>7, <1>8 DEF UploadStep

(* A decision keeps the rows' type.                                        *)
LEMMA WrittenTyped ==
  ASSUME TypeOK, NEW h \in Handlers
  PROVE  Written(h) \subseteq StepType
<1> DEFINE v == IF work[h].op = "approve" THEN "APPROVED" ELSE "REJECTED"
<1>1. v \in {"APPROVED", "REJECTED"}
  OBVIOUS
<1>2. \A x \in steps : x \in StepType /\ [x EXCEPT !.status = v] \in StepType
  BY <1>1 DEF TypeOK, StepType
<1>. QED
  BY <1>2 DEF Written

LEMMA TypeDecide ==
  ASSUME TypeOK, NEW h \in Handlers, DecideStep(h) \/ Mark(h)
  PROVE  TypeOK'
<1>0. work[h] \in HandlerType /\ work \in [Handlers -> HandlerType] /\ steps \subseteq StepType
  BY DEF TypeOK
<1>1. ASSUME Finish(h), UNCHANGED tables PROVE TypeOK'
  BY <1>1, IdleFacts, TypeMoves DEF Finish, Becomes
<1>2. CASE PickStep(h)
  <2>1. ASSUME NEW x \in FirstPending, Becomes(h, [work[h] EXCEPT !.pc = "step", !.step = IdOf(x)]),
               UNCHANGED tables
        PROVE  TypeOK'
    <3> DEFINE i == IdOf(x)
               w == [work[h] EXCEPT !.pc = "step", !.step = i]
    <3>1. i \in Nat \X Nat
      BY <1>0 DEF FirstPending, Pending, IdOf, StepType
    <3> HIDE DEF i
    <3>2. w \in HandlerType
      BY <1>0, <3>1 DEF HandlerType
    <3>3. work' = [work EXCEPT ![h] = w]
      BY <2>1 DEF Becomes, i
    <3>. QED
      BY <2>1, <3>2, <3>3, TypeMoves
  <2>. QED
    BY <1>1, <1>2, <2>1 DEF PickStep
<1>3. CASE WriteStep(h)
  <2> DEFINE pc == IF work[h].op = "approve" THEN "count" ELSE "mark"
             w == [work[h] EXCEPT !.held = {work[h].step}, !.pc = pc]
  <2>1. CASE work[h].step \in Ids(steps)
    <3>1. work' = [work EXCEPT ![h] = w] /\ UNCHANGED tables
      BY <1>3, <2>1 DEF WriteStep, Becomes
    <3>2. pc \in {"count", "mark"}
      OBVIOUS
    <3> HIDE DEF pc
    <3>3. w \in HandlerType
      BY <1>0, <3>2 DEF HandlerType
    <3>. QED
      BY <3>1, <3>3, TypeMoves
  <2>2. CASE work[h].step \notin Ids(steps)
    BY <1>1, <1>3, <2>2 DEF WriteStep
  <2>. QED
    BY <2>1, <2>2
<1>4. CASE Count(h)
  <2>1. UNCHANGED <<kind, files, approval, batches, asked, delivery, torn>>
        /\ steps' \in {Written(h), steps}
    BY <1>4 DEF Count
  <2>2. work' \in [Handlers -> HandlerType]
    BY <1>4, EndTyped, PcTyped DEF Count
  <2>. QED
    BY <2>1, <2>2, WrittenTyped DEF TypeOK, files, delivery
<1>5. CASE Conclude(h)
  <2> DEFINE w == [Idle EXCEPT !.op = "approve", !.pc = "load"]
  <2>1. /\ steps' = Written(h) /\ approval' \in {"APPROVED", "REJECTED"}
        /\ Finish(h) \/ work' = [work EXCEPT ![h] = w]
        /\ UNCHANGED <<kind, files, batches, asked, delivery, torn>>
    BY <1>5 DEF Conclude, Becomes
  <2>2. w \in HandlerType
    BY IdleFacts DEF HandlerType
  <2> HIDE DEF w
  <2>3. work' \in [Handlers -> HandlerType]
    BY <1>0, <2>1, <2>2, EndTyped
  <2>. QED
    BY <2>1, <2>3, WrittenTyped DEF TypeOK, files, delivery
<1>6. CASE Mark(h)
  <2> DEFINE w == [work[h] EXCEPT !.pc = "commit", !.owns = TRUE]
  <2>1. work' = [work EXCEPT ![h] = w] /\ UNCHANGED tables
    BY <1>6 DEF Mark, Becomes
  <2>2. w \in HandlerType
    BY <1>0 DEF HandlerType
  <2>. QED
    BY <2>1, <2>2, TypeMoves
<1>. QED
  BY <1>2, <1>3, <1>4, <1>5, <1>6 DEF DecideStep

LEMMA TypeRest ==
  ASSUME TypeOK, NEW h \in Handlers,
         \/ Load(h) \/ (\E mode \in Modes : Deliver(h, mode))
         \/ Sign(h) \/ Unset(h) \/ Unlink(h) \/ Fail(h) \/ Crash(h)
  PROVE  TypeOK'
<1>0. /\ work[h] \in HandlerType /\ work \in [Handlers -> HandlerType] /\ file \in Uploads
      /\ disk \subseteq Uploads
  BY DEF TypeOK
<1>1. CASE Load(h)
  <2> DEFINE w == [work[h] EXCEPT !.pc = "deliver", !.prev = file]
  <2>1. CASE work' = [work EXCEPT ![h] = w] /\ UNCHANGED tables
    <3>1. w \in HandlerType
      BY <1>0 DEF HandlerType
    <3>. QED
      BY <2>1, <3>1, TypeMoves
  <2>. QED
    BY <1>1, <2>1, EndTyped DEF Load, Becomes
<1>2. ASSUME NEW mode \in Modes, Deliver(h, mode) PROVE TypeOK'
  <2>1. CASE Catch(h)
    BY <2>1, EndTyped
  <2>2. CASE ~Catch(h)
    <3>1. /\ sent' = mode /\ link' = (mode = "DIGITAL_SIGNATURE") /\ End(h)
          /\ UNCHANGED <<kind, file, uploads, flow, signed, copy, late>>
      BY <1>2, <2>2 DEF Deliver
    <3>2. work' \in [Handlers -> HandlerType] /\ disk' \subseteq Uploads /\ torn' \in BOOLEAN
      BY <3>1, EndTyped
    <3>. QED
      BY <3>1, <3>2 DEF TypeOK, flow
  <2>. QED
    BY <2>1, <2>2
<1>3. CASE Sign(h)
  <2>1. /\ signed' = TRUE /\ copy' = work[h].file /\ late' = (work[h].file # file) /\ Finish(h)
        /\ UNCHANGED <<kind, files, flow, link, sent, torn>>
    BY <1>3 DEF Sign
  <2>2. copy' \in Uploads /\ late' \in BOOLEAN
    BY <1>0, <2>1 DEF HandlerType
  <2>3. work' \in [Handlers -> HandlerType]
    BY <2>1, EndTyped
  <2>. QED
    BY <2>1, <2>2, <2>3 DEF TypeOK, files, flow
<1>4. CASE Unset(h)
  <2>1. /\ file' = 0 /\ torn' = FALSE /\ GoTo(h, "unlink")
        /\ UNCHANGED <<kind, disk, uploads, flow, delivery>>
    BY <1>4 DEF Unset
  <2>2. file' \in Uploads
    BY <2>1, IdleFacts DEF HandlerType
  <2>3. work' \in [Handlers -> HandlerType]
    BY <2>1, PcTyped
  <2>. QED
    BY <2>1, <2>2, <2>3 DEF TypeOK, flow, delivery
<1>5. CASE Unlink(h)
  <2>1. /\ disk' = disk \ {work[h].prev} /\ Finish(h)
        /\ UNCHANGED <<kind, file, uploads, flow, delivery, torn>>
    BY <1>5 DEF Unlink
  <2>2. disk' \subseteq Uploads /\ work' \in [Handlers -> HandlerType]
    BY <1>0, <2>1, EndTyped
  <2>. QED
    BY <2>1, <2>2 DEF TypeOK, flow, delivery
<1>6. CASE Fail(h)
  BY <1>6, EndTyped DEF Fail
<1>7. CASE Crash(h)
  <2>1. /\ torn' \in BOOLEAN /\ Finish(h) /\ UNCHANGED <<kind, files, flow, delivery>>
    BY <1>7 DEF Crash, Tears, TypeOK
  <2>2. work' \in [Handlers -> HandlerType]
    BY <2>1, EndTyped
  <2>. QED
    BY <2>1, <2>2 DEF TypeOK, files, flow, delivery
<1>. QED
  BY <1>1, <1>2, <1>3, <1>4, <1>5, <1>6, <1>7

LEMMA TypeNext == ASSUME TypeOK, [Next]_vars PROVE TypeOK'
<1>1. CASE UNCHANGED vars
  BY <1>1 DEF vars, tables, files, flow, delivery, TypeOK
<1>2. ASSUME NEW h \in Handlers, Request(h) \/ HandlerStep(h) \/ Fail(h) \/ Crash(h) PROVE TypeOK'
  BY <1>2, TypeRequest, TypeUpload, TypeDecide, TypeRest DEF HandlerStep
<1>. QED
  BY <1>1, <1>2 DEF Next
-----------------------------------------------------------------------------
(* Files.                                                                  *)

(* A step that leaves the row's file alone, and of the files deletes none  *)
(* that another upload is about to name.                                   *)
LEMMA FilesStep ==
  ASSUME TypeOK, FilesInv, UNCHANGED <<file, uploads>>, NamedFileStored',
         NEW h \in Handlers, NEW w, work' = [work EXCEPT ![h] = w],
         w.op = "upload" => work[h].op = "upload" /\ w.file = work[h].file,
         Storing(w) => Storing(work[h]) /\ w.file \in disk',
         \A g \in Handlers \ {h} : Storing(work[g]) => work[g].file \in disk',
         w.file \in {work[h].file, file, 0}, w.prev \in {work[h].prev, file, 0},
         w.pc \in {"clean", "unlink"} => w.prev # file \/ file = 0
  PROVE  FilesInv'
<1>1. \A g \in Handlers : work'[g] = IF g = h THEN w ELSE work[g]
  BY Moved
<1>2. /\ file <= uploads /\ uploads \in Nat /\ file \in Nat
      /\ \A g \in Handlers : FileStands(work[g])
      /\ work[h].file \in Nat /\ work[h].prev \in Nat
  BY DocumentConstants DEF FilesInv, TypeOK, Uploads, HandlerType
<1>3. ASSUME NEW g \in Handlers PROVE FileStands(work[g])'
  <2>1. CASE g # h
    BY <1>1, <1>2, <2>1 DEF FileStands, Storing
  <2>2. CASE g = h
    <3>1. w.file <= uploads /\ w.prev <= uploads
      BY <1>2 DEF FileStands
    <3>2. w.op = "upload" => w.file # 0
      BY <1>2 DEF FileStands
    <3>3. Storing(w) => w.file \in disk' /\ w.file # file
      BY <1>2 DEF FileStands, Storing
    <3>4. work'[g] = w
      BY <1>1, <2>2
    <3>. QED
      BY <3>1, <3>2, <3>3, <3>4 DEF FileStands, Storing
  <2>. QED
    BY <2>1, <2>2
<1>4. FilesApart'
  <2>. SUFFICES ASSUME NEW g \in Handlers, NEW f \in Handlers
                PROVE  /\ Storing(work'[g]) => work'[f].prev # work'[g].file
                       /\ g # f /\ work'[g].op = "upload" /\ work'[f].op = "upload"
                            => work'[g].file # work'[f].file
    BY DEF FilesApart, Storing
  <2>1. Storing(work'[g]) => Storing(work[g]) /\ work'[g].file = work[g].file
    BY <1>1 DEF Storing
  <2>2. Storing(work[g]) => work[f].prev # work[g].file /\ work[g].file # file /\ work[g].file # 0
    BY <1>2 DEF FilesInv, FilesApart, FileStands, Storing
  <2>3. work'[f].prev \in {work[f].prev, file, 0}
    BY <1>1
  <2>4. \A x \in {g, f} : work'[x].op = "upload" => work[x].op = "upload" /\ work'[x].file = work[x].file
    BY <1>1
  <2>5. g # f /\ work[g].op = "upload" /\ work[f].op = "upload" => work[g].file # work[f].file
    BY DEF FilesInv, FilesApart
  <2>. QED
    BY <2>1, <2>2, <2>3, <2>4, <2>5
<1>. QED
  BY <1>2, <1>3, <1>4 DEF FilesInv

(* A step that leaves all files alone.                                     *)
LEMMA FilesMove ==
  ASSUME TypeOK, FilesInv, UNCHANGED <<file, disk, uploads, torn>>,
         NEW h \in Handlers, NEW w, work' = [work EXCEPT ![h] = w],
         w.op = "upload" => work[h].op = "upload" /\ w.file = work[h].file,
         Storing(w) => Storing(work[h]),
         w.file \in {work[h].file, file, 0}, w.prev \in {work[h].prev, file, 0},
         w.pc \in {"clean", "unlink"} => w.prev # file \/ file = 0
  PROVE  FilesInv'
<1>1. NamedFileStored'
  BY DEF FilesInv, NamedFileStored
<1>2. \A g \in Handlers : Storing(work[g]) => work[g].file \in disk'
  BY DEF FilesInv, FileStands
<1>3. Storing(w) => Storing(work[h]) /\ w.file \in disk'
  BY <1>2 DEF Storing
<1>. QED
  BY <1>1, <1>2, <1>3, FilesStep

(* A handler goes on, with what it remembers of its files.                 *)
LEMMA FilesGo ==
  ASSUME TypeOK, FilesInv, UNCHANGED <<file, disk, uploads, torn>>,
         NEW h \in Handlers, NEW pc, pc \notin {"store", "clean", "unlink"},
         NEW n, NEW r, NEW i, Goes(h, pc, n, r, i)
  PROVE  FilesInv'
BY FilesMove DEF Goes, Storing

(* A handler ends, or its process stops: what an upload deletes is its own.*)
LEMMA FilesEnd ==
  ASSUME TypeOK, FilesInv, UNCHANGED <<file, uploads>>, NEW h \in Handlers, Finish(h),
         \/ UNCHANGED <<disk, torn>>
         \/ UNCHANGED disk /\ torn' = Tears(h)
         \/ work[h].op = "upload" /\ disk' = disk \ {work[h].file} /\ torn' = Tears(h)
  PROVE  FilesInv'
<1>1. work' = [work EXCEPT ![h] = Idle]
  BY DEF Finish, Becomes
<1>2. NamedFileStored'
  <2>1. torn => torn'
    BY DEF Tears
  <2>2. CASE file \in disk' \union {0} \/ torn
    BY <2>1, <2>2 DEF NamedFileStored
  <2>3. CASE ~(file \in disk' \union {0} \/ torn)
    <3>1. work[h].op = "upload" /\ file = work[h].file /\ torn' = Tears(h)
      BY <2>3 DEF FilesInv, NamedFileStored
    <3>2. work[h].pc # "store"
      BY <3>1 DEF FilesInv, FileStands, Storing
    <3>. QED
      BY <3>1, <3>2 DEF NamedFileStored, Tears
  <2>. QED
    BY <2>2, <2>3
<1>3. \A g \in Handlers \ {h} : Storing(work[g]) => work[g].file \in disk'
  BY DEF FilesInv, FilesApart, FileStands, Storing
<1>. QED
  BY <1>1, <1>2, <1>3, IdleFacts, FilesStep DEF Storing

LEMMA EndFacts ==
  ASSUME NEW h \in Handlers, Catch(h) \/ End(h)
  PROVE  /\ Finish(h)
         /\ \/ UNCHANGED <<disk, torn>>
            \/ UNCHANGED disk /\ torn' = Tears(h)
            \/ work[h].op = "upload" /\ disk' = disk \ {work[h].file} /\ torn' = Tears(h)
BY DEF Catch, End

(* The requests.                                                           *)
LEMMA FilesRequest ==
  ASSUME TypeOK, FilesInv, NEW h \in Handlers, Request(h)
  PROVE  FilesInv'
<1>0. work[h] \in HandlerType
  BY DEF TypeOK
<1>1. CASE Upload(h)
  <2> DEFINE n == uploads + 1
             w == [Idle EXCEPT !.op = "upload", !.pc = "store", !.file = n, !.prev = file]
  <2>1. uploads' = n /\ disk' = disk \union {n} /\ work' = [work EXCEPT ![h] = w] /\ UNCHANGED <<file, torn>>
    BY <1>1 DEF Upload, Becomes
  <2>2. w.op = "upload" /\ w.pc = "store" /\ w.file = n /\ w.prev = file
    BY IdleFacts DEF HandlerType
  <2> HIDE DEF w
  <2>3. \A g \in Handlers : work'[g] = IF g = h THEN w ELSE work[g]
    BY <2>1, Moved
  <2>4. uploads \in Nat /\ file \in Nat /\ file <= uploads
    BY DocumentConstants DEF FilesInv, TypeOK, Uploads
  <2>5. \A g \in Handlers : /\ FileStands(work[g]) /\ work[g].file \in Nat /\ work[g].prev \in Nat
                            /\ work[g].file <= uploads /\ work[g].prev <= uploads
    BY DocumentConstants DEF FilesInv, FileStands, TypeOK, HandlerType, Uploads
  <2>6. ASSUME NEW g \in Handlers PROVE FileStands(work[g])'
    <3>1. CASE g = h
      <4>1. n <= n /\ file <= n /\ n # 0 /\ n # file
        BY <2>4
      <4>. QED
        BY <2>1, <2>2, <2>3, <3>1, <4>1 DEF FileStands, Storing
    <3>2. CASE g # h
      <4>1. work[g].file <= n /\ work[g].prev <= n
        BY <2>4, <2>5
      <4>. QED
        BY <2>1, <2>3, <2>5, <3>2, <4>1 DEF FileStands, Storing
    <3>. QED
      BY <3>1, <3>2
  <2>7. FilesApart'
    <3>1. \A g \in Handlers : work[g].file # n /\ work[g].prev # n
      BY <2>4, <2>5
    <3>2. file # n
      BY <2>4
    <3>3. \A g, f \in Handlers :
            /\ Storing(work[g]) => work[f].prev # work[g].file
            /\ Storing(work[g]) => file # work[g].file
            /\ g # f /\ work[g].op = "upload" /\ work[f].op = "upload" => work[g].file # work[f].file
      BY DEF FilesInv, FilesApart, FileStands
    <3>. SUFFICES ASSUME NEW g \in Handlers, NEW f \in Handlers
                  PROVE  /\ Storing(work'[g]) => work'[f].prev # work'[g].file
                         /\ g # f /\ work'[g].op = "upload" /\ work'[f].op = "upload"
                              => work'[g].file # work'[f].file
      BY DEF FilesApart, Storing
    <3>4. CASE g = h
      BY <2>2, <2>3, <3>1, <3>2, <3>4
    <3>5. CASE g # h
      BY <2>2, <2>3, <3>1, <3>3, <3>5
    <3>. QED
      BY <3>4, <3>5
  <2>8. NamedFileStored' /\ file' <= uploads'
    BY <2>1, <2>4 DEF FilesInv, NamedFileStored
  <2>. QED
    BY <2>6, <2>7, <2>8 DEF FilesInv
<1>2. CASE OpenLink(h)
  <2> DEFINE w == [Idle EXCEPT !.op = "sign", !.pc = "sign", !.file = file]
  <2>1. work' = [work EXCEPT ![h] = w] /\ UNCHANGED <<file, disk, uploads, torn>>
    BY <1>2 DEF OpenLink, Becomes, tables, files
  <2>2. w.op = "sign" /\ w.pc = "sign" /\ w.file = file /\ w.prev = 0
    BY IdleFacts DEF HandlerType
  <2> HIDE DEF w
  <2>. QED
    BY <2>1, <2>2, FilesMove DEF Storing
<1>3. CASE Remove(h)
  <2> DEFINE w == [Idle EXCEPT !.op = "remove", !.pc = "unset", !.prev = file]
  <2>1. work' = [work EXCEPT ![h] = w] /\ UNCHANGED <<file, disk, uploads, torn>>
    BY <1>3 DEF Remove, Becomes, tables, files
  <2>2. w.op = "remove" /\ w.pc = "unset" /\ w.file = 0 /\ w.prev = file
    BY IdleFacts DEF HandlerType
  <2> HIDE DEF w
  <2>. QED
    BY <2>1, <2>2, FilesMove DEF Storing
<1>4. ASSUME NEW v \in deciding, Decide(h, v) PROVE FilesInv'
  <2> DEFINE w == [Idle EXCEPT !.op = v, !.pc = "steps"]
  <2>1. work' = [work EXCEPT ![h] = w] /\ UNCHANGED <<file, disk, uploads, torn>>
    BY <1>4 DEF Decide, Becomes, tables, files
  <2>2. w.op # "upload" /\ w.pc = "steps" /\ w.file = 0 /\ w.prev = 0
    BY <1>4, IdleFacts DEF HandlerType, deciding
  <2> HIDE DEF w
  <2>. QED
    BY <2>1, <2>2, FilesMove DEF Storing
<1>. QED
  BY <1>1, <1>2, <1>3, <1>4 DEF Request

(* The statements that touch files.                                        *)
LEMMA FilesWritten ==
  ASSUME TypeOK, FilesInv, NEW h \in Handlers, Store(h) \/ Clean(h) \/ Unset(h) \/ Unlink(h)
  PROVE  FilesInv'
<1>0. /\ work[h] \in HandlerType /\ FileStands(work[h]) /\ uploads \in Nat /\ file \in Nat
      /\ \A g \in Handlers : FileStands(work[g]) /\ work[g].file \in Nat /\ work[g].prev \in Nat
  BY DocumentConstants DEF FilesInv, TypeOK, HandlerType, Uploads
<1>1. ASSUME NEW pc, pc # "store", Goes(h, pc, work[h].levels, work[h].held, work[h].step),
             UNCHANGED <<disk, uploads>>, file' \in {0, work[h].file}, torn' = FALSE,
             file' # 0 => Storing(work[h]),
             pc \in {"clean", "unlink"} => work[h].prev # file' \/ file' = 0
      PROVE  FilesInv'
  <2>1. PICK w : /\ work' = [work EXCEPT ![h] = w]
                 /\ w.op = work[h].op /\ w.pc = pc /\ w.file = work[h].file /\ w.prev = work[h].prev
    BY <1>1 DEF Goes
  <2>2. \A g \in Handlers : work'[g] = IF g = h THEN w ELSE work[g]
    BY <2>1, Moved
  <2>3. file' = 0 \/ file' \in disk
    BY <1>0, <1>1 DEF FileStands
  <2>4. file' <= uploads /\ NamedFileStored'
    BY <1>0, <1>1, <2>3 DEF FileStands, NamedFileStored
  <2>5. \A g \in Handlers : Storing(work'[g]) => g # h /\ Storing(work[g]) /\ work'[g].file = work[g].file
    BY <1>1, <2>1, <2>2 DEF Storing
  <2>6. ASSUME NEW g \in Handlers PROVE FileStands(work[g])'
    <3>1. Storing(work'[g]) => work'[g].file \in disk /\ work'[g].file # file'
      <4>1. Storing(work'[g]) => /\ work[g].file \in disk /\ work[g].file # 0
                                 /\ Storing(work[h]) => work[g].file # work[h].file
        BY <1>0, <2>5 DEF FilesInv, FilesApart, FileStands, Storing
      <4>. QED
        BY <1>1, <2>5, <4>1
    <3>2. CASE g = h
      BY <1>0, <1>1, <2>1, <2>2, <3>1, <3>2 DEF FileStands, Storing
    <3>3. CASE g # h
      <4>1. work[g].pc \in {"clean", "unlink"} => work[g].prev # file' \/ file' = 0
        BY <1>1 DEF FilesInv, FilesApart
      <4>. QED
        BY <1>0, <1>1, <2>2, <3>1, <3>3, <4>1 DEF FileStands, Storing
    <3>. QED
      BY <3>2, <3>3
  <2>7. FilesApart'
    <3>1. \A g \in Handlers : /\ work'[g].prev = work[g].prev /\ work'[g].file = work[g].file
                              /\ work'[g].op = work[g].op
      BY <2>1, <2>2
    <3>. QED
      BY <2>5, <3>1 DEF FilesInv, FilesApart, Storing
  <2>. QED
    BY <1>1, <2>4, <2>6, <2>7 DEF FilesInv
<1>2. CASE Store(h)
  <2>1. /\ file' = work[h].file /\ torn' = FALSE /\ UNCHANGED <<disk, uploads>>
        /\ GoTo(h, "clean") /\ Storing(work[h])
    BY <1>2 DEF Store, At, Storing
  <2>2. work[h].prev # work[h].file
    BY <2>1 DEF FilesInv, FilesApart
  <2>3. Goes(h, "clean", work[h].levels, work[h].held, work[h].step)
    BY <2>1, Going
  <2>. QED
    BY <1>1, <2>1, <2>2, <2>3
<1>3. CASE Unset(h)
  <2>1. file' = 0 /\ torn' = FALSE /\ UNCHANGED <<disk, uploads>> /\ GoTo(h, "unlink")
    BY <1>3 DEF Unset
  <2>2. Goes(h, "unlink", work[h].levels, work[h].held, work[h].step)
    BY <2>1, Going
  <2>. QED
    BY <1>1, <2>1, <2>2
<1>4. ASSUME NEW w, work' = [work EXCEPT ![h] = w], UNCHANGED <<file, uploads, torn>>,
             disk' = disk \ {work[h].prev}, work[h].prev # file \/ file = 0,
             w.op = "upload" => work[h].op = "upload" /\ w.file = work[h].file,
             w.pc \notin {"store", "clean", "unlink"},
             w.file \in {work[h].file, 0}, w.prev = 0
      PROVE  FilesInv'
  <2>1. NamedFileStored'
    BY <1>4 DEF FilesInv, NamedFileStored
  <2>2. \A g \in Handlers : Storing(work[g]) => work[g].file \in disk'
    BY <1>0, <1>4 DEF FilesInv, FilesApart, FileStands
  <2>. QED
    BY <1>4, <2>1, <2>2, FilesStep DEF Storing
<1>5. CASE Clean(h)
  <2> DEFINE w == [work[h] EXCEPT !.pc = "approvers", !.prev = 0]
  <2>1. /\ work' = [work EXCEPT ![h] = w] /\ UNCHANGED <<file, uploads, torn>>
        /\ disk' = disk \ {work[h].prev} /\ work[h].pc = "clean"
    BY <1>5 DEF Clean, Becomes, At
  <2>2. w.op = work[h].op /\ w.pc = "approvers" /\ w.file = work[h].file /\ w.prev = 0
    BY <1>0 DEF HandlerType
  <2> HIDE DEF w
  <2>3. work[h].prev # file \/ file = 0
    BY <1>0, <2>1 DEF FileStands
  <2>. QED
    BY <1>4, <2>1, <2>2, <2>3
<1>6. CASE Unlink(h)
  <2>1. /\ work' = [work EXCEPT ![h] = Idle] /\ UNCHANGED <<file, uploads, torn>>
        /\ disk' = disk \ {work[h].prev} /\ work[h].pc = "unlink"
    BY <1>6 DEF Unlink, Finish, Becomes, At
  <2>2. work[h].prev # file \/ file = 0
    BY <1>0, <2>1 DEF FileStands
  <2>. QED
    BY <1>4, <2>1, <2>2, IdleFacts
<1>. QED
  BY <1>2, <1>3, <1>5, <1>6

(* All others.                                                             *)
LEMMA FilesOther ==
  ASSUME TypeOK, FilesInv, NEW h \in Handlers,
         \/ \E n \in Approvers : ReadApprovers(h, n)
         \/ ClearSteps(h) \/ Waive(h) \/ DeleteSteps(h) \/ InsertSteps(h) \/ Start(h)
         \/ DecideStep(h) \/ Mark(h) \/ Load(h) \/ (\E mode \in Modes : Deliver(h, mode))
         \/ Sign(h) \/ Fail(h) \/ Crash(h)
  PROVE  FilesInv'
<1>0. work[h] \in HandlerType
  BY DEF TypeOK
<1>1. ASSUME Catch(h) PROVE FilesInv'
  BY <1>1, EndFacts, FilesEnd DEF Catch
<1>2. ASSUME Finish(h), UNCHANGED <<file, disk, uploads, torn>> PROVE FilesInv'
  BY <1>2, FilesEnd
<1>3. ASSUME NEW pc, pc \notin {"store", "clean", "unlink"}, GoTo(h, pc),
             UNCHANGED <<file, disk, uploads, torn>>
      PROVE  FilesInv'
  <2>1. Goes(h, pc, work[h].levels, work[h].held, work[h].step)
    BY <1>3, Going
  <2>. QED
    BY <1>3, <2>1, FilesGo
<1>4. ASSUME NEW n \in Approvers, ReadApprovers(h, n) PROVE FilesInv'
  <2> DEFINE pc == IF n = 0 THEN "clear" ELSE "delete"
  <2>1. Becomes(h, [work[h] EXCEPT !.pc = pc, !.levels = n]) /\ UNCHANGED <<file, disk, uploads, torn>>
    BY <1>4 DEF ReadApprovers, tables, files
  <2>2. pc \notin {"store", "clean", "unlink"}
    OBVIOUS
  <2> HIDE DEF pc
  <2>3. Goes(h, pc, n, work[h].held, work[h].step)
    BY <2>1, Going
  <2>. QED
    BY <2>1, <2>2, <2>3, FilesGo
<1>5. CASE ClearSteps(h)
  BY <1>3, <1>5 DEF ClearSteps, files
<1>6. CASE Waive(h)
  <2>1. UNCHANGED <<file, uploads>>
    BY <1>6 DEF Waive
  <2>2. CASE GoTo(h, "load") /\ UNCHANGED <<disk, torn>>
    BY <1>3, <2>1, <2>2
  <2>3. CASE End(h)
    BY <2>1, <2>3, EndFacts, FilesEnd
  <2>. QED
    BY <1>6, <2>2, <2>3 DEF Waive
<1>7. CASE DeleteSteps(h)
  <2>1. Becomes(h, [work[h] EXCEPT !.pc = "insert", !.held = Ids(steps)])
        /\ UNCHANGED <<file, disk, uploads, torn>>
    BY <1>7 DEF DeleteSteps, tables, files
  <2>2. Goes(h, "insert", work[h].levels, Ids(steps), work[h].step)
    BY <2>1, Going
  <2>. QED
    BY <2>1, <2>2, FilesGo
<1>8. CASE InsertSteps(h)
  BY <1>1, <1>3, <1>8 DEF InsertSteps, tables, files
<1>9. CASE Start(h)
  BY <1>9, EndFacts, FilesEnd DEF Start
<1>10. CASE DecideStep(h)
  <2>1. UNCHANGED <<file, disk, uploads, torn>>
    BY <1>10 DEF DecideStep, PickStep, WriteStep, Count, Conclude, tables, files
  <2>2. ASSUME NEW x, Becomes(h, [work[h] EXCEPT !.pc = "step", !.step = IdOf(x)]) PROVE FilesInv'
    <3>1. Goes(h, "step", work[h].levels, work[h].held, IdOf(x))
      BY <2>2, Going
    <3>. QED
      BY <2>1, <3>1, FilesGo
  <2>3. ASSUME NEW r, NEW pc \in {"count", "mark"},
               Becomes(h, [work[h] EXCEPT !.held = r, !.pc = pc])
        PROVE  FilesInv'
    <3>1. Goes(h, pc, work[h].levels, r, work[h].step)
      BY <2>3, Going
    <3>. QED
      BY <2>1, <2>3, <3>1, FilesGo
  <2>4. CASE PickStep(h)
    BY <1>2, <2>1, <2>2, <2>4 DEF PickStep
  <2>5. CASE WriteStep(h)
    <3> DEFINE pc == IF work[h].op = "approve" THEN "count" ELSE "mark"
    <3>1. pc \in {"count", "mark"}
      OBVIOUS
    <3>2. Finish(h) \/ Becomes(h, [work[h] EXCEPT !.held = {work[h].step}, !.pc = pc])
      BY <2>5 DEF WriteStep
    <3> HIDE DEF pc
    <3>. QED
      BY <1>2, <2>1, <2>3, <3>1, <3>2
  <2>6. CASE Count(h)
    BY <1>2, <1>3, <2>1, <2>6 DEF Count
  <2>7. CASE Conclude(h)
    <3> DEFINE w == [Idle EXCEPT !.op = "approve", !.pc = "load"]
    <3>1. Finish(h) \/ work' = [work EXCEPT ![h] = w]
      BY <2>7 DEF Conclude, Becomes
    <3>2. w.op = "approve" /\ w.pc = "load" /\ w.file = 0 /\ w.prev = 0
      BY IdleFacts DEF HandlerType
    <3> HIDE DEF w
    <3>. QED
      BY <1>2, <2>1, <3>1, <3>2, FilesMove DEF Storing
  <2>. QED
    BY <1>10, <2>4, <2>5, <2>6, <2>7 DEF DecideStep
<1>11. CASE Mark(h)
  <2>1. Becomes(h, [work[h] EXCEPT !.pc = "commit", !.owns = TRUE])
        /\ UNCHANGED <<file, disk, uploads, torn>>
    BY <1>11 DEF Mark, tables, files
  <2>2. Goes(h, "commit", work[h].levels, work[h].held, work[h].step)
    BY <2>1, Going
  <2>. QED
    BY <2>1, <2>2, FilesGo
<1>12. CASE Load(h)
  <2> DEFINE w == [work[h] EXCEPT !.pc = "deliver", !.prev = file]
  <2>1. CASE work' = [work EXCEPT ![h] = w] /\ UNCHANGED <<file, disk, uploads, torn>>
    <3>1. w.op = work[h].op /\ w.pc = "deliver" /\ w.file = work[h].file /\ w.prev = file
      BY <1>0 DEF HandlerType
    <3> HIDE DEF w
    <3>. QED
      BY <2>1, <3>1, FilesMove DEF Storing
  <2>. QED
    BY <1>1, <1>12, <2>1 DEF Load, Becomes, tables, files
<1>13. ASSUME NEW mode \in Modes, Deliver(h, mode) PROVE FilesInv'
  <2>1. CASE Catch(h)
    BY <1>1, <2>1
  <2>2. CASE ~Catch(h)
    <3>1. End(h) /\ UNCHANGED <<file, uploads>>
      BY <1>13, <2>2 DEF Deliver
    <3>. QED
      BY <3>1, EndFacts, FilesEnd
  <2>. QED
    BY <2>1, <2>2
<1>14. CASE Sign(h)
  BY <1>2, <1>14 DEF Sign, files
<1>15. CASE Fail(h)
  BY <1>1, <1>15 DEF Fail
<1>16. CASE Crash(h)
  BY <1>16, FilesEnd DEF Crash, files
<1>. QED
  BY <1>4, <1>5, <1>6, <1>7, <1>8, <1>9, <1>10, <1>11, <1>12, <1>13, <1>14, <1>15, <1>16

LEMMA FilesNext == ASSUME TypeOK, FilesInv, [Next]_vars PROVE FilesInv'
<1>1. CASE UNCHANGED vars
  BY <1>1 DEF vars, tables, files, FilesInv, NamedFileStored, FilesApart, FileStands, Storing
<1>2. ASSUME NEW h \in Handlers, Request(h) \/ HandlerStep(h) \/ Fail(h) \/ Crash(h) PROVE FilesInv'
  BY <1>2, FilesRequest, FilesWritten, FilesOther DEF HandlerStep, UploadStep
<1>. QED
  BY <1>1, <1>2 DEF Next
-----------------------------------------------------------------------------
(* Signatures.                                                             *)

(* A handler keeps its kind of work; only Remove begins a removal.         *)
KeepsOp(h) == work'[h].op \in {work[h].op, "none"} /\ \A g \in Rivals(h) : work'[g] = work[g]

LEMMA OpKept ==
  ASSUME TypeOK, NEW h \in Handlers, HandlerStep(h) \/ Fail(h) \/ Crash(h)
  PROVE  KeepsOp(h)
<1>0. work[h] \in HandlerType /\ work \in [Handlers -> HandlerType]
  BY DEF TypeOK
<1>1. ASSUME NEW w, work' = [work EXCEPT ![h] = w], w.op \in {work[h].op, "none"} PROVE KeepsOp(h)
  BY <1>1, Moved DEF KeepsOp, Rivals
<1>2. ASSUME NEW pc, NEW n, NEW r, NEW i, Goes(h, pc, n, r, i) PROVE KeepsOp(h)
  BY <1>1, <1>2 DEF Goes
<1>3. ASSUME Finish(h) PROVE KeepsOp(h)
  BY <1>1, <1>3, IdleFacts DEF Finish, Becomes
<1>4. ASSUME NEW pc, GoTo(h, pc) PROVE KeepsOp(h)
  <2>1. Goes(h, pc, work[h].levels, work[h].held, work[h].step)
    BY <1>4, Going
  <2>. QED
    BY <1>2, <2>1
<1>5. Catch(h) \/ End(h) => Finish(h)
  BY DEF Catch, End
<1>6. CASE Clean(h)
  <2> DEFINE w == [work[h] EXCEPT !.pc = "approvers", !.prev = 0]
  <2>1. work' = [work EXCEPT ![h] = w] /\ w.op = work[h].op
    BY <1>0, <1>6 DEF Clean, Becomes, HandlerType
  <2> HIDE DEF w
  <2>. QED
    BY <1>1, <2>1
<1>7. ASSUME NEW n \in Approvers, ReadApprovers(h, n) PROVE KeepsOp(h)
  <2> DEFINE pc == IF n = 0 THEN "clear" ELSE "delete"
  <2>1. Becomes(h, [work[h] EXCEPT !.pc = pc, !.levels = n])
    BY <1>7 DEF ReadApprovers
  <2> HIDE DEF pc
  <2>2. Goes(h, pc, n, work[h].held, work[h].step)
    BY <2>1, Going
  <2>. QED
    BY <1>2, <2>2
<1>8. CASE DeleteSteps(h)
  <2>1. Becomes(h, [work[h] EXCEPT !.pc = "insert", !.held = Ids(steps)])
    BY <1>8 DEF DeleteSteps
  <2>2. Goes(h, "insert", work[h].levels, Ids(steps), work[h].step)
    BY <2>1, Going
  <2>. QED
    BY <1>2, <2>2
<1>9. CASE PickStep(h)
  <2>1. ASSUME NEW x, Becomes(h, [work[h] EXCEPT !.pc = "step", !.step = IdOf(x)]) PROVE KeepsOp(h)
    <3>1. Goes(h, "step", work[h].levels, work[h].held, IdOf(x))
      BY <2>1, Going
    <3>. QED
      BY <1>2, <3>1
  <2>. QED
    BY <1>3, <1>9, <2>1 DEF PickStep
<1>10. CASE WriteStep(h)
  <2> DEFINE pc == IF work[h].op = "approve" THEN "count" ELSE "mark"
  <2>1. Finish(h) \/ Becomes(h, [work[h] EXCEPT !.held = {work[h].step}, !.pc = pc])
    BY <1>10 DEF WriteStep
  <2> HIDE DEF pc
  <2>2. CASE Becomes(h, [work[h] EXCEPT !.held = {work[h].step}, !.pc = pc])
    <3>1. Goes(h, pc, work[h].levels, {work[h].step}, work[h].step)
      BY <2>2, Going
    <3>. QED
      BY <1>2, <3>1
  <2>. QED
    BY <1>3, <2>1, <2>2
<1>11. CASE Conclude(h)
  <2> DEFINE w == [Idle EXCEPT !.op = "approve", !.pc = "load"]
  <2>1. CASE work[h].op = "approve"
    <3>1. work' = [work EXCEPT ![h] = w] /\ w.op = work[h].op
      BY <1>11, <2>1, IdleFacts DEF Conclude, Becomes, HandlerType
    <3> HIDE DEF w
    <3>. QED
      BY <1>1, <3>1
  <2>2. CASE work[h].op # "approve"
    BY <1>3, <1>11, <2>2 DEF Conclude
  <2>. QED
    BY <2>1, <2>2
<1>12. CASE Mark(h)
  <2>1. Becomes(h, [work[h] EXCEPT !.pc = "commit", !.owns = TRUE])
    BY <1>12 DEF Mark
  <2>2. Goes(h, "commit", work[h].levels, work[h].held, work[h].step)
    BY <2>1, Going
  <2>. QED
    BY <1>2, <2>2
<1>13. CASE Load(h)
  <2> DEFINE w == [work[h] EXCEPT !.pc = "deliver", !.prev = file]
  <2>1. CASE work' = [work EXCEPT ![h] = w]
    <3>1. w.op = work[h].op
      BY <1>0 DEF HandlerType
    <3> HIDE DEF w
    <3>. QED
      BY <1>1, <2>1, <3>1
  <2>. QED
    BY <1>3, <1>5, <1>13, <2>1 DEF Load, Becomes
<1>14. CASE Store(h) \/ ClearSteps(h) \/ Waive(h) \/ InsertSteps(h) \/ Start(h) \/ Count(h)
              \/ Sign(h) \/ Unset(h) \/ Unlink(h) \/ Fail(h) \/ Crash(h)
  <2>1. (\E pc : GoTo(h, pc)) \/ Finish(h)
    BY <1>5, <1>14 DEF Store, ClearSteps, Waive, InsertSteps, Start, Count, Sign, Unset, Unlink,
                       Fail, Crash
  <2>. QED
    BY <1>3, <1>4, <2>1
<1>15. ASSUME NEW mode \in Modes, Deliver(h, mode) PROVE KeepsOp(h)
  BY <1>3, <1>5, <1>15 DEF Deliver
<1>. QED
  BY <1>6, <1>7, <1>8, <1>9, <1>10, <1>11, <1>12, <1>13, <1>14, <1>15
     DEF HandlerStep, UploadStep, DecideStep

(* Only a signing and a new file touch what a signature is about.          *)
LEMMA SignatureNext == ASSUME TypeOK, SignatureInv, [Next]_vars PROVE SignatureInv'
<1>1. CASE UNCHANGED vars
  BY <1>1 DEF vars, tables, files, delivery, SignatureInv, SignatureIsOfTheContract
<1>2. ASSUME NEW h \in Handlers, Request(h) PROVE SignatureInv'
  <2>1. UNCHANGED <<kind, file, signed, copy, late>>
    BY <1>2 DEF Request, Upload, OpenLink, Remove, Decide, tables, files, delivery
  <2>2. ASSUME NEW g \in Handlers, work'[g].op = "remove" PROVE kind = "letter"
    <3>1. CASE Remove(h)
      BY <3>1 DEF Remove
    <3>2. ASSUME NEW w, work' = [work EXCEPT ![h] = w], w.op # "remove" PROVE kind = "letter"
      BY <2>2, <3>2, Moved DEF SignatureInv
    <3>3. CASE Upload(h)
      <4> DEFINE w == [Idle EXCEPT !.op = "upload", !.pc = "store", !.file = uploads + 1, !.prev = file]
      <4>1. work' = [work EXCEPT ![h] = w] /\ w.op = "upload"
        BY <3>3, IdleFacts DEF Upload, Becomes, HandlerType
      <4> HIDE DEF w
      <4>. QED
        BY <3>2, <4>1
    <3>4. CASE OpenLink(h)
      <4> DEFINE w == [Idle EXCEPT !.op = "sign", !.pc = "sign", !.file = file]
      <4>1. work' = [work EXCEPT ![h] = w] /\ w.op = "sign"
        BY <3>4, IdleFacts DEF OpenLink, Becomes, HandlerType
      <4> HIDE DEF w
      <4>. QED
        BY <3>2, <4>1
    <3>5. ASSUME NEW v \in deciding, Decide(h, v) PROVE kind = "letter"
      <4> DEFINE w == [Idle EXCEPT !.op = v, !.pc = "steps"]
      <4>1. work' = [work EXCEPT ![h] = w] /\ w.op # "remove"
        BY <3>5, IdleFacts DEF Decide, Becomes, HandlerType, deciding
      <4> HIDE DEF w
      <4>. QED
        BY <3>2, <4>1
    <3>. QED
      BY <1>2, <3>1, <3>3, <3>4, <3>5 DEF Request
  <2>. QED
    BY <2>1, <2>2 DEF SignatureInv, SignatureIsOfTheContract
<1>3. ASSUME NEW h \in Handlers, HandlerStep(h) \/ Fail(h) \/ Crash(h) PROVE SignatureInv'
  <2>1. kind' = kind
    BY <1>3 DEF HandlerStep, UploadStep, DecideStep, Store, Clean, ReadApprovers, ClearSteps, Waive,
                DeleteSteps, InsertSteps, Start, PickStep, WriteStep, Count, Conclude, Mark, Load,
                Deliver, Sign, Unset, Unlink, Fail, Crash, Catch, tables
  <2>2. \A g \in Handlers : work'[g].op = "remove" => kind = "letter"
    BY <1>3, OpKept DEF SignatureInv, KeepsOp, Rivals
  <2>3. SignatureIsOfTheContract'
    <3>1. CASE Store(h)
      <4>1. CASE kind = "contract"
        BY <2>1, <3>1, <4>1 DEF Store, SignatureIsOfTheContract
      <4>2. CASE kind # "contract"
        BY <2>1, <4>2 DEF SignatureIsOfTheContract
      <4>. QED
        BY <4>1, <4>2
    <3>2. CASE Unset(h)
      BY <2>1, <3>2 DEF Unset, At, SignatureInv, SignatureIsOfTheContract
    <3>3. CASE Sign(h)
      BY <3>3 DEF Sign, files, SignatureIsOfTheContract
    <3>4. CASE UNCHANGED <<file, signed, copy, late>>
      BY <2>1, <3>4 DEF SignatureInv, SignatureIsOfTheContract
    <3>5. Store(h) \/ Unset(h) \/ Sign(h) \/ UNCHANGED <<file, signed, copy, late>>
      BY <1>3 DEF HandlerStep, UploadStep, DecideStep, Clean, ReadApprovers, ClearSteps, Waive,
                  DeleteSteps, InsertSteps, Start, PickStep, WriteStep, Count, Conclude, Mark, Load,
                  Deliver, Unlink, Fail, Crash, Catch, tables, files, delivery
    <3>. QED
      BY <3>1, <3>2, <3>3, <3>4, <3>5
  <2>. QED
    BY <2>1, <2>2, <2>3 DEF SignatureInv
<1>. QED
  BY <1>1, <1>2, <1>3 DEF Next
-----------------------------------------------------------------------------
(* Steps.                                                                  *)

(* A step that leaves the rows alone and approves nothing.                 *)
LEMMA StepsMove ==
  ASSUME TypeOK, StepsInv, UNCHANGED <<steps, batches>>, approval' = approval \/ approval' # "APPROVED",
         NEW h \in Handlers, NEW w, work' = [work EXCEPT ![h] = w],
         StepStands(w),
         w.held \in {{}, work[h].held} \/ StepsFree(h, w.held),
         w.op = "upload" /\ w.pc \in {"mark", "commit"}
            => Inserting(h) \/ \A g \in Rivals(h) : ~Inserting(g)
  PROVE  StepsInv'
<1>1. \A g \in Handlers : work'[g] = IF g = h THEN w ELSE work[g]
  BY Moved
<1>2. ApprovedHasNoPending' /\ DecidedInOrder' /\ StepsTogether'
  BY DEF StepsInv, ApprovedHasNoPending, DecidedInOrder, StepsTogether, Pending
<1>3. \A g \in Handlers : StepStands(work[g])'
  BY <1>1 DEF StepsInv, StepStands, Pending, Ids, IdOf, deciding
<1>4. StepsApart'
  <2>. SUFFICES ASSUME NEW g \in Handlers, NEW f \in Handlers, g # f
                PROVE  work'[g].held \intersect work'[f].held = {} /\ ~(Inserting(g)' /\ Inserting(f)')
    BY DEF StepsApart
  <2>1. \A a, b \in Handlers : a # b => /\ work[a].held \intersect work[b].held = {}
                                        /\ ~(Inserting(a) /\ Inserting(b))
    BY DEF StepsInv, StepsApart
  <2>2. \A a \in Rivals(h) : work[a].held \intersect w.held = {}
    BY <2>1 DEF StepsFree, Rivals
  <2>3. Inserting(h)' => Inserting(h) \/ \A a \in Rivals(h) : ~Inserting(a)
    BY <1>1 DEF Inserting
  <2>4. \A a \in Rivals(h) : Inserting(a)' = Inserting(a)
    BY <1>1 DEF Inserting, Rivals
  <2>5. \A a \in Rivals(h) : work'[a] = work[a]
    BY <1>1 DEF Rivals
  <2>6. work'[h] = w
    BY <1>1
  <2>7. CASE g = h
    BY <2>1, <2>2, <2>3, <2>4, <2>5, <2>6, <2>7 DEF Rivals
  <2>8. CASE f = h
    BY <2>1, <2>2, <2>3, <2>4, <2>5, <2>6, <2>8 DEF Rivals
  <2>9. CASE g # h /\ f # h
    BY <2>1, <2>4, <2>5, <2>9 DEF Rivals
  <2>. QED
    BY <2>7, <2>8, <2>9
<1>. QED
  BY <1>2, <1>3, <1>4 DEF StepsInv

(* Most statements promise nothing about rows.                             *)
LEMMA StepsQuiet ==
  ASSUME TypeOK, StepsInv, UNCHANGED <<steps, batches>>, approval' = approval \/ approval' # "APPROVED",
         NEW h \in Handlers, NEW w, work' = [work EXCEPT ![h] = w],
         w.pc \notin {"delete", "insert", "mark", "commit", "step", "count"},
         w.held \in {{}, work[h].held}
  PROVE  StepsInv'
<1>1. StepStands(w)
  BY DEF StepStands
<1>. QED
  BY <1>1, StepsMove

LEMMA StepsQuietGo ==
  ASSUME TypeOK, StepsInv, UNCHANGED <<steps, batches>>, approval' = approval \/ approval' # "APPROVED",
         NEW h \in Handlers, NEW pc, GoTo(h, pc),
         pc \notin {"delete", "insert", "mark", "commit", "step", "count"}
  PROVE  StepsInv'
<1>1. Goes(h, pc, work[h].levels, work[h].held, work[h].step)
  BY Going
<1>2. PICK w : work' = [work EXCEPT ![h] = w] /\ w.pc = pc /\ w.held = work[h].held
  BY <1>1 DEF Goes
<1>. QED
  BY <1>2, StepsQuiet

LEMMA StepsFinish ==
  ASSUME TypeOK, StepsInv, UNCHANGED <<steps, batches>>, approval' = approval \/ approval' # "APPROVED",
         NEW h \in Handlers, Finish(h)
  PROVE  StepsInv'
<1>1. work' = [work EXCEPT ![h] = Idle]
  BY DEF Finish, Becomes
<1>. QED
  BY <1>1, IdleFacts, StepsQuiet

(* A handler goes on and claims something about rows.                      *)
LEMMA StepsClaim ==
  ASSUME TypeOK, StepsInv, UNCHANGED <<steps, batches, approval>>,
         NEW h \in Handlers, NEW pc, NEW n, NEW r, NEW i, Goes(h, pc, n, r, i),
         StepStands([op |-> work[h].op, pc |-> pc, levels |-> n, held |-> r, step |-> i]),
         r = work[h].held \/ StepsFree(h, r),
         work[h].op = "upload" /\ pc \in {"mark", "commit"}
            => Inserting(h) \/ \A g \in Rivals(h) : ~Inserting(g)
  PROVE  StepsInv'
<1> DEFINE c == [op |-> work[h].op, pc |-> pc, levels |-> n, held |-> r, step |-> i]
<1>1. PICK w : /\ work' = [work EXCEPT ![h] = w]
               /\ w.op = work[h].op /\ w.pc = pc /\ w.levels = n /\ w.held = r /\ w.step = i
  BY DEF Goes
<1>2. c.op = work[h].op /\ c.pc = pc /\ c.levels = n /\ c.held = r /\ c.step = i
  OBVIOUS
<1>3. StepStands(c)
  OBVIOUS
<1> HIDE DEF c
<1>4. StepStands(w)
  BY <1>1, <1>2, <1>3 DEF StepStands
<1>. QED
  BY <1>1, <1>4, StepsMove

(* The requests hold nothing.                                              *)
LEMMA StepsRequest ==
  ASSUME TypeOK, StepsInv, NEW h \in Handlers, Request(h)
  PROVE  StepsInv'
<1>0. UNCHANGED <<steps, batches, approval>>
  BY DEF Request, Upload, OpenLink, Remove, Decide, tables, flow
<1>1. ASSUME NEW w, work' = [work EXCEPT ![h] = w], w.held = {},
             w.pc \in {"store", "sign", "unset", "steps"}
      PROVE  StepsInv'
  BY <1>0, <1>1, StepsQuiet
<1>2. CASE Upload(h)
  <2> DEFINE n == uploads + 1
             w == [Idle EXCEPT !.op = "upload", !.pc = "store", !.file = n, !.prev = file]
  <2>1. work' = [work EXCEPT ![h] = w] /\ w.held = {} /\ w.pc = "store"
    BY <1>2, IdleFacts DEF Upload, Becomes, HandlerType
  <2> HIDE DEF w
  <2>. QED
    BY <1>1, <2>1
<1>3. CASE OpenLink(h)
  <2> DEFINE w == [Idle EXCEPT !.op = "sign", !.pc = "sign", !.file = file]
  <2>1. work' = [work EXCEPT ![h] = w] /\ w.held = {} /\ w.pc = "sign"
    BY <1>3, IdleFacts DEF OpenLink, Becomes, HandlerType
  <2> HIDE DEF w
  <2>. QED
    BY <1>1, <2>1
<1>4. CASE Remove(h)
  <2> DEFINE w == [Idle EXCEPT !.op = "remove", !.pc = "unset", !.prev = file]
  <2>1. work' = [work EXCEPT ![h] = w] /\ w.held = {} /\ w.pc = "unset"
    BY <1>4, IdleFacts DEF Remove, Becomes, HandlerType
  <2> HIDE DEF w
  <2>. QED
    BY <1>1, <2>1
<1>5. ASSUME NEW v \in deciding, Decide(h, v) PROVE StepsInv'
  <2> DEFINE w == [Idle EXCEPT !.op = v, !.pc = "steps"]
  <2>1. work' = [work EXCEPT ![h] = w] /\ w.held = {} /\ w.pc = "steps"
    BY <1>5, IdleFacts DEF Decide, Becomes, HandlerType
  <2> HIDE DEF w
  <2>. QED
    BY <1>1, <2>1
<1>. QED
  BY <1>2, <1>3, <1>4, <1>5 DEF Request

(* The rows are deleted, or replaced by those of one new start: whoever    *)
(* holds one of the old rows would stand in the way.                       *)
LEMMA StepsReplaced ==
  ASSUME TypeOK, StepsInv, NEW h \in Handlers, Finish(h) \/ GoTo(h, "waive"),
         \A g \in Rivals(h) : work[g].held \intersect Ids(steps) = {},
         \/ steps' = {} /\ batches' = batches /\ approval' = approval
         \/ /\ steps' = NewSteps(work[h].levels) /\ work[h].levels # 0
            /\ batches' = batches + 1 /\ approval' = "PENDING"
            /\ \A g \in Rivals(h) : ~Inserting(g)
  PROVE  StepsInv'
<1>0. /\ batches \in Nat /\ work[h] \in HandlerType /\ work[h].levels \in Nat
      /\ \A g \in Handlers : work[g] \in HandlerType /\ work[g].step[1] \in Nat
  BY DEF TypeOK, HandlerType
<1>1. PICK w : /\ \A g \in Handlers : work'[g] = IF g = h THEN w ELSE work[g]
               /\ w.pc \in {"idle", "waive"} /\ w.held \in {work[h].held, {}}
  <2>1. CASE Finish(h)
    BY <2>1, Moved, IdleFacts DEF Finish, Becomes
  <2>2. CASE GoTo(h, "waive")
    <3>1. Goes(h, "waive", work[h].levels, work[h].held, work[h].step)
      BY <2>2, Going
    <3>. QED
      BY <3>1, Moved DEF Goes
  <2>. QED
    BY <2>1, <2>2
<1>2. \A x \in steps' : /\ x.status = "PENDING" /\ x.batch = batches' /\ batches' = batches + 1
                        /\ x.seq \in Nat
  BY DEF NewSteps
<1>3. ApprovedHasNoPending' /\ DecidedInOrder'
  <2>1. approval' = "APPROVED" => Pending' = {}
    BY DEF StepsInv, ApprovedHasNoPending, Pending
  <2>2. DecidedInOrder'
    BY <1>2 DEF DecidedInOrder
  <2>. QED
    BY <2>1, <2>2 DEF ApprovedHasNoPending
<1>4. StepsTogether'
  <2>1. \A x, y \in steps' : x.seq = y.seq => x = y
    BY DEF NewSteps
  <2>2. steps' # {} => \E x \in steps' : x.seq = 1
    <3>1. CASE steps' = NewSteps(work[h].levels) /\ work[h].levels # 0
      <4>1. 1 \in 1..work[h].levels
        BY <1>0, <3>1
      <4>2. [batch |-> batches + 1, seq |-> 1, status |-> "PENDING"] \in steps'
        BY <3>1, <4>1 DEF NewSteps
      <4>. QED
        BY <4>2
    <3>. QED
      BY <3>1
  <2>. QED
    BY <1>2, <2>1, <2>2 DEF StepsTogether
<1>5. StepsApart'
  BY <1>1 DEF StepsInv, StepsApart, Inserting
<1>6. ASSUME NEW g \in Handlers PROVE StepStands(work[g])'
  <2>1. CASE g = h
    BY <1>1, <2>1 DEF StepStands
  <2>2. CASE g # h
    <3>0. work'[g] = work[g] /\ g \in Rivals(h)
      BY <1>1, <2>2 DEF Rivals
    <3>1. StepStands(work[g]) /\ work[g].held \intersect Ids(steps) = {}
      BY <3>0 DEF StepsInv
    <3>2. work[g].op = "upload" /\ work[g].pc \in {"mark", "commit"} => work[g].held = {} /\ steps' = {}
      BY <3>0, <3>1 DEF StepStands, Inserting
    <3>3. work[g].op = "upload" /\ work[g].pc = "insert" => work[g].held = {}
      BY <3>1 DEF StepStands
    <3>4. ~(work[g].op \in deciding /\ work[g].pc \in {"count", "mark", "commit"})
      BY <3>1 DEF StepStands
    <3>5. work[g].op \in deciding /\ work[g].pc = "step" =>
            /\ work[g].step[1] <= batches'
            /\ \A y \in steps' : y.batch # work[g].step[1]
      <4>1. work[g].op \in deciding /\ work[g].pc = "step" => work[g].step[1] <= batches
        BY <3>1 DEF StepStands
      <4>2. batches' \in {batches, batches + 1}
        OBVIOUS
      <4>. QED
        BY <1>0, <1>2, <4>1, <4>2
    <3>6. Ids({}) = {}
      BY DEF Ids
    <3>. QED
      BY <3>0, <3>1, <3>2, <3>3, <3>4, <3>5, <3>6 DEF StepStands, deciding
  <2>. QED
    BY <2>1, <2>2
<1>. QED
  BY <1>3, <1>4, <1>5, <1>6 DEF StepsInv

LEMMA StepsUpload ==
  ASSUME TypeOK, StepsInv, NEW h \in Handlers, UploadStep(h)
  PROVE  StepsInv'
<1>0. /\ work[h] \in HandlerType /\ work[h].levels \in Nat /\ StepStands(work[h])
      /\ steps \subseteq StepType
  BY DEF TypeOK, HandlerType, StepsInv
<1>1. CASE Store(h)
  <2>1. UNCHANGED <<steps, batches, approval>> /\ GoTo(h, "clean")
    BY <1>1 DEF Store, flow
  <2>. QED
    BY <2>1, StepsQuietGo
<1>2. CASE Clean(h)
  <2> DEFINE w == [work[h] EXCEPT !.pc = "approvers", !.prev = 0]
  <2>1. UNCHANGED <<steps, batches, approval>> /\ work' = [work EXCEPT ![h] = w]
    BY <1>2 DEF Clean, flow, Becomes
  <2>2. w.pc = "approvers" /\ w.held = work[h].held
    BY <1>0 DEF HandlerType
  <2> HIDE DEF w
  <2>. QED
    BY <2>1, <2>2, StepsQuiet
<1>3. ASSUME NEW n \in Approvers, ReadApprovers(h, n) PROVE StepsInv'
  <2> DEFINE pc == IF n = 0 THEN "clear" ELSE "delete"
             c == [op |-> work[h].op, pc |-> pc, levels |-> n, held |-> work[h].held, step |-> work[h].step]
  <2>1. Becomes(h, [work[h] EXCEPT !.pc = pc, !.levels = n]) /\ UNCHANGED <<steps, batches, approval>>
        /\ work[h].op = "upload"
    BY <1>3 DEF ReadApprovers, tables, flow, At
  <2>2. pc \in {"clear", "delete"} /\ (pc = "delete" => n # 0)
    OBVIOUS
  <2> HIDE DEF pc
  <2>3. Goes(h, pc, n, work[h].held, work[h].step)
    BY <2>1, Going
  <2>4. StepStands(c)
    BY <2>1, <2>2 DEF StepStands, deciding
  <2>. QED
    BY <2>1, <2>2, <2>3, <2>4, StepsClaim
<1>4. CASE ClearSteps(h)
  <2>1. \A g \in Rivals(h) : work[g].held \intersect Ids(steps) = {}
    BY <1>4 DEF ClearSteps, StepsFree
  <2>2. steps' = {} /\ batches' = batches /\ approval' = approval /\ GoTo(h, "waive")
    BY <1>4 DEF ClearSteps
  <2>. QED
    BY <2>1, <2>2, StepsReplaced
<1>5. CASE Waive(h)
  <2>1. /\ UNCHANGED <<steps, batches>> /\ approval' = "NOT_REQUIRED"
        /\ GoTo(h, "load") \/ Finish(h)
    BY <1>5 DEF Waive, End
  <2>2. CASE GoTo(h, "load")
    BY <2>1, <2>2, StepsQuietGo
  <2>3. CASE Finish(h)
    BY <2>1, <2>3, StepsFinish
  <2>. QED
    BY <2>1, <2>2, <2>3
<1>6. CASE DeleteSteps(h)
  <2> DEFINE c == [op |-> work[h].op, pc |-> "insert", levels |-> work[h].levels, held |-> Ids(steps),
                   step |-> work[h].step]
  <2>1. Becomes(h, [work[h] EXCEPT !.pc = "insert", !.held = Ids(steps)])
        /\ UNCHANGED <<steps, batches, approval>>
        /\ work[h].op = "upload" /\ work[h].pc = "delete" /\ StepsFree(h, Ids(steps))
    BY <1>6 DEF DeleteSteps, tables, flow, At
  <2>2. Goes(h, "insert", work[h].levels, Ids(steps), work[h].step)
    BY <2>1, Going
  <2>3. StepStands(c)
    BY <1>0, <2>1 DEF StepStands, deciding
  <2>. QED
    BY <2>1, <2>2, <2>3, StepsClaim
<1>7. CASE InsertSteps(h)
  <2>1. CASE Catch(h)
    BY <2>1, StepsFinish DEF Catch, flow
  <2>2. CASE ~Catch(h)
    <3> DEFINE c == [op |-> work[h].op, pc |-> "mark", levels |-> work[h].levels,
                     held |-> work[h].held, step |-> work[h].step]
    <3>1. /\ GoTo(h, "mark") /\ UNCHANGED <<steps, batches, approval>>
          /\ work[h].op = "upload" /\ work[h].pc = "insert"
          /\ \A g \in Rivals(h) : ~Inserting(g)
          /\ ~ \E x \in Kept(h) : x.seq <= work[h].levels
      BY <1>7, <2>2 DEF InsertSteps, tables, flow, At
    <3>2. work[h].levels # 0 /\ (work[h].held = {} \/ work[h].held = Ids(steps))
      BY <1>0, <3>1 DEF StepStands
    <3>3. work[h].held = {} => Kept(h) = steps
      BY DEF Kept
    <3>4. work[h].held = {} => steps = {}
      <4>1. \A x \in steps : x.seq = 1 => x.seq <= work[h].levels
        BY <1>0, <3>2
      <4>2. steps # {} => \E x \in steps : x.seq = 1
        BY DEF StepsInv, StepsTogether
      <4>. QED
        BY <3>1, <3>3, <4>1, <4>2
    <3>5. work[h].held = Ids(steps)
      BY <3>2, <3>4 DEF Ids
    <3>6. Goes(h, "mark", work[h].levels, work[h].held, work[h].step)
      BY <3>1, Going
    <3>7. StepStands(c)
      BY <3>1, <3>2, <3>5 DEF StepStands, deciding
    <3>. QED
      BY <3>1, <3>6, <3>7, StepsClaim
  <2>. QED
    BY <2>1, <2>2
<1>8. CASE Start(h)
  <2>1. /\ work[h].op = "upload" /\ work[h].pc = "commit" /\ Finish(h)
        /\ steps' = Kept(h) \union NewSteps(work[h].levels)
        /\ batches' = batches + 1 /\ approval' = "PENDING"
    BY <1>8 DEF Start, At, End
  <2>2. work[h].held = Ids(steps) /\ work[h].levels # 0
    BY <1>0, <2>1 DEF StepStands
  <2>3. Kept(h) = {}
    BY <2>2 DEF Kept, Ids
  <2>4. \A g \in Rivals(h) : work[g].held \intersect Ids(steps) = {} /\ ~Inserting(g)
    BY <2>1, <2>2 DEF StepsInv, StepsApart, Rivals, Inserting
  <2>. QED
    BY <2>1, <2>2, <2>3, <2>4, StepsReplaced
<1>. QED
  BY <1>1, <1>2, <1>3, <1>4, <1>5, <1>6, <1>7, <1>8 DEF UploadStep

(* What a verdict does to the rows: one of them, by its identity.          *)
LEMMA WrittenIs ==
  ASSUME TypeOK, NEW h \in Handlers
  PROVE  /\ Ids(Written(h)) = Ids(steps)
         /\ \A y \in Written(h) : \E x \in steps :
              /\ y.batch = x.batch /\ y.seq = x.seq
              /\ IdOf(x) = work[h].step => y.status # "PENDING"
              /\ IdOf(x) # work[h].step => y = x
         /\ \A x \in steps : \E y \in Written(h) : y.batch = x.batch /\ y.seq = x.seq
<1> DEFINE v == IF work[h].op = "approve" THEN "APPROVED" ELSE "REJECTED"
           new(x) == IF IdOf(x) = work[h].step THEN [x EXCEPT !.status = v] ELSE x
<1>1. Written(h) = {new(x) : x \in steps}
  BY DEF Written
<1>2. v # "PENDING"
  OBVIOUS
<1> HIDE DEF v
<1>3. ASSUME NEW x \in steps
      PROVE  /\ new(x).batch = x.batch /\ new(x).seq = x.seq
             /\ IdOf(x) = work[h].step => new(x).status # "PENDING"
             /\ IdOf(x) # work[h].step => new(x) = x
  <2>1. x \in StepType
    BY DEF TypeOK
  <2>. QED
    BY <1>2, <2>1 DEF StepType
<1> HIDE DEF new
<1>4. \A x \in steps : IdOf(new(x)) = IdOf(x)
  BY <1>3 DEF IdOf
<1>5. Ids(Written(h)) = Ids(steps)
  BY <1>1, <1>4 DEF Ids
<1>. QED
  BY <1>1, <1>3, <1>5

(* One row is decided by who holds it.                                     *)
LEMMA StepsDecided ==
  ASSUME TypeOK, StepsInv, NEW h \in Handlers,
         work[h].op \in deciding, work[h].pc \in {"count", "mark", "commit"},
         steps' = Written(h), batches' = batches,
         approval' = "APPROVED" => approval = "APPROVED" \/ \A x \in Pending : IdOf(x) = work[h].step,
         NEW w, work' = [work EXCEPT ![h] = w], w.held = {}, w.pc \in {"idle", "load"}
  PROVE  StepsInv'
<1>0. /\ StepStands(work[h])
      /\ \A y \in steps' : \E x \in steps :
              /\ y.batch = x.batch /\ y.seq = x.seq
              /\ IdOf(x) = work[h].step => y.status # "PENDING"
              /\ IdOf(x) # work[h].step => y = x
      /\ \A x \in steps : \E y \in steps' : y.batch = x.batch /\ y.seq = x.seq
      /\ Ids(steps') = Ids(steps)
  BY WrittenIs DEF StepsInv
<1>1. \A x \in steps : x.batch = batches /\ \A y \in steps : x.seq = y.seq => x = y
  BY DEF StepsInv, StepsTogether
<1>2. StepsTogether'
  <2>1. \A x \in steps' : x.batch = batches'
    BY <1>0, <1>1
  <2>2. ASSUME NEW x \in steps', NEW y \in steps', x.seq = y.seq PROVE x = y
    <3>1. PICK a \in steps : /\ x.batch = a.batch /\ x.seq = a.seq
                             /\ IdOf(a) # work[h].step => x = a
      BY <1>0
    <3>2. PICK b \in steps : /\ y.batch = b.batch /\ y.seq = b.seq
                             /\ IdOf(b) # work[h].step => y = b
      BY <1>0
    <3>3. a = b
      BY <1>1, <2>2, <3>1, <3>2
    <3>4. CASE IdOf(a) # work[h].step
      BY <3>1, <3>2, <3>3, <3>4
    <3>5. CASE IdOf(a) = work[h].step
      <4>1. \E c \in steps : x = [c EXCEPT !.status = IF work[h].op = "approve" THEN "APPROVED" ELSE "REJECTED"]
                             /\ c.seq = x.seq
        <5> DEFINE v == IF work[h].op = "approve" THEN "APPROVED" ELSE "REJECTED"
        <5>1. PICK c \in steps : x = IF IdOf(c) = work[h].step THEN [c EXCEPT !.status = v] ELSE c
          BY DEF Written
        <5>2. c \in StepType
          BY DEF TypeOK
        <5> HIDE DEF v
        <5>3. c.seq = x.seq
          BY <5>1, <5>2 DEF StepType
        <5>4. c = a
          BY <1>1, <3>1, <5>3
        <5>. QED
          BY <3>5, <5>1, <5>3, <5>4 DEF v
      <4>2. \E c \in steps : y = [c EXCEPT !.status = IF work[h].op = "approve" THEN "APPROVED" ELSE "REJECTED"]
                             /\ c.seq = y.seq
        <5> DEFINE v == IF work[h].op = "approve" THEN "APPROVED" ELSE "REJECTED"
        <5>1. PICK c \in steps : y = IF IdOf(c) = work[h].step THEN [c EXCEPT !.status = v] ELSE c
          BY DEF Written
        <5>2. c \in StepType
          BY DEF TypeOK
        <5> HIDE DEF v
        <5>3. c.seq = y.seq
          BY <5>1, <5>2 DEF StepType
        <5>4. c = a
          BY <1>1, <3>2, <3>3, <5>3
        <5>. QED
          BY <3>5, <5>1, <5>3, <5>4 DEF v
      <4>. QED
        BY <1>1, <2>2, <4>1, <4>2
    <3>. QED
      BY <3>4, <3>5
  <2>3. steps' # {} => \E x \in steps' : x.seq = 1
    BY <1>0 DEF StepsInv, StepsTogether
  <2>. QED
    BY <2>1, <2>2, <2>3 DEF StepsTogether
<1>3. ApprovedHasNoPending'
  <2>. SUFFICES ASSUME approval' = "APPROVED", NEW y \in steps', y.status = "PENDING" PROVE FALSE
    BY DEF ApprovedHasNoPending, Pending
  <2>1. PICK x \in steps : IdOf(x) # work[h].step /\ y = x
    BY <1>0
  <2>. QED
    BY <2>1 DEF StepsInv, ApprovedHasNoPending, Pending
<1>4. DecidedInOrder'
  <2>. SUFFICES ASSUME NEW x \in steps', NEW y \in steps', x.batch = y.batch, x.seq < y.seq,
                       y.status # "PENDING"
                PROVE  x.status # "PENDING"
    BY DEF DecidedInOrder
  <2>1. PICK a \in steps : /\ x.batch = a.batch /\ x.seq = a.seq
                           /\ IdOf(a) = work[h].step => x.status # "PENDING"
                           /\ IdOf(a) # work[h].step => x = a
    BY <1>0
  <2>2. PICK b \in steps : /\ y.batch = b.batch /\ y.seq = b.seq
                           /\ IdOf(b) # work[h].step => y = b
    BY <1>0
  <2>3. CASE IdOf(b) # work[h].step
    BY <2>1, <2>2, <2>3 DEF StepsInv, DecidedInOrder
  <2>4. CASE IdOf(b) = work[h].step
    <3>1. b.batch = work[h].step[1] /\ b.seq = work[h].step[2]
      BY <2>4 DEF IdOf
    <3>. QED
      BY <1>0, <2>1, <2>2, <3>1 DEF StepStands
  <2>. QED
    BY <2>3, <2>4
<1>5. \A g \in Handlers : work'[g] = IF g = h THEN w ELSE work[g]
  BY Moved
<1>6. StepsApart'
  BY <1>5 DEF StepsInv, StepsApart, Inserting
<1>7. ASSUME NEW g \in Handlers PROVE StepStands(work[g])'
  <2>1. CASE g = h
    BY <1>5, <2>1 DEF StepStands
  <2>2. CASE g # h
    <3>0. work'[g] = work[g] /\ StepStands(work[g])
      BY <1>5, <2>2 DEF StepsInv
    <3>1. work[g].op \in deciding /\ work[g].pc \in {"step", "count", "mark", "commit"} =>
            \A y \in steps' : y.batch = work[g].step[1] /\ y.seq < work[g].step[2] => y.status # "PENDING"
      BY <1>0, <3>0 DEF StepStands
    <3>2. work[g].op = "approve" /\ work[g].pc \in {"mark", "commit"} =>
            \A y \in Pending' : IdOf(y) = work[g].step
      <4>1. \A y \in Pending' : y \in Pending
        BY <1>0 DEF Pending
      <4>. QED
        BY <3>0, <4>1 DEF StepStands
    <3>. QED
      BY <1>0, <3>0, <3>1, <3>2 DEF StepStands, deciding
  <2>. QED
    BY <2>1, <2>2
<1>. QED
  BY <1>2, <1>3, <1>4, <1>6, <1>7 DEF StepsInv

LEMMA StepsDecide ==
  ASSUME TypeOK, StepsInv, NEW h \in Handlers, DecideStep(h) \/ Mark(h)
  PROVE  StepsInv'
<1>0. /\ work[h] \in HandlerType /\ StepStands(work[h]) /\ steps \subseteq StepType
  BY DEF TypeOK, StepsInv
<1>1. CASE PickStep(h)
  <2>1. UNCHANGED <<steps, batches, approval>> /\ work[h].op \in deciding
    BY <1>1 DEF PickStep, tables, flow
  <2>2. ASSUME NEW x \in FirstPending, Becomes(h, [work[h] EXCEPT !.pc = "step", !.step = IdOf(x)])
        PROVE  StepsInv'
    <3> DEFINE c == [op |-> work[h].op, pc |-> "step", levels |-> work[h].levels,
                     held |-> work[h].held, step |-> IdOf(x)]
    <3>1. Goes(h, "step", work[h].levels, work[h].held, IdOf(x))
      BY <2>2, Going
    <3>2. x \in steps /\ \A y \in Pending : x.seq <= y.seq
      BY DEF FirstPending, Pending
    <3>3. x.batch <= batches
      BY <1>0, <3>2 DEF StepsInv, StepsTogether, TypeOK
    <3>4. \A y \in steps : y.seq < x.seq => y.status # "PENDING"
      <4>1. \A y \in steps : y.seq \in Nat
        BY <1>0 DEF StepType
      <4>2. x.seq \in Nat
        BY <3>2, <4>1
      <4>. QED
        BY <3>2, <4>1, <4>2 DEF Pending
    <3>5. StepStands(c)
      <4>1. IdOf(x)[1] = x.batch /\ IdOf(x)[2] = x.seq
        BY DEF IdOf
      <4>2. /\ c.op \in deciding /\ c.op # "upload" /\ c.pc = "step"
            /\ c.step[1] = x.batch /\ c.step[2] = x.seq
        BY <2>1, <4>1 DEF deciding
      <4> HIDE DEF c
      <4>. QED
        BY <3>3, <3>4, <4>2 DEF StepStands
    <3>. QED
      BY <2>1, <3>1, <3>5, StepsClaim DEF deciding
  <2>. QED
    BY <1>1, <2>1, <2>2, StepsFinish DEF PickStep
<1>2. CASE WriteStep(h)
  <2>1. /\ UNCHANGED <<steps, batches, approval>> /\ work[h].op \in deciding /\ work[h].pc = "step"
        /\ StepsFree(h, {work[h].step})
    BY <1>2 DEF WriteStep, tables, flow
  <2>2. CASE work[h].step \notin Ids(steps)
    BY <1>2, <2>1, <2>2, StepsFinish DEF WriteStep
  <2>3. CASE work[h].step \in Ids(steps)
    <3> DEFINE pc == IF work[h].op = "approve" THEN "count" ELSE "mark"
               c == [op |-> work[h].op, pc |-> pc, levels |-> work[h].levels,
                     held |-> {work[h].step}, step |-> work[h].step]
    <3>1. Becomes(h, [work[h] EXCEPT !.held = {work[h].step}, !.pc = pc])
      BY <1>2, <2>3 DEF WriteStep
    <3>2. pc \in {"count", "mark"} /\ (work[h].op = "approve" => pc = "count")
      OBVIOUS
    <3> HIDE DEF pc
    <3>3. Goes(h, pc, work[h].levels, {work[h].step}, work[h].step)
      BY <3>1, Going
    <3>4. StepStands(c)
      BY <1>0, <2>1, <2>3, <3>2 DEF StepStands, deciding
    <3>. QED
      BY <2>1, <3>2, <3>3, <3>4, StepsClaim DEF deciding
  <2>. QED
    BY <2>2, <2>3
<1>3. CASE Count(h)
  <2>1. work[h].op = "approve" /\ work[h].pc = "count" /\ UNCHANGED <<batches, approval>>
    BY <1>3 DEF Count, At
  <2>2. CASE Ids(Pending) \ {work[h].step} # {}
    <3>1. steps' = Written(h) /\ work' = [work EXCEPT ![h] = Idle]
      BY <1>3, <2>2 DEF Count, Finish, Becomes
    <3>. QED
      BY <2>1, <3>1, IdleFacts, StepsDecided DEF deciding
  <2>3. CASE Ids(Pending) \ {work[h].step} = {}
    <3> DEFINE c == [op |-> work[h].op, pc |-> "mark", levels |-> work[h].levels,
                     held |-> work[h].held, step |-> work[h].step]
    <3>1. GoTo(h, "mark") /\ UNCHANGED steps
      BY <1>3, <2>3 DEF Count
    <3>2. Goes(h, "mark", work[h].levels, work[h].held, work[h].step)
      BY <3>1, Going
    <3>3. \A x \in Pending : IdOf(x) = work[h].step
      BY <2>3 DEF Ids
    <3>4. StepStands(c)
      BY <1>0, <2>1, <3>3 DEF StepStands, deciding
    <3>. QED
      BY <2>1, <3>1, <3>2, <3>4, StepsClaim
  <2>. QED
    BY <2>2, <2>3
<1>4. CASE Conclude(h)
  <2> DEFINE w == [Idle EXCEPT !.op = "approve", !.pc = "load"]
  <2>1. /\ work[h].op \in deciding /\ work[h].pc = "commit" /\ steps' = Written(h) /\ batches' = batches
    BY <1>4 DEF Conclude
  <2>2. CASE work[h].op = "approve"
    <3>1. \A x \in Pending : IdOf(x) = work[h].step
      BY <1>0, <2>1, <2>2 DEF StepStands
    <3>2. work' = [work EXCEPT ![h] = w] /\ w.held = {} /\ w.pc = "load"
      BY <1>4, <2>2, IdleFacts DEF Conclude, Becomes, HandlerType
    <3> HIDE DEF w
    <3>. QED
      BY <2>1, <3>1, <3>2, StepsDecided
  <2>3. CASE work[h].op # "approve"
    <3>1. approval' = "REJECTED" /\ work' = [work EXCEPT ![h] = Idle]
      BY <1>4, <2>3 DEF Conclude, Finish, Becomes
    <3>. QED
      BY <2>1, <3>1, IdleFacts, StepsDecided
  <2>. QED
    BY <2>2, <2>3
<1>5. CASE Mark(h)
  <2> DEFINE c == [op |-> work[h].op, pc |-> "commit", levels |-> work[h].levels,
                   held |-> work[h].held, step |-> work[h].step]
  <2>1. Becomes(h, [work[h] EXCEPT !.pc = "commit", !.owns = TRUE])
        /\ UNCHANGED <<steps, batches, approval>> /\ work[h].pc = "mark"
    BY <1>5 DEF Mark, tables, flow
  <2>2. Goes(h, "commit", work[h].levels, work[h].held, work[h].step)
    BY <2>1, Going
  <2>3. StepStands(c)
    BY <1>0, <2>1 DEF StepStands
  <2>4. work[h].op = "upload" => Inserting(h)
    BY <2>1 DEF Inserting
  <2>. QED
    BY <2>1, <2>2, <2>3, <2>4, StepsClaim
<1>. QED
  BY <1>1, <1>2, <1>3, <1>4, <1>5 DEF DecideStep

LEMMA StepsRest ==
  ASSUME TypeOK, StepsInv, NEW h \in Handlers,
         \/ Load(h) \/ (\E mode \in Modes : Deliver(h, mode))
         \/ Sign(h) \/ Unset(h) \/ Unlink(h) \/ Fail(h) \/ Crash(h)
  PROVE  StepsInv'
<1>0. UNCHANGED <<steps, batches, approval>>
  BY DEF Load, Deliver, Sign, Unset, Unlink, Fail, Crash, Catch, tables, flow
<1>1. CASE Finish(h)
  BY <1>0, <1>1, StepsFinish
<1>2. CASE Unset(h)
  BY <1>0, <1>2, StepsQuietGo DEF Unset
<1>3. CASE Load(h) /\ ~Catch(h)
  <2> DEFINE w == [work[h] EXCEPT !.pc = "deliver", !.prev = file]
  <2>1. work' = [work EXCEPT ![h] = w] /\ w.pc = "deliver" /\ w.held = work[h].held
    BY <1>3 DEF Load, Becomes, TypeOK, HandlerType
  <2> HIDE DEF w
  <2>. QED
    BY <1>0, <2>1, StepsQuiet
<1>4. Finish(h) \/ Unset(h) \/ (Load(h) /\ ~Catch(h))
  BY DEF Deliver, Sign, Unlink, Fail, Crash, Catch, End
<1>. QED
  BY <1>1, <1>2, <1>3, <1>4

LEMMA StepsNext == ASSUME TypeOK, StepsInv, [Next]_vars PROVE StepsInv'
<1>1. CASE UNCHANGED vars
  BY <1>1 DEF vars, tables, flow, StepsInv, ApprovedHasNoPending, DecidedInOrder, StepsTogether,
              StepsApart, StepStands, Pending, Inserting, Ids, IdOf, deciding
<1>2. ASSUME NEW h \in Handlers, Request(h) \/ HandlerStep(h) \/ Fail(h) \/ Crash(h) PROVE StepsInv'
  BY <1>2, StepsRequest, StepsUpload, StepsDecide, StepsRest DEF HandlerStep
<1>. QED
  BY <1>1, <1>2 DEF Next
-----------------------------------------------------------------------------
(* Approvals.                                                              *)

Owed == steps # {} \/ approval = "APPROVED"

(* A step that leaves the row's file alone and starts nothing.             *)
LEMMA ApprovalMove ==
  ASSUME TypeOK, ApprovalInv, UNCHANGED <<file, asked>>, torn => torn',
         Owed' => Owed, steps' # {} => steps # {},
         NEW h \in Handlers, NEW w, work' = [work EXCEPT ![h] = w],
         Owed' /\ Restarting(work[h]) /\ work[h].file = file =>
            (Restarting(w) /\ w.file = file) \/ torn' \/ asked = file,
         w.op = "upload" /\ w.pc = "waive" /\ w.file = file => steps' = {} \/ asked = file
  PROVE  ApprovalInv'
<1>1. \A g \in Handlers : work'[g] = IF g = h THEN w ELSE work[g]
  BY Moved
<1>2. Owed' => Covered'
  <2>. SUFFICES ASSUME Owed', file # 0, file # asked, ~torn' PROVE Covered'
    BY DEF Covered
  <2>1. PICK g \in Handlers : Restarting(work[g]) /\ work[g].file = file
    BY DEF ApprovalInv, Covered, Owed
  <2>2. Restarting(work'[g]) /\ work'[g].file = file
    BY <1>1, <2>1
  <2>. QED
    BY <2>2 DEF Covered, Restarting
<1>3. ASSUME NEW g \in Handlers, At(g, "upload", "waive")', work'[g].file = file
      PROVE  steps' = {} \/ asked' = file'
  BY <1>1, <1>3 DEF ApprovalInv, At
<1>. QED
  BY <1>2, <1>3 DEF ApprovalInv, Owed

(* A handler that had no approval to start again.                          *)
LEMMA ApprovalOther ==
  ASSUME TypeOK, ApprovalInv, UNCHANGED <<file, asked>>, torn => torn',
         Owed' => Owed, steps' # {} => steps # {},
         NEW h \in Handlers, ~Restarting(work[h]),
         NEW w, work' = [work EXCEPT ![h] = w], w.pc # "waive"
  PROVE  ApprovalInv'
BY ApprovalMove

(* One that has, and goes on with it.                                      *)
LEMMA ApprovalGo ==
  ASSUME TypeOK, ApprovalInv, UNCHANGED <<file, asked, torn>>,
         Owed' => Owed, steps' # {} => steps # {},
         NEW h \in Handlers, NEW pc, NEW n, NEW r, NEW i, Goes(h, pc, n, r, i),
         Restarting(work[h]) => pc \in {"clear", "waive", "delete", "insert", "mark", "commit"},
         pc = "waive" => steps' = {}
  PROVE  ApprovalInv'
<1>1. PICK w : /\ work' = [work EXCEPT ![h] = w]
               /\ w.op = work[h].op /\ w.pc = pc /\ w.file = work[h].file
  BY DEF Goes
<1>. QED
  BY <1>1, ApprovalMove DEF Restarting

(* One that stops: then the file it was to approve is torn.                *)
LEMMA ApprovalStops ==
  ASSUME TypeOK, ApprovalInv, NEW h \in Handlers, Catch(h) \/ Crash(h)
  PROVE  ApprovalInv'
<1>1. /\ UNCHANGED <<file, asked, steps, approval>> /\ torn' = Tears(h)
      /\ work' = [work EXCEPT ![h] = Idle]
  BY DEF Catch, Crash, Finish, Becomes, files, flow
<1>2. torn => torn'
  BY <1>1 DEF Tears
<1>3. Restarting(work[h]) /\ work[h].file = file => torn'
  BY <1>1 DEF Tears, Restarting
<1>4. Owed' = Owed
  BY <1>1 DEF Owed
<1>. QED
  BY <1>1, <1>2, <1>3, <1>4, IdleFacts, ApprovalMove

LEMMA ApprovalRequest ==
  ASSUME TypeOK, ApprovalInv, NEW h \in Handlers, Request(h)
  PROVE  ApprovalInv'
<1>0. UNCHANGED <<file, asked, steps, approval, torn>> /\ work[h] = Idle
  BY DEF Request, Upload, OpenLink, Remove, Decide, tables, files, flow
<1>1. ~Restarting(work[h]) /\ Owed' = Owed
  BY <1>0, IdleFacts DEF Restarting, Owed
<1>2. ASSUME NEW w, work' = [work EXCEPT ![h] = w], w.pc \in {"store", "sign", "unset", "steps"}
      PROVE  ApprovalInv'
  BY <1>0, <1>1, <1>2, ApprovalOther
<1>3. CASE Upload(h)
  <2> DEFINE n == uploads + 1
             w == [Idle EXCEPT !.op = "upload", !.pc = "store", !.file = n, !.prev = file]
  <2>1. work' = [work EXCEPT ![h] = w] /\ w.pc = "store"
    BY <1>3, IdleFacts DEF Upload, Becomes, HandlerType
  <2> HIDE DEF w
  <2>. QED
    BY <1>2, <2>1
<1>4. CASE OpenLink(h)
  <2> DEFINE w == [Idle EXCEPT !.op = "sign", !.pc = "sign", !.file = file]
  <2>1. work' = [work EXCEPT ![h] = w] /\ w.pc = "sign"
    BY <1>4, IdleFacts DEF OpenLink, Becomes, HandlerType
  <2> HIDE DEF w
  <2>. QED
    BY <1>2, <2>1
<1>5. CASE Remove(h)
  <2> DEFINE w == [Idle EXCEPT !.op = "remove", !.pc = "unset", !.prev = file]
  <2>1. work' = [work EXCEPT ![h] = w] /\ w.pc = "unset"
    BY <1>5, IdleFacts DEF Remove, Becomes, HandlerType
  <2> HIDE DEF w
  <2>. QED
    BY <1>2, <2>1
<1>6. ASSUME NEW v \in deciding, Decide(h, v) PROVE ApprovalInv'
  <2> DEFINE w == [Idle EXCEPT !.op = v, !.pc = "steps"]
  <2>1. work' = [work EXCEPT ![h] = w] /\ w.pc = "steps"
    BY <1>6, IdleFacts DEF Decide, Becomes, HandlerType
  <2> HIDE DEF w
  <2>. QED
    BY <1>2, <2>1
<1>. QED
  BY <1>3, <1>4, <1>5, <1>6 DEF Request

LEMMA ApprovalUpload ==
  ASSUME TypeOK, FilesInv, StepsInv, ApprovalInv, NEW h \in Handlers, UploadStep(h)
  PROVE  ApprovalInv'
<1>0. work[h] \in HandlerType
  BY DEF TypeOK
<1>1. CASE Store(h)
  <2>1. /\ file' = work[h].file /\ GoTo(h, "clean") /\ work[h].op = "upload"
        /\ UNCHANGED <<steps, asked, approval>>
    BY <1>1 DEF Store, At, flow
  <2>2. Goes(h, "clean", work[h].levels, work[h].held, work[h].step)
    BY <2>1, Going
  <2>3. PICK w : /\ work' = [work EXCEPT ![h] = w]
                 /\ w.op = "upload" /\ w.pc = "clean" /\ w.file = file'
    BY <2>1, <2>2 DEF Goes
  <2>4. \A g \in Handlers : work'[g] = IF g = h THEN w ELSE work[g]
    BY <2>3, Moved
  <2>5. Covered'
    BY <2>3, <2>4 DEF Covered, Restarting
  <2>6. ASSUME NEW g \in Handlers, At(g, "upload", "waive")' PROVE work'[g].file # file'
    <3>1. g # h /\ work[g].op = "upload" /\ work'[g].file = work[g].file
      BY <2>3, <2>4, <2>6 DEF At
    <3>. QED
      BY <2>1, <3>1 DEF FilesInv, FilesApart
  <2>. QED
    BY <2>5, <2>6 DEF ApprovalInv
<1>2. CASE Clean(h)
  <2> DEFINE w == [work[h] EXCEPT !.pc = "approvers", !.prev = 0]
  <2>1. UNCHANGED <<file, asked, torn, steps, approval>> /\ work' = [work EXCEPT ![h] = w]
    BY <1>2 DEF Clean, flow, Becomes
  <2>2. w.op = work[h].op /\ w.pc = "approvers" /\ w.file = work[h].file
    BY <1>0 DEF HandlerType
  <2> HIDE DEF w
  <2>3. Owed' = Owed
    BY <2>1 DEF Owed
  <2>. QED
    BY <2>1, <2>2, <2>3, ApprovalMove DEF Restarting
<1>3. ASSUME NEW n \in Approvers, ReadApprovers(h, n) PROVE ApprovalInv'
  <2> DEFINE pc == IF n = 0 THEN "clear" ELSE "delete"
  <2>1. Becomes(h, [work[h] EXCEPT !.pc = pc, !.levels = n])
        /\ UNCHANGED <<file, asked, torn, steps, approval>>
    BY <1>3 DEF ReadApprovers, tables, files, flow
  <2>2. pc \in {"clear", "delete"}
    OBVIOUS
  <2> HIDE DEF pc
  <2>3. Goes(h, pc, n, work[h].held, work[h].step)
    BY <2>1, Going
  <2>4. Owed' = Owed
    BY <2>1 DEF Owed
  <2>. QED
    BY <2>1, <2>2, <2>3, <2>4, ApprovalGo
<1>4. CASE ClearSteps(h)
  <2>1. steps' = {} /\ GoTo(h, "waive") /\ UNCHANGED <<file, asked, torn, approval>>
    BY <1>4 DEF ClearSteps, files
  <2>2. Goes(h, "waive", work[h].levels, work[h].held, work[h].step)
    BY <2>1, Going
  <2>3. Owed' => Owed
    BY <2>1 DEF Owed
  <2>. QED
    BY <2>1, <2>2, <2>3, ApprovalGo
<1>5. CASE Waive(h)
  <2>1. /\ At(h, "upload", "waive") /\ UNCHANGED <<file, asked, steps>> /\ approval' = "NOT_REQUIRED"
        /\ torn => torn'
        /\ GoTo(h, "load") \/ Finish(h)
    BY <1>5 DEF Waive, End, Tears
  <2>2. Owed' => Owed /\ steps # {}
    BY <2>1 DEF Owed
  <2>3. work[h].file = file => steps = {} \/ asked = file
    BY <2>1 DEF ApprovalInv
  <2>4. PICK w : work' = [work EXCEPT ![h] = w] /\ w.pc \in {"load", "idle"}
    <3>1. CASE GoTo(h, "load")
      <4>1. Goes(h, "load", work[h].levels, work[h].held, work[h].step)
        BY <3>1, Going
      <4>. QED
        BY <4>1 DEF Goes
    <3>2. CASE Finish(h)
      BY <3>2, IdleFacts DEF Finish, Becomes
    <3>. QED
      BY <2>1, <3>1, <3>2
  <2>. QED
    BY <2>1, <2>2, <2>3, <2>4, ApprovalMove
<1>6. CASE DeleteSteps(h)
  <2>1. Becomes(h, [work[h] EXCEPT !.pc = "insert", !.held = Ids(steps)])
        /\ UNCHANGED <<file, asked, torn, steps, approval>>
    BY <1>6 DEF DeleteSteps, tables, files, flow
  <2>2. Goes(h, "insert", work[h].levels, Ids(steps), work[h].step)
    BY <2>1, Going
  <2>3. Owed' = Owed
    BY <2>1 DEF Owed
  <2>. QED
    BY <2>1, <2>2, <2>3, ApprovalGo
<1>7. CASE InsertSteps(h)
  <2>1. CASE Catch(h)
    BY <2>1, ApprovalStops
  <2>2. CASE ~Catch(h)
    <3>1. GoTo(h, "mark") /\ UNCHANGED <<file, asked, torn, steps, approval>>
      BY <1>7, <2>2 DEF InsertSteps, tables, files, flow
    <3>2. Goes(h, "mark", work[h].levels, work[h].held, work[h].step)
      BY <3>1, Going
    <3>3. Owed' = Owed
      BY <3>1 DEF Owed
    <3>. QED
      BY <3>1, <3>2, <3>3, ApprovalGo
  <2>. QED
    BY <2>1, <2>2
<1>8. CASE Start(h)
  BY <1>8 DEF Start, ApprovalInv, Covered
<1>. QED
  BY <1>1, <1>2, <1>3, <1>4, <1>5, <1>6, <1>7, <1>8 DEF UploadStep

LEMMA ApprovalDecide ==
  ASSUME TypeOK, StepsInv, ApprovalInv, NEW h \in Handlers, DecideStep(h) \/ Mark(h)
  PROVE  ApprovalInv'
<1>0. UNCHANGED <<file, asked, torn>>
  BY DEF DecideStep, PickStep, WriteStep, Count, Conclude, Mark, tables, files, flow
<1>1. StepStands(work[h]) /\ (Written(h) # {} <=> steps # {})
  BY WrittenIs DEF StepsInv
<1>2. ASSUME UNCHANGED <<steps, approval>>,
             NEW pc, NEW n, NEW r, NEW i, Goes(h, pc, n, r, i), pc # "waive",
             Restarting(work[h]) => pc = "commit"
      PROVE  ApprovalInv'
  <2>1. Owed' = Owed
    BY <1>2 DEF Owed
  <2>. QED
    BY <1>0, <1>2, <2>1, ApprovalGo
<1>3. ASSUME ~Restarting(work[h]), Owed' => Owed, steps' # {} => steps # {},
             NEW w, work' = [work EXCEPT ![h] = w], w.pc \in {"idle", "load"}
      PROVE  ApprovalInv'
  BY <1>0, <1>3, ApprovalOther
<1>4. ASSUME ~Restarting(work[h]), UNCHANGED <<steps, approval>>, Finish(h) PROVE ApprovalInv'
  BY <1>3, <1>4, IdleFacts DEF Finish, Becomes, Owed
<1>5. CASE PickStep(h)
  <2>1. UNCHANGED <<steps, approval>> /\ ~Restarting(work[h])
    BY <1>5 DEF PickStep, tables, flow, Restarting, deciding
  <2>2. ASSUME NEW x, Becomes(h, [work[h] EXCEPT !.pc = "step", !.step = IdOf(x)]) PROVE ApprovalInv'
    <3>1. Goes(h, "step", work[h].levels, work[h].held, IdOf(x))
      BY <2>2, Going
    <3>. QED
      BY <1>2, <2>1, <3>1
  <2>. QED
    BY <1>4, <1>5, <2>1, <2>2 DEF PickStep
<1>6. CASE WriteStep(h)
  <2> DEFINE pc == IF work[h].op = "approve" THEN "count" ELSE "mark"
  <2>1. UNCHANGED <<steps, approval>> /\ ~Restarting(work[h])
    BY <1>6 DEF WriteStep, tables, flow, Restarting, deciding
  <2>2. Finish(h) \/ Becomes(h, [work[h] EXCEPT !.held = {work[h].step}, !.pc = pc])
    BY <1>6 DEF WriteStep
  <2>3. pc \in {"count", "mark"}
    OBVIOUS
  <2> HIDE DEF pc
  <2>4. CASE Becomes(h, [work[h] EXCEPT !.held = {work[h].step}, !.pc = pc])
    <3>1. Goes(h, pc, work[h].levels, {work[h].step}, work[h].step)
      BY <2>4, Going
    <3>. QED
      BY <1>2, <2>1, <2>3, <3>1
  <2>. QED
    BY <1>4, <2>1, <2>2, <2>4
<1>7. CASE Count(h)
  <2>1. approval' = approval /\ ~Restarting(work[h])
    BY <1>7 DEF Count, At, Restarting
  <2>2. CASE GoTo(h, "mark") /\ UNCHANGED steps
    <3>1. Goes(h, "mark", work[h].levels, work[h].held, work[h].step)
      BY <2>2, Going
    <3>. QED
      BY <1>2, <2>1, <2>2, <3>1
  <2>3. CASE steps' = Written(h) /\ Finish(h)
    <3>1. (steps' # {} => steps # {}) /\ (Owed' => Owed)
      BY <1>1, <2>1, <2>3 DEF Owed
    <3>. QED
      BY <1>3, <2>1, <2>3, <3>1, IdleFacts DEF Finish, Becomes
  <2>. QED
    BY <1>7, <2>2, <2>3 DEF Count
<1>8. CASE Conclude(h)
  <2> DEFINE w == [Idle EXCEPT !.op = "approve", !.pc = "load"]
  <2>1. /\ work[h].op \in deciding /\ work[h].pc = "commit" /\ steps' = Written(h)
        /\ Finish(h) \/ work' = [work EXCEPT ![h] = w]
    BY <1>8 DEF Conclude, Becomes
  <2>2. w.pc = "load"
    BY IdleFacts DEF HandlerType
  <2> HIDE DEF w
  <2>3. ~Restarting(work[h])
    BY <2>1 DEF Restarting, deciding
  <2>4. steps # {}
    <3>1. work[h].step \in Ids(steps)
      BY <1>1, <2>1 DEF StepStands
    <3>. QED
      BY <3>1 DEF Ids
  <2>5. Owed
    BY <2>4 DEF Owed
  <2>. QED
    BY <1>3, <2>1, <2>2, <2>3, <2>4, <2>5, IdleFacts DEF Finish, Becomes
<1>9. CASE Mark(h)
  <2>1. Becomes(h, [work[h] EXCEPT !.pc = "commit", !.owns = TRUE]) /\ UNCHANGED <<steps, approval>>
    BY <1>9 DEF Mark, tables, flow
  <2>2. Goes(h, "commit", work[h].levels, work[h].held, work[h].step)
    BY <2>1, Going
  <2>. QED
    BY <1>2, <2>1, <2>2
<1>. QED
  BY <1>5, <1>6, <1>7, <1>8, <1>9 DEF DecideStep

LEMMA ApprovalRest ==
  ASSUME TypeOK, FilesInv, ApprovalInv, NEW h \in Handlers,
         \/ Load(h) \/ (\E mode \in Modes : Deliver(h, mode))
         \/ Sign(h) \/ Unset(h) \/ Unlink(h) \/ Fail(h) \/ Crash(h)
  PROVE  ApprovalInv'
<1>1. CASE Catch(h) \/ Crash(h)
  BY <1>1, ApprovalStops
<1>2. ASSUME ~Restarting(work[h]), UNCHANGED <<file, asked, steps, approval>>, torn => torn',
             NEW w, work' = [work EXCEPT ![h] = w], w.pc # "waive"
      PROVE  ApprovalInv'
  <2>1. Owed' = Owed
    BY <1>2 DEF Owed
  <2>. QED
    BY <1>2, <2>1, ApprovalOther
<1>3. ASSUME ~Restarting(work[h]), UNCHANGED <<file, asked, steps, approval>>, torn => torn', Finish(h)
      PROVE  ApprovalInv'
  BY <1>2, <1>3, IdleFacts DEF Finish, Becomes
<1>4. CASE Load(h) /\ ~Catch(h)
  <2> DEFINE w == [work[h] EXCEPT !.pc = "deliver", !.prev = file]
  <2>1. /\ work' = [work EXCEPT ![h] = w] /\ w.pc = "deliver" /\ work[h].pc = "load"
        /\ UNCHANGED <<file, asked, steps, approval, torn>>
    BY <1>4 DEF Load, Becomes, TypeOK, HandlerType, tables, files, flow
  <2> HIDE DEF w
  <2>2. ~Restarting(work[h])
    BY <2>1 DEF Restarting
  <2>. QED
    BY <1>2, <2>1, <2>2
<1>5. ASSUME NEW mode \in Modes, Deliver(h, mode), ~Catch(h) PROVE ApprovalInv'
  <2>1. work[h].pc = "deliver" /\ End(h) /\ UNCHANGED <<file, asked, steps, approval>>
    BY <1>5 DEF Deliver, flow
  <2>2. ~Restarting(work[h])
    BY <2>1 DEF Restarting
  <2>3. Finish(h) /\ (torn' = torn \/ torn' = Tears(h))
    BY <2>1 DEF End
  <2>4. torn => torn'
    BY <2>3 DEF Tears
  <2>. QED
    BY <1>3, <2>1, <2>2, <2>3, <2>4
<1>6. CASE Sign(h) \/ Unlink(h)
  <2>1. ~Restarting(work[h]) /\ Finish(h) /\ UNCHANGED <<file, asked, steps, approval, torn>>
    BY <1>6 DEF Sign, Unlink, At, Restarting, files, flow
  <2>. QED
    BY <1>3, <2>1
<1>7. CASE Unset(h)
  <2>1. file' = 0 /\ GoTo(h, "unlink")
    BY <1>7 DEF Unset
  <2>2. Goes(h, "unlink", work[h].levels, work[h].held, work[h].step)
    BY <2>1, Going
  <2>3. PICK w : work' = [work EXCEPT ![h] = w] /\ w.pc = "unlink"
    BY <2>2 DEF Goes
  <2>4. \A g \in Handlers : work'[g] = IF g = h THEN w ELSE work[g]
    BY <2>3, Moved
  <2>5. ASSUME NEW g \in Handlers, At(g, "upload", "waive")' PROVE work'[g].file # 0
    <3>1. work'[g] = work[g] /\ work[g].op = "upload"
      BY <2>3, <2>4, <2>5 DEF At
    <3>. QED
      BY <3>1 DEF FilesInv, FileStands
  <2>. QED
    BY <2>1, <2>5 DEF ApprovalInv, Covered
<1>8. CASE Fail(h)
  BY <1>1, <1>8 DEF Fail
<1>. QED
  BY <1>1, <1>4, <1>5, <1>6, <1>7, <1>8

LEMMA ApprovalNext ==
  ASSUME TypeOK, FilesInv, StepsInv, ApprovalInv, [Next]_vars
  PROVE  ApprovalInv'
<1>1. CASE UNCHANGED vars
  BY <1>1 DEF vars, tables, files, flow, ApprovalInv, Covered, Restarting, At
<1>2. ASSUME NEW h \in Handlers, Request(h) \/ HandlerStep(h) \/ Fail(h) \/ Crash(h) PROVE ApprovalInv'
  BY <1>2, ApprovalRequest, ApprovalUpload, ApprovalDecide, ApprovalRest DEF HandlerStep
<1>. QED
  BY <1>1, <1>2 DEF Next
-----------------------------------------------------------------------------
(* Theorems.                                                               *)

LEMMA InitIInv == Init => IInv
<1>. SUFFICES ASSUME Init PROVE IInv
  OBVIOUS
<1>1. TypeOK
  BY IdleFacts, DocumentConstants DEF Init, TypeOK, HandlerType, Uploads, Modes
<1>2. FilesInv
  <2>1. \A h \in Handlers : work[h] = Idle
    BY DEF Init
  <2>. QED
    BY <2>1, IdleFacts DEF Init, FilesInv, NamedFileStored, FilesApart, FileStands, Storing
<1>3. StepsInv
  <2>1. \A h \in Handlers : work[h] = Idle
    BY DEF Init
  <2>2. StepsApart /\ \A h \in Handlers : StepStands(work[h])
    BY <2>1, IdleFacts DEF StepsApart, StepStands, Inserting, deciding
  <2>3. ApprovedHasNoPending /\ DecidedInOrder /\ StepsTogether
    BY DEF Init, ApprovedHasNoPending, DecidedInOrder, StepsTogether, Pending
  <2>. QED
    BY <2>2, <2>3 DEF StepsInv
<1>4. ApprovalInv /\ SignatureInv
  BY IdleFacts DEF Init, ApprovalInv, Covered, At, SignatureInv, SignatureIsOfTheContract
<1>. QED
  BY <1>1, <1>2, <1>3, <1>4 DEF IInv

LEMMA NextIInv == IInv /\ [Next]_vars => IInv'
BY TypeNext, FilesNext, StepsNext, ApprovalNext, SignatureNext DEF IInv

(* The inductive invariant holds of every behaviour, whatever the lists of *)
(* approvers and however many uploads, decisions, removals, sendings and   *)
(* signings of a document overlap, fail or stop.                           *)
THEOREM DocumentsInductive == Spec => []IInv
BY InitIInv, NextIInv, PTL DEF Spec

(* Columns, files and handlers keep their types.                           *)
THEOREM DocumentsTypeCorrect == Spec => []TypeOK
<1>1. IInv => TypeOK
  BY DEF IInv
<1>. QED
  BY <1>1, DocumentsInductive, PTL

(* The decide transactions of the two approval services: no document is    *)
(* approved with a step left to decide.                                    *)
THEOREM ApprovedIsComplete == Spec => []ApprovedHasNoPending
<1>1. IInv => ApprovedHasNoPending
  BY DEF IInv, StepsInv
<1>. QED
  BY <1>1, DocumentsInductive, PTL

(* The same transactions: the steps of one start are decided from the      *)
(* lowest up, although the update by id does not ask for the order.        *)
THEOREM StepsDecidedInOrder == Spec => []DecidedInOrder
<1>1. IInv => DecidedInOrder
  BY DEF IInv, StepsInv
<1>. QED
  BY <1>1, DocumentsInductive, PTL

(* uploadSigned and decide together: an approval stands only for the file  *)
(* it was started for, unless the upload of the named one is still under   *)
(* way or stopped half way.                                                *)
THEOREM ApprovalNeverMoves == Spec => []ApprovalIsOfTheFile
<1>1. IInv => ApprovalIsOfTheFile
  BY DEF IInv, ApprovalInv, Covered, ApprovalIsOfTheFile
<1>. QED
  BY <1>1, DocumentsInductive, PTL

(* uploadSigned and removeSigned: whatever overlaps, the file the row names*)
(* is on the disk, or its own upload failed after it had written the row.  *)
THEOREM NamedFileKept == Spec => []NamedFileStored
<1>1. IInv => NamedFileStored
  BY DEF IInv, FilesInv
<1>. QED
  BY <1>1, DocumentsInductive, PTL

(* The contract's uploadSigned and sign: a new contract never inherits the *)
(* signature of the one before.                                            *)
THEOREM SignatureNeverInherited == Spec => []SignatureIsOfTheContract
<1>1. IInv => SignatureIsOfTheContract
  BY DEF IInv, SignatureInv
<1>. QED
  BY <1>1, DocumentsInductive, PTL
=============================================================================
