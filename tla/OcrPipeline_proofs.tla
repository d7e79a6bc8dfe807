------------------------- MODULE OcrPipeline_proofs -------------------------
(***************************************************************************)
(* The job queue and the OCR pipeline around it, for any number of notes,  *)
(* rows, goroutines, versions, pages and crashes.                          *)
(*                                                                         *)
(* First the theorems of the queue by itself, then that the pipeline is an *)
(* implementation of it, then what the pipeline's records and backups say  *)
(* of a note, and last what holds when tablets upload while it rests.      *)
(***************************************************************************)
EXTENDS OcrPipeline, TLAPS

-----------------------------------------------------------------------------
(* The created_at order stays a relation on ids when a row becomes the     *)
(* youngest.                                                               *)
LEMMA YoungestType ==
  ASSUME TypeOK, NEW i \in Ids, Youngest(i)
  PROVE  older' \in SUBSET (Ids \X Ids)
  BY DEF TypeOK, Youngest

(* Statements on the table keep its columns well typed. *)
LEMMA CallerType ==
  ASSUME TypeOK, NEW p \in Paths, Caller(p)
  PROVE  TypeOK'
<1> USE DEF TypeOK, processor
<1>0. MaxId \in Nat /\ 1 \in Nat /\ Ids = 1 .. MaxId
  BY MaxIdAssumption DEF Ids
<1>1. ASSUME NEW s \in Statuses, NEW d \in BOOLEAN, Insert(p, s, d),
             UNCHANGED <<processor, crashes>>
      PROVE  TypeOK'
  <2>1. older' \in SUBSET (Ids \X Ids)
    BY <1>1, YoungestType DEF Insert
  <2>2. nextId' \in 1 .. MaxId + 1
    BY <1>0, <1>1 DEF Insert
  <2>3. QED
    BY <1>1, <2>1, <2>2 DEF Insert
<1>2. ASSUME NEW d \in BOOLEAN, Enqueue(p, d) PROVE TypeOK'
  <2>1. CASE Insert(p, "pending", d)
    BY <1>1, <2>1 DEF Caller, Statuses
  <2>2. ASSUME NEW i \in RowOf(p), status[i] \in Finished,
               status' = [status EXCEPT ![i] = "pending"],
               delayed' = [delayed EXCEPT ![i] = d],
               Youngest(i), UNCHANGED <<path, nextId>>
        PROVE  TypeOK'
    <3>1. older' \in SUBSET (Ids \X Ids)
      BY <2>2, YoungestType DEF RowOf
    <3>2. QED
      BY <2>2, <3>1 DEF Caller, Statuses
  <2>3. CASE UNCHANGED table
    BY <2>3 DEF Caller, table
  <2>4. QED
    BY <1>2, <2>1, <2>2, <2>3 DEF Enqueue
<1>3. CASE Skip(p)
  <2>1. CASE Insert(p, "skipped", FALSE)
    BY <1>1, <2>1 DEF Caller, Statuses, Finished
  <2>2. CASE ~Insert(p, "skipped", FALSE)
    BY <1>3, <2>2 DEF Skip, Caller, Statuses, Finished
  <2>3. QED
    BY <2>1, <2>2
<1>4. CASE Unskip(p)
  BY <1>4 DEF Unskip, Caller, Statuses
<1>5. ASSUME NEW q \in Paths, TransferJob(p, q) PROVE TypeOK'
  BY <1>5 DEF TransferJob, Caller
<1>6. CASE DeleteJob(p)
  BY <1>6 DEF DeleteJob, Caller
<1>7. QED
  BY <1>2, <1>3, <1>4, <1>5, <1>6 DEF Caller

(* A step of the queue keeps them all well typed. *)
LEMMA TypeStep ==
  ASSUME TypeOK, [Next]_vars
  PROVE  TypeOK'
<1> USE NoPathAssumption, NoWorkerAssumption, MaxIdAssumption DEF TypeOK, table, processor
<1>1. ASSUME NEW p \in Paths, Caller(p) PROVE TypeOK'
  BY <1>1, CallerType
<1>2. ASSUME NEW i \in Ids, DelayEnds(i), UNCHANGED <<processor, crashes>> PROVE TypeOK'
  BY <1>2 DEF DelayEnds
<1>3. ASSUME NEW w \in Workers, Boot(w) PROVE TypeOK'
  BY <1>3 DEF Boot, Launch
<1>4. ASSUME NEW w \in Workers, ClaimUpdate(w) PROVE TypeOK'
  BY <1>4 DEF ClaimUpdate, Statuses
<1>5. ASSUME NEW w \in Workers, ClaimSelect(w) PROVE TypeOK'
  BY <1>5 DEF ClaimSelect, Selected
<1>6. ASSUME NEW w \in Workers, NEW outcome \in Finished, Finish(w, outcome) PROVE TypeOK'
  BY <1>6 DEF Finish, Statuses
<1>7. ASSUME NEW w \in Workers, Exit(w) PROVE TypeOK'
  BY <1>7 DEF Exit
<1>8. ASSUME NEW w \in Workers, ReclaimStuck(w) PROVE TypeOK'
  BY <1>8 DEF ReclaimStuck, Statuses
<1>9. ASSUME NEW w \in Workers, WebStart(w) PROVE TypeOK'
  BY <1>9 DEF WebStart, Launch
<1>10. ASSUME NEW w \in Workers, RequestReturns(w) PROVE TypeOK'
  BY <1>10 DEF RequestReturns
<1>11. CASE Stop
  BY <1>11 DEF Stop
<1>12. CASE Crash
  <2>1. crashes' \in Nat
    BY <1>12 DEF Crash
  <2>2. UNCHANGED <<status, path, delayed, older, nextId>>
    BY <1>12 DEF Crash
  <2>3. QED
    BY <1>12, <2>1, <2>2, Zenon DEF Crash
<1>13. CASE UNCHANGED vars
  BY <1>13 DEF vars
<1>14. QED
  BY <1>1, <1>2, <1>3, <1>4, <1>5, <1>6, <1>7, <1>8, <1>9, <1>10, <1>11, <1>12, <1>13
     DEF Next, Unattended, Control, Run

(* Rows, goroutines and the processor's bookkeeping keep their types. *)
THEOREM TypeCorrect == Spec => []TypeOK
<1> USE NoPathAssumption, NoWorkerAssumption, MaxIdAssumption
<1>1. Init => TypeOK
  <2> SUFFICES ASSUME Init PROVE TypeOK
    OBVIOUS
  <2>1. 0 \in Nat /\ 1 \in 1 .. MaxId + 1
    OBVIOUS
  <2>2. older \in SUBSET (Ids \X Ids)
    BY DEF Init
  <2>3. QED
    BY <2>1, <2>2, Zenon DEF Init, TypeOK
<1>2. QED
  BY <1>1, TypeStep, PTL DEF Spec

-----------------------------------------------------------------------------
(* Why two starts never overlap: the only goroutine that is not cancelled  *)
(* is the one s.cancel belongs to, and Start refuses while there is one.   *)
LiveIsCurrent == \A w \in Workers : Live(w) => current = w

THEOREM LiveProcessorIsCurrent == Spec => []LiveIsCurrent
<1> USE NoWorkerAssumption DEF LiveIsCurrent, Live, TypeOK
<1>1. Init => LiveIsCurrent
  BY DEF Init
<1>2. TypeOK /\ LiveIsCurrent /\ [Next]_vars => LiveIsCurrent'
  <2> SUFFICES ASSUME TypeOK, LiveIsCurrent, [Next]_vars PROVE LiveIsCurrent'
    OBVIOUS
  <2>1. CASE UNCHANGED <<pc, cancelled, current>>
    BY <2>1
  <2>2. ASSUME NEW w \in Workers, NEW req \in BOOLEAN, Launch(w, req) PROVE LiveIsCurrent'
    BY <2>2 DEF Launch
  <2>3. ASSUME NEW w \in Workers, Run(w) PROVE LiveIsCurrent'
    BY <2>3 DEF Run, ClaimUpdate, ClaimSelect, Finish, Exit
  <2>4. ASSUME NEW w \in Workers, RequestReturns(w) PROVE LiveIsCurrent'
    BY <2>4 DEF RequestReturns
  <2>5. CASE Stop
    BY <2>5 DEF Stop
  <2>6. CASE Crash
    BY <2>6 DEF Crash
  <2>7. QED
    BY <2>1, <2>2, <2>3, <2>4, <2>5, <2>6
       DEF Next, Unattended, Control, Caller, ReclaimStuck, Boot, WebStart, vars, processor
<1>3. QED
  BY <1>1, <1>2, TypeCorrect, PTL DEF Spec

(* At most one goroutine that can still write runs, however starts, stops, *)
(* request ends and crashes interleave.                                    *)
THEOREM SingleProcessor == Spec => []OneLiveProcessor
<1>1. LiveIsCurrent => OneLiveProcessor
  BY DEF LiveIsCurrent, OneLiveProcessor
<1>2. QED
  BY <1>1, LiveProcessorIsCurrent, PTL

-----------------------------------------------------------------------------
(* What LostOnlyByInterruption says of one row and one step. *)
RowNotLost(i) ==
  status'[i] = "in_progress" /\ ~Held(i)' =>
    /\ status[i] = "in_progress"
    /\ \/ ~Held(i)
       \/ crashes' # crashes
       \/ \E w \in Workers : job[w] = i /\ cancelled[w]

(* A row stays in the hands that hold it while pc and job do not change,   *)
(* and then a step can only lose it by putting it in progress.             *)
LEMMA UntouchedHands ==
  ASSUME NEW i \in Ids, UNCHANGED <<pc, job>>,
         status'[i] = "in_progress" => status[i] = "in_progress"
  PROVE  RowNotLost(i)
  BY DEF RowNotLost, Held

(* No statement of the detectors, the scanner or the web puts a row in     *)
(* progress.                                                               *)
LEMMA CallerClaimsNothing ==
  ASSUME TypeOK, NEW p \in Paths, Caller(p), NEW i \in Ids, status'[i] = "in_progress"
  PROVE  status[i] = "in_progress"
  BY DEF TypeOK, Caller, Enqueue, Insert, Skip, Unskip, TransferJob, DeleteJob, table

(* A job in progress leaves every goroutine's hands only when the process  *)
(* dies or the goroutine that has it was cancelled.                        *)
THEOREM NoJobLost == Spec => LostOnlyByInterruption
<1>1. TypeOK /\ [Next]_vars => \A i \in Ids : RowNotLost(i)
  <2> SUFFICES ASSUME TypeOK, [Next]_vars, NEW i \in Ids PROVE RowNotLost(i)
    OBVIOUS
  <2> USE DEF TypeOK
  <2>1. ASSUME NEW p \in Paths, Caller(p) PROVE RowNotLost(i)
    BY <2>1, CallerClaimsNothing, UntouchedHands DEF Caller, processor
  <2>2. ASSUME NEW k \in Ids, DelayEnds(k), UNCHANGED <<processor, crashes>>
        PROVE  RowNotLost(i)
    BY <2>2, UntouchedHands DEF DelayEnds, processor
  <2>3. ASSUME NEW w \in Workers, NEW req \in BOOLEAN, Launch(w, req), UNCHANGED table
        PROVE  RowNotLost(i)
    BY <2>3 DEF Launch, RowNotLost, Held, table
  <2>4. ASSUME NEW w \in Workers, ClaimUpdate(w) PROVE RowNotLost(i)
    BY <2>4 DEF ClaimUpdate, RowNotLost, Held
  <2>5. ASSUME NEW w \in Workers, ClaimSelect(w) PROVE RowNotLost(i)
    <3>1. CASE job[w] = i /\ status[i] = "in_progress" /\ ~cancelled[w]
      <4>1. Selected(w) = {i}
        BY <3>1 DEF Selected
      <4>2. Held(i)'
        BY <2>5, <3>1, <4>1 DEF ClaimSelect, Held
      <4>3. QED
        BY <4>2 DEF RowNotLost
    <3>2. CASE ~(job[w] = i /\ status[i] = "in_progress" /\ ~cancelled[w])
      BY <2>5, <3>2 DEF ClaimSelect, RowNotLost, Held, table
    <3>3. QED
      BY <3>1, <3>2
  <2>6. ASSUME NEW w \in Workers, NEW outcome \in Finished, Finish(w, outcome)
        PROVE  RowNotLost(i)
    BY <2>6 DEF Finish, Finished, RowNotLost, Held
  <2>7. ASSUME NEW w \in Workers, Exit(w) PROVE RowNotLost(i)
    BY <2>7 DEF Exit, RowNotLost, Held, table
  <2>8. ASSUME NEW w \in Workers, ReclaimStuck(w) PROVE RowNotLost(i)
    BY <2>8, UntouchedHands DEF ReclaimStuck, processor
  <2>9. ASSUME NEW w \in Workers, RequestReturns(w) PROVE RowNotLost(i)
    BY <2>9, UntouchedHands DEF RequestReturns, table
  <2>10. CASE Stop
    BY <2>10, UntouchedHands DEF Stop, table
  <2>11. CASE Crash
    BY <2>11 DEF Crash, RowNotLost, table
  <2>12. CASE UNCHANGED vars
    BY <2>12, UntouchedHands DEF vars, table, processor
  <2>13. QED
    BY <2>1, <2>2, <2>3, <2>4, <2>5, <2>6, <2>7, <2>8, <2>9, <2>10, <2>11, <2>12
       DEF Next, Unattended, Control, Run, Boot, WebStart
<1>2. QED
  BY <1>1, TypeCorrect, PTL DEF Spec, LostOnlyByInterruption, RowNotLost

-----------------------------------------------------------------------------
(* What the statements of the table rely on: a row exists exactly while it *)
(* has a note_path, note_path is UNIQUE, AUTOINCREMENT ids are not used    *)
(* again, and a goroutine that has claimed has the id of a row that is or  *)
(* was in the table.                                                       *)
RowsHavePaths == \A i \in Ids : status[i] = "absent" <=> path[i] = NoPath
OneRowPerNote == \A i, j \in Ids : path[i] = path[j] /\ path[i] # NoPath => i = j
IdsUnused     == \A i \in Ids : i >= nextId => path[i] = NoPath
HandsHoldRows == \A w \in Workers :
                   pc[w] \in {"selecting", "working"} => job[w] \in Ids /\ job[w] < nextId

QueueInv == RowsHavePaths /\ OneRowPerNote /\ IdsUnused /\ HandsHoldRows

(* The callers' statements, one by one. *)
LEMMA CallerQueueInv ==
  ASSUME TypeOK, QueueInv, NEW p \in Paths, Caller(p)
  PROVE  QueueInv'
<1> USE NoPathAssumption DEF QueueInv, RowsHavePaths, OneRowPerNote, IdsUnused, HandsHoldRows,
                             TypeOK
<1>0. MaxId \in Nat /\ Ids = 1 .. MaxId /\ UNCHANGED <<pc, job>>
  BY MaxIdAssumption DEF Ids, Caller, processor
<1>1. ASSUME NEW s \in Statuses, NEW d \in BOOLEAN, Insert(p, s, d) PROVE QueueInv'
  <2>1. s # "absent" /\ nextId' = nextId + 1
    BY <1>1 DEF Insert, Statuses, Finished
  <2>2. /\ nextId \in Ids /\ \A i \in Ids : path[i] # p
        /\ path' = [path EXCEPT ![nextId] = p] /\ status' = [status EXCEPT ![nextId] = s]
    BY <1>1 DEF Insert, RowOf
  <2>3. RowsHavePaths' /\ OneRowPerNote'
    BY <2>1, <2>2
  <2>4. IdsUnused' /\ HandsHoldRows'
    BY <1>0, <2>1, <2>2
  <2>5. QED
    BY <2>3, <2>4
<1>2. ASSUME NEW d \in BOOLEAN, Enqueue(p, d) PROVE QueueInv'
  <2>1. CASE Insert(p, "pending", d)
    BY <1>1, <2>1 DEF Statuses
  <2>2. CASE ~Insert(p, "pending", d)
    BY <1>0, <1>2, <2>2 DEF Enqueue, RowOf, Finished, table
  <2>3. QED
    BY <2>1, <2>2
<1>3. CASE Skip(p)
  <2>1. CASE Insert(p, "skipped", FALSE)
    BY <1>1, <2>1 DEF Statuses, Finished
  <2>2. ASSUME NEW i \in RowOf(p), status' = [status EXCEPT ![i] = "skipped"],
               UNCHANGED <<path, delayed, older, nextId>>
        PROVE  QueueInv'
    <3>1. i \in Ids /\ path[i] = p
      BY <2>2 DEF RowOf
    <3>2. QED
      BY <1>0, <2>2, <3>1
  <2>3. QED
    BY <1>3, <2>1, <2>2 DEF Skip
<1>4. CASE Unskip(p)
  BY <1>0, <1>4 DEF Unskip, RowOf
<1>5. ASSUME NEW q \in Paths, TransferJob(p, q) PROVE QueueInv'
  <2>1. /\ \A i \in Ids : path[i] # q
        /\ path' = [i \in Ids |-> IF path[i] = p THEN q ELSE path[i]]
        /\ UNCHANGED <<status, nextId>>
    BY <1>5 DEF TransferJob, RowOf
  <2>2. RowsHavePaths'
    BY <2>1
  <2>3. OneRowPerNote'
    BY <2>1
  <2>4. IdsUnused' /\ HandsHoldRows'
    BY <1>0, <2>1
  <2>5. QED
    BY <2>2, <2>3, <2>4
<1>6. CASE DeleteJob(p)
  BY <1>0, <1>6 DEF DeleteJob, RowOf
<1>7. QED
  BY <1>2, <1>3, <1>4, <1>5, <1>6 DEF Caller

LEMMA QueueInvStep ==
  ASSUME TypeOK, QueueInv, [Next]_vars
  PROVE  QueueInv'
<1> USE DEF QueueInv, RowsHavePaths, OneRowPerNote, IdsUnused, HandsHoldRows, TypeOK,
            table, processor
<1>0. MaxId \in Nat /\ Ids = 1 .. MaxId
  BY MaxIdAssumption DEF Ids
<1>1. ASSUME NEW p \in Paths, Caller(p) PROVE QueueInv'
  BY <1>1, CallerQueueInv
<1>2. ASSUME NEW i \in Ids, DelayEnds(i), UNCHANGED <<processor, crashes>> PROVE QueueInv'
  BY <1>2 DEF DelayEnds
<1>3. ASSUME NEW w \in Workers, NEW req \in BOOLEAN, Launch(w, req), UNCHANGED table
      PROVE  QueueInv'
  BY <1>3 DEF Launch
<1>4. ASSUME NEW w \in Workers, ClaimUpdate(w) PROVE QueueInv'
  BY <1>0, <1>4 DEF ClaimUpdate, Claimable
<1>5. ASSUME NEW w \in Workers, ClaimSelect(w) PROVE QueueInv'
  <2>1. \A i \in Selected(w) : i \in Ids /\ i < nextId
    BY <1>0, <1>5 DEF Selected, ClaimSelect
  <2>2. QED
    BY <1>5, <2>1 DEF ClaimSelect
<1>6. ASSUME NEW w \in Workers, NEW outcome \in Finished, Finish(w, outcome) PROVE QueueInv'
  BY <1>6 DEF Finish, Finished
<1>7. ASSUME NEW w \in Workers, Exit(w) PROVE QueueInv'
  BY <1>7 DEF Exit
<1>8. ASSUME NEW w \in Workers, ReclaimStuck(w) PROVE QueueInv'
  BY <1>8 DEF ReclaimStuck
<1>9. ASSUME NEW w \in Workers, RequestReturns(w) PROVE QueueInv'
  BY <1>9 DEF RequestReturns
<1>10. CASE Stop
  BY <1>10 DEF Stop
<1>11. CASE Crash
  BY <1>11 DEF Crash
<1>12. CASE UNCHANGED vars
  BY <1>12 DEF vars
<1>13. QED
  BY <1>1, <1>2, <1>3, <1>4, <1>5, <1>6, <1>7, <1>8, <1>9, <1>10, <1>11, <1>12
     DEF Next, Unattended, Control, Run, Boot, WebStart

(* A note has at most one job, a job its note, and no id comes back: what  *)
(* the two-statement claim and the late outcome by row id depend on.       *)
THEOREM QueueConsistent == Spec => []QueueInv
<1>1. Init => QueueInv
  BY NoPathAssumption DEF Init, QueueInv, RowsHavePaths, OneRowPerNote, IdsUnused, HandsHoldRows
<1>2. QED
  BY <1>1, QueueInvStep, TypeCorrect, PTL DEF Spec

-----------------------------------------------------------------------------
(* The pipeline.  Every record is typed and, of each path, names contents  *)
(* the file there has had; so do the goroutines' copies, which are taken   *)
(* steps before they are recorded.                                         *)
Goroutines == Detectors \cup {Reconciler}
Recorded == Content \cup {NoFile}
DetStates == {"idle", "upsert", "job", "stored", "compare", "hash", "lookup",
              "transfer", "sethash", "requeue", "enqueue"}
WorkStates == {"off", "backup", "load", "recognize", "write", "reload",
               "hash", "md5", "after", "done"}
RowType == [exists : BOOLEAN, fresh : BOOLEAN, hash : Recorded, backed : BOOLEAN]

FilesInv == /\ version \in 0 .. MaxVersion
            /\ had \in [Paths -> SUBSET Content]
            /\ disk \in [Paths -> Recorded]
            /\ putting \in [Paths -> Recorded]
            /\ \A p \in Paths : {disk[p], putting[p]} \subseteq had[p] \cup {NoFile}
            /\ \A p \in Paths : \A c \in had[p] : c.ver <= version

RecordsInv == /\ row \in [Paths -> RowType]
              /\ backup \in [Paths -> Recorded]
              /\ catalog \in [Paths -> Recorded]
              /\ index \in [Paths -> 0 .. MaxVersion]
              /\ OwnContentOnly
              /\ \A p \in Paths : row[p].backed => backup[p] # NoFile

(* A goroutine past its start knows its note; the contents it has read of  *)
(* it, and the path whose job it moves, are as the code left them.         *)
DetInv == /\ noticed \in SUBSET Paths
          /\ det \in [Goroutines -> [at : DetStates, note : Paths \cup {NoPath},
                                     hash : Recorded, old : Paths \cup {NoPath}]]
          /\ \A d \in Goroutines : det[d].at # "idle" =>
               /\ det[d].note \in Paths
               /\ det[d].hash \in had[det[d].note] \cup {NoFile}
          /\ \A d \in Goroutines : det[d].at = "transfer" => det[d].old \in Paths

ScanInv == /\ scan \in [at : {"idle", "walk", "prune", "pruneRow"}, todo : SUBSET Paths,
                        seen : SUBSET Paths, changed : SUBSET Paths, note : Paths \cup {NoPath}]
           /\ scan.at = "pruneRow" => scan.note \in Paths

(* A worker that has loaded a note has backed it up, on every later page.  *)
WorkInv == /\ work \in [Workers -> [at : WorkStates, note : Paths \cup {NoPath},
                                    held : Recorded, left : Nat]]
           /\ \A w \in Workers : pc[w] = "working" <=> work[w].at # "off"
           /\ \A w \in Workers : work[w].at # "off" =>
                /\ work[w].note \in Paths
                /\ work[w].held \in had[work[w].note] \cup {NoFile}
           /\ \A w \in Workers :
                work[w].at \in {"recognize", "write", "reload", "hash", "after"} =>
                  work[w].held # NoFile
           /\ \A w \in Workers :
                work[w].at \in {"load", "recognize", "write", "reload"} =>
                  backup[work[w].note] # NoFile
           /\ \A w \in Workers :
                work[w].at \in {"backup", "load", "recognize", "write", "reload"} =>
                  work[w].left >= 1

PipelineInv == TypeOK /\ QueueInv /\ FilesInv /\ RecordsInv /\ DetInv /\ ScanInv /\ WorkInv

(* The pipeline does to the queue what the queue allows, or nothing. *)
LEMMA QueueStep ==
  ASSUME DetInv, [OcrNext]_pipelineVars
  PROVE  [Next]_vars
<1>1. ASSUME NEW p \in Paths, NEW q \in Paths,
             Put(p) \/ UploadFinish(p) \/ PutDuplicate(p, q) \/ Rename(p, q)
      PROVE  UNCHANGED vars
  BY <1>1, Zenon DEF Put, UploadFinish, PutDuplicate, Rename
<1>2. ASSUME NEW p \in Paths, Caller(p) PROVE Next
  BY <1>2 DEF Next, Unattended
<1>3. ASSUME NEW p \in Paths, Web(p) PROVE Caller(p)
  BY <1>3 DEF Web, Caller
<1>4. ASSUME NEW d \in Goroutines, Detect(d) PROVE [Next]_vars
  <2>1. CASE MoveJob(d)
    <3>1. det[d].note \in Paths /\ det[d].old \in Paths
      BY <2>1 DEF MoveJob, DetInv
    <3>2. CASE TransferJob(det[d].old, det[d].note)
      BY <1>2, <2>1, <3>1, <3>2 DEF MoveJob, Caller
    <3>3. CASE UNCHANGED table
      BY <2>1, <3>3 DEF MoveJob, vars
    <3>4. QED
      BY <2>1, <3>2, <3>3 DEF MoveJob
  <2>2. CASE EnqueueNote(d)
    <3>1. det[d].note \in Paths
      BY <2>2 DEF EnqueueNote, DetInv
    <3>2. Caller(det[d].note)
      BY <2>2 DEF EnqueueNote, Caller
    <3>3. QED
      BY <1>2, <3>1, <3>2
  <2>3. CASE UpsertFile(d) \/ GetJob(d) \/ GetHash(d) \/ CompareHash(d)
             \/ HashFile(d) \/ LookupByHash(d) \/ SetHash(d)
    BY <2>3, Zenon DEF UpsertFile, GetJob, GetHash, CompareHash, HashFile, LookupByHash,
                       SetHash, DetectorOnly
  <2>4. QED
    BY <1>4, <2>1, <2>2, <2>3 DEF Detect
<1>5. CASE Reconcile
  <2>1. ASSUME NEW p \in Paths, PruneJob(p) PROVE Caller(p)
    BY <2>1 DEF PruneJob, Caller
  <2>2. ASSUME NEW p \in Paths, Walk(p) \/ FeedNext(p) PROVE UNCHANGED vars
    BY <2>2 DEF Walk, FeedNext
  <2>3. ASSUME ScanStart \/ ListOrphans \/ PruneRow \/ ScanEnd PROVE UNCHANGED vars
    BY <2>3 DEF ScanStart, ListOrphans, PruneRow, ScanEnd
  <2>4. QED
    BY <1>2, <1>5, <2>1, <2>2, <2>3 DEF Reconcile
<1>6. ASSUME NEW w \in Workers, NEW o \in Finished, Outcome(w, o) PROVE Next
  BY <1>6 DEF Outcome, Next, Unattended, Run
<1>7. ASSUME NEW w \in Workers, Work(w) PROVE [Next]_vars
  <2>1. CASE ClaimUpdate(w) \/ Claim(w)
    BY <2>1 DEF Claim, Next, Unattended, Run
  <2>2. CASE Done(w)
    BY <1>6, <2>2 DEF Done, Finished
  <2>3. CASE EnsureBackup(w) \/ Load(w) \/ Recognize(w) \/ Inject(w) \/ Reload(w)
             \/ IndexOnly(w) \/ StoreHash(w) \/ ReadMD5(w) \/ AfterInject(w)
    BY <2>3, Zenon DEF EnsureBackup, Load, Recognize, Inject, Reload, IndexOnly,
                       StoreHash, ReadMD5, AfterInject, WorkOnly, Parses
  <2>4. QED
    BY <1>7, <2>1, <2>2, <2>3 DEF Work
<1>8. ASSUME NEW w \in Workers, Startup(w) \/ GivesUp(w) PROVE Next
  BY <1>6, <1>8 DEF Startup, GivesUp, Next, Unattended, Finished
<1>9. ASSUME NEW i \in Ids, DelayEnds(i), UNCHANGED <<processor, crashes, ocrVars>> PROVE Next
  BY <1>9 DEF Next, Unattended
<1>10. ASSUME NEW d \in Detectors, NEW p \in Paths, Notice(d, p) PROVE UNCHANGED vars
  BY <1>10 DEF Notice
<1>11. CASE Die
  BY <1>11 DEF Die, Next
<1>12. CASE UNCHANGED pipelineVars
  BY <1>12 DEF pipelineVars
<1>13. QED
  BY <1>1, <1>2, <1>3, <1>4, <1>5, <1>7, <1>8, <1>9, <1>10, <1>11, <1>12
     DEF OcrNext, User, Server, Goroutines

-----------------------------------------------------------------------------
(* What the file at a path has had stays known, and versions only grow. *)
Grows == /\ version <= version'
         /\ \A p \in Paths : had[p] \subseteq had'[p]

(* A file written with a content of its own or of a new version. *)
LEMMA WriteFileInv ==
  ASSUME FilesInv, NEW p \in Paths, NEW c \in Content, WriteFile(p, c),
         version' \in 0 .. MaxVersion, version <= version', c.ver <= version',
         putting' \in {putting, [putting EXCEPT ![p] = c]}
  PROVE  FilesInv' /\ Grows
<1> USE DEF FilesInv, Recorded
<1>1. had' = [had EXCEPT ![p] = @ \cup {c}] /\ disk' = [disk EXCEPT ![p] = c]
  BY DEF WriteFile
<1>2. Grows
  BY <1>1 DEF Grows
<1>3. \A q \in Paths : \A e \in had'[q] : e.ver <= version'
  <2> SUFFICES ASSUME NEW q \in Paths, NEW e \in had'[q] PROVE e.ver <= version'
    OBVIOUS
  <2>1. CASE e = c
    BY <2>1
  <2>2. CASE e \in had[q]
    <3>1. e.ver <= version /\ e.ver \in Nat
      BY <2>2, MaxVersionAssumption DEF Content
    <3>2. QED
      BY <3>1, MaxVersionAssumption
  <2>3. QED
    BY <1>1, <2>1, <2>2
<1>4. \A q \in Paths : {disk'[q], putting'[q]} \subseteq had'[q] \cup {NoFile}
  BY <1>1
<1>5. had' \in [Paths -> SUBSET Content] /\ disk' \in [Paths -> Recorded]
      /\ putting' \in [Paths -> Recorded]
  BY <1>1
<1>6. QED
  BY <1>2, <1>3, <1>4, <1>5

(* What goroutines and tables remember of a path survives a step that only *)
(* adds to what its file has had.                                          *)
LEMMA RecordsKept ==
  ASSUME RecordsInv, Grows, UNCHANGED <<backup, catalog, index>>,
         row' \in [Paths -> RowType],
         \A p \in Paths : row'[p].hash = row[p].hash /\ row'[p].backed = row[p].backed
  PROVE  RecordsInv'
<1> USE DEF RecordsInv, OwnContentOnly, Grows
<1>1. OwnContentOnly'
  <2> SUFFICES ASSUME NEW p \in Paths
               PROVE  /\ {backup[p], catalog[p], row'[p].hash} \subseteq had'[p] \cup {NoFile}
                      /\ index[p] \in {c.ver : c \in had'[p]} \cup {0}
    OBVIOUS
  <2>1. had[p] \subseteq had'[p]
    OBVIOUS
  <2>2. QED
    BY <2>1
<1>2. QED
  BY <1>1

LEMMA StaleRow ==
  ASSUME RecordsInv, NEW p \in Paths, row' = RowStale(p)
  PROVE  /\ row' \in [Paths -> RowType]
         /\ \A q \in Paths : row'[q].hash = row[q].hash /\ row'[q].backed = row[q].backed
  BY DEF RecordsInv, RowStale, RowType

(* The upsert of a row, by a detector or the walk. *)
LEMMA SeenRow ==
  ASSUME RecordsInv, NEW p \in Paths,
         row' = [row EXCEPT ![p].exists = TRUE, ![p].fresh = TRUE]
  PROVE  /\ row' \in [Paths -> RowType]
         /\ \A q \in Paths : row'[q].hash = row[q].hash /\ row'[q].backed = row[q].backed
         /\ row'[p].exists /\ row'[p].fresh
         /\ \A q \in Paths \ {p} : row'[q] = row[q]
<1>1. row \in [Paths -> RowType] /\ row[p] \in RowType
  BY DEF RecordsInv
<1>2. row'[p] = [exists |-> TRUE, fresh |-> TRUE, hash |-> row[p].hash, backed |-> row[p].backed]
  BY <1>1 DEF RowType
<1>3. \A q \in Paths \ {p} : row'[q] = row[q]
  BY <1>1
<1>4. row' \in [Paths -> RowType]
  <2>1. row'[p] \in RowType
    BY <1>1, <1>2 DEF RowType
  <2>2. row' = [q \in Paths |-> row'[q]]
    BY <1>1
  <2>3. QED
    BY <1>1, <1>3, <2>1, <2>2
<1>5. QED
  BY <1>2, <1>3, <1>4

LEMMA DetKept ==
  ASSUME DetInv, Grows, noticed' \in SUBSET Paths, UNCHANGED det
  PROVE  DetInv'
  BY DEF DetInv, Grows

LEMMA WorkKept ==
  ASSUME WorkInv, Grows, UNCHANGED <<work, pc, backup>>
  PROVE  WorkInv'
  BY DEF WorkInv, Grows

LEMMA Noticed ==
  ASSUME DetInv, NEW p \in Paths, Notify(p)
  PROVE  noticed' \in SUBSET Paths
  BY DEF DetInv, Notify

(* The parts of the invariant a step of users or goroutines concerns. *)
PartsInv == FilesInv /\ RecordsInv /\ DetInv /\ ScanInv /\ WorkInv

LEMMA UserInv ==
  ASSUME PipelineInv, NEW p \in Paths, NEW q \in Paths,
         Put(p) \/ PutDuplicate(p, q) \/ UploadFinish(p) \/ Rename(p, q) \/ Web(p)
  PROVE  PartsInv'
<1> USE DEF PipelineInv, PartsInv
<1>1. CASE Put(p)
  <2>1. /\ NewVersion \in Content /\ NewVersion.ver = version + 1
        /\ version' = version + 1 /\ version' \in 0 .. MaxVersion /\ version <= version'
    BY <1>1, MaxVersionAssumption DEF Put, NewVersion, Content, FilesInv
  <2>2. FilesInv' /\ Grows
    <3>1. WriteFile(p, NewVersion) /\ NewVersion.ver <= version'
      BY <1>1, <2>1 DEF Put, FilesInv
    <3>2. putting' \in {putting, [putting EXCEPT ![p] = NewVersion]}
      BY <1>1 DEF Put
    <3>3. QED
      BY <2>1, <3>1, <3>2, WriteFileInv
  <2>3. RecordsInv'
    BY <1>1, <2>2, RecordsKept, StaleRow DEF Put
  <2>4. DetInv' /\ ScanInv' /\ WorkInv'
    BY <1>1, <2>2, DetKept, WorkKept, Noticed
       DEF Put, WriteFile, ScanInv, vars, processor
  <2>5. QED
    BY <2>2, <2>3, <2>4
<1>2. CASE PutDuplicate(p, q)
  <2>1. disk[p] \in Content /\ disk[p].ver <= version
    BY <1>2 DEF PutDuplicate, FilesInv, Recorded
  <2>2. FilesInv' /\ Grows
    <3>1. WriteFile(q, disk[p]) /\ version' = version /\ version \in 0 .. MaxVersion
      BY <1>2 DEF PutDuplicate, FilesInv
    <3>2. putting' \in {putting, [putting EXCEPT ![q] = disk[p]]}
      BY <1>2 DEF PutDuplicate
    <3>3. version <= version'
      BY <3>1, MaxVersionAssumption
    <3>4. QED
      BY <2>1, <3>1, <3>2, <3>3, WriteFileInv
  <2>3. RecordsInv'
    BY <1>2, <2>2, RecordsKept, StaleRow DEF PutDuplicate
  <2>4. DetInv' /\ ScanInv' /\ WorkInv'
    BY <1>2, <2>2, DetKept, WorkKept, Noticed
       DEF PutDuplicate, WriteFile, ScanInv, vars, processor
  <2>5. QED
    BY <2>2, <2>3, <2>4
<1>3. CASE UploadFinish(p)
  <2>1. FilesInv' /\ Grows
    BY <1>3 DEF UploadFinish, FilesInv, files, Grows, Recorded
  <2>2. RecordsInv'
    <3>1. putting[p] \in had[p] \cup {NoFile} /\ putting[p] \in Recorded
      BY DEF FilesInv
    <3>2. /\ catalog' = [catalog EXCEPT ![p] = putting[p]]
          /\ UNCHANGED <<row, backup, index, had>>
      BY <1>3 DEF UploadFinish, files
    <3>3. OwnContentOnly'
      BY <3>1, <3>2 DEF RecordsInv, OwnContentOnly
    <3>4. QED
      BY <3>1, <3>2, <3>3 DEF RecordsInv
  <2>3. DetInv' /\ ScanInv' /\ WorkInv'
    BY <1>3, <2>1, DetKept, WorkKept, Noticed DEF UploadFinish, ScanInv, vars, processor
  <2>4. QED
    BY <2>1, <2>2, <2>3
<1>4. CASE Rename(p, q)
  <2>1. disk[p] \in Content /\ disk[p] \in had[p] /\ disk[p].ver <= version /\ p # q
    BY <1>4 DEF Rename, FilesInv, Recorded
  <2>2. Grows
    BY <1>4 DEF Rename, Grows, FilesInv
  <2>3. FilesInv'
    <3>1. /\ disk' = [disk EXCEPT ![q] = disk[p], ![p] = NoFile]
          /\ had' = [had EXCEPT ![q] = @ \cup {disk[p]}]
          /\ UNCHANGED <<version, putting>>
      BY <1>4 DEF Rename
    <3>2. disk' \in [Paths -> Recorded] /\ had' \in [Paths -> SUBSET Content]
      BY <2>1, <3>1 DEF FilesInv, Recorded
    <3>3. \A r \in Paths : disk'[r] \in had'[r] \cup {NoFile} /\ putting'[r] \in had'[r] \cup {NoFile}
      BY <2>1, <3>1 DEF FilesInv
    <3>4. \A r \in Paths : \A c \in had'[r] : c.ver <= version'
      BY <2>1, <3>1 DEF FilesInv
    <3>5. QED
      BY <3>1, <3>2, <3>3, <3>4 DEF FilesInv
  <2>4. RecordsInv'
    BY <1>4, <2>2, RecordsKept, StaleRow DEF Rename
  <2>5. DetInv' /\ ScanInv' /\ WorkInv'
    BY <1>4, <2>2, DetKept, WorkKept, Noticed DEF Rename, ScanInv, vars, processor
  <2>6. QED
    BY <2>2, <2>3, <2>4, <2>5
<1>5. CASE Web(p)
  <2>1. UNCHANGED <<pc, ocrVars>>
    BY <1>5 DEF Web, processor
  <2>2. QED
    BY <2>1 DEF ocrVars, files, records, events, FilesInv, RecordsInv, OwnContentOnly, DetInv,
                ScanInv, WorkInv
<1>6. QED
  BY <1>1, <1>2, <1>3, <1>4, <1>5

(* Which variables decide each part. *)
LEMMA FilesUntouched ==
  ASSUME FilesInv, UNCHANGED <<disk, version, had, putting>>
  PROVE  FilesInv' /\ Grows
<1>1. version \in 0 .. MaxVersion
  BY DEF FilesInv
<1>2. version <= version
  BY <1>1, MaxVersionAssumption
<1>3. QED
  BY <1>2 DEF FilesInv, Grows

LEMMA RecordsUntouched ==
  ASSUME RecordsInv, UNCHANGED <<records, had>>
  PROVE  RecordsInv'
  BY DEF records, RecordsInv, OwnContentOnly

LEMMA DetUntouched ==
  ASSUME DetInv, UNCHANGED <<noticed, det, had>>
  PROVE  DetInv'
  BY DEF DetInv

LEMMA ScanUntouched ==
  ASSUME ScanInv, UNCHANGED scan
  PROVE  ScanInv'
  BY DEF ScanInv

LEMMA WorkUntouched ==
  ASSUME WorkInv, UNCHANGED <<work, pc, had, backup>>
  PROVE  WorkInv'
  BY DEF WorkInv

(* A detector that has read a content remembers it. *)
LEMMA ReadContent ==
  ASSUME DetInv, NEW d \in Goroutines, NEW at \in DetStates \ {"transfer"},
         det[d].note \in Paths, NEW c \in Recorded, c \in had[det[d].note] \cup {NoFile},
         det' = [det EXCEPT ![d].at = at, ![d].hash = c], UNCHANGED <<had, noticed>>
  PROVE  DetInv'
<1> DEFINE DetType == [at : DetStates, note : Paths \cup {NoPath},
                       hash : Recorded, old : Paths \cup {NoPath}]
<1>1. det \in [Goroutines -> DetType] /\ det[d] \in DetType
  BY DEF DetInv
<1>2. det'[d] = [at |-> at, note |-> det[d].note, hash |-> c, old |-> det[d].old]
  BY <1>1
<1>3. \A e \in Goroutines \ {d} : det'[e] = det[e]
  BY <1>1
<1>4. det' \in [Goroutines -> DetType]
  <2>1. det'[d] \in DetType
    BY <1>1, <1>2
  <2>2. det' = [e \in Goroutines |-> det'[e]]
    BY <1>1
  <2>3. QED
    BY <1>1, <1>3, <2>1, <2>2
<1>5. QED
  BY <1>2, <1>3, <1>4 DEF DetInv

(* Of a detector's steps only the upsert and the transfer write a row. *)
LEMMA DetectInv ==
  ASSUME PipelineInv, NEW d \in Goroutines, Detect(d)
  PROVE  PartsInv'
<1> USE DEF PipelineInv
<1>1. /\ UNCHANGED <<files, putting, backup, catalog, index, events, scan, work, pc>>
      /\ FilesInv' /\ Grows /\ ScanInv' /\ WorkInv'
  <2>1. UNCHANGED <<files, putting, backup, catalog, index, events, scan, work, pc>>
    BY DEF Detect, UpsertFile, GetJob, GetHash, CompareHash, HashFile, LookupByHash, MoveJob,
           SetHash, EnqueueNote, DetectorOnly, records, vars, processor
  <2>2. QED
    BY <2>1, FilesUntouched, ScanUntouched, WorkUntouched DEF files
<1>2. UNCHANGED <<had, disk, noticed>> /\ det[d].at # "idle" /\ det[d].note \in Paths
  <2>1. det[d].at # "idle"
    BY DEF Detect, UpsertFile, GetJob, GetHash, CompareHash, HashFile, LookupByHash, MoveJob,
           SetHash, EnqueueNote
  <2>2. QED
    BY <1>1, <2>1 DEF files, events, DetInv
<1>3. RecordsInv'
  <2>1. CASE UpsertFile(d)
    <3>1. row' \in [Paths -> RowType]
          /\ \A p \in Paths : row'[p].hash = row[p].hash /\ row'[p].backed = row[p].backed
      BY <1>2, <2>1, SeenRow DEF UpsertFile, RecordsInv
    <3>2. QED
      BY <1>1, <3>1, RecordsKept
  <2>2. CASE SetHash(d)
    <3>1. det[d].hash \in had[det[d].note] \cup {NoFile} /\ det[d].hash \in Recorded
      BY <1>2 DEF DetInv
    <3>2. row' = [row EXCEPT ![det[d].note].hash =
                    IF row[det[d].note].exists THEN det[d].hash ELSE NoFile]
      BY <2>2 DEF SetHash
    <3>3. row' \in [Paths -> RowType] /\ \A p \in Paths : row'[p].backed = row[p].backed
      BY <1>2, <3>1, <3>2 DEF RecordsInv, RowType, Recorded
    <3>4. \A p \in Paths : row'[p].hash \in had'[p] \cup {NoFile}
      BY <1>2, <3>1, <3>2 DEF RecordsInv, RowType, OwnContentOnly
    <3>5. QED
      BY <1>1, <1>2, <3>3, <3>4 DEF RecordsInv, OwnContentOnly
  <2>3. CASE UNCHANGED row
    BY <1>1, <1>2, <2>3, RecordsUntouched DEF records
  <2>4. QED
    BY <2>1, <2>2, <2>3
       DEF Detect, UpsertFile, GetJob, GetHash, CompareHash, HashFile, LookupByHash, MoveJob,
           SetHash, EnqueueNote, DetectorOnly, records
<1>4. DetInv'
  <2> USE DEF DetInv
  <2>1. ASSUME Ends(d) PROVE DetInv'
    BY <1>2, <2>1 DEF Ends, DetIdle, DetStates, Recorded
  <2>2. ASSUME NEW at \in DetStates \ {"transfer"}, Goes(d, at) PROVE DetInv'
    BY <1>2, <2>2 DEF Goes
  <2>3. CASE GetHash(d)
    <3>1. row[det[d].note].hash \in had[det[d].note] \cup {NoFile}
          /\ row[det[d].note].hash \in Recorded
      BY <1>2 DEF RecordsInv, OwnContentOnly, RowType
    <3>2. CASE det' = [det EXCEPT ![d].at = "compare", ![d].hash = row[det[d].note].hash]
      BY <1>2, <3>1, <3>2, ReadContent DEF DetStates
    <3>3. QED
      BY <2>1, <2>3, <3>2 DEF GetHash
  <2>4. CASE HashFile(d)
    <3>1. disk[det[d].note] \in had[det[d].note] \cup {NoFile}
          /\ disk[det[d].note] \in Recorded
      BY <1>2 DEF FilesInv
    <3>2. CASE det' = [det EXCEPT ![d].at = "lookup", ![d].hash = disk[det[d].note]]
      BY <1>2, <3>1, <3>2, ReadContent DEF DetStates
    <3>3. QED
      BY <2>2, <2>4, <3>2 DEF HashFile, DetStates
  <2>5. CASE LookupByHash(d)
    <3>1. ASSUME NEW q \in SameContent(det[d].hash),
                 det' = [det EXCEPT ![d].at = IF q = det[d].note THEN "enqueue" ELSE "transfer",
                                    ![d].old = q]
          PROVE  DetInv'
      <4>1. q \in Paths
        BY DEF SameContent
      <4>2. det'[d] = [det[d] EXCEPT !.at = IF q = det[d].note THEN "enqueue" ELSE "transfer",
                                     !.old = q]
        BY <3>1
      <4>3. /\ det'[d].note = det[d].note /\ det'[d].hash = det[d].hash /\ det'[d].old = q
            /\ det'[d].at \in {"enqueue", "transfer"}
            /\ \A e \in Goroutines \ {d} : det'[e] = det[e]
        BY <3>1, <4>2
      <4>4. det' \in [Goroutines -> [at : DetStates, note : Paths \cup {NoPath},
                                    hash : Recorded, old : Paths \cup {NoPath}]]
        <5>1. det'[d] \in [at : DetStates, note : Paths \cup {NoPath},
                          hash : Recorded, old : Paths \cup {NoPath}]
          <6>1. det'[d] = [at |-> det'[d].at, note |-> det[d].note,
                           hash |-> det[d].hash, old |-> q]
            BY <4>2, <4>3
          <6>2. QED
            BY <4>1, <4>3, <6>1 DEF DetStates
        <5>2. det' = [e \in Goroutines |-> det'[e]]
          BY <3>1
        <5>3. QED
          BY <4>3, <5>1, <5>2
      <4>5. QED
        BY <1>2, <4>1, <4>3, <4>4
    <3>2. QED
      BY <2>2, <2>5, <3>1 DEF LookupByHash, DetStates
  <2>6. CASE UpsertFile(d) \/ GetJob(d) \/ CompareHash(d) \/ MoveJob(d) \/ SetHash(d)
             \/ EnqueueNote(d)
    BY <2>1, <2>2, <2>6
       DEF UpsertFile, GetJob, CompareHash, MoveJob, SetHash, EnqueueNote, DetStates
  <2>7. QED
    BY <2>3, <2>4, <2>5, <2>6 DEF Detect
<1>5. QED
  BY <1>1, <1>3, <1>4 DEF PartsInv

(* The steps of a scan. *)
LEMMA ReconcileInv ==
  ASSUME PipelineInv, Reconcile
  PROVE  PartsInv'
<1> USE DEF PipelineInv
<1>1. UNCHANGED <<files, putting, backup, catalog, noticed, work, pc, had>>
  BY DEF Reconcile, ScanStart, ListOrphans, PruneRow, ScanEnd, Walk, PruneJob, FeedNext, ScanOnly,
         files, records, events, vars, processor
<1>2. FilesInv' /\ Grows /\ WorkInv'
  BY <1>1, FilesUntouched, WorkUntouched DEF files
<1>3. ASSUME UNCHANGED <<row, index, det>>, ScanInv' PROVE PartsInv'
  BY <1>1, <1>2, <1>3, RecordsUntouched, DetUntouched DEF records, PartsInv
<1>4. CASE ScanStart
  <2>1. ScanInv'
    BY <1>4 DEF ScanStart, Walking, ScanIdle, ScanInv
  <2>2. QED
    BY <1>3, <1>4, <2>1 DEF ScanStart
<1>5. ASSUME NEW p \in Paths, Walk(p) PROVE PartsInv'
  <2>1. ScanInv'
    <3>1. scan'.at = scan.at /\ scan'.note = scan.note /\ scan'.todo = scan.todo \ {p}
          /\ scan'.seen \in {scan.seen, scan.seen \cup {p}}
          /\ scan'.changed \in {scan.changed, scan.changed \cup {p}}
      BY <1>5 DEF Walk, ScanInv
    <3>2. scan' = [at |-> scan'.at, todo |-> scan'.todo, seen |-> scan'.seen,
                   changed |-> scan'.changed, note |-> scan'.note]
      BY <1>5 DEF Walk, ScanInv
    <3>3. QED
      BY <3>1, <3>2 DEF ScanInv
  <2>2. row' \in [Paths -> RowType]
        /\ \A q \in Paths : row'[q].hash = row[q].hash /\ row'[q].backed = row[q].backed
    BY <1>5, SeenRow DEF Walk, RecordsInv
  <2>3. QED
    BY <1>1, <1>2, <1>5, <2>1, <2>2, RecordsKept, DetUntouched DEF Walk, PartsInv
<1>6. CASE ListOrphans
  <2>1. ScanInv'
    BY <1>6 DEF ListOrphans, ScanInv
  <2>2. QED
    BY <1>3, <1>6, <2>1 DEF ListOrphans
<1>7. ASSUME NEW p \in Paths, PruneJob(p) PROVE PartsInv'
  <2>1. ScanInv'
    BY <1>7 DEF PruneJob, ScanInv
  <2>2. RecordsInv'
    BY <1>1, <1>7, MaxVersionAssumption DEF PruneJob, RecordsInv, OwnContentOnly
  <2>3. QED
    BY <1>1, <1>2, <1>7, <2>1, <2>2, DetUntouched DEF PruneJob, PartsInv
<1>8. CASE PruneRow
  <2>1. ScanInv'
    BY <1>8 DEF PruneRow, ScanInv
  <2>2. row' = [row EXCEPT ![scan.note] = NoRow] /\ UNCHANGED <<index, det>>
    BY <1>8 DEF PruneRow
  <2>3. row' \in [Paths -> RowType]
    BY <2>2 DEF RecordsInv, RowType, NoRow, Recorded
  <2>4. \A p \in Paths : row'[p] \in {row[p], NoRow}
    BY <2>2 DEF RecordsInv
  <2>5. RecordsInv'
    BY <1>1, <2>2, <2>3, <2>4 DEF RecordsInv, OwnContentOnly, NoRow
  <2>6. QED
    BY <1>1, <1>2, <2>1, <2>2, <2>5, DetUntouched DEF PartsInv
<1>9. ASSUME NEW p \in Paths, FeedNext(p) PROVE PartsInv'
  <2>1. ScanInv'
    BY <1>9 DEF FeedNext, ScanInv
  <2>2. DetInv'
    BY <1>1, <1>9 DEF FeedNext, DetInv, DetIdle, DetStates, Recorded
  <2>3. QED
    BY <1>1, <1>2, <1>9, <2>1, <2>2, RecordsUntouched DEF FeedNext, records, PartsInv
<1>10. CASE ScanEnd
  <2>1. ScanInv'
    BY <1>10 DEF ScanEnd, ScanIdle, ScanInv
  <2>2. QED
    BY <1>3, <1>10, <2>1 DEF ScanEnd, records
<1>11. QED
  BY <1>4, <1>5, <1>6, <1>7, <1>8, <1>9, <1>10 DEF Reconcile

(* The worker's place in processJob, and what each place relies on.        *)
WorkType == [at : WorkStates, note : Paths \cup {NoPath}, held : Recorded, left : Nat]

WorkRecord(r) == /\ r.note \in Paths
                 /\ r.held \in had[r.note] \cup {NoFile}
                 /\ r.at \in {"recognize", "write", "reload", "hash", "after"} => r.held # NoFile
                 /\ r.at \in {"load", "recognize", "write", "reload"} => backup[r.note] # NoFile
                 /\ r.at \in {"backup", "load", "recognize", "write", "reload"} => r.left >= 1

(* One worker moves on, to a record that fits the new state. *)
LEMMA WorkMoves ==
  ASSUME WorkInv, Grows, NEW w \in Workers, NEW r \in WorkType, work' = [work EXCEPT ![w] = r],
         \A v \in Workers \ {w} : pc'[v] = pc[v],
         pc'[w] = "working" <=> r.at # "off",
         r.at # "off" => WorkRecord(r)',
         \A p \in Paths : backup[p] # NoFile => backup'[p] # NoFile
  PROVE  WorkInv'
<1>1. work' \in [Workers -> WorkType] /\ work'[w] = r
  BY DEF WorkInv, WorkType
<1>2. \A v \in Workers \ {w} : work'[v] = work[v]
  BY DEF WorkInv
<1>3. ASSUME NEW v \in Workers
      PROVE  /\ pc'[v] = "working" <=> work'[v].at # "off"
             /\ work'[v].at # "off" => WorkRecord(work[v])'
  <2>1. CASE v = w
    BY <1>1, <2>1
  <2>2. CASE v # w
    <3>1. pc'[v] = pc[v] /\ work'[v] = work[v]
      BY <1>2, <2>2
    <3>2. work[v].at # "off" => WorkRecord(work[v]) /\ had[work[v].note] \subseteq had'[work[v].note]
      BY DEF WorkInv, WorkRecord, Grows
    <3>3. QED
      BY <3>1, <3>2 DEF WorkInv, WorkRecord
  <2>3. QED
    BY <2>1, <2>2
<1>4. QED
  BY <1>1, <1>3 DEF WorkInv, WorkType, WorkRecord

(* A worker at work: its record, and the next one if only at and held change. *)
LEMMA WorkerAt ==
  ASSUME WorkInv, NEW w \in Workers, work[w].at # "off"
  PROVE  /\ work[w] \in WorkType /\ WorkRecord(work[w]) /\ pc[w] = "working"
         /\ work[w] = [at |-> work[w].at, note |-> work[w].note,
                       held |-> work[w].held, left |-> work[w].left]
<1>1. work[w] \in WorkType
  BY DEF WorkInv, WorkType
<1>2. work[w] = [at |-> work[w].at, note |-> work[w].note,
                 held |-> work[w].held, left |-> work[w].left]
  BY <1>1 DEF WorkType
<1>3. QED
  BY <1>1, <1>2 DEF WorkInv, WorkRecord

LEMMA AtMoves ==
  ASSUME NEW w \in Workers, work \in [Workers -> WorkType], NEW at \in WorkStates, Moves(w, at)
  PROVE  \E r \in WorkType :
           /\ r = [at |-> at, note |-> work[w].note, held |-> work[w].held, left |-> work[w].left]
           /\ work' = [work EXCEPT ![w] = r]
<1>1. work[w] \in WorkType /\ work' = [work EXCEPT ![w] = [work[w] EXCEPT !.at = at]]
  BY DEF Moves
<1>2. [work[w] EXCEPT !.at = at] =
        [at |-> at, note |-> work[w].note, held |-> work[w].held, left |-> work[w].left]
  BY <1>1 DEF WorkType
<1>3. [work[w] EXCEPT !.at = at] \in WorkType
  BY <1>1, <1>2 DEF WorkType
<1>4. QED
  BY <1>1, <1>2, <1>3

(* The worker moves on with a content it has read. *)
Reads(w, at, c) == work' = [work EXCEPT ![w].at = at, ![w].held = c]

LEMMA HeldMoves ==
  ASSUME NEW w \in Workers, work \in [Workers -> WorkType], NEW at \in WorkStates,
         NEW c \in Recorded, Reads(w, at, c)
  PROVE  \E r \in WorkType :
           /\ r = [at |-> at, note |-> work[w].note, held |-> c, left |-> work[w].left]
           /\ work' = [work EXCEPT ![w] = r]
<1>1. work[w] \in WorkType
  OBVIOUS
<1>2. work'[w] = [at |-> at, note |-> work[w].note, held |-> c, left |-> work[w].left]
  BY <1>1 DEF Reads, WorkType
<1>3. work'[w] \in WorkType
  BY <1>1, <1>2 DEF WorkType
<1>4. work' = [work EXCEPT ![w] = work'[w]]
  BY DEF Reads
<1>5. QED
  BY <1>2, <1>3, <1>4

LEMMA ClaimInv ==
  ASSUME PipelineInv, NEW w \in Workers, Claim(w)
  PROVE  PartsInv'
<1> USE DEF PipelineInv
<1>1. /\ UNCHANGED <<files, records, putting, events, det, scan, had, path>>
      /\ FilesInv' /\ Grows /\ RecordsInv' /\ DetInv' /\ ScanInv'
  <2>1. UNCHANGED <<files, records, putting, events, det, scan, had, noticed, path>>
    BY DEF Claim, ClaimSelect, files, events, table
  <2>2. QED
    BY <2>1, FilesUntouched, RecordsUntouched, DetUntouched, ScanUntouched DEF files
<1>2. ClaimSelect(w) /\ pc[w] = "selecting"
  BY DEF Claim, ClaimSelect
<1>3. CASE pc'[w] = "working"
  <2>1. job'[w] \in Selected(w)
    BY <1>2, <1>3 DEF ClaimSelect, TypeOK
  <2>2. job'[w] \in Ids /\ status[job'[w]] = "in_progress"
    BY <1>2, <2>1 DEF Selected, QueueInv, HandsHoldRows
  <2>3. PICK n \in Paths : n = path[job'[w]]
    BY <2>2 DEF TypeOK, QueueInv, RowsHavePaths
  <2> DEFINE r == [at |-> "backup", note |-> n, held |-> NoFile, left |-> Pages]
  <2>4. r \in WorkType /\ r.at # "off"
    BY <2>3, PagesAssumption DEF WorkType, WorkStates, Recorded
  <2>5. WorkRecord(r)'
    BY <1>1, <2>3, PagesAssumption DEF WorkRecord
  <2>6. work' = [work EXCEPT ![w] = r]
    BY <1>1, <1>3, <2>3 DEF Claim
  <2>7. \A v \in Workers \ {w} : pc'[v] = pc[v]
    BY <1>2 DEF ClaimSelect, TypeOK
  <2>8. WorkInv'
    <3> HIDE DEF r
    <3>1. UNCHANGED backup
      BY <1>1 DEF records
    <3>2. QED
      BY <1>1, <1>3, <2>4, <2>5, <2>6, <2>7, <3>1, WorkMoves
  <2>9. QED
    BY <1>1, <2>8 DEF PartsInv
<1>4. CASE pc'[w] # "working"
  <2>1. work' = [work EXCEPT ![w] = WorkIdle] /\ \A v \in Workers \ {w} : pc'[v] = pc[v]
    BY <1>2, <1>4 DEF Claim, ClaimSelect, TypeOK
  <2>2. WorkIdle \in WorkType /\ WorkIdle.at = "off"
    BY DEF WorkIdle, WorkType, WorkStates, Recorded
  <2>3. WorkInv'
    BY <1>1, <1>4, <2>1, <2>2, WorkMoves DEF records
  <2>4. QED
    BY <1>1, <2>3 DEF PartsInv
<1>5. QED
  BY <1>3, <1>4

LEMMA OutcomeInv ==
  ASSUME PipelineInv, NEW w \in Workers, NEW o \in Finished, Outcome(w, o)
  PROVE  PartsInv'
<1> USE DEF PipelineInv
<1>1. UNCHANGED <<files, records, putting, events, det, scan, had, noticed, backup>>
  BY DEF Outcome, files, events, records
<1>2. FilesInv' /\ Grows /\ RecordsInv' /\ DetInv' /\ ScanInv'
  BY <1>1, FilesUntouched, RecordsUntouched, DetUntouched, ScanUntouched DEF files
<1>3. /\ work' = [work EXCEPT ![w] = WorkIdle] /\ pc'[w] = "idle"
      /\ \A v \in Workers \ {w} : pc'[v] = pc[v]
  BY DEF Outcome, Finish, TypeOK
<1>4. WorkIdle \in WorkType /\ WorkIdle.at = "off"
  BY DEF WorkIdle, WorkType, WorkStates, Recorded
<1>5. WorkInv'
  BY <1>1, <1>2, <1>3, <1>4, WorkMoves
<1>6. QED
  BY <1>2, <1>5 DEF PartsInv

(* Injected text leaves the version it was recognised in.                  *)
LEMMA InjectedContent ==
  ASSUME NEW c \in Content
  PROVE  [c EXCEPT !.ocr = TRUE] \in Content /\ [c EXCEPT !.ocr = TRUE].ver = c.ver
  BY DEF Content

(* The steps between a claim and its outcome.                              *)
LEMMA ProcessJobInv ==
  ASSUME PipelineInv, NEW w \in Workers,
         \/ EnsureBackup(w) \/ Load(w) \/ Recognize(w) \/ Inject(w) \/ Reload(w)
         \/ IndexOnly(w) \/ StoreHash(w) \/ ReadMD5(w) \/ AfterInject(w)
  PROVE  PartsInv'
<1> USE DEF PipelineInv
<1>1. work[w].at # "off" /\ UNCHANGED <<det, scan, vars, putting>>
  BY DEF EnsureBackup, Load, Recognize, Inject, Reload, IndexOnly, StoreHash, ReadMD5,
         AfterInject, At, WorkOnly, Parses
<1>2. /\ work[w] \in WorkType /\ WorkRecord(work[w]) /\ pc[w] = "working"
      /\ work[w] = [at |-> work[w].at, note |-> work[w].note,
                    held |-> work[w].held, left |-> work[w].left]
  BY <1>1, WorkerAt
<1>3. PICK p \in Paths : p = work[w].note
  BY <1>2 DEF WorkRecord
<1>0. work \in [Workers -> WorkType]
  BY DEF WorkInv, WorkType
<1>4. UNCHANGED pc
  BY <1>1 DEF vars, processor
<1>5. ScanInv'
  BY <1>1, ScanUntouched
<1>6. ASSUME NEW r \in WorkType, work' = [work EXCEPT ![w] = r], r.at # "off", Grows,
             WorkRecord(r)', \A q \in Paths : backup[q] # NoFile => backup'[q] # NoFile
      PROVE  WorkInv'
  BY <1>2, <1>4, <1>6, WorkMoves
<1>7. disk[p] \in had[p] \cup {NoFile} /\ disk[p] \in Recorded /\ had[p] \subseteq Content
  BY DEF FilesInv
<1>8. CASE Inject(w)
  <2>1. PICK c \in Content : c = [work[w].held EXCEPT !.ocr = TRUE] /\ c.ver <= version
    <3>1. work[w].held \in had[p] /\ work[w].held \in Content
      BY <1>2, <1>3, <1>7, <1>8 DEF Inject, At, WorkRecord
    <3>2. work[w].held.ver <= version
      BY <3>1 DEF FilesInv
    <3>3. QED
      BY <3>1, <3>2, InjectedContent
  <2>2. WriteFile(p, c) /\ row' = RowStale(p) /\ UNCHANGED <<version, backup, catalog, index>>
        /\ Moves(w, "reload") /\ work[w].at = "write"
    BY <1>3, <1>8, <2>1 DEF Inject, At
  <2>3. version' \in 0 .. MaxVersion /\ version <= version' /\ version' = version
    BY <2>2, MaxVersionAssumption DEF FilesInv
  <2>4. FilesInv' /\ Grows
    BY <1>1, <2>1, <2>2, <2>3, WriteFileInv
  <2>5. RecordsInv'
    BY <2>2, <2>4, RecordsKept, StaleRow
  <2>6. DetInv'
    BY <1>1, <2>2, <2>4, DetKept, Noticed DEF WriteFile
  <2>7. PICK r \in WorkType :
          /\ r = [at |-> "reload", note |-> p, held |-> work[w].held, left |-> work[w].left]
          /\ work' = [work EXCEPT ![w] = r]
    BY <1>0, <1>3, <2>2, AtMoves DEF WorkStates
  <2>9. WorkRecord(r)'
    BY <1>2, <1>3, <2>2, <2>4, <2>7 DEF WorkRecord, Grows
  <2>10. WorkInv'
    BY <1>6, <2>2, <2>4, <2>7, <2>9
  <2>11. QED
    BY <1>5, <2>4, <2>5, <2>6, <2>10 DEF PartsInv
<1>9. CASE ~Inject(w)
  <2>1. UNCHANGED <<disk, version, had, events>>
    BY <1>9 DEF EnsureBackup, Load, Recognize, Reload, IndexOnly, StoreHash, ReadMD5,
                AfterInject, WorkOnly, Parses, files
  <2>2. FilesInv' /\ Grows /\ DetInv' /\ UNCHANGED <<had, disk, version>>
    BY <1>1, <2>1, FilesUntouched, DetUntouched DEF events
  <2>3. ASSUME RecordsInv', NEW r \in WorkType, work' = [work EXCEPT ![w] = r], r.at # "off",
               WorkRecord(r)', \A q \in Paths : backup[q] # NoFile => backup'[q] # NoFile
        PROVE  PartsInv'
    BY <1>5, <1>6, <2>2, <2>3 DEF PartsInv
  <2> USE <1>2, <1>3, <2>2
  <2>4. CASE EnsureBackup(w)
    <3>2. work[w].at = "backup" /\ Moves(w, "load")
          /\ UNCHANGED <<catalog, index>>
      BY <2>4 DEF EnsureBackup, At
    <3>1. PICK r \in WorkType :
            /\ r = [at |-> "load", note |-> p, held |-> work[w].held, left |-> work[w].left]
            /\ work' = [work EXCEPT ![w] = r]
      BY <1>0, <1>3, <3>2, AtMoves DEF WorkStates
    <3>4. CASE row[p].backed /\ UNCHANGED <<backup, row>>
      <4>1. RecordsInv' /\ backup[p] # NoFile
        BY <3>2, <3>4, RecordsUntouched DEF records, RecordsInv
      <4>2. WorkRecord(r)'
        BY <3>1, <3>2, <3>4, <4>1 DEF WorkRecord
      <4>3. QED
        BY <2>3, <3>1, <3>4, <4>1, <4>2
    <3>5. CASE /\ ~row[p].backed /\ disk[p] # NoFile
               /\ backup' = [backup EXCEPT ![p] = disk[p]]
               /\ row' = [row EXCEPT ![p].backed = row[p].exists]
      <4>1. \A q \in Paths : row'[q].hash = row[q].hash
        BY <3>5 DEF RecordsInv, RowType
      <4>2. row' \in [Paths -> RowType] /\ backup' \in [Paths -> Recorded]
        BY <1>7, <3>5 DEF RecordsInv, RowType
      <4>3. OwnContentOnly'
        BY <1>7, <3>2, <3>5, <4>1 DEF RecordsInv, OwnContentOnly
      <4>4. backup'[p] # NoFile /\ \A q \in Paths : backup[q] # NoFile => backup'[q] # NoFile
        BY <3>5 DEF RecordsInv
      <4>5. \A q \in Paths : row'[q].backed => backup'[q] # NoFile
        BY <3>5, <4>4 DEF RecordsInv, RowType
      <4>6. RecordsInv'
        BY <3>2, <4>2, <4>3, <4>5 DEF RecordsInv
      <4>7. WorkRecord(r)'
        BY <3>1, <3>2, <4>4 DEF WorkRecord
      <4>8. QED
        BY <2>3, <3>1, <4>4, <4>6, <4>7
    <3>6. QED
      BY <2>4, <3>4, <3>5 DEF EnsureBackup
  <2>5. ASSUME NEW i \in 0 .. MaxVersion, i \in {c.ver : c \in had[p]} \cup {0},
               index' = [index EXCEPT ![p] = i], UNCHANGED <<row, backup, catalog>>
        PROVE  RecordsInv'
    BY <2>5 DEF RecordsInv, OwnContentOnly
  <2>6. \A c \in had[p] : c.ver \in 0 .. MaxVersion /\ c.ver \in {e.ver : e \in had[p]} \cup {0}
    BY <1>7, MaxVersionAssumption DEF Content
  <2>7. 0 \in 0 .. MaxVersion
    BY MaxVersionAssumption
  <2>8. CASE Load(w)
    <3>2. /\ work[w].at = "load" /\ disk[p] # NoFile /\ UNCHANGED <<row, backup, catalog>>
          /\ work' = [work EXCEPT ![w].at = "recognize", ![w].held = disk[p]]
          /\ index' = [index EXCEPT ![p] = IF disk[p].ocr THEN disk[p].ver ELSE 0]
      BY <2>8 DEF Load, At
    <3>0. "recognize" \in WorkStates
      BY DEF WorkStates
    <3>1. PICK r \in WorkType :
            /\ r = [at |-> "recognize", note |-> work[w].note, held |-> disk[p], left |-> work[w].left]
            /\ work' = [work EXCEPT ![w] = r]
      <4>1. PICK c \in Recorded : c = disk[p]
        BY <1>7
      <4>2. Reads(w, "recognize", c)
        BY <3>2, <4>1 DEF Reads
      <4>3. QED
        BY <1>0, <3>0, <4>1, <4>2, HeldMoves
    <3>4. WorkRecord(r)'
      BY <1>7, <3>1, <3>2 DEF WorkRecord
    <3>5. RecordsInv'
      BY <1>7, <2>5, <2>6, <2>7, <3>2
    <3>6. QED
      BY <2>3, <3>1, <3>2, <3>4, <3>5
  <2>9. ASSUME NEW c \in had[p], NextPage(w, c), work[w].at \in {"write", "reload"},
               index' = [index EXCEPT ![p] = work[w].held.ver], UNCHANGED <<row, backup, catalog>>
        PROVE  PartsInv'
    <3>1. PICK r : r = [at |-> IF work[w].left = 1 THEN "hash" ELSE "recognize", note |-> p,
                        held |-> c, left |-> work[w].left - 1]
      OBVIOUS
    <3>2. work[w].held \in had[p] /\ work[w].left \in Nat /\ work[w].left >= 1
      BY <2>9 DEF WorkRecord, WorkType
    <3>3. c # NoFile /\ c \in Content
      BY <1>7, NoFileAssumption
    <3>4. r \in WorkType /\ r.at # "off"
      BY <3>1, <3>2, <3>3 DEF WorkType, WorkStates, Recorded
    <3>5. work' = [work EXCEPT ![w] = r]
      BY <2>9, <3>1 DEF NextPage, WorkInv, WorkType
    <3>6. WorkRecord(r)'
      BY <2>9, <3>1, <3>2, <3>3 DEF WorkRecord
    <3>7. RecordsInv'
      BY <2>5, <2>6, <2>9, <3>2
    <3>8. QED
      BY <2>3, <2>9, <3>4, <3>5, <3>6, <3>7
  <2>10. CASE Reload(w)
    BY <1>7, <2>9, <2>10 DEF Reload, At
  <2>11. CASE IndexOnly(w)
    BY <2>9, <2>11 DEF IndexOnly, At, WorkRecord
  <2>12. CASE StoreHash(w)
    <3>2. /\ Moves(w, "md5") /\ UNCHANGED <<backup, catalog, index>>
          /\ row' = [row EXCEPT ![p].hash = IF row[p].exists /\ disk[p] # NoFile THEN disk[p] ELSE @]
      BY <2>12 DEF StoreHash
    <3>1. PICK r \in WorkType :
            /\ r = [at |-> "md5", note |-> p, held |-> work[w].held, left |-> work[w].left]
            /\ work' = [work EXCEPT ![w] = r]
      BY <1>0, <1>3, <3>2, AtMoves DEF WorkStates
    <3>4. WorkRecord(r)'
      BY <3>1 DEF WorkRecord
    <3>5. row' \in [Paths -> RowType] /\ \A q \in Paths : row'[q].backed = row[q].backed
      BY <1>7, <3>2 DEF RecordsInv, RowType
    <3>6. \A q \in Paths : row'[q].hash \in had[q] \cup {NoFile}
      BY <1>7, <3>2 DEF RecordsInv, RowType, OwnContentOnly
    <3>7. RecordsInv'
      BY <3>2, <3>5, <3>6 DEF RecordsInv, OwnContentOnly
    <3>8. QED
      BY <2>3, <3>1, <3>2, <3>4, <3>7
  <2>13. CASE ReadMD5(w)
    <3>2. /\ work' = [work EXCEPT ![w].at = IF disk[p] = NoFile THEN "done" ELSE "after",
                                  ![w].held = disk[p]]
          /\ UNCHANGED records
      BY <2>13 DEF ReadMD5
    <3>1. PICK a \in {"done", "after"} : a = IF disk[p] = NoFile THEN "done" ELSE "after"
      OBVIOUS
    <3>3. PICK r \in WorkType :
            /\ r = [at |-> a, note |-> work[w].note, held |-> disk[p], left |-> work[w].left]
            /\ work' = [work EXCEPT ![w] = r]
      <4>1. a \in WorkStates
        BY <3>1 DEF WorkStates
      <4>2. PICK c \in Recorded : c = disk[p]
        BY <1>7
      <4>3. Reads(w, a, c)
        BY <3>1, <3>2, <4>2 DEF Reads
      <4>4. QED
        BY <1>0, <4>1, <4>2, <4>3, HeldMoves
    <3>4. WorkRecord(r)'
      BY <1>7, <3>1, <3>3 DEF WorkRecord
    <3>5. RecordsInv' /\ UNCHANGED backup
      BY <3>2, RecordsUntouched DEF records
    <3>6. QED
      BY <2>3, <3>1, <3>3, <3>4, <3>5
  <2>14. CASE AfterInject(w)
    <3>2. /\ Moves(w, "done") /\ UNCHANGED <<row, backup, index>>
          /\ catalog' = [catalog EXCEPT ![p] = IF @ = NoFile THEN @ ELSE work[w].held]
      BY <2>14 DEF AfterInject
    <3>1. PICK r \in WorkType :
            /\ r = [at |-> "done", note |-> p, held |-> work[w].held, left |-> work[w].left]
            /\ work' = [work EXCEPT ![w] = r]
      BY <1>0, <1>3, <3>2, AtMoves DEF WorkStates
    <3>4. WorkRecord(r)'
      BY <3>1 DEF WorkRecord
    <3>5. work[w].held \in had[p] \cup {NoFile} /\ work[w].held \in Recorded
      BY DEF WorkRecord, WorkType
    <3>6. RecordsInv'
      BY <3>2, <3>5 DEF RecordsInv, OwnContentOnly
    <3>7. QED
      BY <2>3, <3>1, <3>2, <3>4, <3>6
  <2>15. CASE Recognize(w)
    <3>2. /\ work[w].at = "recognize" /\ Moves(w, "write")
          /\ UNCHANGED records
      BY <2>15 DEF Recognize, At
    <3>1. PICK r \in WorkType :
            /\ r = [at |-> "write", note |-> p, held |-> work[w].held, left |-> work[w].left]
            /\ work' = [work EXCEPT ![w] = r]
      BY <1>0, <1>3, <3>2, AtMoves DEF WorkStates
    <3>4. RecordsInv' /\ UNCHANGED backup
      BY <3>2, RecordsUntouched DEF records
    <3>5. WorkRecord(r)'
      BY <3>1, <3>2, <3>4 DEF WorkRecord
    <3>6. QED
      BY <2>3, <3>1, <3>4, <3>5
  <2>16. QED
    BY <1>9, <2>4, <2>8, <2>10, <2>11, <2>12, <2>13, <2>14, <2>15
<1>10. QED
  BY <1>8, <1>9

(* The steps that only begin or end what goroutines do. *)
LEMMA ProcessInv ==
  ASSUME PipelineInv,
         \/ \E w \in Workers : Startup(w)
         \/ \E w \in Workers : ClaimUpdate(w) /\ UNCHANGED ocrVars
         \/ \E i \in Ids : DelayEnds(i) /\ UNCHANGED <<processor, crashes, ocrVars>>
         \/ \E d \in Detectors, p \in Paths : Notice(d, p)
         \/ Die
  PROVE  PartsInv'
<1> USE DEF PipelineInv
<1>1. UNCHANGED <<files, records, putting, had, backup>>
  BY DEF Startup, Notice, Die, ocrVars, files, records
<1>2. FilesInv' /\ Grows /\ RecordsInv'
  BY <1>1, FilesUntouched, RecordsUntouched DEF files
<1>3. ASSUME UNCHANGED <<det, noticed, scan, work>>,
             \A w \in Workers : pc'[w] = "working" <=> pc[w] = "working"
      PROVE  PartsInv'
  <2>1. DetInv' /\ ScanInv' /\ WorkInv'
    BY <1>1, <1>3, DetUntouched, ScanUntouched DEF WorkInv
  <2>2. QED
    BY <1>2, <2>1 DEF PartsInv
<1>4. ASSUME NEW w \in Workers, Startup(w) PROVE PartsInv'
  <2>1. UNCHANGED <<det, noticed, work>> /\ scan' = Walking
        /\ \A v \in Workers : pc'[v] = "working" <=> pc[v] = "working"
    BY <1>4 DEF Startup, Boot, Launch, events, TypeOK
  <2>2. DetInv' /\ WorkInv'
    BY <1>1, <2>1, DetUntouched DEF WorkInv
  <2>3. ScanInv'
    BY <2>1 DEF ScanInv, Walking, ScanIdle
  <2>4. QED
    BY <1>2, <2>2, <2>3 DEF PartsInv
<1>5. ASSUME NEW w \in Workers, ClaimUpdate(w), UNCHANGED ocrVars PROVE PartsInv'
  BY <1>3, <1>5 DEF ClaimUpdate, ocrVars, events, TypeOK
<1>6. ASSUME NEW i \in Ids, DelayEnds(i), UNCHANGED <<processor, crashes, ocrVars>>
      PROVE  PartsInv'
  BY <1>3, <1>6 DEF ocrVars, events, processor
<1>7. ASSUME NEW d \in Detectors, NEW p \in Paths, Notice(d, p) PROVE PartsInv'
  <2>1. det' = [det EXCEPT ![d] = [DetIdle EXCEPT !.at = "upsert", !.note = p]]
        /\ noticed' = noticed \ {p} /\ UNCHANGED <<scan, work, pc>>
    BY <1>7 DEF Notice, vars, processor
  <2>2. DetInv'
    BY <1>1, <2>1 DEF DetInv, DetIdle, DetStates, Recorded, Goroutines
  <2>3. ScanInv' /\ WorkInv'
    BY <1>1, <2>1, ScanUntouched, WorkUntouched
  <2>4. QED
    BY <1>2, <2>2, <2>3 DEF PartsInv
<1>8. CASE Die
  <2>1. /\ det' = [d \in Goroutines |-> DetIdle] /\ scan' = ScanIdle
        /\ work' = [w \in Workers |-> WorkIdle] /\ noticed' = {}
        /\ pc' = [w \in Workers |-> "off"]
    BY <1>8 DEF Die, Crash, Goroutines
  <2>2. DetInv'
    BY <1>1, <2>1 DEF DetInv, DetIdle, DetStates, Recorded
  <2>3. ScanInv'
    BY <2>1 DEF ScanInv, ScanIdle
  <2>4. WorkInv'
    BY <2>1 DEF WorkInv, WorkIdle, WorkStates, Recorded
  <2>5. QED
    BY <1>2, <2>2, <2>3, <2>4 DEF PartsInv
<1>9. QED
  BY <1>4, <1>5, <1>6, <1>7, <1>8

LEMMA PipelineStep ==
  ASSUME PipelineInv, [OcrNext]_pipelineVars
  PROVE  PipelineInv' /\ [Next]_vars
<1> USE DEF PipelineInv
<1>1. [Next]_vars
  BY QueueStep
<1>2. TypeOK' /\ QueueInv'
  BY <1>1, TypeStep, QueueInvStep
<1>3. PartsInv'
  <2>1. CASE User
    <3>1. ASSUME NEW p \in Paths, NEW q \in Paths,
                 Put(p) \/ PutDuplicate(p, q) \/ UploadFinish(p) \/ Rename(p, q) \/ Web(p)
          PROVE  PartsInv'
      BY <3>1, UserInv
    <3>2. QED
      BY <2>1, <3>1 DEF User
  <2>2. ASSUME NEW w \in Workers, Work(w) \/ GivesUp(w) PROVE PartsInv'
    <3>1. ASSUME NEW o \in Finished, Outcome(w, o) PROVE PartsInv'
      BY <3>1, OutcomeInv
    <3>2. CASE GivesUp(w)
      BY <3>1, <3>2 DEF GivesUp, Finished
    <3>3. CASE Work(w)
      BY <3>1, <3>3, ProcessInv, ClaimInv, ProcessJobInv DEF Work, Done, Finished
    <3>4. QED
      BY <2>2, <3>2, <3>3
  <2>3. ASSUME NEW d \in Goroutines, Detect(d) PROVE PartsInv'
    BY <2>3, DetectInv
  <2>4. CASE UNCHANGED pipelineVars
    <3>1. UNCHANGED <<files, records, putting, noticed, det, scan, work, pc, had, backup>>
      BY <2>4 DEF pipelineVars, ocrVars, vars, processor, events, files, records
    <3>2. QED
      BY <3>1, FilesUntouched, RecordsUntouched, DetUntouched, ScanUntouched, WorkUntouched
         DEF PartsInv, files
  <2>5. QED
    BY <2>1, <2>2, <2>3, <2>4, ProcessInv, ReconcileInv DEF OcrNext, Server, Goroutines
<1>4. QED
  BY <1>1, <1>2, <1>3 DEF PartsInv

LEMMA PipelineStart ==
  ASSUME OcrInit
  PROVE  PipelineInv /\ Init
<1>1. Init
  BY DEF OcrInit
<1>2. TypeOK
  <2>1. 0 \in Nat /\ 1 \in 1 .. MaxId + 1
    BY MaxIdAssumption
  <2>2. older \in SUBSET (Ids \X Ids)
    BY <1>1 DEF Init
  <2>3. QED
    BY <1>1, <2>1, <2>2, NoWorkerAssumption, Zenon DEF Init, TypeOK
<1>3. QueueInv
  BY <1>1, NoPathAssumption DEF Init, QueueInv, RowsHavePaths, OneRowPerNote, IdsUnused,
                                HandsHoldRows
<1>4. 0 \in 0 .. MaxVersion
  BY MaxVersionAssumption
<1>5. FilesInv
  BY <1>4 DEF OcrInit, FilesInv, Recorded
<1>6. RecordsInv
  BY <1>4 DEF OcrInit, RecordsInv, OwnContentOnly, NoRow, RowType, Recorded
<1>7. DetInv
  BY DEF OcrInit, DetInv, DetIdle, DetStates, Recorded, Goroutines
<1>8. ScanInv
  BY DEF OcrInit, ScanInv, ScanIdle
<1>9. WorkInv
  BY <1>1 DEF OcrInit, Init, WorkInv, WorkIdle, WorkStates, Recorded
<1>10. QED
  BY <1>1, <1>2, <1>3, <1>5, <1>6, <1>7, <1>8, <1>9 DEF PipelineInv

THEOREM PipelineInvariant == OcrSpec => []PipelineInv
  BY PipelineStart, PipelineStep, PTL DEF OcrSpec

(* The detectors, scans and the worker use the queue as it may be used:    *)
(* the pipeline is an implementation of it, so all that is proved of the   *)
(* queue holds in the pipeline.                                            *)
THEOREM ImplementsQueue == OcrSpec => QueueSpec
<1>1. OcrInit => Init
  BY PipelineStart
<1>2. PipelineInv /\ [OcrNext]_pipelineVars => [Next]_vars
  BY PipelineStep
<1>3. QED
  BY <1>1, <1>2, PipelineInvariant, PTL DEF OcrSpec, QueueSpec, Spec

(* One live processor and no job lost, in the pipeline. *)
THEOREM PipelineQueueSafe ==
  OcrSpec => []OneLiveProcessor /\ LostOnlyByInterruption
  BY ImplementsQueue, SingleProcessor, NoJobLost, PTL DEF QueueSpec

(* Only users add to what the worker has not read. *)
UnreadPaths == unread \in SUBSET Paths

LEMMA UnreadStep ==
  ASSUME UnreadPaths, [OcrNext]_pipelineVars
  PROVE  UnreadPaths'
<1> USE DEF UnreadPaths
<1>1. CASE User
  BY <1>1 DEF User, Put, PutDuplicate, UploadFinish, Rename, Web, Arrives, ocrVars, files
<1>2. ASSUME NEW w \in Workers, Startup(w) \/ Work(w) \/ GivesUp(w) PROVE UnreadPaths'
  BY <1>2 DEF Startup, Work, GivesUp, Outcome, Done, Claim, EnsureBackup, Load, Recognize, Inject,
              Reload, IndexOnly, StoreHash, ReadMD5, AfterInject, WorkOnly, Parses, ocrVars, files
<1>3. ASSUME NEW d \in Goroutines, Detect(d) PROVE UNCHANGED files
  BY <1>3 DEF Detect, UpsertFile, GetJob, GetHash, CompareHash, HashFile, LookupByHash, MoveJob,
              SetHash, EnqueueNote, DetectorOnly
<1>4. CASE Reconcile
  BY <1>4 DEF Reconcile, ScanStart, ListOrphans, PruneRow, ScanEnd, Walk, PruneJob, FeedNext,
              ScanOnly, files
<1>5. CASE Die
  BY <1>5 DEF Die, files
<1>6. ASSUME NEW d \in Detectors, NEW p \in Paths, Notice(d, p) PROVE UnreadPaths'
  BY <1>6 DEF Notice, files
<1>7. ASSUME UNCHANGED ocrVars PROVE UnreadPaths'
  BY <1>7 DEF ocrVars, files
<1>8. QED
  BY <1>1, <1>2, <1>3, <1>4, <1>5, <1>6, <1>7
     DEF OcrNext, Server, Goroutines, pipelineVars, files

(* Files, records and goroutines keep their types. *)
THEOREM PipelineTypes == OcrSpec => []TypeOcr
<1>1. PipelineInv /\ UnreadPaths => TypeOcr
  <2> SUFFICES ASSUME PipelineInv, UnreadPaths PROVE TypeOcr
    OBVIOUS
  <2> USE DEF PipelineInv
  <2>1. index \in [Paths -> 0 .. version]
    <3> SUFFICES ASSUME NEW p \in Paths PROVE index[p] \in 0 .. version
      BY DEF RecordsInv
    <3>1. version \in Nat /\ 0 \in 0 .. version
      BY MaxVersionAssumption DEF FilesInv
    <3>2. ASSUME NEW c \in had[p] PROVE c.ver \in 0 .. version
      BY <3>2, MaxVersionAssumption DEF FilesInv, Content
    <3>3. QED
      BY <3>1, <3>2 DEF RecordsInv, OwnContentOnly
  <2>2. \A f \in {disk, backup, catalog, putting} : f \in [Paths -> Content \cup {NoFile}]
    BY DEF FilesInv, RecordsInv, Recorded
  <2>3. QED
    BY <2>1, <2>2 DEF TypeOcr, FilesInv, RecordsInv, DetInv, WorkInv, RowType, Recorded,
                      Goroutines, DetStates, UnreadPaths
<1>2. OcrInit => UnreadPaths
  BY DEF OcrInit, UnreadPaths
<1>3. QED
  BY <1>1, <1>2, UnreadStep, PipelineInvariant, PTL DEF OcrSpec

(* A worker never rewrites a note of which there is no copy, on any page,  *)
(* whatever a scan, an upload or a rename does to the row or the file.     *)
THEOREM BackedUpFirst == OcrSpec => []BackupBeforeInject
<1>1. PipelineInv => BackupBeforeInject
  BY DEF PipelineInv, WorkInv, BackupBeforeInject
<1>2. QED
  BY <1>1, PipelineInvariant, PTL

(* No backup, stored hash, advertised MD5 or indexed text is another       *)
(* note's.                                                                 *)
THEOREM RecordsAreOwn == OcrSpec => []OwnContentOnly
<1>1. PipelineInv => OwnContentOnly
  BY DEF PipelineInv, RecordsInv
<1>2. QED
  BY <1>1, PipelineInvariant, PTL

-----------------------------------------------------------------------------
(* Tablets that upload only while the pipeline rests.  Then a version is   *)
(* one path's, a note does not change under the worker, no job moves, and  *)
(* the job of the note a worker is at is not done.                         *)
OneWorker == \A w \in Workers : ~cancelled[w] /\ (pc[w] # "off" => current = w)

VersionsOwn == \A p, q \in Paths : p # q =>
                 \A c \in had[p], e \in had[q] : c.ver # e.ver

IndexFits(p) == index[p] = 0 \/ index[p] = disk[p].ver

WorkerJob(w) ==
  /\ pc[w] \in {"selecting", "working"} => status[job[w]] \in {"in_progress", "absent"}
  /\ work[w].at # "off" =>
       /\ path[job[w]] \in {work[w].note, NoPath}
       /\ \A i \in RowOf(work[w].note) : status[i] # "done"

CalmJobs == \A w \in Workers : WorkerJob(w)

CalmDetectors ==
  \A d \in Goroutines :
    /\ det[d].at \notin {"transfer", "sethash"}
    /\ det[d].at = "lookup" => det[d].hash # NoFile
    /\ det[d].at = "compare" /\ disk[det[d].note] # NoFile /\ det[d].hash = disk[det[d].note] =>
         IndexFits(det[d].note)

CalmRecords ==
  \A p \in Paths : disk[p] # NoFile =>
    /\ row[p].hash = disk[p] => IndexFits(p)
    /\ JobDone(p) /\ catalog[p] # NoFile => catalog[p] = disk[p]

WorkerNote(w) ==
  LET p == work[w].note IN
  /\ work[w].at \in {"recognize", "write", "reload", "hash", "md5", "after", "done"} =>
       disk[p] # NoFile /\ IndexFits(p)
  /\ work[w].at \in {"recognize", "write", "reload"} => work[w].held.ver = disk[p].ver
  /\ work[w].at = "after" => work[w].held = disk[p]
  /\ work[w].at = "done" => catalog[p] \in {NoFile, disk[p]}

CalmWork == \A w \in Workers : WorkerNote(w)

CalmScan == /\ scan.at = "idle" \/ ~booted => scan = ScanIdle
            /\ \A p \in Paths : row[p].fresh => row[p].exists

(* Somebody will still look at p: its row is not fresh, the scan feeds it, *)
(* or a goroutine in enqueue will queue its job.                           *)
Underway(p) == \/ ~row[p].fresh
               \/ p \in scan.changed
               \/ \E d \in Goroutines :
                    /\ det[d].at # "idle" /\ det[d].note = p
                    /\ det[d].at = "compare" => det[d].hash # disk[p]

(* A done job whose text is that of an earlier version. *)
Outdated(p) == JobDone(p) /\ disk[p] # NoFile /\ ~IndexFits(p)

NoEditMissed == crashes = 0 => \A p \in Paths : Outdated(p) => Underway(p)

CalmInv == /\ PipelineInv /\ OneWorker /\ VersionsOwn /\ CalmJobs /\ CalmDetectors
           /\ CalmRecords /\ CalmWork /\ CalmScan /\ NoEditMissed

(* Which of the server's steps write what. *)
WorkSteps(w) == \/ EnsureBackup(w) \/ Load(w) \/ Recognize(w) \/ Inject(w) \/ Reload(w)
                \/ IndexOnly(w) \/ StoreHash(w) \/ ReadMD5(w) \/ AfterInject(w)

QueueSteps == \/ \E w \in Workers : Startup(w) \/ Claim(w) \/ (ClaimUpdate(w) /\ UNCHANGED ocrVars)
              \/ \E w \in Workers, o \in Finished :
                   Outcome(w, o) /\ (o = "done" => work[w].at = "done")
              \/ \E d \in Goroutines : MoveJob(d) \/ EnqueueNote(d)
              \/ \E p \in Paths : PruneJob(p)
              \/ Die

(* A server step by the part of the state it belongs to. *)
LEMMA ServerCases ==
  ASSUME Server
  PROVE  \/ \E w \in Workers : WorkSteps(w)
         \/ QueueSteps
         \/ \E d \in Goroutines : Detect(d) /\ ~MoveJob(d) /\ ~EnqueueNote(d)
         \/ \E d \in Detectors, p \in Paths : Notice(d, p)
         \/ \E i \in Ids : DelayEnds(i) /\ UNCHANGED <<processor, crashes, ocrVars>>
         \/ Reconcile /\ \A p \in Paths : ~PruneJob(p)
<1>1. ASSUME NEW w \in Workers, Work(w) PROVE QueueSteps \/ WorkSteps(w)
  BY <1>1 DEF Work, WorkSteps, QueueSteps, Done, At, Finished
<1>2. ASSUME NEW w \in Workers, GivesUp(w) PROVE QueueSteps
  BY <1>2 DEF GivesUp, QueueSteps, Finished
<1>3. ASSUME NEW w \in Workers, Startup(w) PROVE QueueSteps
  BY <1>3 DEF QueueSteps
<1>4. CASE Die
  BY <1>4 DEF QueueSteps
<1>5. CASE Reconcile
  BY <1>5 DEF QueueSteps
<1>6. ASSUME NEW d \in Goroutines, Detect(d)
      PROVE  QueueSteps \/ (Detect(d) /\ ~MoveJob(d) /\ ~EnqueueNote(d))
  BY <1>6 DEF QueueSteps
<1>7. QED
  BY <1>1, <1>2, <1>3, <1>4, <1>5, <1>6 DEF Server, Goroutines

LEMMA DetectTouches ==
  ASSUME NEW d \in Goroutines, Detect(d), ~MoveJob(d), ~EnqueueNote(d)
  PROVE  /\ UNCHANGED <<vars, disk, had, version, catalog, backup, index, work, scan, noticed>>
         /\ det[d].at # "idle"
  BY DEF Detect, UpsertFile, GetJob, GetHash, CompareHash, HashFile, LookupByHash, SetHash,
         DetectorOnly, files, events, records

LEMMA ReconcileTouches ==
  ASSUME Reconcile, \A p \in Paths : ~PruneJob(p)
  PROVE  UNCHANGED <<vars, disk, had, version, catalog, backup, index, work>>
  BY DEF Reconcile, ScanStart, ListOrphans, PruneRow, ScanEnd, Walk, FeedNext, ScanOnly,
         files, events, records

LEMMA QueueTouches ==
  ASSUME QueueSteps
  PROVE  /\ UNCHANGED <<disk, had, version, catalog, row>>
         /\ UNCHANGED index \/ \E p \in Paths : PruneJob(p)
<1>1. ASSUME NEW p \in Paths, PruneJob(p) PROVE UNCHANGED <<disk, had, version, catalog, row>>
  BY <1>1 DEF PruneJob, ScanOnly, files
<1>2. ASSUME \/ \E w \in Workers : Startup(w) \/ Claim(w) \/ (ClaimUpdate(w) /\ UNCHANGED ocrVars)
             \/ \E w \in Workers, o \in Finished : Outcome(w, o)
             \/ \E d \in Goroutines : MoveJob(d) \/ EnqueueNote(d)
             \/ Die
      PROVE  UNCHANGED <<disk, had, version, catalog, row, index>>
  BY <1>2 DEF Startup, Claim, Outcome, MoveJob, EnqueueNote, Die, ocrVars, files, records
<1>3. QED
  BY <1>1, <1>2 DEF QueueSteps

LEMMA WorkTouches ==
  ASSUME NEW w \in Workers, WorkSteps(w)
  PROVE  /\ UNCHANGED <<vars, det, scan>>
         /\ work[w].at # "off" /\ pc[w] = "working"
         /\ UNCHANGED <<disk, had, version>> \/ Inject(w)
         /\ UNCHANGED catalog \/ AfterInject(w)
         /\ UNCHANGED index \/ Load(w) \/ Reload(w) \/ IndexOnly(w)
<1>1. UNCHANGED <<vars, det, scan>> /\ work[w].at # "off" /\ pc[w] = "working"
  BY DEF WorkSteps, EnsureBackup, Load, Recognize, Inject, Reload, IndexOnly, StoreHash, ReadMD5,
         AfterInject, At, WorkOnly, Parses
<1>2. UNCHANGED <<disk, had, version>> \/ Inject(w)
  BY DEF WorkSteps, EnsureBackup, Load, Recognize, Reload, IndexOnly, StoreHash, ReadMD5,
         AfterInject, WorkOnly, Parses, files
<1>3. UNCHANGED catalog \/ AfterInject(w)
  BY DEF WorkSteps, EnsureBackup, Load, Recognize, Inject, Reload, IndexOnly, StoreHash, ReadMD5,
         records
<1>4. UNCHANGED index \/ Load(w) \/ Reload(w) \/ IndexOnly(w)
  BY DEF WorkSteps, EnsureBackup, Recognize, Inject, StoreHash, ReadMD5, AfterInject, records
<1>5. QED
  BY <1>1, <1>2, <1>3, <1>4

-----------------------------------------------------------------------------
(* One worker: the processor is started once in a process's life and never *)
(* stopped, so nothing is cancelled.                                       *)
LEMMA OneWorkerStep ==
  ASSUME TypeOK, OneWorker, Server
  PROVE  OneWorker'
<1> USE NoWorkerAssumption DEF OneWorker, TypeOK
<1>1. CASE UNCHANGED <<pc, cancelled, current>>
  BY <1>1
<1>2. ASSUME NEW w \in Workers, Startup(w) PROVE OneWorker'
  BY <1>2 DEF Startup, Boot, Launch
<1>3. ASSUME NEW w \in Workers, ClaimUpdate(w) \/ ClaimSelect(w) PROVE OneWorker'
  BY <1>3 DEF ClaimUpdate, ClaimSelect
<1>4. ASSUME NEW w \in Workers, NEW o \in Finished, Outcome(w, o) PROVE OneWorker'
  BY <1>4 DEF Outcome, Finish
<1>5. CASE Die
  BY <1>5 DEF Die, Crash
<1>6. CASE QueueSteps
  <2>1. ASSUME (\E d \in Goroutines : MoveJob(d) \/ EnqueueNote(d)) \/ \E p \in Paths : PruneJob(p)
        PROVE  UNCHANGED <<pc, cancelled, current>>
    BY <2>1 DEF MoveJob, EnqueueNote, PruneJob, processor
  <2>2. QED
    BY <1>1, <1>2, <1>3, <1>4, <1>5, <1>6, <2>1 DEF QueueSteps, Claim
<1>7. CASE ~QueueSteps
  BY <1>1, <1>7, ServerCases, WorkTouches, DetectTouches, ReconcileTouches
     DEF vars, processor, Notice
<1>8. QED
  BY <1>6, <1>7

(* So the worker at work is the only one that is not off. *)
LEMMA OnlyWorker ==
  ASSUME OneWorker, NEW v \in Workers, NEW w \in Workers, pc[v] # "off", pc[w] # "off"
  PROVE  v = w
  BY DEF OneWorker

-----------------------------------------------------------------------------
(* enqueue and the scan leave the row of the job a worker has in progress  *)
(* or gone, and make no row done.                                          *)
LEMMA JobsLeftAlone ==
  ASSUME TypeOK, QueueInv, NEW w \in Workers, WorkerJob(w), UNCHANGED <<pc, job, work>>,
         work[w].at # "off" => pc[w] = "working",
         NEW p \in Paths, (\E d \in BOOLEAN : Enqueue(p, d)) \/ DeleteJob(p)
  PROVE  WorkerJob(w)'
<1> USE DEF WorkerJob, RowOf
<1>0. pc[w] \in {"selecting", "working"} => job[w] \in Ids /\ job[w] # nextId
  BY MaxIdAssumption DEF QueueInv, HandsHoldRows, Ids, TypeOK
<1>1. ASSUME NEW d \in BOOLEAN, Insert(p, "pending", d) PROVE WorkerJob(w)'
  <2>1. /\ nextId \in Ids /\ status' = [status EXCEPT ![nextId] = "pending"]
        /\ path' = [path EXCEPT ![nextId] = p]
    BY <1>1 DEF Insert
  <2>2. QED
    BY <1>0, <2>1 DEF TypeOK
<1>2. ASSUME NEW i \in Ids, status[i] \in Finished, status' = [status EXCEPT ![i] = "pending"],
             UNCHANGED path
      PROVE  WorkerJob(w)'
  BY <1>0, <1>2 DEF TypeOK, Finished
<1>3. CASE UNCHANGED table
  BY <1>3 DEF table
<1>4. ASSUME NEW d \in BOOLEAN, Enqueue(p, d) PROVE WorkerJob(w)'
  BY <1>1, <1>2, <1>3, <1>4 DEF Enqueue
<1>5. CASE DeleteJob(p)
  <2>1. /\ status' = [i \in Ids |-> IF path[i] = p THEN "absent" ELSE status[i]]
        /\ path' = [i \in Ids |-> IF path[i] = p THEN NoPath ELSE path[i]]
    BY <1>5 DEF DeleteJob
  <2>2. QED
    BY <1>0, <2>1 DEF TypeOK
<1>6. QED
  BY <1>4, <1>5

(* processJob keeps to the note it was given. *)
LEMMA NoteKept ==
  ASSUME WorkInv, NEW v \in Workers, WorkSteps(v), NEW w \in Workers
  PROVE  /\ work'[w].note = work[w].note
         /\ work'[w].at # "off" => work[w].at # "off"
         /\ w # v => work'[w] = work[w]
<1> USE DEF WorkInv
<1>1. work[v].at # "off"
  BY WorkTouches
<1>2. CASE EnsureBackup(v) \/ Recognize(v) \/ Inject(v) \/ StoreHash(v) \/ AfterInject(v)
  BY <1>1, <1>2 DEF EnsureBackup, Recognize, Inject, StoreHash, AfterInject, Moves
<1>3. CASE Load(v) \/ ReadMD5(v)
  BY <1>1, <1>3 DEF Load, ReadMD5
<1>4. CASE Reload(v) \/ IndexOnly(v)
  BY <1>1, <1>4 DEF Reload, IndexOnly, NextPage
<1>5. QED
  BY <1>2, <1>3, <1>4 DEF WorkSteps

LEMMA CalmJobsStep ==
  ASSUME CalmInv, Server
  PROVE  CalmJobs'
<1> SUFFICES ASSUME NEW w \in Workers PROVE WorkerJob(w)'
  BY DEF CalmJobs
<1> USE DEF CalmInv, PipelineInv
<1>1. WorkerJob(w) /\ (work[w].at # "off" <=> pc[w] = "working")
  BY DEF CalmJobs, WorkInv
<1>2. CASE UNCHANGED <<status, path, pc, job, work>>
  BY <1>1, <1>2 DEF WorkerJob, RowOf
<1>3. ASSUME NEW v \in Workers, WorkSteps(v) PROVE WorkerJob(w)'
  BY <1>1, <1>3, WorkTouches, NoteKept DEF WorkerJob, RowOf, vars, table, processor
<1>4. ASSUME NEW v \in Workers, Startup(v) PROVE WorkerJob(w)'
  <2>1. /\ pc[v] = "off" /\ pc' = [pc EXCEPT ![v] = "idle"] /\ job' = [job EXCEPT ![v] = 0]
        /\ UNCHANGED <<status, path, work>>
    BY <1>4 DEF Startup, Boot, Launch, table
  <2>2. QED
    BY <1>1, <2>1 DEF WorkerJob, RowOf, TypeOK
<1>5. ASSUME NEW v \in Workers, pc[v] # "off" PROVE w # v => pc[w] = "off"
  BY <1>5, OnlyWorker
<1>6. ASSUME NEW v \in Workers, ClaimUpdate(v), UNCHANGED ocrVars PROVE WorkerJob(w)'
  <2>1. PICK i \in Ids : status' = [status EXCEPT ![i] = "in_progress"]
                         /\ job' = [job EXCEPT ![v] = i]
    BY <1>6 DEF ClaimUpdate
  <2>2. /\ pc[v] = "idle" /\ pc' = [pc EXCEPT ![v] = "selecting"] /\ work' = work
    BY <1>6 DEF ClaimUpdate, ocrVars
  <2>3. work'[w].at = "off"
    BY <1>1, <1>5, <2>2
  <2>4. pc'[w] \in {"selecting", "working"} => w = v
    BY <1>5, <2>2 DEF TypeOK
  <2>5. QED
    BY <2>1, <2>3, <2>4 DEF WorkerJob, TypeOK
<1>7. ASSUME NEW v \in Workers, Claim(v) PROVE WorkerJob(w)'
  <2>1. ClaimSelect(v) /\ pc[v] = "selecting" /\ UNCHANGED <<status, path>>
    BY <1>7 DEF Claim, ClaimSelect, table
  <2>2. CASE w # v
    <3>1. pc'[w] = "off" /\ work'[w] = work[w]
      BY <1>5, <1>7, <2>1, <2>2 DEF Claim, ClaimSelect, TypeOK, WorkInv
    <3>2. QED
      BY <1>1, <1>5, <2>1, <2>2, <3>1 DEF WorkerJob
  <2>3. CASE w = v /\ pc'[v] = "working"
    <3>1. job'[v] \in Selected(v)
      BY <2>1, <2>3 DEF ClaimSelect, TypeOK
    <3>2. job'[v] \in Ids /\ status[job'[v]] = "in_progress"
      BY <2>1, <3>1 DEF Selected, QueueInv, HandsHoldRows
    <3>3. work'[v].note = path[job'[v]]
      BY <1>7, <2>3 DEF Claim, WorkInv
    <3>4. path[job'[v]] # NoPath
      BY <3>2 DEF QueueInv, RowsHavePaths
    <3>5. \A i \in Ids : path[i] = path[job'[v]] => i = job'[v]
      BY <3>2, <3>4 DEF QueueInv, OneRowPerNote
    <3>6. QED
      BY <2>1, <2>3, <3>2, <3>3, <3>5 DEF WorkerJob, RowOf
  <2>4. CASE w = v /\ pc'[v] # "working"
    <3>1. work'[v].at = "off" /\ pc'[v] = "idle"
      BY <1>7, <2>1, <2>4 DEF Claim, ClaimSelect, WorkIdle, WorkInv, TypeOK
    <3>2. QED
      BY <2>4, <3>1 DEF WorkerJob
  <2>5. QED
    BY <2>2, <2>3, <2>4
<1>8. ASSUME NEW v \in Workers, NEW o \in Finished, Outcome(v, o) PROVE WorkerJob(w)'
  <2>1. /\ pc[v] = "working" /\ pc' = [pc EXCEPT ![v] = "idle"]
        /\ work' = [work EXCEPT ![v] = WorkIdle]
    BY <1>8 DEF Outcome, Finish
  <2>2. pc'[w] \in {"idle", "off"} /\ work'[w].at = "off"
    BY <1>1, <1>5, <2>1 DEF WorkIdle, TypeOK, WorkInv
  <2>3. QED
    BY <2>2 DEF WorkerJob
<1>9. ASSUME NEW d \in Goroutines, EnqueueNote(d) PROVE WorkerJob(w)'
  <2>1. det[d].note \in Paths /\ UNCHANGED <<pc, job, work>>
    BY <1>9 DEF EnqueueNote, DetInv, processor
  <2>2. \E b \in BOOLEAN : Enqueue(det[d].note, b)
    BY <1>9 DEF EnqueueNote
  <2>3. QED
    BY <1>1, <2>1, <2>2, JobsLeftAlone
<1>10. ASSUME NEW p \in Paths, PruneJob(p) PROVE WorkerJob(w)'
  BY <1>1, <1>10, JobsLeftAlone DEF PruneJob, ScanOnly, processor
<1>11. ASSUME NEW d \in Goroutines PROVE ~MoveJob(d)
  BY DEF MoveJob, CalmDetectors
<1>12. CASE Die
  BY <1>12 DEF Die, Crash, WorkerJob, WorkIdle
<1>13. CASE QueueSteps
  BY <1>4, <1>6, <1>7, <1>8, <1>9, <1>10, <1>11, <1>12, <1>13 DEF QueueSteps
<1>14. CASE ~QueueSteps
  <2>1. ASSUME NEW i \in Ids, DelayEnds(i), UNCHANGED <<processor, crashes, ocrVars>>
        PROVE  UNCHANGED <<status, path, pc, job, work>>
    BY <2>1 DEF DelayEnds, processor, ocrVars
  <2>2. ASSUME NEW d \in Detectors, NEW p \in Paths, Notice(d, p)
        PROVE  UNCHANGED <<status, path, pc, job, work>>
    BY <2>2 DEF Notice, vars, table, processor
  <2>3. UNCHANGED vars => UNCHANGED <<status, path, pc, job>>
    BY DEF vars, table, processor
  <2>4. QED
    BY <1>2, <1>3, <1>14, <2>1, <2>2, <2>3, ServerCases, DetectTouches, ReconcileTouches
<1>15. QED
  BY <1>13, <1>14

-----------------------------------------------------------------------------
(* What a step of processJob does to its note, and to no other.            *)
NoteStep(p) == /\ disk[p] = NoFile <=> disk'[p] = NoFile
               /\ disk[p] # NoFile => disk'[p].ver = disk[p].ver
               /\ disk[p] # NoFile /\ IndexFits(p) => IndexFits(p)'

LEMMA WorkNote ==
  ASSUME CalmInv, NEW v \in Workers, WorkSteps(v)
  PROVE  \E p \in Paths :
           /\ p = work[v].note
           /\ \A q \in Paths \ {p} : disk'[q] = disk[q] /\ catalog'[q] = catalog[q]
                                     /\ index'[q] = index[q]
           /\ NoteStep(p) /\ WorkerNote(v)'
<1> USE DEF CalmInv, PipelineInv, IndexFits
<1>1. work[v].at # "off" /\ UNCHANGED <<vars, det, scan>>
  BY WorkTouches
<1>2. /\ work[v] \in WorkType /\ WorkRecord(work[v])
      /\ work[v] = [at |-> work[v].at, note |-> work[v].note,
                    held |-> work[v].held, left |-> work[v].left]
  BY <1>1, WorkerAt
<1>3. PICK p \in Paths : p = work[v].note
  BY <1>2 DEF WorkRecord
<1>4. work'[v].note = p /\ WorkerNote(v)
  BY <1>1, <1>3, NoteKept DEF CalmWork
<1>5. /\ work \in [Workers -> WorkType] /\ disk \in [Paths -> Recorded]
      /\ catalog \in [Paths -> Recorded] /\ index \in [Paths -> 0 .. MaxVersion]
      /\ \A c \in Content : c # NoFile
  BY NoFileAssumption DEF WorkInv, WorkType, FilesInv, RecordsInv
<1>6. SUFFICES /\ \A q \in Paths \ {p} : disk'[q] = disk[q] /\ catalog'[q] = catalog[q]
                                          /\ index'[q] = index[q]
               /\ NoteStep(p) /\ WorkerNote(v)'
  BY <1>3
<1>7. CASE Inject(v)
  <2>1. work[v].held \in Content /\ work[v].at = "write"
    BY <1>2, <1>7 DEF Inject, At, WorkRecord, WorkType, Recorded
  <2>2. PICK c \in Content : c = [work[v].held EXCEPT !.ocr = TRUE] /\ c.ver = work[v].held.ver
    BY <2>1, InjectedContent
  <2>3. disk' = [disk EXCEPT ![p] = c] /\ UNCHANGED <<catalog, index>>
    BY <1>3, <1>7, <2>2 DEF Inject, WriteFile
  <2>4. disk'[p] = c /\ disk[p] # NoFile /\ c.ver = disk[p].ver /\ IndexFits(p)
    BY <1>3, <1>4, <1>5, <2>1, <2>2, <2>3 DEF WorkerNote
  <2>5. NoteStep(p)
    BY <1>5, <2>3, <2>4 DEF NoteStep
  <2>6. work'[v].at = "reload" /\ work'[v].held = work[v].held
    BY <1>5, <1>7 DEF Inject, Moves, WorkType
  <2>7. WorkerNote(v)'
    BY <1>4, <1>5, <2>2, <2>3, <2>4, <2>6 DEF WorkerNote
  <2>8. QED
    BY <1>5, <2>3, <2>5, <2>7
<1>8. CASE Load(v)
  <2>1. /\ disk[p] # NoFile /\ UNCHANGED <<disk, catalog>>
        /\ index' = [index EXCEPT ![p] = IF disk[p].ocr THEN disk[p].ver ELSE 0]
    BY <1>3, <1>8 DEF Load, At, Parses
  <2>2. IndexFits(p)'
    BY <1>5, <2>1
  <2>3. work'[v].at = "recognize" /\ work'[v].held = disk[p]
    BY <1>3, <1>5, <1>8 DEF Load, WorkType
  <2>4. QED
    BY <1>4, <1>5, <2>1, <2>2, <2>3 DEF NoteStep, WorkerNote
<1>9. ASSUME NEW c \in Recorded, NextPage(v, c), c.ver = disk[p].ver,
             work[v].at \in {"write", "reload"}, UNCHANGED <<disk, catalog>>,
             index' = [index EXCEPT ![p] = work[v].held.ver]
      PROVE  /\ \A q \in Paths \ {p} : disk'[q] = disk[q] /\ catalog'[q] = catalog[q]
                                          /\ index'[q] = index[q]
             /\ NoteStep(p) /\ WorkerNote(v)'
  <2>1. work[v].held.ver = disk[p].ver /\ disk[p] # NoFile
    BY <1>3, <1>4, <1>9 DEF WorkerNote
  <2>2. IndexFits(p)'
    BY <1>5, <1>9, <2>1
  <2>3. work'[v].at \in {"recognize", "hash"} /\ work'[v].held = c
    BY <1>5, <1>9 DEF NextPage, WorkType
  <2>4. QED
    BY <1>4, <1>5, <1>9, <2>1, <2>2, <2>3 DEF NoteStep, WorkerNote
<1>10. CASE Reload(v)
  <2>1. NextPage(v, disk[p]) /\ disk[p] \in Recorded /\ work[v].at = "reload"
    BY <1>3, <1>5, <1>10 DEF Reload, At
  <2>2. UNCHANGED <<disk, catalog>> /\ index' = [index EXCEPT ![p] = work[v].held.ver]
    BY <1>3, <1>10 DEF Reload, Parses
  <2>3. QED
    BY <1>9, <2>1, <2>2
<1>11. CASE IndexOnly(v)
  <2>1. NextPage(v, work[v].held) /\ work[v].held \in Recorded /\ work[v].at = "write"
    BY <1>2, <1>11 DEF IndexOnly, At, WorkType
  <2>2. UNCHANGED <<disk, catalog>> /\ index' = [index EXCEPT ![p] = work[v].held.ver]
    BY <1>3, <1>11 DEF IndexOnly, WorkOnly, files
  <2>3. work[v].held.ver = disk[p].ver
    BY <1>3, <1>4, <2>1 DEF WorkerNote
  <2>4. QED
    BY <1>9, <2>1, <2>2, <2>3
<1>12. CASE EnsureBackup(v) \/ Recognize(v) \/ StoreHash(v) \/ ReadMD5(v)
  <2>1. UNCHANGED <<disk, catalog, index>>
    BY <1>12 DEF EnsureBackup, Recognize, StoreHash, ReadMD5, WorkOnly, files, records
  <2>2. CASE EnsureBackup(v)
    <3>1. work'[v].at = "load"
      BY <1>5, <2>2 DEF EnsureBackup, Moves, WorkType
    <3>2. QED
      BY <2>1, <3>1 DEF NoteStep, WorkerNote
  <2>3. CASE Recognize(v)
    <3>1. work[v].at = "recognize" /\ work'[v].at = "write" /\ work'[v].held = work[v].held
      BY <1>5, <2>3 DEF Recognize, Moves, At, WorkType
    <3>2. QED
      BY <1>3, <1>4, <2>1, <3>1 DEF NoteStep, WorkerNote
  <2>4. CASE StoreHash(v)
    <3>1. work[v].at = "hash" /\ work'[v].at = "md5"
      BY <1>5, <2>4 DEF StoreHash, Moves, At, WorkType
    <3>2. QED
      BY <1>3, <1>4, <2>1, <3>1 DEF NoteStep, WorkerNote
  <2>5. CASE ReadMD5(v)
    <3>1. work[v].at = "md5" /\ disk[p] # NoFile
      BY <1>3, <1>4, <2>5 DEF ReadMD5, At, WorkerNote
    <3>2. work'[v].at = "after" /\ work'[v].held = disk[p]
      BY <1>3, <1>5, <2>5, <3>1 DEF ReadMD5, WorkType
    <3>3. QED
      BY <1>3, <1>4, <2>1, <3>1, <3>2 DEF NoteStep, WorkerNote
  <2>6. QED
    BY <1>12, <2>2, <2>3, <2>4, <2>5
<1>13. CASE AfterInject(v)
  <2>1. /\ UNCHANGED <<disk, index>> /\ work[v].at = "after"
        /\ catalog' = [catalog EXCEPT ![p] = IF @ = NoFile THEN @ ELSE work[v].held]
    BY <1>3, <1>13 DEF AfterInject, At, WorkOnly, files
  <2>2. work[v].held = disk[p] /\ disk[p] # NoFile /\ IndexFits(p)
    BY <1>3, <1>4, <2>1 DEF WorkerNote
  <2>3. work'[v].at = "done"
    BY <1>5, <1>13 DEF AfterInject, Moves, WorkType
  <2>4. catalog'[p] \in {NoFile, disk[p]}
    BY <1>5, <2>1, <2>2
  <2>5. QED
    BY <1>4, <1>5, <2>1, <2>2, <2>3, <2>4 DEF NoteStep, WorkerNote
<1>14. QED
  BY <1>7, <1>8, <1>10, <1>11, <1>12, <1>13 DEF WorkSteps

(* No step of the server makes a note's index unfit, or its file come or   *)
(* go; only the worker at the note touches its file and catalog entry.     *)
LEMMA ServerNotes ==
  ASSUME CalmInv, Server, NEW p \in Paths
  PROVE  /\ NoteStep(p)
         /\ \/ disk'[p] = disk[p] /\ catalog'[p] = catalog[p]
            \/ \E v \in Workers : work[v].note = p /\ WorkSteps(v)
         /\ \/ index'[p] \in {index[p], 0}
            \/ \E v \in Workers : work[v].note = p /\ WorkSteps(v)
<1> USE DEF CalmInv, PipelineInv
<1>1. ASSUME NEW v \in Workers, WorkSteps(v)
      PROVE  /\ NoteStep(p)
             /\ (disk'[p] = disk[p] /\ catalog'[p] = catalog[p] /\ index'[p] = index[p])
                \/ work[v].note = p
  <2>1. PICK n \in Paths :
           /\ n = work[v].note
           /\ \A q \in Paths \ {n} : disk'[q] = disk[q] /\ catalog'[q] = catalog[q]
                                     /\ index'[q] = index[q]
           /\ NoteStep(n) /\ WorkerNote(v)'
    BY <1>1, WorkNote
  <2>2. CASE p = n
    BY <2>1, <2>2
  <2>3. CASE p # n
    <3>1. disk'[p] = disk[p] /\ catalog'[p] = catalog[p] /\ index'[p] = index[p]
      BY <2>1, <2>3
    <3>2. QED
      BY <3>1 DEF NoteStep, IndexFits
  <2>4. QED
    BY <2>2, <2>3
<1>2. ASSUME UNCHANGED <<disk, catalog>>, index'[p] \in {index[p], 0} PROVE NoteStep(p)
  BY <1>2 DEF NoteStep, IndexFits
<1>3. CASE QueueSteps
  <2>1. UNCHANGED <<disk, catalog>>
    BY <1>3, QueueTouches
  <2>2. ASSUME NEW q \in Paths, PruneJob(q) PROVE index'[p] \in {index[p], 0}
    BY <2>2 DEF PruneJob, RecordsInv
  <2>3. index'[p] \in {index[p], 0}
    BY <1>3, <2>2, QueueTouches
  <2>4. QED
    BY <1>2, <2>1, <2>3
<1>4. CASE /\ ~QueueSteps
           /\ \A v \in Workers : ~WorkSteps(v)
  <2>1. ASSUME NEW i \in Ids, UNCHANGED <<processor, crashes, ocrVars>>
        PROVE  UNCHANGED <<disk, catalog, index>>
    BY <2>1 DEF ocrVars, files, records
  <2>2. ASSUME NEW d \in Detectors, NEW q \in Paths, Notice(d, q)
        PROVE  UNCHANGED <<disk, catalog, index>>
    BY <2>2 DEF Notice, files, records
  <2>3. UNCHANGED <<disk, catalog, index>>
    BY <1>4, <2>1, <2>2, ServerCases, DetectTouches, ReconcileTouches
  <2>4. QED
    BY <1>2, <2>3
<1>5. QED
  BY <1>1, <1>3, <1>4

(* A job becomes done when its worker is through with its note, and no job *)
(* of a note is done while a worker is at it.                              *)
LEMMA BusyNotDone ==
  ASSUME CalmInv, NEW w \in Workers, work[w].at # "off"
  PROVE  ~JobDone(work[w].note)
  BY DEF CalmInv, CalmJobs, WorkerJob, JobDone

LEMMA WorkLeavesJobs ==
  ASSUME NEW w \in Workers, WorkSteps(w), NEW p \in Paths
  PROVE  JobDone(p)' <=> JobDone(p)
  BY WorkTouches DEF vars, table, JobDone, RowOf

LEMMA JobDoneFrom ==
  ASSUME CalmInv, Server, NEW p \in Paths, JobDone(p)'
  PROVE  JobDone(p) \/ \E w \in Workers : work[w].at = "done" /\ work[w].note = p
<1> USE DEF CalmInv, PipelineInv, JobDone, RowOf
<1>1. PICK i \in Ids : path'[i] = p /\ status'[i] = "done"
  OBVIOUS
<1>2. CASE UNCHANGED <<status, path>>
  BY <1>1, <1>2
<1>3. ASSUME NEW w \in Workers, NEW o \in Finished, Outcome(w, o),
             o = "done" => work[w].at = "done"
      PROVE  JobDone(p) \/ \E v \in Workers : work[v].at = "done" /\ work[v].note = p
  <2>1. path' = path /\ path[i] = p /\ job[w] \in Ids
    BY <1>1, <1>3 DEF Outcome, Finish, QueueInv, HandsHoldRows
  <2>2. status'[i] = status[i] \/ (i = job[w] /\ o = "done")
    BY <1>1, <1>3, <2>1 DEF Outcome, Finish, TypeOK
  <2>3. CASE i = job[w] /\ o = "done"
    <3>1. work[w].at = "done" /\ path[i] \in {work[w].note, NoPath}
      BY <1>3, <2>3 DEF CalmJobs, WorkerJob
    <3>2. work[w].note = p
      BY <2>1, <3>1, NoPathAssumption
    <3>3. QED
      BY <3>1, <3>2
  <2>4. QED
    BY <1>1, <2>1, <2>2, <2>3
<1>4. ASSUME NEW d \in Goroutines, EnqueueNote(d) PROVE JobDone(p)
  <2>1. ASSUME NEW n, NEW b, Insert(n, "pending", b) PROVE JobDone(p)
    BY <1>1, <2>1 DEF Insert, TypeOK
  <2>2. CASE /\ path' = path
             /\ \E k \in Ids : status' = [status EXCEPT ![k] = "pending"]
    BY <1>1, <2>2 DEF TypeOK
  <2>3. QED
    BY <1>1, <1>4, <2>1, <2>2 DEF EnqueueNote, Enqueue, table
<1>5. ASSUME NEW q \in Paths, PruneJob(q) PROVE JobDone(p)
  BY <1>1, <1>5, NoPathAssumption DEF PruneJob, DeleteJob, TypeOK
<1>6. ASSUME NEW w \in Workers,
             Startup(w) \/ Claim(w) \/ (ClaimUpdate(w) /\ UNCHANGED ocrVars)
      PROVE  JobDone(p)
  <2>1. CASE Startup(w) \/ Claim(w)
    BY <1>2, <2>1 DEF Startup, Boot, Claim, ClaimSelect, table
  <2>2. CASE ClaimUpdate(w)
    BY <1>1, <2>2 DEF ClaimUpdate, TypeOK
  <2>3. QED
    BY <1>6, <2>1, <2>2
<1>7. ASSUME NEW d \in Goroutines PROVE ~MoveJob(d)
  BY DEF MoveJob, CalmDetectors
<1>8. CASE Die
  BY <1>2, <1>8 DEF Die, Crash, table
<1>9. CASE QueueSteps
  BY <1>3, <1>4, <1>5, <1>6, <1>7, <1>8, <1>9 DEF QueueSteps
<1>10. CASE ~QueueSteps
  <2>1. ASSUME NEW k \in Ids, DelayEnds(k) PROVE UNCHANGED <<status, path>>
    BY <2>1 DEF DelayEnds
  <2>2. ASSUME NEW d \in Detectors, NEW q \in Paths, Notice(d, q) PROVE UNCHANGED <<status, path>>
    BY <2>2 DEF Notice, vars, table
  <2>3. QED
    BY <1>2, <1>10, <2>1, <2>2, ServerCases, WorkTouches, DetectTouches, ReconcileTouches
       DEF vars, table
<1>11. QED
  BY <1>9, <1>10

(* A rewritten note is one whose text is in the index. *)
LEMMA RewrittenFits ==
  ASSUME CalmInv, Server, NEW p \in Paths, disk'[p] # disk[p]
  PROVE  IndexFits(p)' /\ \E w \in Workers : work[w].at = "write" /\ work[w].note = p
<1> USE DEF CalmInv, PipelineInv
<1>1. PICK v \in Workers : work[v].note = p /\ WorkSteps(v)
  BY ServerNotes
<1>2. Inject(v)
  BY <1>1, WorkTouches
<1>3. work[v].at = "write"
  BY <1>2 DEF Inject, At
<1>4. disk[p] # NoFile /\ IndexFits(p)
  BY <1>1, <1>3 DEF CalmWork, WorkerNote
<1>5. QED
  BY <1>1, <1>3, <1>4, ServerNotes DEF NoteStep

(* The hash of a row is set by the worker that is through with its note.   *)
LEMMA HashFrom ==
  ASSUME CalmInv, Server, NEW p \in Paths
  PROVE  \/ row'[p].hash \in {row[p].hash, NoFile}
         \/ \E w \in Workers : work[w].at = "hash" /\ work[w].note = p
<1> USE DEF CalmInv, PipelineInv, RecordsInv, RowType
<1>1. CASE UNCHANGED row
  BY <1>1
<1>2. ASSUME NEW w \in Workers, WorkSteps(w)
      PROVE  \/ row'[p].hash \in {row[p].hash, NoFile}
             \/ \E v \in Workers : work[v].at = "hash" /\ work[v].note = p
  <2>1. work[w].note \in Paths
    BY <1>2, WorkTouches DEF WorkInv
  <2>2. CASE EnsureBackup(w)
    BY <2>1, <2>2 DEF EnsureBackup
  <2>3. CASE Inject(w)
    BY <2>1, <2>3 DEF Inject, RowStale
  <2>4. CASE StoreHash(w)
    BY <2>1, <2>4 DEF StoreHash, At
  <2>5. CASE ~EnsureBackup(w) /\ ~Inject(w) /\ ~StoreHash(w)
    BY <1>1, <1>2, <2>5 DEF WorkSteps, Load, Recognize, Reload, IndexOnly, ReadMD5, AfterInject,
                            records
  <2>6. QED
    BY <2>2, <2>3, <2>4, <2>5
<1>3. ASSUME NEW d \in Goroutines, Detect(d), ~MoveJob(d), ~EnqueueNote(d)
      PROVE  row'[p].hash = row[p].hash
  <2>1. det[d].note \in Paths /\ ~SetHash(d)
    BY <1>3, DetectTouches DEF DetInv, CalmDetectors, SetHash
  <2>2. CASE UpsertFile(d)
    BY <2>1, <2>2, SeenRow DEF UpsertFile
  <2>3. CASE ~UpsertFile(d)
    BY <1>3, <2>1, <2>3 DEF Detect, GetJob, GetHash, CompareHash, HashFile, LookupByHash,
                            DetectorOnly, records
  <2>4. QED
    BY <2>2, <2>3
<1>4. ASSUME Reconcile PROVE row'[p].hash \in {row[p].hash, NoFile}
  <2>1. ASSUME NEW q \in Paths, Walk(q) PROVE row'[p].hash = row[p].hash
    BY <2>1, SeenRow DEF Walk
  <2>2. CASE PruneRow
    BY <2>2 DEF PruneRow, NoRow
  <2>3. QED
    BY <1>1, <1>4, <2>1, <2>2
       DEF Reconcile, ScanStart, ListOrphans, ScanEnd, PruneJob, FeedNext, records
<1>5. ASSUME NEW i \in Ids, UNCHANGED <<processor, crashes, ocrVars>> PROVE UNCHANGED row
  BY <1>5 DEF ocrVars, records
<1>6. ASSUME NEW d \in Detectors, NEW q \in Paths, Notice(d, q) PROVE UNCHANGED row
  BY <1>6 DEF Notice, records
<1>7. QED
  BY <1>1, <1>2, <1>3, <1>4, <1>5, <1>6, QueueTouches, ServerCases

LEMMA CalmRecordsStep ==
  ASSUME CalmInv, Server
  PROVE  CalmRecords'
<1> USE DEF CalmInv, PipelineInv
<1> SUFFICES ASSUME NEW p \in Paths, disk'[p] # NoFile
             PROVE  /\ row'[p].hash = disk'[p] => IndexFits(p)'
                    /\ JobDone(p)' /\ catalog'[p] # NoFile => catalog'[p] = disk'[p]
  BY DEF CalmRecords
<1>1. disk[p] # NoFile /\ NoteStep(p)
  BY ServerNotes DEF NoteStep
<1>2. ASSUME row'[p].hash = disk'[p] PROVE IndexFits(p)'
  <2>1. CASE disk'[p] # disk[p]
    BY <2>1, RewrittenFits
  <2>2. ASSUME NEW w \in Workers, work[w].at = "hash", work[w].note = p PROVE IndexFits(p)
    BY <2>2 DEF CalmWork, WorkerNote
  <2>3. CASE disk'[p] = disk[p] /\ row'[p].hash \in {row[p].hash, NoFile}
    BY <1>1, <1>2, <2>3 DEF CalmRecords, NoteStep
  <2>4. CASE disk'[p] = disk[p]
    BY <1>1, <2>2, <2>3, <2>4, HashFrom DEF NoteStep, CalmRecords
  <2>5. QED
    BY <2>1, <2>4
<1>3. ASSUME JobDone(p)', catalog'[p] # NoFile PROVE catalog'[p] = disk'[p]
  <2>1. ASSUME NEW v \in Workers, work[v].note = p, WorkSteps(v) PROVE FALSE
    BY <1>3, <2>1, WorkTouches, WorkLeavesJobs, BusyNotDone
  <2>2. disk'[p] = disk[p] /\ catalog'[p] = catalog[p]
    BY <2>1, ServerNotes
  <2>3. CASE JobDone(p)
    BY <1>1, <1>3, <2>2, <2>3 DEF CalmRecords
  <2>4. ASSUME NEW w \in Workers, work[w].at = "done", work[w].note = p
        PROVE  catalog'[p] = disk'[p]
    BY <1>3, <2>2, <2>4 DEF CalmWork, WorkerNote
  <2>5. QED
    BY <1>3, <2>3, <2>4, JobDoneFrom
<1>4. QED
  BY <1>2, <1>3

LEMMA VersionsOwnStep ==
  ASSUME CalmInv, Server
  PROVE  VersionsOwn'
<1> USE DEF CalmInv, PipelineInv, VersionsOwn
<1>1. CASE UNCHANGED had
  BY <1>1
<1>2. ASSUME NEW w \in Workers, Inject(w) PROVE VersionsOwn'
  <2>1. PICK n \in Paths : n = work[w].note /\ work[w].held \in had[n] /\ work[w].held \in Content
    <3>1. work[w].at = "write" /\ work[w].note \in Paths
      BY <1>2 DEF Inject, At, WorkInv
    <3>2. work[w].held \in had[work[w].note] /\ had[work[w].note] \subseteq Content
      BY <3>1 DEF WorkInv, FilesInv
    <3>3. QED
      BY <3>1, <3>2
  <2>2. PICK c : c = [work[w].held EXCEPT !.ocr = TRUE] /\ c.ver = work[w].held.ver
    BY <2>1, InjectedContent
  <2>3. had' = [had EXCEPT ![n] = @ \cup {c}]
    BY <1>2, <2>1, <2>2 DEF Inject, WriteFile
  <2>4. \A p \in Paths : \A e \in had'[p] : \E f \in had[p] : f.ver = e.ver
    BY <2>1, <2>2, <2>3 DEF FilesInv
  <2>5. QED
    BY <2>4
<1>3. ASSUME NEW i \in Ids, UNCHANGED <<processor, crashes, ocrVars>> PROVE UNCHANGED had
  BY <1>3 DEF ocrVars, files
<1>4. ASSUME NEW d \in Detectors, NEW q \in Paths, Notice(d, q) PROVE UNCHANGED had
  BY <1>4 DEF Notice, files
<1>5. QED
  BY <1>1, <1>2, <1>3, <1>4, ServerCases, WorkTouches, QueueTouches, DetectTouches,
     ReconcileTouches

(* Steps that are not processJob's leave a worker where it is, or off, or  *)
(* at the start of a job.                                                  *)
LEMMA WorkOtherwise ==
  ASSUME CalmInv, Server, \A v \in Workers : ~WorkSteps(v), NEW w \in Workers
  PROVE  work'[w] = work[w] \/ work'[w].at \in {"off", "backup"}
<1> USE DEF CalmInv, PipelineInv, WorkInv
<1>1. CASE UNCHANGED work
  BY <1>1
<1>2. ASSUME NEW v \in Workers, Claim(v) PROVE work'[w] = work[w] \/ work'[w].at \in {"off", "backup"}
  BY <1>2 DEF Claim, WorkIdle
<1>3. ASSUME NEW v \in Workers, NEW o \in Finished, Outcome(v, o)
      PROVE  work'[w] = work[w] \/ work'[w].at \in {"off", "backup"}
  BY <1>3 DEF Outcome, WorkIdle
<1>4. CASE Die
  BY <1>4 DEF Die, WorkIdle
<1>5. CASE QueueSteps
  <2>1. ASSUME \/ \E v \in Workers : Startup(v) \/ (ClaimUpdate(v) /\ UNCHANGED ocrVars)
               \/ \E d \in Goroutines : MoveJob(d) \/ EnqueueNote(d)
               \/ \E p \in Paths : PruneJob(p)
        PROVE  UNCHANGED work
    BY <2>1 DEF Startup, ocrVars, MoveJob, EnqueueNote, PruneJob, ScanOnly
  <2>2. QED
    BY <1>1, <1>2, <1>3, <1>4, <1>5, <2>1 DEF QueueSteps
<1>6. CASE ~QueueSteps
  <2>1. ASSUME NEW i \in Ids, UNCHANGED <<processor, crashes, ocrVars>> PROVE UNCHANGED work
    BY <2>1 DEF ocrVars
  <2>2. ASSUME NEW d \in Detectors, NEW q \in Paths, Notice(d, q) PROVE UNCHANGED work
    BY <2>2 DEF Notice
  <2>3. QED
    BY <1>1, <1>6, <2>1, <2>2, ServerCases, DetectTouches, ReconcileTouches
<1>7. QED
  BY <1>5, <1>6

LEMMA CalmWorkStep ==
  ASSUME CalmInv, Server
  PROVE  CalmWork'
<1> SUFFICES ASSUME NEW w \in Workers PROVE WorkerNote(w)'
  BY DEF CalmWork
<1> USE DEF CalmInv, PipelineInv
<1>1. CASE WorkSteps(w)
  BY <1>1, WorkNote
<1>2. ASSUME work'[w].at \in {"off", "backup"} PROVE WorkerNote(w)'
  BY <1>2 DEF WorkerNote
<1>3. ASSUME NEW v \in Workers \ {w}, WorkSteps(v) PROVE WorkerNote(w)'
  <2>1. work[w].at = "off"
    BY <1>3, WorkTouches, OnlyWorker DEF WorkInv
  <2>2. work'[w].at = "off"
    BY <1>3, <2>1, NoteKept
  <2>3. QED
    BY <1>2, <2>2
<1>4. ASSUME \A v \in Workers : ~WorkSteps(v), work'[w] = work[w], work[w].at # "off"
      PROVE  WorkerNote(w)'
  <2>1. PICK p \in Paths : p = work[w].note
    BY <1>4 DEF WorkInv
  <2>2. disk'[p] = disk[p] /\ catalog'[p] = catalog[p] /\ NoteStep(p)
    BY <1>4, ServerNotes
  <2>3. WorkerNote(w)
    BY DEF CalmWork
  <2>4. QED
    BY <1>4, <2>1, <2>2, <2>3 DEF WorkerNote, NoteStep
<1>5. QED
  BY <1>1, <1>2, <1>3, <1>4, WorkOtherwise

-----------------------------------------------------------------------------
(* A goroutine in enqueue moves by its own step, or is started, or dies.   *)
LEMMA DetMoves ==
  ASSUME CalmInv, Server, NEW d \in Goroutines
  PROVE  \/ det'[d] = det[d]
         \/ det[d].at = "idle" /\ det'[d].at = "upsert"
         \/ Die /\ det'[d].at = "idle"
         \/ Detect(d) /\ ~MoveJob(d)
<1> USE DEF CalmInv, PipelineInv, DetInv
<1> DEFINE Moved == \/ det'[d] = det[d]
                    \/ det[d].at = "idle" /\ det'[d].at = "upsert"
                    \/ Die /\ det'[d].at = "idle"
                    \/ Detect(d) /\ ~MoveJob(d)
<1>1. CASE UNCHANGED det
  BY <1>1
<1>2. ASSUME NEW e \in Goroutines, Detect(e) PROVE Moved
  <2>1. ~MoveJob(e)
    BY DEF MoveJob, CalmDetectors
  <2>2. e # d => det'[d] = det[d]
    BY <1>2, <2>1 DEF Detect, UpsertFile, GetJob, GetHash, CompareHash, HashFile, LookupByHash,
                      SetHash, EnqueueNote, Goes, Ends
  <2>3. QED
    BY <1>2, <2>1, <2>2
<1>3. ASSUME NEW e \in Detectors, NEW q \in Paths, Notice(e, q) PROVE Moved
  BY <1>3 DEF Notice, DetIdle
<1>4. ASSUME NEW q \in Paths, FeedNext(q) PROVE Moved
  BY <1>4 DEF FeedNext, DetIdle
<1>5. CASE Die
  BY <1>5 DEF Die, DetIdle, Goroutines
<1>6. CASE Reconcile
  BY <1>1, <1>4, <1>6
     DEF Reconcile, ScanStart, ListOrphans, PruneRow, ScanEnd, Walk, PruneJob
<1>7. ASSUME NEW w \in Workers, Startup(w) \/ Work(w) \/ GivesUp(w) PROVE UNCHANGED det
  BY <1>7, WorkTouches DEF Startup, Work, GivesUp, WorkSteps, Claim, Outcome, Done, ocrVars
<1>8. ASSUME NEW i \in Ids, UNCHANGED <<processor, crashes, ocrVars>> PROVE UNCHANGED det
  BY <1>8 DEF ocrVars
<1>9. QED
  BY <1>1, <1>2, <1>3, <1>5, <1>6, <1>7, <1>8 DEF Server, Goroutines

(* enqueue never finds a content of its own note under another path.       *)
LEMMA OwnJobFound ==
  ASSUME CalmInv, NEW d \in Goroutines, det[d].at = "lookup", NEW q \in SameContent(det[d].hash)
  PROVE  q = det[d].note
<1> USE DEF CalmInv, PipelineInv
<1>1. PICK p \in Paths : p = det[d].note
  BY DEF DetInv
<1>2. PICK c \in Content : c = det[d].hash
  BY DEF CalmDetectors, DetInv, Recorded
<1>3. c \in had[p]
  BY <1>1, <1>2, NoFileAssumption DEF DetInv
<1>4. q \in Paths /\ row[q].hash = c
  BY <1>2 DEF SameContent
<1>5. c \in had[q]
  BY <1>4, NoFileAssumption DEF RecordsInv, OwnContentOnly
<1>6. QED
  BY <1>1, <1>3, <1>4, <1>5 DEF VersionsOwn

LEMMA CalmDetectorsStep ==
  ASSUME CalmInv, Server
  PROVE  CalmDetectors'
<1> DEFINE Good(r) == /\ r.at \notin {"transfer", "sethash"}
                      /\ r.at = "lookup" => r.hash # NoFile
                      /\ r.at = "compare" /\ disk[r.note] # NoFile /\ r.hash = disk[r.note] =>
                           IndexFits(r.note)
<1> SUFFICES ASSUME NEW d \in Goroutines PROVE Good(det[d])'
  BY DEF CalmDetectors
<1> USE DEF CalmInv, PipelineInv
<1>1. ASSUME det'[d].at \in {"idle", "upsert", "job", "stored", "hash", "requeue", "enqueue"}
      PROVE  Good(det[d])'
  BY <1>1
<1>2. CASE det'[d] = det[d]
  <2>1. Good(det[d])
    BY DEF CalmDetectors
  <2>2. CASE det[d].at # "compare"
    BY <1>2, <2>1, <2>2
  <2>3. CASE det[d].at = "compare"
    <3>1. PICK p \in Paths : p = det[d].note
      BY <2>3 DEF DetInv
    <3>2. CASE disk'[p] = disk[p]
      BY <1>2, <2>1, <2>3, <3>1, <3>2, ServerNotes DEF NoteStep
    <3>3. CASE disk'[p] # disk[p]
      BY <1>2, <2>3, <3>1, <3>3, RewrittenFits
    <3>4. QED
      BY <3>2, <3>3
  <2>4. QED
    BY <2>2, <2>3
<1>3. CASE Detect(d) /\ ~MoveJob(d)
  <2>0. det[d] \in [at : DetStates, note : Paths \cup {NoPath},
                    hash : Recorded, old : Paths \cup {NoPath}]
        /\ det \in [Goroutines -> [at : DetStates, note : Paths \cup {NoPath},
                                   hash : Recorded, old : Paths \cup {NoPath}]]
    BY DEF DetInv
  <2>1. ASSUME Ends(d) PROVE Good(det[d])'
    BY <1>1, <2>0, <2>1 DEF Ends, DetIdle
  <2>2. ASSUME NEW at \in {"idle", "upsert", "job", "stored", "hash", "requeue", "enqueue"},
               Goes(d, at)
        PROVE  Good(det[d])'
    BY <1>1, <2>0, <2>2 DEF Goes
  <2>3. CASE UpsertFile(d) \/ GetJob(d) \/ CompareHash(d) \/ EnqueueNote(d)
    BY <2>1, <2>2, <2>3 DEF UpsertFile, GetJob, CompareHash, EnqueueNote
  <2>4. CASE GetHash(d)
    <3>1. PICK p \in Paths : p = det[d].note
      BY <1>3, <2>4 DEF GetHash, DetInv
    <3>2. CASE det' = [det EXCEPT ![d].at = "compare", ![d].hash = row[det[d].note].hash]
      <4>1. det'[d].note = p /\ det'[d].hash = row[p].hash /\ det'[d].at = "compare"
        BY <2>0, <3>1, <3>2
      <4>2. UNCHANGED <<disk, index>>
        BY <2>4 DEF GetHash, DetectorOnly, files, records
      <4>3. disk[p] # NoFile /\ row[p].hash = disk[p] => IndexFits(p)
        BY DEF CalmRecords
      <4>4. QED
        BY <4>1, <4>2, <4>3 DEF IndexFits
    <3>3. QED
      BY <2>1, <2>4, <3>2 DEF GetHash
  <2>5. CASE HashFile(d)
    <3>1. CASE Goes(d, "enqueue")
      BY <2>2, <3>1
    <3>2. CASE disk[det[d].note] # NoFile
      <4>1. det' = [det EXCEPT ![d].at = "lookup", ![d].hash = disk[det[d].note]]
        BY <2>5, <3>2 DEF HashFile
      <4>2. det'[d].at = "lookup" /\ det'[d].hash # NoFile
        BY <2>0, <3>2, <4>1
      <4>3. QED
        BY <4>2
    <3>3. QED
      BY <2>5, <3>1, <3>2 DEF HashFile
  <2>6. CASE LookupByHash(d)
    <3>1. ASSUME NEW q \in SameContent(det[d].hash),
                 det' = [det EXCEPT ![d].at = IF q = det[d].note THEN "enqueue" ELSE "transfer",
                                    ![d].old = q]
          PROVE  Good(det[d])'
      <4>1. q = det[d].note
        BY <2>6, OwnJobFound DEF LookupByHash
      <4>2. det'[d].at = "enqueue"
        BY <2>0, <3>1, <4>1
      <4>3. QED
        BY <1>1, <4>2
    <3>2. QED
      BY <2>2, <2>6, <3>1 DEF LookupByHash
  <2>7. ~SetHash(d)
    BY DEF SetHash, CalmDetectors
  <2>8. QED
    BY <1>3, <2>3, <2>4, <2>5, <2>6, <2>7 DEF Detect
<1>4. QED
  BY <1>1, <1>2, <1>3, DetMoves

-----------------------------------------------------------------------------
(* What the server does to a row, but for the hash. *)
LEMMA FreshFrom ==
  ASSUME CalmInv, Server, NEW p \in Paths, row'[p].fresh
  PROVE  /\ row'[p].exists
         /\ \/ row[p].fresh
            \/ \E d \in Goroutines : UpsertFile(d) /\ det[d].note = p /\ disk[p] # NoFile
            \/ Walk(p) /\ disk[p] # NoFile
<1> USE DEF CalmInv, PipelineInv, RecordsInv, RowType
<1> DEFINE From == /\ row'[p].exists
                   /\ \/ row[p].fresh
                      \/ \E d \in Goroutines : UpsertFile(d) /\ det[d].note = p /\ disk[p] # NoFile
                      \/ Walk(p) /\ disk[p] # NoFile
<1>1. CASE UNCHANGED row
  BY <1>1 DEF CalmScan
<1>2. ASSUME NEW w \in Workers, WorkSteps(w) PROVE From
  <2>1. work[w].note \in Paths
    BY <1>2, WorkTouches DEF WorkInv
  <2>2. CASE EnsureBackup(w)
    <3>1. row'[p].fresh = row[p].fresh /\ row'[p].exists = row[p].exists
      <4>1. PICK n \in Paths : n = work[w].note
        BY <2>1
      <4>2. CASE row' = [row EXCEPT ![n].backed = row[n].exists]
        BY <4>2
      <4>3. QED
        BY <2>2, <4>1, <4>2 DEF EnsureBackup
    <3>2. QED
      BY <3>1 DEF CalmScan
  <2>3. CASE Inject(w)
    <3>1. (row'[p].fresh => row[p].fresh) /\ row'[p].exists = row[p].exists
      BY <2>1, <2>3 DEF Inject, RowStale
    <3>2. QED
      BY <3>1 DEF CalmScan
  <2>4. CASE StoreHash(w)
    <3>1. row'[p].fresh = row[p].fresh /\ row'[p].exists = row[p].exists
      BY <2>1, <2>4 DEF StoreHash
    <3>2. QED
      BY <3>1 DEF CalmScan
  <2>5. CASE ~EnsureBackup(w) /\ ~Inject(w) /\ ~StoreHash(w)
    BY <1>1, <1>2, <2>5 DEF WorkSteps, Load, Recognize, Reload, IndexOnly, ReadMD5, AfterInject,
                            records
  <2>6. QED
    BY <2>2, <2>3, <2>4, <2>5
<1>3. ASSUME NEW d \in Goroutines, Detect(d), ~MoveJob(d), ~EnqueueNote(d) PROVE From
  <2>1. det[d].note \in Paths /\ ~SetHash(d)
    BY <1>3, DetectTouches DEF DetInv, CalmDetectors, SetHash
  <2>2. CASE UpsertFile(d) /\ disk[det[d].note] # NoFile
    <3>1. PICK n \in Paths : n = det[d].note
      BY <2>1
    <3>2. row' = [row EXCEPT ![n].exists = TRUE, ![n].fresh = TRUE]
      BY <2>2, <3>1 DEF UpsertFile
    <3>3. CASE p = n
      BY <2>2, <3>1, <3>2, <3>3, SeenRow
    <3>4. CASE p # n
      BY <3>2, <3>4, SeenRow DEF CalmScan
    <3>5. QED
      BY <3>3, <3>4
  <2>3. CASE ~UpsertFile(d) \/ disk[det[d].note] = NoFile
    BY <1>1, <1>3, <2>1, <2>3 DEF Detect, UpsertFile, GetJob, GetHash, CompareHash, HashFile,
                                  LookupByHash, DetectorOnly, records
  <2>4. QED
    BY <2>2, <2>3
<1>4. CASE Reconcile
  <2>1. ASSUME NEW q \in Paths, Walk(q) PROVE From
    <3>1. CASE UNCHANGED row
      BY <1>1, <3>1
    <3>2. CASE disk[q] # NoFile /\ row' = [row EXCEPT ![q].exists = TRUE, ![q].fresh = TRUE]
      BY <2>1, <3>2, SeenRow DEF CalmScan
    <3>3. QED
      BY <2>1, <3>1, <3>2 DEF Walk
  <2>2. CASE PruneRow
    <3>1. row'[p] \in {row[p], NoRow}
      BY <2>2 DEF PruneRow
    <3>2. QED
      BY <3>1 DEF NoRow, CalmScan
  <2>3. QED
    BY <1>1, <1>4, <2>1, <2>2
       DEF Reconcile, ScanStart, ListOrphans, ScanEnd, PruneJob, FeedNext, records
<1>5. ASSUME NEW i \in Ids, UNCHANGED <<processor, crashes, ocrVars>> PROVE UNCHANGED row
  BY <1>5 DEF ocrVars, records
<1>6. ASSUME NEW d \in Detectors, NEW q \in Paths, Notice(d, q) PROVE UNCHANGED row
  BY <1>6 DEF Notice, records
<1>7. QED
  BY <1>1, <1>2, <1>3, <1>4, <1>5, <1>6, QueueTouches, ServerCases

LEMMA CalmScanStep ==
  ASSUME CalmInv, Server
  PROVE  CalmScan'
<1> USE DEF CalmInv, PipelineInv
<1>1. \A p \in Paths : row'[p].fresh => row'[p].exists
  BY FreshFrom
<1>2. ASSUME NEW w \in Workers, Startup(w)
      PROVE  (scan'.at = "idle" \/ ~booted') => scan' = ScanIdle
  BY <1>2 DEF Startup, Boot, Walking, ScanIdle
<1>3. CASE Die
  BY <1>1, <1>3 DEF Die, CalmScan
<1>4. CASE UNCHANGED <<booted, scan>>
  BY <1>1, <1>4 DEF CalmScan
<1>5. ASSUME Reconcile PROVE (scan'.at = "idle" \/ ~booted') => scan' = ScanIdle
  <2>1. UNCHANGED booted
    BY <1>5 DEF Reconcile, ScanStart, ListOrphans, PruneRow, ScanEnd, Walk, PruneJob, FeedNext,
                vars, processor
  <2>2. CASE ScanStart
    BY <2>1, <2>2 DEF ScanStart, Walking, ScanIdle
  <2>3. CASE ScanEnd
    BY <2>3 DEF ScanEnd
  <2>4. ASSUME \/ ListOrphans \/ PruneRow
               \/ \E p \in Paths : Walk(p) \/ PruneJob(p) \/ FeedNext(p)
        PROVE  scan.at # "idle" /\ scan'.at # "idle"
    BY <2>4 DEF ListOrphans, PruneRow, Walk, PruneJob, FeedNext, ScanInv
  <2>5. QED
    BY <1>5, <2>1, <2>2, <2>3, <2>4 DEF Reconcile, CalmScan, ScanIdle
<1>6. CASE QueueSteps
  <2>1. ASSUME \/ \E w \in Workers : Claim(w) \/ (ClaimUpdate(w) /\ UNCHANGED ocrVars)
               \/ \E w \in Workers, o \in Finished : Outcome(w, o)
               \/ \E d \in Goroutines : MoveJob(d) \/ EnqueueNote(d)
        PROVE  UNCHANGED <<booted, scan>>
    BY <2>1 DEF Claim, ClaimSelect, ClaimUpdate, Outcome, Finish, MoveJob, EnqueueNote, ocrVars,
                processor
  <2>2. ASSUME NEW p \in Paths, PruneJob(p) PROVE Reconcile
    BY <2>2 DEF Reconcile
  <2>3. QED
    BY <1>1, <1>2, <1>3, <1>4, <1>5, <1>6, <2>1, <2>2 DEF QueueSteps, CalmScan
<1>7. CASE ~QueueSteps
  <2>1. ASSUME NEW i \in Ids, UNCHANGED <<processor, crashes, ocrVars>>
        PROVE  UNCHANGED <<booted, scan>>
    BY <2>1 DEF ocrVars, processor
  <2>2. ASSUME NEW d \in Detectors, NEW q \in Paths, Notice(d, q) PROVE UNCHANGED <<booted, scan>>
    BY <2>2 DEF Notice, vars, processor
  <2>3. UNCHANGED vars => UNCHANGED booted
    BY DEF vars, processor
  <2>4. QED
    BY <1>1, <1>4, <1>5, <1>7, <2>1, <2>2, <2>3, ServerCases, WorkTouches, DetectTouches
       DEF CalmScan
<1>8. QED
  BY <1>6, <1>7

-----------------------------------------------------------------------------
(* A changed file the scan has found stays on its list until it is fed to  *)
(* enqueue.                                                                *)
LEMMA ChangedKept ==
  ASSUME CalmInv, Server, ~Die, NEW p \in Paths, p \in scan.changed
  PROVE  \/ p \in scan'.changed
         \/ FeedNext(p)
<1> USE DEF CalmInv, PipelineInv, ScanInv
<1>1. CASE UNCHANGED scan
  BY <1>1
<1>2. scan # ScanIdle /\ scan.at # "idle" /\ booted
  BY DEF ScanIdle, CalmScan
<1>3. ASSUME NEW w \in Workers, Startup(w) PROVE FALSE
  BY <1>2, <1>3 DEF Startup, Boot
<1>4. ASSUME Reconcile PROVE p \in scan'.changed \/ FeedNext(p)
  <2>1. ~ScanStart /\ ~ScanEnd
    BY <1>2 DEF ScanStart, ScanEnd
  <2>2. ASSUME NEW q \in Paths, Walk(q) \/ PruneJob(q) PROVE p \in scan'.changed
    BY <2>2 DEF Walk, PruneJob
  <2>3. ASSUME NEW q \in Paths, FeedNext(q) PROVE p \in scan'.changed \/ q = p
    BY <2>3 DEF FeedNext
  <2>4. ASSUME ListOrphans \/ PruneRow PROVE p \in scan'.changed
    BY <2>4 DEF ListOrphans, PruneRow
  <2>5. QED
    BY <1>4, <2>1, <2>2, <2>3, <2>4 DEF Reconcile
<1>5. CASE QueueSteps
  <2>1. ASSUME \/ \E w \in Workers : Claim(w) \/ (ClaimUpdate(w) /\ UNCHANGED ocrVars)
               \/ \E w \in Workers, o \in Finished : Outcome(w, o)
               \/ \E d \in Goroutines : MoveJob(d) \/ EnqueueNote(d)
        PROVE  UNCHANGED scan
    BY <2>1 DEF Claim, Outcome, MoveJob, EnqueueNote, ocrVars
  <2>2. ASSUME NEW q \in Paths, PruneJob(q) PROVE Reconcile
    BY <2>2 DEF Reconcile
  <2>3. QED
    BY <1>1, <1>3, <1>4, <1>5, <2>1, <2>2 DEF QueueSteps
<1>6. CASE ~QueueSteps
  <2>1. ASSUME NEW i \in Ids, UNCHANGED <<processor, crashes, ocrVars>> PROVE UNCHANGED scan
    BY <2>1 DEF ocrVars
  <2>2. ASSUME NEW d \in Detectors, NEW q \in Paths, Notice(d, q) PROVE UNCHANGED scan
    BY <2>2 DEF Notice
  <2>3. QED
    BY <1>1, <1>4, <1>6, <2>1, <2>2, ServerCases, WorkTouches, DetectTouches
<1>7. QED
  BY <1>5, <1>6

(* A goroutine that will queue the job of an edited note goes on to do so. *)
LEMMA DetectionGoesOn ==
  ASSUME CalmInv, NEW p \in Paths, Outdated(p), JobDone(p)', UNCHANGED disk,
         NEW d \in Goroutines, Detect(d), ~MoveJob(d), det[d].note = p,
         det[d].at = "compare" => det[d].hash # disk[p]
  PROVE  \/ ~row'[p].fresh
         \/ /\ det'[d].at # "idle" /\ det'[d].note = p
            /\ det'[d].at = "compare" => det'[d].hash # disk'[p]
<1> USE DEF CalmInv, PipelineInv, DetInv
<1> DEFINE Goal == \/ ~row'[p].fresh
                   \/ /\ det'[d].at # "idle" /\ det'[d].note = p
                      /\ det'[d].at = "compare" => det'[d].hash # disk'[p]
<1>0. JobDone(p) /\ disk[p] # NoFile /\ ~IndexFits(p)
  BY DEF Outdated
<1>1. ASSUME NEW at \in DetStates \ {"idle", "compare"}, Goes(d, at) PROVE Goal
  BY <1>1 DEF Goes
<1>2. CASE UpsertFile(d)
  BY <1>0, <1>1, <1>2 DEF UpsertFile, DetStates
<1>3. CASE GetJob(d)
  BY <1>0, <1>1, <1>3 DEF GetJob, DetStates
<1>4. CASE GetHash(d)
  <2>1. UNCHANGED row /\ row[p].hash # disk[p]
    BY <1>0, <1>4 DEF GetHash, DetectorOnly, records, CalmRecords
  <2>2. CASE det' = [det EXCEPT ![d].at = "compare", ![d].hash = row[det[d].note].hash]
    <3>1. det'[d].note = p /\ det'[d].hash = row[p].hash /\ det'[d].at = "compare"
      BY <2>2
    <3>2. QED
      BY <2>1, <3>1
  <2>3. CASE ~row[p].exists
    BY <2>1, <2>3 DEF CalmScan
  <2>4. QED
    BY <1>4, <2>2, <2>3 DEF GetHash
<1>5. CASE CompareHash(d)
  BY <1>0, <1>1, <1>5 DEF CompareHash, DetStates
<1>6. CASE HashFile(d)
  <2>1. det' = [det EXCEPT ![d].at = "lookup", ![d].hash = disk[det[d].note]]
    BY <1>0, <1>6 DEF HashFile
  <2>2. det'[d].at = "lookup" /\ det'[d].note = p
    BY <2>1
  <2>3. QED
    BY <2>2
<1>7. CASE LookupByHash(d)
  <2>1. ASSUME NEW q \in SameContent(det[d].hash),
               det' = [det EXCEPT ![d].at = IF q = det[d].note THEN "enqueue" ELSE "transfer",
                                  ![d].old = q]
        PROVE  Goal
    <3>1. det'[d].at \in {"enqueue", "transfer"} /\ det'[d].note = p
      BY <2>1
    <3>2. QED
      BY <3>1
  <2>2. QED
    BY <1>1, <1>7, <2>1 DEF LookupByHash, DetStates
<1>8. CASE EnqueueNote(d)
  <2>1. PICK i \in Ids : path[i] = p /\ status[i] = "done"
    BY <1>0 DEF JobDone, RowOf
  <2>2. p # NoPath /\ \A k \in Ids : path[k] = p => k = i
    BY <2>1, NoPathAssumption DEF QueueInv, OneRowPerNote
  <2>3. \E b \in BOOLEAN : Enqueue(p, b)
    BY <1>8 DEF EnqueueNote
  <2>4. path' = path /\ status' = [status EXCEPT ![i] = "pending"]
    BY <2>1, <2>2, <2>3 DEF Enqueue, Insert, RowOf, Finished
  <2>5. ~JobDone(p)'
    BY <2>1, <2>2, <2>4 DEF JobDone, RowOf, TypeOK
  <2>6. QED
    BY <2>5
<1>9. ~SetHash(d)
  BY DEF SetHash, CalmDetectors
<1>10. QED
  BY <1>2, <1>3, <1>4, <1>5, <1>6, <1>7, <1>8, <1>9 DEF Detect

LEMMA NoEditMissedStep ==
  ASSUME CalmInv, Server
  PROVE  NoEditMissed'
<1> USE DEF CalmInv, PipelineInv
<1> SUFFICES ASSUME crashes' = 0, NEW p \in Paths, Outdated(p)' PROVE Underway(p)'
  BY DEF NoEditMissed
<1>1. ~Die /\ crashes = 0
  <2>1. ~Die
    BY DEF Die, Crash, TypeOK
  <2>2. UNCHANGED crashes
    <3>1. ASSUME NEW w \in Workers, Startup(w) PROVE UNCHANGED crashes
      BY <3>1 DEF Startup, Boot
    <3>2. ASSUME NEW w \in Workers, Work(w) \/ GivesUp(w) PROVE UNCHANGED crashes
      BY <3>2, WorkTouches DEF Work, GivesUp, WorkSteps, Claim, ClaimUpdate, ClaimSelect, Done,
                               Outcome, Finish, vars
    <3>3. ASSUME NEW d \in Goroutines, Detect(d) PROVE UNCHANGED crashes
      BY <3>3, DetectTouches DEF MoveJob, EnqueueNote, vars
    <3>4. ASSUME NEW q \in Paths, PruneJob(q) PROVE UNCHANGED crashes
      BY <3>4 DEF PruneJob
    <3>5. CASE Reconcile
      BY <3>4, <3>5, ReconcileTouches DEF vars
    <3>6. ASSUME NEW d \in Detectors, NEW q \in Paths, Notice(d, q) PROVE UNCHANGED crashes
      BY <3>6 DEF Notice, vars
    <3>7. QED
      BY <2>1, <3>1, <3>2, <3>3, <3>5, <3>6 DEF Server, Goroutines
  <2>3. QED
    BY <2>1, <2>2
<1>2. JobDone(p)' /\ disk'[p] # NoFile /\ ~IndexFits(p)'
  BY DEF Outdated
<1>3. disk[p] # NoFile /\ ~IndexFits(p) /\ disk'[p] = disk[p]
  BY <1>2, ServerNotes, RewrittenFits DEF NoteStep
<1>4. JobDone(p)
  BY <1>2, <1>3, JobDoneFrom DEF CalmWork, WorkerNote
<1>5. Outdated(p) /\ Underway(p)
  BY <1>1, <1>3, <1>4 DEF Outdated, NoEditMissed
<1>6. CASE ~row[p].fresh
  <2>1. CASE ~row'[p].fresh
    BY <2>1 DEF Underway
  <2>2. ASSUME NEW d \in Goroutines, UpsertFile(d), det[d].note = p PROVE Underway(p)'
    <3>1. Goes(d, "job")
      BY <1>3, <2>2 DEF UpsertFile
    <3>2. det'[d].at = "job" /\ det'[d].note = p
      BY <2>2, <3>1 DEF Goes, DetInv
    <3>3. QED
      BY <3>2 DEF Underway
  <2>3. CASE Walk(p) /\ row'[p].fresh
    <3>1. row' # row
      BY <1>6, <2>3
    <3>2. scan'.changed = scan.changed \cup {p}
      BY <1>6, <2>3, <3>1 DEF Walk, ScanInv
    <3>3. QED
      BY <3>2 DEF Underway
  <2>4. QED
    BY <1>6, <2>1, <2>2, <2>3, FreshFrom
<1>7. CASE p \in scan.changed
  <2>1. CASE FeedNext(p)
    <3>1. det'[Reconciler].at = "upsert" /\ det'[Reconciler].note = p /\ Reconciler \in Goroutines
      BY <2>1 DEF FeedNext, DetIdle, DetInv, Goroutines
    <3>2. QED
      BY <3>1 DEF Underway
  <2>2. QED
    BY <1>1, <1>7, <2>1, ChangedKept DEF Underway
<1>8. ASSUME NEW d \in Goroutines, det[d].at # "idle", det[d].note = p,
             det[d].at = "compare" => det[d].hash # disk[p]
      PROVE  Underway(p)'
  <2>1. CASE det'[d] = det[d]
    BY <1>3, <1>8, <2>1 DEF Underway
  <2>2. CASE Detect(d) /\ ~MoveJob(d)
    <3>1. UNCHANGED disk
      BY <2>2, DetectTouches DEF EnqueueNote, files
    <3>2. QED
      BY <1>2, <1>5, <1>8, <2>2, <3>1, DetectionGoesOn DEF Underway
  <2>3. QED
    BY <1>1, <1>8, <2>1, <2>2, DetMoves
<1>9. QED
  BY <1>5, <1>6, <1>7, <1>8 DEF Underway

(* A server's step, as a whole. *)
LEMMA CalmServer ==
  ASSUME CalmInv, Server
  PROVE  CalmInv'
<1>1. PipelineInv'
  BY PipelineStep DEF CalmInv, OcrNext
<1>2. OneWorker'
  BY OneWorkerStep DEF CalmInv, PipelineInv
<1>3. QED
  BY <1>1, <1>2, VersionsOwnStep, CalmJobsStep, CalmDetectorsStep, CalmRecordsStep, CalmWorkStep,
     CalmScanStep, NoEditMissedStep DEF CalmInv

-----------------------------------------------------------------------------
(* A new version of p, while everything rests. *)
LEMMA CalmUploadInv ==
  ASSUME CalmInv, NEW p \in Paths, CalmUpload(p)
  PROVE  CalmInv'
<1> USE DEF CalmInv, PipelineInv
<1> DEFINE c == NewVersion
<1>1. /\ version \in Nat /\ version' = version + 1 /\ version' \in 0 .. MaxVersion
      /\ c \in Content /\ c.ver = version + 1 /\ c # NoFile
  <2>1. version \in Nat /\ version < MaxVersion /\ version' = version + 1
    BY MaxVersionAssumption DEF CalmUpload, FilesInv
  <2>2. version + 1 \in 1 .. MaxVersion /\ version' \in 0 .. MaxVersion
    BY <2>1, MaxVersionAssumption
  <2>3. c \in Content /\ c.ver = version + 1
    BY <2>2 DEF NewVersion, Content
  <2>4. QED
    BY <2>1, <2>2, <2>3, NoFileAssumption
<1>2. /\ WriteFile(p, c) /\ catalog' = [catalog EXCEPT ![p] = c] /\ row' = RowStale(p)
      /\ UNCHANGED <<backup, index, putting, det, scan, work, vars>>
  BY DEF CalmUpload
<1>3. /\ disk' = [disk EXCEPT ![p] = c] /\ had' = [had EXCEPT ![p] = @ \cup {c}]
      /\ noticed' \in {noticed, noticed \cup {p}} /\ UNCHANGED watching
  BY <1>2 DEF WriteFile, Notify
<1>4. \A q \in Paths : \A e \in had[q] : e \in Content /\ e.ver \in Nat /\ e.ver <= version /\ e # c
  BY <1>1, MaxVersionAssumption DEF FilesInv, Content
<1>5. FilesInv' /\ Grows
  BY <1>1, <1>2, WriteFileInv
<1>6. /\ row' \in [Paths -> RowType]
      /\ \A q \in Paths : row'[q].hash = row[q].hash /\ row'[q].backed = row[q].backed
  BY <1>2, StaleRow
<1>7. /\ ~row'[p].fresh
      /\ \A q \in Paths : row'[q].exists = row[q].exists /\ (row'[q].fresh => row[q].fresh)
      /\ \A q \in Paths \ {p} : row'[q] = row[q]
  BY <1>2 DEF RowStale, RecordsInv, RowType
<1>8. RecordsInv'
  <2>1. OwnContentOnly'
    <3> SUFFICES ASSUME NEW q \in Paths
                 PROVE  /\ {backup[q], catalog'[q], row'[q].hash} \subseteq had'[q] \cup {NoFile}
                        /\ index[q] \in {e.ver : e \in had'[q]} \cup {0}
      BY <1>2 DEF OwnContentOnly
    <3>1. had[q] \subseteq had'[q]
      BY <1>5 DEF Grows
    <3>2. catalog'[q] \in had'[q] \cup {NoFile}
      BY <1>2, <1>3, <3>1 DEF RecordsInv, OwnContentOnly, FilesInv
    <3>3. QED
      BY <1>6, <3>1, <3>2 DEF RecordsInv, OwnContentOnly
  <2>2. catalog' \in [Paths -> Recorded]
    BY <1>1, <1>2 DEF RecordsInv, Recorded
  <2>3. QED
    BY <1>2, <1>6, <2>1, <2>2 DEF RecordsInv
<1>9. DetInv'
  BY <1>2, <1>3, <1>5 DEF DetInv, Grows
<1>10. ScanInv' /\ WorkInv'
  BY <1>2, <1>5 DEF ScanInv, WorkInv, Grows, vars, processor
<1>11. TypeOK' /\ QueueInv' /\ OneWorker'
  BY <1>2 DEF vars, table, processor, OneWorker, TypeOK, QueueInv, RowsHavePaths, OneRowPerNote,
              IdsUnused, HandsHoldRows
<1>12. PipelineInv'
  BY <1>5, <1>8, <1>9, <1>10, <1>11
<1>13. VersionsOwn'
  BY <1>1, <1>3, <1>4 DEF VersionsOwn, FilesInv
<1>14. \A q \in Paths : JobDone(q)' <=> JobDone(q)
  BY <1>2 DEF JobDone, RowOf, vars, table
<1>15. CalmJobs'
  BY <1>2 DEF CalmJobs, WorkerJob, RowOf, vars, table, processor
<1>16. (\A d \in Goroutines : det'[d].at = "idle") /\ (\A w \in Workers : work'[w].at = "off")
  BY <1>2 DEF CalmUpload, Rests, DetIdle, WorkIdle, DetInv
<1>17. CalmDetectors' /\ CalmWork'
  BY <1>16 DEF CalmDetectors, CalmWork, WorkerNote
<1>18. CalmRecords'
  <2> SUFFICES ASSUME NEW q \in Paths, disk'[q] # NoFile
               PROVE  /\ row'[q].hash = disk'[q] => IndexFits(q)'
                      /\ JobDone(q)' /\ catalog'[q] # NoFile => catalog'[q] = disk'[q]
    BY DEF CalmRecords
  <2>1. CASE q = p
    <3>1. disk'[q] = c /\ catalog'[q] = c
      BY <1>2, <1>3, <2>1 DEF FilesInv, RecordsInv
    <3>2. row'[q].hash # c
      BY <1>1, <1>4, <1>6 DEF RecordsInv, OwnContentOnly
    <3>3. QED
      BY <3>1, <3>2
  <2>2. CASE q # p
    <3>1. disk'[q] = disk[q] /\ catalog'[q] = catalog[q] /\ index'[q] = index[q]
      BY <1>2, <1>3, <2>2 DEF FilesInv, RecordsInv
    <3>2. QED
      BY <1>6, <1>14, <3>1 DEF CalmRecords, IndexFits
  <2>3. QED
    BY <2>1, <2>2
<1>19. CalmScan'
  BY <1>2, <1>7 DEF CalmScan, vars, processor
<1>20. NoEditMissed'
  <2> SUFFICES ASSUME crashes' = 0, NEW q \in Paths, Outdated(q)' PROVE Underway(q)'
    BY DEF NoEditMissed
  <2>1. CASE q = p
    BY <1>7, <2>1 DEF Underway
  <2>2. CASE q # p
    <3>1. disk'[q] = disk[q] /\ index'[q] = index[q] /\ row'[q] = row[q] /\ crashes = 0
      BY <1>2, <1>3, <1>7, <2>2 DEF FilesInv, vars
    <3>2. Underway(q)
      BY <1>14, <3>1 DEF NoEditMissed, Outdated, IndexFits
    <3>3. QED
      BY <1>2, <3>1, <3>2 DEF Underway
  <2>3. QED
    BY <2>1, <2>2
<1>21. QED
  BY <1>11, <1>12, <1>13, <1>15, <1>17, <1>18, <1>19, <1>20

LEMMA CalmStep ==
  ASSUME CalmInv, [CalmNext]_pipelineVars
  PROVE  CalmInv'
<1>1. CASE UNCHANGED pipelineVars
  <2>1. PipelineInv'
    BY <1>1, PipelineStep DEF CalmInv
  <2>2. UNCHANGED <<status, path, pc, job, cancelled, current, booted, crashes, disk, had, row,
                    catalog, index, det, scan, work>>
    BY <1>1 DEF pipelineVars, ocrVars, vars, table, processor, files, records
  <2>3. OneWorker' /\ VersionsOwn' /\ CalmJobs' /\ CalmDetectors'
    BY <2>2 DEF CalmInv, OneWorker, VersionsOwn, CalmJobs, WorkerJob, RowOf, CalmDetectors, IndexFits
  <2>4. CalmRecords' /\ CalmWork' /\ CalmScan'
    BY <2>2 DEF CalmInv, CalmRecords, CalmWork, WorkerNote, CalmScan, IndexFits, JobDone, RowOf
  <2>5. NoEditMissed'
    BY <2>2 DEF CalmInv, NoEditMissed, Outdated, Underway, IndexFits, JobDone, RowOf
  <2>6. QED
    BY <2>1, <2>3, <2>4, <2>5 DEF CalmInv
<1>2. QED
  BY <1>1, CalmServer, CalmUploadInv DEF CalmNext

LEMMA CalmStart ==
  ASSUME OcrInit
  PROVE  CalmInv
<1>1. PipelineInv /\ Init
  BY PipelineStart
<1>2. OneWorker /\ CalmJobs
  BY <1>1, NoWorkerAssumption DEF Init, OcrInit, OneWorker, CalmJobs, WorkerJob, WorkIdle
<1>3. VersionsOwn /\ CalmRecords
  BY DEF OcrInit, VersionsOwn, CalmRecords
<1>4. CalmDetectors /\ CalmWork
  BY DEF OcrInit, CalmDetectors, CalmWork, WorkerNote, WorkIdle, DetIdle, Goroutines
<1>5. CalmScan
  BY DEF OcrInit, CalmScan, NoRow
<1>6. NoEditMissed
  BY DEF OcrInit, NoEditMissed, Outdated
<1>7. QED
  BY <1>1, <1>2, <1>3, <1>4, <1>5, <1>6 DEF CalmInv

(* While tablets upload only when the pipeline rests, the index, the       *)
(* stored hash and the catalog of a done job stay those of its file, and   *)
(* before a crash a file that has outrun its text is not forgotten.        *)
THEOREM CalmInvariant == CalmSpec => []CalmInv
  BY CalmStart, CalmStep, PTL DEF CalmSpec

(* The tablets are told the MD5 of the file as its last job left it: the   *)
(* page written last, the hash read after it and the catalog's entry are   *)
(* of one content, across crashes between them.                            *)
THEOREM CatalogFollowsFile == CalmSpec => []MetadataMatches
<1>1. CalmInv => MetadataMatches
  BY DEF CalmInv, CalmRecords, MetadataMatches
<1>2. QED
  BY <1>1, CalmInvariant, PTL

(* As long as the process has not died, an edited note is never left with  *)
(* a done job whose text is of an earlier version.  A crash between the    *)
(* scan's update of the row and the queueing of the job can leave one.     *)
THEOREM EditsReprocessed == CalmSpec => [](crashes = 0 => EditReprocessed)
<1>1. ASSUME CalmInv, crashes = 0 PROVE EditReprocessed
  <2> SUFFICES ASSUME Quiet, NEW p \in Paths, JobDone(p), disk[p] # NoFile, index[p] # 0,
                      index[p] # disk[p].ver
               PROVE  FALSE
    BY DEF EditReprocessed
  <2>1. Underway(p)
    BY <1>1 DEF CalmInv, NoEditMissed, Outdated, IndexFits
  <2>2. row[p].fresh /\ scan.changed = {} /\ \A d \in Goroutines : det[d].at = "idle"
    BY <1>1 DEF Quiet, Rests, ScanIdle, DetIdle, CalmInv, PipelineInv, DetInv
  <2>3. QED
    BY <2>1, <2>2 DEF Underway
<1>2. CalmInv => (crashes = 0 => EditReprocessed)
  BY <1>1
<1>3. QED
  BY <1>2, CalmInvariant, PTL

-----------------------------------------------------------------------------
(* Tablets that upload whenever they like.  Between a parse and the        *)
(* rewrite of the page, the worker holds what is on disk unless a user has *)
(* written the file since.                                                 *)
WorkingCopy(w) ==
  work[w].at \in {"recognize", "write"} /\ work[w].note \notin unread =>
    disk[work[w].note] \in {NoFile, work[w].held}

CopiesAgree == \A w \in Workers : WorkingCopy(w)

ParsedInv == PipelineInv /\ OneWorker /\ CopiesAgree

(* A user's write marks the path it is made to. *)
LEMMA UserWrites ==
  ASSUME FilesInv, User
  PROVE  /\ UNCHANGED <<work, pc, cancelled, current>>
         /\ \A p \in Paths : p \notin unread' =>
              p \notin unread /\ (disk'[p] = disk[p] \/ disk'[p] = NoFile)
<1>1. ASSUME NEW p \in Paths, Put(p)
      PROVE  disk' = [disk EXCEPT ![p] = NewVersion] /\ unread' = unread \cup {p}
  BY <1>1 DEF Put, WriteFile, Arrives
<1>2. ASSUME NEW p \in Paths, NEW q \in Paths, PutDuplicate(p, q)
      PROVE  disk' = [disk EXCEPT ![q] = disk[p]] /\ unread' = unread \cup {q}
  BY <1>2 DEF PutDuplicate, WriteFile, Arrives
<1>3. ASSUME NEW p \in Paths, NEW q \in Paths, Rename(p, q)
      PROVE  disk' = [disk EXCEPT ![q] = disk[p], ![p] = NoFile] /\ unread' = unread \cup {q}
  BY <1>3 DEF Rename, Arrives
<1>4. ASSUME NEW p \in Paths, UploadFinish(p) \/ Web(p) PROVE UNCHANGED <<disk, unread>>
  BY <1>4 DEF UploadFinish, Web, ocrVars, files
<1>5. UNCHANGED <<work, pc, cancelled, current>>
  BY DEF User, Put, PutDuplicate, Rename, UploadFinish, Web, ocrVars, vars, processor
<1>6. QED
  BY <1>1, <1>2, <1>3, <1>4, <1>5 DEF User, FilesInv

(* Claims, outcomes and the table's statements leave files alone and set   *)
(* no worker to a page.                                                    *)
LEMMA QueueLeavesPages ==
  ASSUME WorkInv, QueueSteps, NEW w \in Workers, work'[w].at \in {"recognize", "write"}
  PROVE  UNCHANGED <<disk, unread>> /\ work'[w] = work[w]
<1> USE DEF WorkInv
<1>1. ASSUME NEW v \in Workers, Startup(v) \/ (ClaimUpdate(v) /\ UNCHANGED ocrVars)
      PROVE  UNCHANGED <<files, work>>
  BY <1>1 DEF Startup, ocrVars
<1>2. ASSUME NEW v \in Workers, Claim(v)
      PROVE  UNCHANGED files /\ work'[w] = work[w]
  BY <1>2 DEF Claim, WorkIdle
<1>3. ASSUME NEW v \in Workers, NEW o \in Finished, Outcome(v, o)
      PROVE  UNCHANGED files /\ work'[w] = work[w]
  BY <1>3 DEF Outcome, WorkIdle
<1>4. ASSUME NEW d \in Goroutines, MoveJob(d) \/ EnqueueNote(d) PROVE UNCHANGED <<files, work>>
  BY <1>4 DEF MoveJob, EnqueueNote
<1>5. ASSUME NEW p \in Paths, PruneJob(p) PROVE UNCHANGED <<files, work>>
  BY <1>5 DEF PruneJob, ScanOnly
<1>6. CASE Die
  BY <1>6 DEF Die, WorkIdle
<1>7. QED
  BY <1>1, <1>2, <1>3, <1>4, <1>5, <1>6 DEF QueueSteps, files

(* Neither enqueue nor the scan has to do with what is unread. *)
LEMMA OthersUnread ==
  ASSUME \/ \E d \in Goroutines : Detect(d)
         \/ Reconcile
         \/ \E d \in Detectors, p \in Paths : Notice(d, p)
         \/ UNCHANGED ocrVars
  PROVE  UNCHANGED <<disk, unread, work>>
<1>1. ASSUME NEW d \in Goroutines, Detect(d) PROVE UNCHANGED <<files, work>>
  BY <1>1 DEF Detect, UpsertFile, GetJob, GetHash, CompareHash, HashFile, LookupByHash, MoveJob,
              SetHash, EnqueueNote, DetectorOnly
<1>2. CASE Reconcile
  BY <1>2 DEF Reconcile, ScanStart, ListOrphans, PruneRow, ScanEnd, Walk, PruneJob, FeedNext,
              ScanOnly, files
<1>3. ASSUME NEW d \in Detectors, NEW p \in Paths, Notice(d, p) PROVE UNCHANGED <<files, work>>
  BY <1>3 DEF Notice
<1>4. CASE UNCHANGED ocrVars
  BY <1>4 DEF ocrVars, files
<1>5. QED
  BY <1>1, <1>2, <1>3, <1>4 DEF files

(* The worker's own steps: parsing takes what is on disk, and a page that  *)
(* is only indexed changes nothing.                                        *)
LEMMA WorkCopies ==
  ASSUME WorkInv, NEW w \in Workers, WorkSteps(w), WorkingCopy(w),
         work'[w].at \in {"recognize", "write"}, work'[w].note \notin unread'
  PROVE  disk'[work'[w].note] \in {NoFile, work'[w].held}
<1> DEFINE p == work[w].note
<1>0. work \in [Workers -> WorkType] /\ work[w] \in WorkType
  BY DEF WorkInv, WorkType
<1>1. CASE Load(w)
  BY <1>0, <1>1 DEF Load, Parses, WorkType
<1>2. CASE Reload(w)
  BY <1>0, <1>2 DEF Reload, NextPage, Parses, WorkType
<1>3. CASE IndexOnly(w)
  BY <1>0, <1>3 DEF IndexOnly, At, NextPage, WorkOnly, files, WorkType, WorkingCopy
<1>4. CASE Recognize(w)
  BY <1>0, <1>4 DEF Recognize, At, Moves, WorkOnly, files, WorkType, WorkingCopy
<1>5. CASE EnsureBackup(w) \/ Inject(w) \/ StoreHash(w) \/ ReadMD5(w) \/ AfterInject(w)
  BY <1>0, <1>5 DEF EnsureBackup, Inject, StoreHash, ReadMD5, AfterInject, Moves, WorkType
<1>6. QED
  BY <1>1, <1>2, <1>3, <1>4, <1>5 DEF WorkSteps

LEMMA CopiesAgreeStep ==
  ASSUME ParsedInv, PipelineInv', [OcrNext]_pipelineVars
  PROVE  CopiesAgree'
<1> SUFFICES ASSUME NEW w \in Workers, work'[w].at \in {"recognize", "write"},
                    work'[w].note \notin unread'
             PROVE  disk'[work'[w].note] \in {NoFile, work'[w].held}
  BY DEF CopiesAgree, WorkingCopy
<1> USE DEF ParsedInv, PipelineInv
<1>0. WorkingCopy(w) /\ work'[w].note \in Paths
  BY DEF CopiesAgree, WorkInv
<1>1. CASE User
  <2>1. UNCHANGED work
    BY <1>1, UserWrites
  <2>2. work[w].note \notin unread /\ disk'[work[w].note] \in {disk[work[w].note], NoFile}
    BY <1>0, <1>1, <2>1, UserWrites
  <2>3. QED
    BY <1>0, <2>1, <2>2 DEF WorkingCopy
<1>2. ASSUME UNCHANGED <<disk, unread>>, work'[w] = work[w] PROVE disk'[work'[w].note] \in {NoFile, work'[w].held}
  BY <1>0, <1>2 DEF WorkingCopy
<1>3. CASE QueueSteps
  BY <1>2, <1>3, QueueLeavesPages
<1>4. ASSUME NEW v \in Workers, WorkSteps(v) PROVE disk'[work'[w].note] \in {NoFile, work'[w].held}
  <2>1. pc[v] = "working" /\ UNCHANGED pc
    BY <1>4, WorkTouches DEF vars, processor
  <2>2. pc'[w] = "working"
    BY DEF WorkInv
  <2>3. v = w
    BY <2>1, <2>2, OnlyWorker
  <2>4. QED
    BY <1>0, <1>4, <2>3, WorkCopies
<1>5. CASE ~QueueSteps /\ Server /\ ~\E v \in Workers : WorkSteps(v)
  BY <1>2, <1>5, ServerCases, OthersUnread
<1>6. CASE UNCHANGED pipelineVars
  BY <1>2, <1>6 DEF pipelineVars, ocrVars, files
<1>7. QED
  BY <1>1, <1>3, <1>4, <1>5, <1>6 DEF OcrNext

(* The worker's rewrite of a page it has parsed is of the version on disk, *)
(* and users only bring later versions or files where there were none.     *)
THEOREM ParsedVersionsKept == OcrSpec => ParsedKept
<1>1. OcrInit => OneWorker /\ CopiesAgree
  BY DEF OcrInit, Init, OneWorker, CopiesAgree, WorkingCopy, WorkIdle
<1>2. ParsedInv /\ PipelineInv' /\ [OcrNext]_pipelineVars => OneWorker' /\ CopiesAgree'
  <2> SUFFICES ASSUME ParsedInv, PipelineInv', [OcrNext]_pipelineVars
               PROVE  OneWorker' /\ CopiesAgree'
    OBVIOUS
  <2>1. ASSUME UNCHANGED <<pc, cancelled, current>> PROVE OneWorker'
    BY <2>1 DEF ParsedInv, OneWorker
  <2>2. User \/ UNCHANGED pipelineVars => UNCHANGED <<pc, cancelled, current>>
    BY UserWrites DEF ParsedInv, PipelineInv, pipelineVars, vars, processor
  <2>3. OneWorker'
    BY <2>1, <2>2, OneWorkerStep DEF OcrNext, ParsedInv, PipelineInv
  <2>4. QED
    BY <2>3, CopiesAgreeStep
<1>3. OcrSpec => []ParsedInv
  BY <1>1, <1>2, PipelineInvariant, PTL DEF OcrSpec, ParsedInv
<1>4. ASSUME ParsedInv, [OcrNext]_pipelineVars, NEW p \in Paths \ unread,
             disk[p] # NoFile, disk'[p] # NoFile
      PROVE  disk'[p].ver >= disk[p].ver
  <2>0. /\ disk[p] \in Content /\ disk[p].ver \in Nat /\ disk[p].ver <= version
        /\ disk[p] \in had[p] /\ version \in Nat
    BY <1>4, MaxVersionAssumption DEF ParsedInv, PipelineInv, FilesInv, Content, Recorded
  <2>1. CASE UNCHANGED disk
    BY <2>0, <2>1
  <2>2. ASSUME NEW q \in Paths, Put(q) PROVE disk'[p].ver >= disk[p].ver
    <3>1. disk'[p] \in {disk[p], NewVersion}
      BY <2>2 DEF Put, WriteFile, ParsedInv, PipelineInv, FilesInv
    <3>2. QED
      BY <2>0, <3>1 DEF NewVersion
  <2>3. ASSUME NEW q \in Paths, NEW r \in Paths, PutDuplicate(q, r) \/ Rename(q, r)
        PROVE  disk'[p] = disk[p]
    BY <1>4, <2>0, <2>3
       DEF PutDuplicate, Rename, WriteFile, ParsedInv, PipelineInv, FilesInv
  <2>4. CASE User
    <3>1. ASSUME NEW q \in Paths, UploadFinish(q) \/ Web(q) PROVE UNCHANGED disk
      BY <3>1 DEF UploadFinish, Web, ocrVars, files
    <3>2. ASSUME disk'[p] = disk[p] PROVE disk'[p].ver >= disk[p].ver
      BY <2>0, <3>2
    <3>3. QED
      BY <2>1, <2>2, <2>3, <2>4, <3>1, <3>2 DEF User
  <2>5. ASSUME NEW w \in Workers, Inject(w) PROVE disk'[p].ver = disk[p].ver
    <3>1. disk' = [disk EXCEPT ![work[w].note] = [work[w].held EXCEPT !.ocr = TRUE]]
      BY <2>5 DEF Inject, WriteFile
    <3>2. WorkingCopy(w) /\ work[w].at = "write"
      BY <1>4, <2>5 DEF ParsedInv, CopiesAgree, Inject, At
    <3>3. CASE p = work[w].note
      <4>1. work[w].held = disk[p]
        BY <1>4, <3>2, <3>3 DEF WorkingCopy
      <4>2. disk'[p] = [disk[p] EXCEPT !.ocr = TRUE]
        BY <1>4, <3>1, <3>3, <4>1 DEF ParsedInv, PipelineInv, FilesInv
      <4>3. QED
        BY <2>0, <4>2 DEF Content
    <3>4. CASE p # work[w].note
      BY <1>4, <3>1, <3>4 DEF ParsedInv, PipelineInv, FilesInv
    <3>5. QED
      BY <3>3, <3>4
  <2>6. CASE Server
    <3>1. ASSUME NEW w \in Workers, WorkSteps(w) PROVE UNCHANGED disk \/ Inject(w)
      BY <3>1, WorkTouches
    <3>2. QED
      BY <2>0, <2>1, <2>5, <2>6, <3>1, ServerCases, QueueTouches, OthersUnread
  <2>7. QED
    BY <1>4, <2>1, <2>4, <2>6 DEF OcrNext, pipelineVars, ocrVars, files
<1>5. ParsedInv /\ [OcrNext]_pipelineVars =>
        [\A p \in Paths \ unread : disk[p] # NoFile /\ disk'[p] # NoFile =>
           disk'[p].ver >= disk[p].ver]_pipelineVars
  BY <1>4
<1>6. QED
  BY <1>3, <1>5, PTL DEF OcrSpec, ParsedKept
=============================================================================
