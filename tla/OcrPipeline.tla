---------------------------- MODULE OcrPipeline ----------------------------
(***************************************************************************)
(* The OCR pipeline around the job queue: note files on disk, detectors    *)
(* that decide whether a file needs a job, the scan that prunes rows of    *)
(* vanished files, and the worker that backs up, loads, recognises,        *)
(* rewrites and stamps a file.  Every database statement and every file    *)
(* read or write is a step of its own; tablets upload in between.          *)
(*                                                                         *)
(* A file's content is the version the user wrote and whether recognised   *)
(* text has been injected; a SHA-256 or MD5 is the content itself.         *)
(***************************************************************************)
EXTENDS JobQueue

CONSTANTS NoFile,      \* no content: file absent, column NULL
          Detectors,   \* goroutines of enqueue: bus handlers and watcher timers
          Reconciler,  \* the goroutine that scans and enqueues what changed
          MaxVersion,  \* bound on the versions users write
          Pages,       \* pages of a note
          Duplicates,  \* users put a note they downloaded at another path
          Renames,     \* users rename files below the storage root
          Unreadable,  \* WalkDir may fail to read an entry
          Rescans,     \* the scan is repeated after the one at startup
          WebQueue     \* the web interface queues, skips and unskips

ASSUME ReconcilerAssumption == Reconciler \notin Detectors
ASSUME PagesAssumption == Pages \in Nat \ {0}
ASSUME MaxVersionAssumption == MaxVersion \in Nat

VARIABLES disk,      \* disk[p]: content of the file at p
          version,   \* versions written so far
          row,       \* row[p]: the notes row of p
          backup,    \* backup[p]: content of p's file in the backup tree
          catalog,   \* catalog[p]: content whose MD5 the tablets are told
          index,     \* index[p]: version whose text search finds under p, 0 for none
          putting,   \* putting[p]: content a tablet has uploaded but not finished
          had,       \* had[p]: contents the file at p has had
          unread,    \* paths whose file users wrote since the worker last parsed it
          watching,  \* the pipeline has subscribed to the bus and started the watcher
          noticed,   \* paths with a pending file or bus event
          det,       \* det[d]: where goroutine d stands in enqueue
          scan,      \* the scan
          work       \* work[w]: where goroutine w stands in processJob

files == <<disk, version, had, unread>>
records == <<row, backup, catalog, index>>
events == <<watching, noticed>>
ocrVars == <<files, records, putting, events, det, scan, work>>
pipelineVars == <<vars, ocrVars>>

Content == [ver : 1 .. MaxVersion, ocr : BOOLEAN]
ASSUME NoFileAssumption == NoFile \notin Content
NoRow == [exists |-> FALSE, fresh |-> FALSE, hash |-> NoFile, backed |-> FALSE]
DetIdle == [at |-> "idle", note |-> NoPath, hash |-> NoFile, old |-> NoPath]
ScanIdle == [at |-> "idle", todo |-> {}, seen |-> {}, changed |-> {}, note |-> NoPath]
Walking == [ScanIdle EXCEPT !.at = "walk", !.todo = Paths]
WorkIdle == [at |-> "off", note |-> NoPath, held |-> NoFile, left |-> 0]

JobDone(p) == \E i \in RowOf(p) : status[i] = "done"

(* An event nobody listens for is gone. *)
Notify(p) == /\ noticed' = IF watching THEN noticed \cup {p} ELSE noticed
             /\ UNCHANGED watching

(* A file appears or changes: the watcher and the next walk can tell. *)
WriteFile(p, c) == /\ disk' = [disk EXCEPT ![p] = c]
                   /\ had' = [had EXCEPT ![p] = @ \cup {c}]
                   /\ Notify(p)

(* A user's write, which the worker has not seen. *)
Arrives(p) == unread' = unread \cup {p}

(* fresh is the comparison of the row's mtime with the file's. *)
RowStale(p) == [row EXCEPT ![p].fresh = FALSE]

-----------------------------------------------------------------------------
(* Users. *)

NewVersion == [ver |-> version + 1, ocr |-> FALSE]

(* The upload's PUT to the blob store: a new version of p. *)
Put(p) == /\ booted /\ version < MaxVersion /\ putting[p] = NoFile
          /\ WriteFile(p, NewVersion) /\ Arrives(p)
          /\ putting' = [putting EXCEPT ![p] = NewVersion]
          /\ version' = version + 1
          /\ row' = RowStale(p)
          /\ UNCHANGED <<backup, catalog, index, det, scan, work, vars>>

(* A tablet uploads, at a new path, a note it has downloaded. *)
PutDuplicate(p, q) == /\ Duplicates /\ booted
                      /\ disk[p] # NoFile /\ disk[q] = NoFile /\ putting[q] = NoFile
                      /\ WriteFile(q, disk[p]) /\ Arrives(q)
                      /\ putting' = [putting EXCEPT ![q] = disk[p]]
                      /\ row' = RowStale(q)
                      /\ UNCHANGED <<version, backup, catalog, index, det, scan, work, vars>>

(* upload/finish: the catalog takes the tablet's content_hash, and a       *)
(* FileUploaded event goes out.                                            *)
UploadFinish(p) == /\ booted /\ putting[p] # NoFile
                   /\ catalog' = [catalog EXCEPT ![p] = putting[p]]
                   /\ putting' = [putting EXCEPT ![p] = NoFile]
                   /\ Notify(p)
                   /\ UNCHANGED <<files, row, backup, index, det, scan, work, vars>>

(* A file is renamed on the storage volume, to a path not used before,     *)
(* which bounds the renames.                                               *)
Rename(p, q) == /\ Renames /\ booted
                /\ disk[p] # NoFile /\ had[q] = {}
                /\ disk' = [disk EXCEPT ![q] = disk[p], ![p] = NoFile]
                /\ Notify(q) /\ Arrives(q)
                /\ had' = [had EXCEPT ![q] = @ \cup {disk[p]}]
                /\ row' = RowStale(q)
                /\ UNCHANGED <<version, backup, catalog, index, putting, det, scan, work, vars>>

Web(p) == /\ WebQueue /\ booted
          /\ Enqueue(p, FALSE) \/ Skip(p) \/ Unskip(p)
          /\ UNCHANGED <<processor, crashes, ocrVars>>

-----------------------------------------------------------------------------
(* enqueue: does this file need a job?  d is a detector's goroutine or the *)
(* reconciler's.                                                           *)

Goes(d, at) == det' = [det EXCEPT ![d].at = at]
Ends(d) == det' = [det EXCEPT ![d] = DetIdle]
DetectorOnly == UNCHANGED <<files, records, putting, events, scan, work, vars>>

(* The debounce timer of a path fires, or the bus delivers its event. *)
Notice(d, p) == /\ booted /\ det[d].at = "idle" /\ p \in noticed
                /\ det' = [det EXCEPT ![d] = [DetIdle EXCEPT !.at = "upsert", !.note = p]]
                /\ noticed' = noticed \ {p}
                /\ UNCHANGED <<files, records, putting, watching, scan, work, vars>>

UpsertFile(d) ==
  LET p == det[d].note IN
  /\ det[d].at = "upsert"
  /\ \/ /\ disk[p] = NoFile
        /\ Ends(d)
        /\ UNCHANGED row
     \/ /\ disk[p] # NoFile
        /\ row' = [row EXCEPT ![p].exists = TRUE, ![p].fresh = TRUE]
        /\ Goes(d, "job")
  /\ UNCHANGED <<files, backup, catalog, index, putting, events, scan, work, vars>>

(* Faulty variant: a done job is never queued again. *)
GetJob_DoneEnds(d) == /\ det[d].at = "job"
                      /\ IF JobDone(det[d].note) THEN Ends(d) ELSE Goes(d, "hash")
                      /\ DetectorOnly

GetJob(d) == /\ det[d].at = "job"
             /\ Goes(d, IF JobDone(det[d].note) THEN "stored" ELSE "hash")
             /\ DetectorOnly

GetHash(d) == /\ det[d].at = "stored"
              /\ IF row[det[d].note].exists
                 THEN det' = [det EXCEPT ![d].at = "compare", ![d].hash = row[det[d].note].hash]
                 ELSE Ends(d)
              /\ DetectorOnly

(* The file on disk is what the last job left there, or it was edited. *)
CompareHash(d) == /\ det[d].at = "compare"
                  /\ IF disk[det[d].note] \in {NoFile, det[d].hash}
                     THEN Ends(d)
                     ELSE Goes(d, "requeue")
                  /\ DetectorOnly

(* No done job: the file may be one that was processed under another path. *)
HashFile(d) == /\ det[d].at = "hash"
               /\ IF disk[det[d].note] = NoFile
                  THEN Goes(d, "enqueue")
                  ELSE det' = [det EXCEPT ![d].at = "lookup", ![d].hash = disk[det[d].note]]
               /\ DetectorOnly

SameContent(h) == {p \in Paths : row[p].exists /\ row[p].hash = h /\ JobDone(p)}

LookupByHash(d) ==
  /\ det[d].at = "lookup"
  /\ \/ \E q \in SameContent(det[d].hash) :
          det' = [det EXCEPT ![d].at = IF q = det[d].note THEN "enqueue" ELSE "transfer",
                             ![d].old = q]
     \/ SameContent(det[d].hash) = {} /\ Goes(d, "enqueue")
  /\ DetectorOnly

MoveJob(d) ==
  LET p == det[d].old
      q == det[d].note
  IN  /\ det[d].at = "transfer"
      /\ \/ TransferJob(p, q) /\ Goes(d, "sethash")
         \/ /\ RowOf(p) = {} \/ RowOf(q) # {}
            /\ Goes(d, "enqueue")
            /\ UNCHANGED table
      /\ UNCHANGED <<processor, crashes, files, records, putting, events, scan, work>>

SetHash(d) == /\ det[d].at = "sethash"
              /\ row' = [row EXCEPT ![det[d].note].hash =
                           IF row[det[d].note].exists THEN det[d].hash ELSE NoFile]
              /\ Ends(d)
              /\ UNCHANGED <<files, backup, catalog, index, putting, events, scan, work, vars>>

(* Faulty variant: the upsert has no WHERE status IN (...). *)
EnqueueNote_Resets(d) ==
  /\ det[d].at \in {"requeue", "enqueue"}
  /\ status' = [i \in Ids |-> IF i \in RowOf(det[d].note) THEN "pending" ELSE status[i]]
  /\ Ends(d)
  /\ UNCHANGED <<path, delayed, older, nextId, processor, crashes,
                 files, records, putting, events, scan, work>>

(* A new file is queued at once, an edited one with a delay of 30 seconds. *)
EnqueueNote(d) == /\ det[d].at \in {"requeue", "enqueue"}
                  /\ Enqueue(det[d].note, det[d].at = "requeue")
                  /\ Ends(d)
                  /\ UNCHANGED <<processor, crashes, files, records, putting, events, scan, work>>

Detect(d) == \/ UpsertFile(d) \/ GetJob(d) \/ GetHash(d) \/ CompareHash(d)
             \/ HashFile(d) \/ LookupByHash(d) \/ MoveJob(d) \/ SetHash(d)
             \/ EnqueueNote(d)
-----------------------------------------------------------------------------
(* The scan, at startup and every fifteen minutes. *)

ScanOnly == UNCHANGED <<files, backup, catalog, putting, events, work>>

ScanStart == /\ Rescans /\ booted /\ scan.at = "idle"
             /\ scan' = Walking
             /\ ScanOnly /\ UNCHANGED <<row, index, det, vars>>


(* The walk comes to p: insert its row, or update a row whose mtime        *)
(* differs; either way the file counts as changed.                         *)
Walk(p) ==
  /\ scan.at = "walk" /\ p \in scan.todo
  /\ \/ /\ disk[p] = NoFile \/ Unreadable
        /\ scan' = [scan EXCEPT !.todo = @ \ {p}]
        /\ UNCHANGED row
     \/ /\ disk[p] # NoFile
        /\ LET same == row[p].exists /\ row[p].fresh
           IN  scan' = [scan EXCEPT !.todo = @ \ {p}, !.seen = @ \cup {p},
                                    !.changed = IF same THEN @ ELSE @ \cup {p}]
        /\ row' = [row EXCEPT ![p].exists = TRUE, ![p].fresh = TRUE]
  /\ ScanOnly /\ UNCHANGED <<index, det, vars>>

(* pruneOrphans lists the rows the walk did not see... *)
ListOrphans == /\ scan.at = "walk" /\ scan.todo = {}
               /\ scan' = [scan EXCEPT !.at = "prune", !.seen = {},
                                       !.todo = {p \in Paths : row[p].exists} \ scan.seen]
               /\ ScanOnly /\ UNCHANGED <<row, index, det, vars>>

(* ... and deletes, of each, the indexed text and the job, *)
PruneJob(p) == /\ scan.at = "prune" /\ p \in scan.todo
               /\ index' = [index EXCEPT ![p] = 0]
               /\ DeleteJob(p)
               /\ scan' = [scan EXCEPT !.at = "pruneRow", !.todo = @ \ {p}, !.note = p]
               /\ ScanOnly /\ UNCHANGED <<row, det, processor, crashes>>

(* then the row. *)
PruneRow == /\ scan.at = "pruneRow"
            /\ row' = [row EXCEPT ![scan.note] = NoRow]
            /\ scan' = [scan EXCEPT !.at = "prune", !.note = NoPath]
            /\ ScanOnly /\ UNCHANGED <<index, det, vars>>

(* The changed files are enqueued one after the other. *)
FeedNext(p) == /\ scan.at = "prune" /\ scan.todo = {}
               /\ det[Reconciler].at = "idle" /\ p \in scan.changed
               /\ det' = [det EXCEPT ![Reconciler] = [DetIdle EXCEPT !.at = "upsert", !.note = p]]
               /\ scan' = [scan EXCEPT !.changed = @ \ {p}]
               /\ ScanOnly /\ UNCHANGED <<row, index, vars>>

(* After the first scan the pipeline starts to listen. *)
ScanEnd == /\ scan.at = "prune" /\ scan.todo = {} /\ scan.changed = {}
           /\ det[Reconciler].at = "idle"
           /\ scan' = ScanIdle
           /\ watching' = TRUE
           /\ UNCHANGED <<files, records, putting, noticed, det, work, vars>>

Reconcile == \/ ScanStart \/ ListOrphans \/ PruneRow \/ ScanEnd
             \/ \E p \in Paths : Walk(p) \/ PruneJob(p) \/ FeedNext(p)

-----------------------------------------------------------------------------
(* processJob: the work between a claim and its outcome. *)

At(w, at) == pc[w] = "working" /\ work[w].at = at
Moves(w, at) == work' = [work EXCEPT ![w].at = at]
WorkOnly == UNCHANGED <<files, putting, det, scan, vars>>

(* The worker parses the note as it is on disk now. *)
Parses(w) == /\ unread' = unread \ {work[w].note}
             /\ UNCHANGED <<disk, version, had, putting, det, scan, vars>>

(* Faulty variant: run does not check for a nil job. *)
Claim_NoNilCheck(w) == /\ ClaimSelect(w)
                       /\ work' = [work EXCEPT ![w] =
                            [at |-> "backup", held |-> NoFile, left |-> Pages,
                             note |-> IF job'[w] = 0 THEN NoPath ELSE path[job'[w]]]]
                       /\ UNCHANGED <<files, records, putting, events, det, scan>>

Claim(w) == /\ ClaimSelect(w)
            /\ work' = [work EXCEPT ![w] =
                 IF pc'[w] = "working"
                 THEN [at |-> "backup", note |-> path[job'[w]], held |-> NoFile, left |-> Pages]
                 ELSE WorkIdle]
            /\ UNCHANGED <<files, records, putting, events, det, scan>>

Outcome(w, o) == /\ Finish(w, o)
                 /\ work' = [work EXCEPT ![w] = WorkIdle]
                 /\ UNCHANGED <<files, records, putting, events, det, scan>>

(* Backing up, parsing, the OCR service and writing can fail; the size     *)
(* limit and a note that cannot be rewritten make the job skipped.         *)
GivesUp(w) == \/ /\ work[w].at \in {"backup", "load", "recognize", "write"}
                 /\ Outcome(w, "failed")
              \/ /\ work[w].at = "reload" /\ disk[work[w].note] = NoFile
                 /\ Outcome(w, "failed")
              \/ /\ work[w].at \in {"backup", "write"}
                 /\ Outcome(w, "skipped")

(* Faulty variant: a failing copy does not stop the job. *)
EnsureBackup_BestEffort(w) ==
  LET p == work[w].note IN
  /\ At(w, "backup")
  /\ \/ UNCHANGED <<backup, row>>
     \/ /\ ~row[p].backed /\ disk[p] # NoFile
        /\ backup' = [backup EXCEPT ![p] = disk[p]]
        /\ row' = [row EXCEPT ![p].backed = row[p].exists]
  /\ Moves(w, "load")
  /\ UNCHANGED <<catalog, index, events>> /\ WorkOnly

(* The file is copied to the backup tree unless its row has a backup.      *)
(* The query, the copy and the record are one step: only this goroutine    *)
(* reads or writes backups.                                                *)
EnsureBackup(w) ==
  LET p == work[w].note IN
  /\ At(w, "backup")
  /\ \/ row[p].backed /\ UNCHANGED <<backup, row>>
     \/ /\ ~row[p].backed /\ disk[p] # NoFile
        /\ backup' = [backup EXCEPT ![p] = disk[p]]
        /\ row' = [row EXCEPT ![p].backed = row[p].exists]
  /\ Moves(w, "load")
  /\ UNCHANGED <<catalog, index, events>> /\ WorkOnly

(* Faulty variant: the note is parsed from its backup. *)
Load_FromBackup(w) ==
  LET p == work[w].note IN
  /\ At(w, "load") /\ backup[p] # NoFile
  /\ work' = [work EXCEPT ![w].at = "recognize", ![w].held = backup[p]]
  /\ index' = [index EXCEPT ![p] = IF backup[p].ocr THEN backup[p].ver ELSE 0]
  /\ UNCHANGED <<row, backup, catalog, events>> /\ Parses(w)

(* The note is parsed, and the text it already carries is indexed. *)
Load(w) ==
  LET p == work[w].note IN
  /\ At(w, "load") /\ disk[p] # NoFile
  /\ work' = [work EXCEPT ![w].at = "recognize", ![w].held = disk[p]]
  /\ index' = [index EXCEPT ![p] = IF disk[p].ocr THEN disk[p].ver ELSE 0]
  /\ UNCHANGED <<row, backup, catalog, events>> /\ Parses(w)

(* The OCR service answers. *)
Recognize(w) == /\ At(w, "recognize")
                /\ Moves(w, "write")
                /\ UNCHANGED <<records, events>> /\ WorkOnly

(* The page's text is put into the note as it was loaded, and that is      *)
(* written over whatever is on disk now.                                   *)
Inject(w) ==
  LET p == work[w].note IN
  /\ At(w, "write")
  /\ WriteFile(p, [work[w].held EXCEPT !.ocr = TRUE])
  /\ row' = RowStale(p)
  /\ Moves(w, "reload")
  /\ UNCHANGED <<version, unread, backup, catalog, index, putting, det, scan, vars>>

NextPage(w, c) == work' = [work EXCEPT ![w].held = c, ![w].left = @ - 1,
                             ![w].at = IF work[w].left = 1 THEN "hash" ELSE "recognize"]

(* The note is parsed again for the next page, and the page is indexed. *)
Reload(w) ==
  LET p == work[w].note IN
  /\ At(w, "reload") /\ disk[p] # NoFile
  /\ index' = [index EXCEPT ![p] = work[w].held.ver]
  /\ NextPage(w, disk[p])
  /\ UNCHANGED <<row, backup, catalog, events>> /\ Parses(w)

(* A real-time recognition note is indexed and not rewritten. *)
IndexOnly(w) ==
  /\ At(w, "write")
  /\ index' = [index EXCEPT ![work[w].note] = work[w].held.ver]
  /\ NextPage(w, work[w].held)
  /\ UNCHANGED <<row, backup, catalog, events>> /\ WorkOnly

(* The hash of what is on disk now goes to the notes row, *)
StoreHash(w) ==
  LET p == work[w].note IN
  /\ At(w, "hash")
  /\ row' = [row EXCEPT ![p].hash = IF row[p].exists /\ disk[p] # NoFile THEN disk[p] ELSE @]
  /\ Moves(w, "md5")
  /\ UNCHANGED <<backup, catalog, index, events>> /\ WorkOnly

(* its MD5 is read, *)
ReadMD5(w) ==
  LET p == work[w].note IN
  /\ At(w, "md5")
  /\ work' = [work EXCEPT ![w].at = IF disk[p] = NoFile THEN "done" ELSE "after",
                          ![w].held = disk[p]]
  /\ UNCHANGED <<records, events>> /\ WorkOnly

(* Faulty variant: the entry is looked up by name, not by storage key. *)
AfterInject_ByName(w) ==
  /\ At(w, "after")
  /\ catalog' = [p \in Paths |-> IF catalog[p] = NoFile THEN NoFile ELSE work[w].held]
  /\ Moves(w, "done")
  /\ UNCHANGED <<row, backup, index, events>> /\ WorkOnly

(* Faulty variant: the check for a missing entry is inverted. *)
AfterInject_NoEntry(w) ==
  LET p == work[w].note IN
  /\ At(w, "after")
  /\ catalog' = [catalog EXCEPT ![p] = IF @ = NoFile THEN work[w].held ELSE @]
  /\ Moves(w, "done")
  /\ UNCHANGED <<row, backup, index, events>> /\ WorkOnly

(* and the catalog entry of the file, if there is one, takes it. *)
AfterInject(w) ==
  LET p == work[w].note IN
  /\ At(w, "after")
  /\ catalog' = [catalog EXCEPT ![p] = IF @ = NoFile THEN @ ELSE work[w].held]
  /\ Moves(w, "done")
  /\ UNCHANGED <<row, backup, index, events>> /\ WorkOnly

Done(w) == At(w, "done") /\ Outcome(w, "done")

Work(w) == \/ ClaimUpdate(w) /\ UNCHANGED ocrVars
           \/ Claim(w) \/ EnsureBackup(w) \/ Load(w) \/ Recognize(w)
           \/ Inject(w) \/ Reload(w) \/ IndexOnly(w)
           \/ StoreHash(w) \/ ReadMD5(w) \/ AfterInject(w) \/ Done(w)
-----------------------------------------------------------------------------
OcrInit == /\ Init
           /\ disk = [p \in Paths |-> NoFile]
           /\ version = 0
           /\ had = [p \in Paths |-> {}]
           /\ unread = {}
           /\ row = [p \in Paths |-> NoRow]
           /\ backup = [p \in Paths |-> NoFile]
           /\ catalog = [p \in Paths |-> NoFile]
           /\ index = [p \in Paths |-> 0]
           /\ putting = [p \in Paths |-> NoFile]
           /\ watching = FALSE
           /\ noticed = {}
           /\ det = [d \in Detectors \cup {Reconciler} |-> DetIdle]
           /\ scan = ScanIdle
           /\ work = [w \in Workers |-> WorkIdle]

(* The process starts: processor, then pipeline, whose first act is a scan. *)
Startup(w) == /\ Boot(w)
              /\ scan' = Walking
              /\ UNCHANGED <<files, records, putting, events, det, work>>

Die == /\ Crash
       /\ det' = [d \in Detectors \cup {Reconciler} |-> DetIdle]
       /\ scan' = ScanIdle
       /\ work' = [w \in Workers |-> WorkIdle]
       /\ watching' = FALSE
       /\ noticed' = {}
       /\ UNCHANGED <<files, records, putting>>

User == \E p \in Paths : \/ Put(p) \/ UploadFinish(p) \/ Web(p)
                         \/ \E q \in Paths : PutDuplicate(p, q) \/ Rename(p, q)

Server == \/ \E w \in Workers : Startup(w) \/ Work(w) \/ GivesUp(w)
          \/ \E i \in Ids : DelayEnds(i) /\ UNCHANGED <<processor, crashes, ocrVars>>
          \/ \E d \in Detectors, p \in Paths : Notice(d, p)
          \/ \E d \in Detectors \cup {Reconciler} : Detect(d)
          \/ Reconcile
          \/ Die

OcrNext == User \/ Server

OcrSpec == OcrInit /\ [][OcrNext]_pipelineVars

-----------------------------------------------------------------------------
TypeOcr == /\ TypeOK
           /\ \A f \in {disk, backup, catalog, putting} : f \in [Paths -> Content \cup {NoFile}]
           /\ version \in 0 .. MaxVersion
           /\ had \in [Paths -> SUBSET Content]
           /\ unread \in SUBSET Paths
           /\ row \in [Paths -> [exists : BOOLEAN, fresh : BOOLEAN,
                                 hash : Content \cup {NoFile}, backed : BOOLEAN]]
           /\ index \in [Paths -> 0 .. version]
           /\ noticed \in SUBSET Paths
           /\ det \in [Detectors \cup {Reconciler} ->
                [at : {"idle", "upsert", "job", "stored", "compare", "hash", "lookup",
                       "transfer", "sethash", "requeue", "enqueue"},
                 note : Paths \cup {NoPath}, hash : Content \cup {NoFile},
                 old : Paths \cup {NoPath}]]
           /\ \A w \in Workers : pc[w] = "working" <=> work[w].at # "off"

(* The pipeline is an implementation of the job queue. *)
QueueSpec == Spec

(* AC4.6, "Backup created before any file modification": whatever a scan,  *)
(* a rename or an upload does to the row or the file meanwhile, a worker   *)
(* that is about to rewrite a note has a copy of it in the backup tree.    *)
BackupBeforeInject ==
  \A w \in Workers : work[w].at \in {"load", "recognize", "write"} => backup[work[w].note] # NoFile

(* What is recorded of a path was true of its file once: no backup, stored *)
(* hash, advertised MD5 or indexed text is that of another note, though    *)
(* jobs move between paths, files are renamed, copied and rewritten and    *)
(* every record is taken steps after the file was read.                    *)
OwnContentOnly ==
  \A p \in Paths :
    /\ {backup[p], catalog[p], row[p].hash} \subseteq had[p] \cup {NoFile}
    /\ index[p] \in {c.ver : c \in had[p]} \cup {0}

(* No job is under way or due, and no detector is deciding about one. *)
Rests == /\ noticed = {}
         /\ \A d \in DOMAIN det : det[d] = DetIdle
         /\ \A w \in Workers : work[w] = WorkIdle
         /\ \A i \in Ids : status[i] \notin {"pending", "in_progress"}

(* Nothing is under way, waiting or unnoticed. *)
Quiet == /\ Rests /\ watching /\ scan = ScanIdle
         /\ \A p \in Paths : putting[p] = NoFile /\ (disk[p] = NoFile \/ row[p].fresh)

(* Test plan 2.2, "Modify note on device - re-sync - verify updated file   *)
(* replaces old version": no file goes back to an earlier version.         *)
UploadKept ==
  [][\A p \in Paths : disk[p] # NoFile /\ disk'[p] # NoFile => disk'[p].ver >= disk[p].ver]_pipelineVars

(* A version the worker has parsed is never replaced by an earlier one:    *)
(* pages are rewritten one after the other from what was parsed before the *)
(* OCR call, backups of earlier versions lie beside the note, jobs start   *)
(* over after crashes and failures, and tablets upload at any moment; what *)
(* a rewrite can undo is only an upload that came after the page's parse.  *)
ParsedKept ==
  [][\A p \in Paths \ unread :
       disk[p] # NoFile /\ disk'[p] # NoFile => disk'[p].ver >= disk[p].ver]_pipelineVars

(* Test plan 3.1, "Verify syncdb MD5 is updated after injection": when     *)
(* everything has settled the tablets are told the MD5 of the file as its  *)
(* last, completed job left it.                                            *)
MetadataMatches ==
  Quiet => \A p \in Paths :
             JobDone(p) /\ catalog[p] # NoFile /\ disk[p] # NoFile => catalog[p] = disk[p]

(* AC4.4, "user edits note -> uploads new version -> hash mismatch         *)
(* detected -> re-queued": once everything has settled, a done job is one  *)
(* whose text is that of the version on disk.                              *)
EditReprocessed ==
  Quiet => \A p \in Paths : JobDone(p) /\ disk[p] # NoFile /\ index[p] # 0 => index[p] = disk[p].ver

(* A note with a done job is found by search, moved notes included.        *)
DoneIsSearchable == Quiet => \A p \in Paths : JobDone(p) /\ disk[p] # NoFile => index[p] # 0

(* Every goroutine is scheduled, the scan repeats, delays pass.            *)
OcrFairness == /\ WF_pipelineVars(\E w \in Workers : Startup(w))
               /\ \A w \in Workers : WF_pipelineVars(Work(w))
               /\ \A d \in Detectors \cup {Reconciler} : WF_pipelineVars(Detect(d))
               /\ \A d \in Detectors : WF_pipelineVars(\E p \in Paths : Notice(d, p))
               /\ WF_pipelineVars(Reconcile)
               /\ \A i \in Ids :
                    WF_pipelineVars(DelayEnds(i) /\ UNCHANGED <<processor, crashes, ocrVars>>)

(* A tablet that uploads only while the pipeline rests, be it that a scan  *)
(* is under way, and whose PUT and upload/finish nothing comes between.    *)
CalmUpload(p) == /\ Rests /\ booted /\ version < MaxVersion
                 /\ WriteFile(p, NewVersion) /\ Arrives(p)
                 /\ catalog' = [catalog EXCEPT ![p] = NewVersion]
                 /\ version' = version + 1
                 /\ row' = RowStale(p)
                 /\ UNCHANGED <<backup, index, putting, det, scan, work, vars>>

CalmNext == Server \/ \E p \in Paths : CalmUpload(p)

CalmSpec == OcrInit /\ [][CalmNext]_pipelineVars /\ OcrFairness

HasVersion(p, v) == disk[p] # NoFile /\ disk[p].ver = v

=============================================================================
