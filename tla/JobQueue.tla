------------------------------ MODULE JobQueue ------------------------------
(***************************************************************************)
(* The OCR job queue: the jobs table, the statements that change it, and   *)
(* the processor whose run loop claims a job, works on it and records the  *)
(* result.  Each SQL statement is one step, since the database has one     *)
(* connection; claimNext is two statements and other writers come between. *)
(*                                                                         *)
(* A processor start launches a goroutine pair (run, watchdog) under one   *)
(* context; Stop cancels the context, and so does the end of the web       *)
(* request that started it.  A statement issued under a cancelled context  *)
(* fails and changes nothing.                                              *)
(***************************************************************************)
EXTENDS Naturals

CONSTANTS Paths,       \* note files
          NoPath,      \* note_path of a row that does not exist
          Workers,     \* goroutines of run: one per processor start that may overlap
          NoWorker,    \* s.cancel = nil
          MaxId,       \* bound on the rows ever inserted
          MaxCrashes   \* bound on process deaths

ASSUME NoPathAssumption == NoPath \notin Paths
ASSUME NoWorkerAssumption == NoWorker \notin Workers
ASSUME MaxIdAssumption == MaxId \in Nat

Ids == 1 .. MaxId
Finished == {"done", "failed", "skipped"}
Statuses == Finished \cup {"pending", "in_progress"}

VARIABLES status,      \* status[i] of the row with id i, "absent" when there is no such row
          path,        \* path[i]: note_path of row i
          delayed,     \* delayed[i]: requeue_after is set and still ahead
          older,       \* <<i, j>>: row i has the earlier created_at
          nextId       \* AUTOINCREMENT: the id of the next inserted row
VARIABLES pc,          \* pc[w]: where goroutine w stands in run
          job,         \* job[w]: the row w claimed or works on, 0 for none
          cancelled,   \* cancelled[w]: w's context is cancelled
          ofRequest,   \* ofRequest[w]: w's context is a web request's that has not returned
          current,     \* the goroutine s.cancel belongs to
          booted,      \* main has started the processor of this process
          crashes      \* process deaths so far

table == <<status, path, delayed, older, nextId>>
processor == <<pc, job, cancelled, ofRequest, current, booted>>
vars == <<table, processor, crashes>>

-----------------------------------------------------------------------------
(* The table. *)

RowOf(p) == {i \in Ids : path[i] = p}

(* created_at is now. *)
Youngest(i) == older' = {r \in older : i \notin {r[1], r[2]}}
                        \cup {<<k, i>> : k \in {k \in Ids \ {i} : path[k] # NoPath}}

Insert(p, s, d) == /\ RowOf(p) = {}
                   /\ nextId \in Ids
                   /\ status' = [status EXCEPT ![nextId] = s]
                   /\ path' = [path EXCEPT ![nextId] = p]
                   /\ delayed' = [delayed EXCEPT ![nextId] = d]
                   /\ Youngest(nextId)
                   /\ nextId' = nextId + 1

(* Enqueue: a finished job becomes pending again, a missing one is         *)
(* inserted, and one that is pending or in progress is left as it is.      *)
Enqueue(p, d) ==
  \/ Insert(p, "pending", d)
  \/ \E i \in RowOf(p) :
       /\ status[i] \in Finished
       /\ status' = [status EXCEPT ![i] = "pending"]
       /\ delayed' = [delayed EXCEPT ![i] = d]
       /\ Youngest(i)
       /\ UNCHANGED <<path, nextId>>
  \/ /\ \E i \in RowOf(p) : status[i] \notin Finished
     /\ UNCHANGED table

(* Skip: whatever the job's status is, in progress included. *)
Skip(p) ==
  \/ Insert(p, "skipped", FALSE)
  \/ \E i \in RowOf(p) : /\ status' = [status EXCEPT ![i] = "skipped"]
                         /\ UNCHANGED <<path, delayed, older, nextId>>

(* Faulty variant: the status is cleared instead of set to pending. *)
Unskip_Cleared(p) == \E i \in RowOf(p) : /\ status[i] = "skipped"
                                         /\ status' = [status EXCEPT ![i] = ""]
                                         /\ UNCHANGED <<path, delayed, older, nextId>>

Unskip(p) == \E i \in RowOf(p) : /\ status[i] = "skipped"
                                 /\ status' = [status EXCEPT ![i] = "pending"]
                                 /\ UNCHANGED <<path, delayed, older, nextId>>

(* TransferJob: note_path is UNIQUE, so it fails when q has a job. *)
TransferJob(p, q) == /\ RowOf(p) # {} /\ RowOf(q) = {}
                     /\ path' = [i \in Ids |-> IF i \in RowOf(p) THEN q ELSE path[i]]
                     /\ UNCHANGED <<status, delayed, older, nextId>>

(* pruneOrphans deletes the job of a file that is no longer on disk. *)
DeleteJob(p) == /\ status' = [i \in Ids |-> IF i \in RowOf(p) THEN "absent" ELSE status[i]]
                /\ path' = [i \in Ids |-> IF i \in RowOf(p) THEN NoPath ELSE path[i]]
                /\ delayed' = [i \in Ids |-> delayed[i] /\ i \notin RowOf(p)]
                /\ older' = {r \in older : r[1] \notin RowOf(p) /\ r[2] \notin RowOf(p)}
                /\ UNCHANGED nextId

(* requeue_after passes. *)
DelayEnds(i) == /\ delayed[i]
                /\ delayed' = [delayed EXCEPT ![i] = FALSE]
                /\ UNCHANGED <<status, path, older, nextId>>

-----------------------------------------------------------------------------
(* The processor. *)

(* Faulty variant: no check that a processor is running already. *)
Launch_Again(w, req) == /\ pc[w] = "off"
                        /\ pc' = [pc EXCEPT ![w] = "idle"]
                        /\ job' = [job EXCEPT ![w] = 0]
                        /\ cancelled' = [cancelled EXCEPT ![w] = FALSE]
                        /\ ofRequest' = [ofRequest EXCEPT ![w] = req]
                        /\ current' = w

Launch(w, req) == /\ current = NoWorker
                  /\ pc[w] = "off"
                  /\ pc' = [pc EXCEPT ![w] = "idle"]
                  /\ job' = [job EXCEPT ![w] = 0]
                  /\ cancelled' = [cancelled EXCEPT ![w] = FALSE]
                  /\ ofRequest' = [ofRequest EXCEPT ![w] = req]
                  /\ current' = w

(* main starts the processor under the application's context. *)
Boot(w) == /\ ~booted
           /\ booted' = TRUE
           /\ Launch(w, FALSE)
           /\ UNCHANGED <<table, crashes>>

(* POST /processor/start passes the request's context. *)
WebStart(w) == /\ booted
               /\ Launch(w, TRUE)
               /\ UNCHANGED <<booted, table, crashes>>

(* The response is written and net/http cancels the request's context. *)
RequestReturns(w) == /\ ofRequest[w]
                     /\ ofRequest' = [ofRequest EXCEPT ![w] = FALSE]
                     /\ cancelled' = [cancelled EXCEPT ![w] = TRUE]
                     /\ UNCHANGED <<pc, job, current, booted, table, crashes>>

(* Stop, from the web or at shutdown: it forgets the goroutine, cancels    *)
(* it, and waits outside the mutex for it to exit.                         *)
Stop == /\ current # NoWorker
        /\ cancelled' = [cancelled EXCEPT ![current] = TRUE]
        /\ current' = NoWorker
        /\ UNCHANGED <<pc, job, ofRequest, booted, table, crashes>>

(* The process dies: the goroutines are gone, the table stays. *)
Crash == /\ booted
         /\ crashes < MaxCrashes
         /\ crashes' = crashes + 1
         /\ booted' = FALSE
         /\ pc' = [w \in Workers |-> "off"]
         /\ job' = [w \in Workers |-> 0]
         /\ cancelled' = [w \in Workers |-> FALSE]
         /\ ofRequest' = [w \in Workers |-> FALSE]
         /\ current' = NoWorker
         /\ UNCHANGED table

Claimable(i) == status[i] = "pending" /\ ~delayed[i]

(* Faulty variant: ORDER BY created_at DESC. *)
ClaimUpdate_YoungestFirst(w) ==
  /\ pc[w] = "idle" /\ ~cancelled[w]
  /\ \E i \in Ids : /\ Claimable(i)
                    /\ \A k \in Ids : Claimable(k) => <<i, k>> \notin older
                    /\ status' = [status EXCEPT ![i] = "in_progress"]
                    /\ job' = [job EXCEPT ![w] = i]
  /\ pc' = [pc EXCEPT ![w] = "selecting"]
  /\ UNCHANGED <<path, delayed, older, nextId, cancelled, ofRequest, current, booted, crashes>>

(* First statement of claimNext: the oldest claimable job is in progress. *)
ClaimUpdate(w) ==
  /\ pc[w] = "idle" /\ ~cancelled[w]
  /\ \E i \in Ids : /\ Claimable(i)
                    /\ \A k \in Ids : Claimable(k) => <<k, i>> \notin older
                    /\ status' = [status EXCEPT ![i] = "in_progress"]
                    /\ job' = [job EXCEPT ![w] = i]
  /\ pc' = [pc EXCEPT ![w] = "selecting"]
  /\ UNCHANGED <<path, delayed, older, nextId, cancelled, ofRequest, current, booted, crashes>>

(* Faulty variant: without ORDER BY started_at DESC. *)
Selected_AnyInProgress(w) == {i \in Ids : status[i] = "in_progress"}

(* Second statement: the job in progress that was started last.  That is   *)
(* the one just claimed, unless a request took it out of progress; then it *)
(* is some other job left in progress, or none and the loop sleeps.        *)
Selected(w) == IF status[job[w]] = "in_progress" THEN {job[w]}
               ELSE {i \in Ids : status[i] = "in_progress"}

ClaimSelect(w) ==
  /\ pc[w] = "selecting"
  /\ \/ /\ ~cancelled[w]
        /\ \E i \in Selected(w) : job' = [job EXCEPT ![w] = i]
        /\ pc' = [pc EXCEPT ![w] = "working"]
     \/ /\ cancelled[w] \/ Selected(w) = {}
        /\ job' = [job EXCEPT ![w] = 0]
        /\ pc' = [pc EXCEPT ![w] = "idle"]
  /\ UNCHANGED <<table, cancelled, ofRequest, current, booted, crashes>>

(* Faulty variant: the outcome of a failed execution is not recorded. *)
Finish_IgnoresFailure(w, outcome) ==
  /\ pc[w] = "working"
  /\ status' = IF cancelled[w] \/ status[job[w]] = "absent" \/ outcome = "failed" THEN status
               ELSE [status EXCEPT ![job[w]] = outcome]
  /\ pc' = [pc EXCEPT ![w] = "idle"]
  /\ job' = [job EXCEPT ![w] = 0]
  /\ UNCHANGED <<path, delayed, older, nextId, cancelled, ofRequest, current, booted, crashes>>

(* processJob records the outcome by row id, whatever the row's status has *)
(* become; under a cancelled context the statement fails.                  *)
Finish(w, outcome) ==
  /\ pc[w] = "working"
  /\ status' = IF cancelled[w] \/ status[job[w]] = "absent" THEN status
               ELSE [status EXCEPT ![job[w]] = outcome]
  /\ pc' = [pc EXCEPT ![w] = "idle"]
  /\ job' = [job EXCEPT ![w] = 0]
  /\ UNCHANGED <<path, delayed, older, nextId, cancelled, ofRequest, current, booted, crashes>>

Exit(w) == /\ pc[w] = "idle" /\ cancelled[w]
           /\ pc' = [pc EXCEPT ![w] = "off"]
           /\ UNCHANGED <<table, job, cancelled, ofRequest, current, booted, crashes>>

(* SQLite orders values of different storage classes by class. *)
ClassRank == [null |-> 0, integer |-> 1, text |-> 2]
SqlLess(a, b) == a # "null" /\ b # "null" /\ ClassRank[a] < ClassRank[b]

(* The watchdog makes jobs pending whose started_at, RFC3339 text since    *)
(* claimNext, is less than a cutoff in Unix seconds, an integer.           *)
ReclaimStuck(w) ==
  /\ pc[w] # "off" /\ ~cancelled[w]
  /\ status' = [i \in Ids |-> IF status[i] = "in_progress" /\ SqlLess("text", "integer")
                              THEN "pending" ELSE status[i]]
  /\ UNCHANGED <<path, delayed, older, nextId, processor, crashes>>
-----------------------------------------------------------------------------
Init == /\ status = [i \in Ids |-> "absent"]
        /\ path = [i \in Ids |-> NoPath]
        /\ delayed = [i \in Ids |-> FALSE]
        /\ older = {}
        /\ nextId = 1
        /\ pc = [w \in Workers |-> "off"]
        /\ job = [w \in Workers |-> 0]
        /\ cancelled = [w \in Workers |-> FALSE]
        /\ ofRequest = [w \in Workers |-> FALSE]
        /\ current = NoWorker
        /\ booted = FALSE
        /\ crashes = 0

(* The detectors, the web interface and the scanner call at any time. *)
Caller(p) == /\ \/ \E d \in BOOLEAN : Enqueue(p, d)
                \/ Skip(p)
                \/ Unskip(p)
                \/ \E q \in Paths : TransferJob(p, q)
                \/ DeleteJob(p)
             /\ UNCHANGED <<processor, crashes>>

Run(w) == \/ ClaimUpdate(w)
          \/ ClaimSelect(w)
          \/ \E outcome \in Finished : Finish(w, outcome)
          \/ Exit(w)

(* What happens while nobody starts or stops the processor from the web. *)
Unattended == \/ \E p \in Paths : Caller(p)
              \/ \E i \in Ids : DelayEnds(i) /\ UNCHANGED <<processor, crashes>>
              \/ \E w \in Workers : Boot(w) \/ Run(w) \/ ReclaimStuck(w)

Control == \/ \E w \in Workers : WebStart(w) \/ RequestReturns(w)
           \/ Stop

Next == Unattended \/ Control \/ Crash

Spec == Init /\ [][Next]_vars

(* The scheduler runs every goroutine, main is started again after a       *)
(* crash (restart: unless-stopped), and delays pass.  Nothing is assumed   *)
(* of the callers or of the people using the web interface.                *)
Fairness == /\ \A w \in Workers : WF_vars(Run(w))
            /\ WF_vars(\E w \in Workers : Boot(w))
            /\ \A i \in Ids : WF_vars(DelayEnds(i) /\ UNCHANGED <<processor, crashes>>)

LiveSpec == Spec /\ Fairness

CrashSpec == Init /\ [][Unattended \/ Crash]_vars /\ Fairness
-----------------------------------------------------------------------------
TypeOK == /\ status \in [Ids -> Statuses \cup {"absent"}]
          /\ path \in [Ids -> Paths \cup {NoPath}]
          /\ delayed \in [Ids -> BOOLEAN]
          /\ older \in SUBSET (Ids \X Ids)
          /\ nextId \in 1 .. MaxId + 1
          /\ pc \in [Workers -> {"off", "idle", "selecting", "working"}]
          /\ job \in [Workers -> Ids \cup {0}]
          /\ cancelled \in [Workers -> BOOLEAN]
          /\ ofRequest \in [Workers -> BOOLEAN]
          /\ current \in Workers \cup {NoWorker}
          /\ booted \in BOOLEAN
          /\ crashes \in Nat

Live(w) == pc[w] # "off" /\ ~cancelled[w]

(* However starts, stops, request ends and crashes interleave, at most one *)
(* goroutine that can still write is ever running: a second one would      *)
(* claim jobs beside the first and both would rewrite note files.          *)
OneLiveProcessor == \A v, w \in Workers : Live(v) /\ Live(w) => v = w

Held(i) == \E w \in Workers : pc[w] \in {"selecting", "working"} /\ job[w] = i

(* A job in progress is in some goroutine's hands until its outcome is     *)
(* recorded: the two-statement claim, skips and deletions in the middle of *)
(* it, and restarts never leave a job in progress that nobody works on,    *)
(* except when the process dies or the goroutine's context was cancelled.  *)
LostOnlyByInterruption ==
  [][\A i \in Ids :
       status'[i] = "in_progress" /\ ~Held(i)' =>
         /\ status[i] = "in_progress"
         /\ \/ ~Held(i)
            \/ crashes' # crashes
            \/ \E w \in Workers : job[w] = i /\ cancelled[w]]_vars

(* Every pending job is served or withdrawn, across crashes, stops and      *)
(* starts, once a processor stays alive and unless someone keeps unskipping *)
(* older jobs forever: claims go by created_at, re-enqueueing sends a job   *)
(* to the back, and a delay runs out.                                       *)
PendingServed ==
  <>[](\E w \in Workers : Live(w)) /\ <>[][\A p \in Paths : ~Unskip(p)]_vars =>
    \A i \in Ids : status[i] = "pending" ~> status[i] # "pending"

(* While the process lives and no goroutine's context is cancelled, every   *)
(* job in progress gets an outcome, the one a racing skip or transfer left  *)
(* behind included.                                                         *)
ClaimedFinishes ==
  [](crashes = 0 /\ \A w \in Workers : ~cancelled[w]) =>
   \A i \in Ids : status[i] = "in_progress" ~> status[i] # "in_progress"

(* watchdog.go:13, "watchdog periodically reclaims jobs that have been     *)
(* in_progress too long", and the test plan's "Restart the container while *)
(* an OCR job is in progress": a job whose goroutine died with the process *)
(* leaves in_progress again.                                               *)
StuckJobsReclaimed == \A i \in Ids : status[i] = "in_progress" ~> status[i] # "in_progress"

(* The page's Status says running exactly while run loops: the processor   *)
(* needs "to run indefinitely" (main.go:231) once it is started.           *)
RunningWhenStarted == current # NoWorker => pc[current] # "off"
=============================================================================
