----------------------------- MODULE Transfers -----------------------------
(***************************************************************************)
(* The bodies of files: a tablet asks for a signed URL, which holds a path *)
(* and a nonce, and sends or fetches the body with it on a connection of   *)
(* its own.  A large file goes in parts.  The answer may be lost, a        *)
(* request repeated, the client's connection broken, the URL run out and   *)
(* the server restarted; the tablet then asks for another URL.             *)
(***************************************************************************)
EXTENDS Naturals, FiniteSets

CONSTANTS Requests,    \* connections, numbered
          Parts,       \* the parts of the file sent in parts
          Files,       \* files sent or fetched whole
          DigestFiles, \* handwriting of digests, likewise
          MaxUrls,     \* bound on the URLs that are outstanding at a time
          MaxFaults    \* bound on losses, repetitions, expiries and restarts

ASSUME RequestsAssumption == Requests \subseteq Nat
ASSUME PartsAssumption == /\ IsFiniteSet(Parts) /\ Parts # {}
                          /\ Parts \cap (Files \cup DigestFiles) = {}
ASSUME FilesAssumption == Files \cap DigestFiles = {}
ASSUME BoundsAssumption == MaxUrls \in Nat /\ MaxFaults \in Nat

Transfers == Parts \cup Files \cup DigestFiles
Urls == 1 .. MaxUrls

VARIABLES nonces,      \* url_nonces: the URLs whose nonce is stored
          expired,     \* the URLs that have run out
          parts,       \* parts in the upload's directory
          records,     \* chunk_uploads: parts recorded for the upload
          blobs,       \* files in the blob store, or served from it
          req          \* req[r]: where the handler of connection r stands
VARIABLES answered,    \* transfers whose success the tablet has heard of
          refused,     \* transfers refused for good
          completed,   \* the tablet has heard that all the parts are there
          spent,       \* ghost: URLs that were accepted once
          faults       \* faults so far

stored == <<nonces, parts, records, blobs>>
tablet == <<answered, refused, completed>>
vars == <<stored, expired, req, tablet, spent, faults>>

Request == [pc : {"idle", "verify", "path", "save", "record", "count"},
            what : SUBSET Transfers, url : 0 .. MaxUrls, heard : BOOLEAN]
NoRequest == [pc |-> "idle", what |-> {}, url |-> 0, heard |-> FALSE]

At(r, step) == req[r].pc = step
Goto(r, step) == req' = [req EXCEPT ![r].pc = step]
Done(r) == req' = [req EXCEPT ![r] = NoRequest]

Answer(r, done) == answered' = IF req[r].heard THEN answered \cup done ELSE answered

(* Which of the idle connections is used makes no difference. *)
Free(r) == At(r, "idle") /\ \A q \in Requests : At(q, "idle") => r <= q

(* The digest handlers sign the file's name and ask for it below summaries/. *)
PathsMatch(what) == what \cap DigestFiles = {}
-----------------------------------------------------------------------------
(* The tablet gets a URL and uses it, from as many connections as it has.  *)
(* The nonce is random, and stored before the URL is known to anyone.      *)
(* (A number stands for another URL once nobody has the one it stood for.) *)
Unused == Urls \ (nonces \cup {req[r].url : r \in Requests})
Fresh == CHOOSE u \in Unused : TRUE

GenerateSignedURL(r, t) ==
  /\ Free(r)
  /\ t \notin answered \cup refused
  /\ \A q \in Requests : req[q].heard => t \notin req[q].what
  /\ Unused # {}
  /\ nonces' = nonces \cup {Fresh}
  /\ spent' = spent \ {Fresh}
  /\ req' = [req EXCEPT ![r] = [pc |-> "verify", what |-> {t}, url |-> Fresh, heard |-> TRUE]]
  /\ UNCHANGED <<parts, records, blobs, expired, tablet, faults>>

(* Faulty variant: the nonce is looked up and left. *)
VerifySignedURL_Kept(r) ==
  /\ At(r, "verify")
  /\ IF req[r].url \in nonces \ expired
     THEN /\ spent' = spent \cup {req[r].url}
          /\ Goto(r, IF req[r].what \subseteq Parts THEN "save" ELSE "path")
     ELSE Done(r) /\ UNCHANGED spent
  /\ UNCHANGED <<stored, expired, tablet, faults>>

(* The nonce is consumed by one DELETE, which says whether it was there.   *)
(* A part's URL is not compared with anything.                             *)
VerifySignedURL(r) ==
  /\ At(r, "verify")
  /\ IF req[r].url \in nonces \ expired
     THEN /\ nonces' = nonces \ {req[r].url}
          /\ spent' = spent \cup {req[r].url}
          /\ Goto(r, IF req[r].what \subseteq Parts THEN "save" ELSE "path")
     ELSE Done(r) /\ UNCHANGED <<nonces, spent>>
  /\ UNCHANGED <<parts, records, blobs, expired, tablet, faults>>

(* The file is put in the blob store, or served from it; or the signed     *)
(* path is not the one asked for.                                          *)
Body(r) ==
  /\ At(r, "path")
  /\ IF PathsMatch(req[r].what)
     THEN /\ blobs' = blobs \cup req[r].what
          /\ Answer(r, req[r].what)
          /\ UNCHANGED refused
     ELSE /\ refused' = refused \cup req[r].what
          /\ UNCHANGED <<blobs, answered>>
  /\ Done(r)
  /\ UNCHANGED <<nonces, parts, records, expired, completed, spent, faults>>
-----------------------------------------------------------------------------
(* handleOssUploadPart after the verification. *)

(* A temporary file renamed into place. *)
SaveChunk(r) ==
  /\ At(r, "save")
  /\ parts' = parts \cup req[r].what
  /\ Goto(r, "record")
  /\ UNCHANGED <<nonces, records, blobs, expired, tablet, spent, faults>>

(* Faulty variant: INSERT without OR REPLACE. *)
SaveChunkRecord_Insert(r) ==
  /\ At(r, "record")
  /\ IF req[r].what \subseteq records THEN Done(r) ELSE Goto(r, "count")
  /\ records' = records \cup req[r].what
  /\ UNCHANGED <<nonces, parts, blobs, expired, tablet, spent, faults>>

(* INSERT OR REPLACE: a part that is sent again is recorded once. *)
SaveChunkRecord(r) ==
  /\ At(r, "record")
  /\ records' = records \cup req[r].what
  /\ Goto(r, "count")
  /\ UNCHANGED <<nonces, parts, blobs, expired, tablet, spent, faults>>

(* Faulty variant: the parts are counted without the one at hand. *)
CountChunks_Others(r) ==
  /\ At(r, "count")
  /\ Answer(r, req[r].what)
  /\ completed' = (completed \/ (req[r].heard /\ Cardinality(records \ req[r].what) >= Cardinality(Parts)))
  /\ Done(r)
  /\ UNCHANGED <<stored, expired, refused, spent, faults>>

(* Whoever counts all the parts is told that the upload is complete. *)
CountChunks(r) ==
  /\ At(r, "count")
  /\ Answer(r, req[r].what)
  /\ completed' = (completed \/ (req[r].heard /\ Cardinality(records) >= Cardinality(Parts)))
  /\ Done(r)
  /\ UNCHANGED <<stored, expired, refused, spent, faults>>
-----------------------------------------------------------------------------
(* Faults. *)

Fault == faults < MaxFaults /\ faults' = faults + 1

(* The tablet gives up on a connection; the handler goes on unheard. *)
Lose(r) == /\ req[r].heard
           /\ Fault
           /\ req' = [req EXCEPT ![r].heard = FALSE]
           /\ UNCHANGED <<stored, expired, tablet, spent>>

(* The same request once more, on another connection. *)
Repeat(r, q) == /\ req[r].heard /\ Free(q)
                /\ Fault
                /\ req' = [req EXCEPT ![r].heard = FALSE, ![q] = [req[r] EXCEPT !.pc = "verify"]]
                /\ UNCHANGED <<stored, expired, tablet, spent>>

(* The context of a client that has gone is cancelled: the next statement  *)
(* fails, or the body breaks off.                                          *)
Cancel(r) == /\ ~At(r, "idle") /\ ~req[r].heard
             /\ Done(r)
             /\ UNCHANGED <<stored, expired, tablet, spent, faults>>

Expire(u) == /\ u \in nonces \ expired
             /\ Fault
             /\ expired' = expired \cup {u}
             /\ UNCHANGED <<stored, req, tablet, spent>>

Restart == /\ Fault
           /\ req' = [r \in Requests |-> NoRequest]
           /\ UNCHANGED <<stored, expired, tablet, spent>>
-----------------------------------------------------------------------------
Handle(r) == VerifySignedURL(r) \/ Body(r) \/ SaveChunk(r) \/ SaveChunkRecord(r) \/ CountChunks(r)

Ask(t) == \E r \in Requests : GenerateSignedURL(r, t)

Init == /\ nonces = {} /\ expired = {}
        /\ parts = {} /\ records = {} /\ blobs = {}
        /\ req = [r \in Requests |-> NoRequest]
        /\ answered = {} /\ refused = {} /\ completed = FALSE
        /\ spent = {}
        /\ faults = 0

Next == \/ \E t \in Transfers : Ask(t)
        \/ \E r \in Requests : Handle(r) \/ Lose(r) \/ Cancel(r)
        \/ \E r, q \in Requests : Repeat(r, q)
        \/ \E u \in Urls : Expire(u)
        \/ Restart

Spec == Init /\ [][Next]_vars

(* The server's handlers run, and the tablet asks again for what it has    *)
(* not heard of.                                                           *)
Fairness == /\ \A r \in Requests : WF_vars(Handle(r))
            /\ \A t \in Transfers : WF_vars(Ask(t))

LiveSpec == Spec /\ Fairness
-----------------------------------------------------------------------------
TypeOK == /\ nonces \in SUBSET Urls
          /\ expired \in SUBSET Urls
          /\ parts \in SUBSET Parts
          /\ records \in SUBSET Parts
          /\ blobs \in SUBSET Files
          /\ req \in [Requests -> Request]
          /\ answered \in SUBSET Transfers
          /\ refused \in SUBSET Transfers
          /\ completed \in BOOLEAN
          /\ spent \in SUBSET Urls
          /\ faults \in 0 .. MaxFaults

(* "JWT token for a signed URL with single-use nonce": a URL that was      *)
(* accepted is never accepted again, though its request be repeated while  *)
(* the first is being handled, its answer lost or the server restarted.    *)
SingleUse ==
  [][\A r \in Requests : At(r, "verify") /\ req'[r].pc \in {"path", "save"} => req[r].url \notin spent]_vars

(* "completed" is answered only when every part is in the directory, and   *)
(* when all parts have been answered somebody has been told so, whichever  *)
(* of them came last, in whatever pieces, over however many connections.   *)
CompletedWhenAll == /\ completed => parts = Parts
                    /\ Parts \subseteq answered => completed

(* A tablet that asks again after lost answers, refused URLs, repeated     *)
(* parts and restarts gets all its parts and files through.                *)
TransfersEnd == \A t \in Parts \cup Files : <>(t \in answered)

(* handlers_digests.go:573, "Generate signed upload URLs for summary file  *)
(* upload": with such a URL the file can be uploaded.                      *)
DigestFilesPass == \A t \in DigestFiles : <>(t \in answered)
=============================================================================
