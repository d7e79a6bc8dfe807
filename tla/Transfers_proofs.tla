-------------------------- MODULE Transfers_proofs --------------------------
(***************************************************************************)
(* Theorems of Transfers: a signed URL is accepted once, and "completed"   *)
(* is answered when and only when all the parts are there, for any number  *)
(* of connections, parts, URLs and faults.                                 *)
(***************************************************************************)
EXTENDS Transfers, FiniteSetTheorems, TLAPS

-----------------------------------------------------------------------------
(* What a handler carries, by where it stands. *)

Bringing == {"save", "record", "count"}

Sound(q) ==
  /\ q \in Request
  /\ q.heard => q.pc # "idle"
  /\ q.pc # "idle" => q.url \in Urls /\ \E t \in Transfers : q.what = {t}
  /\ q.pc = "path" => q.what \cap Parts = {}
  /\ q.pc \in Bringing => q.what \subseteq Parts
  /\ q.pc \in {"record", "count"} => q.what \subseteq parts
  /\ q.pc = "count" => q.what \subseteq records

AllSound == \A r \in Requests : Sound(req[r])

(* The rows of chunk_uploads are about parts that are there, and cover     *)
(* every part a tablet has an answer for.                                  *)
Recorded == records \subseteq parts /\ answered \cap Parts \subseteq records

(* A nonce is consumed with its acceptance. *)
SpentGone == nonces \cap spent = {}

TransferInv == TypeOK /\ AllSound /\ Recorded /\ SpentGone /\ CompletedWhenAll

LEMMA IdleSound == Sound(NoRequest)
  BY BoundsAssumption DEF Sound, NoRequest, Request, Bringing

LEMMA InitInv == Init => TransferInv
<1> SUFFICES ASSUME Init PROVE TransferInv
  OBVIOUS
<1>1. AllSound
  BY IdleSound DEF Init, AllSound
<1>2. NoRequest \in Request
  BY IdleSound DEF Sound
<1>3. TypeOK
  <2>1. completed \in BOOLEAN
    BY DEF Init
  <2>2. req \in [Requests -> Request]
    BY <1>2 DEF Init
  <2> QED
    BY <2>1, <2>2, BoundsAssumption DEF Init, TypeOK
<1> QED
  BY <1>1, <1>3, PartsAssumption DEF Init, TransferInv, Recorded, SpentGone, CompletedWhenAll

LEMMA Moved ==
  ASSUME NEW q \in Request
  PROVE  /\ \A step \in {"verify", "path", "save", "record", "count"} :
              /\ [q EXCEPT !.pc = step] \in Request
              /\ [q EXCEPT !.pc = step].pc = step
              /\ [q EXCEPT !.pc = step].what = q.what
              /\ [q EXCEPT !.pc = step].url = q.url
         /\ [q EXCEPT !.heard = FALSE] \in Request
         /\ ~[q EXCEPT !.heard = FALSE].heard
         /\ [q EXCEPT !.heard = FALSE].pc = q.pc
         /\ [q EXCEPT !.heard = FALSE].what = q.what
         /\ [q EXCEPT !.heard = FALSE].url = q.url
  BY DEF Request

(* Other requests stay sound while parts and records only grow. *)
LEMMA OthersSound ==
  ASSUME AllSound, req \in [Requests -> Request], parts \subseteq parts', records \subseteq records',
         NEW r \in Requests, \A s \in Requests \ {r} : req'[s] = req[s], Sound(req[r])'
  PROVE  AllSound'
<1> SUFFICES ASSUME NEW s \in Requests \ {r} PROVE Sound(req[s])'
  BY DEF AllSound
<1>1. req'[s] = req[s] /\ Sound(req[s])
  BY DEF AllSound
<1> QED
  BY <1>1 DEF Sound

(* All the parts are counted exactly when all are recorded. *)
LEMMA CountIsAll ==
  ASSUME records \subseteq Parts
  PROVE  Cardinality(records) >= Cardinality(Parts) <=> records = Parts
<1>1. /\ Cardinality(records) <= Cardinality(Parts)
      /\ Cardinality(records) = Cardinality(Parts) => records = Parts
      /\ Cardinality(Parts) \in Nat /\ Cardinality(records) \in Nat
  BY PartsAssumption, FS_Subset, FS_CardinalityType
<1> QED
  BY <1>1

-----------------------------------------------------------------------------
(* Asking for a URL, and its acceptance. *)

LEMMA AskInv ==
  ASSUME TransferInv, NEW r \in Requests, NEW t \in Transfers, GenerateSignedURL(r, t)
  PROVE  TransferInv'
<1> DEFINE q == [pc |-> "verify", what |-> {t}, url |-> Fresh, heard |-> TRUE]
<1>1. TypeOK /\ AllSound /\ Recorded /\ SpentGone /\ CompletedWhenAll
  BY DEF TransferInv
<1>2. Fresh \in Urls
  BY DEF GenerateSignedURL, Fresh, Unused
<1>3. q \in Request /\ q.pc = "verify" /\ q.url \in Urls /\ q.what = {t}
  BY <1>2, BoundsAssumption DEF Request, Urls
<1>4. req' = [req EXCEPT ![r] = q]
  BY DEF GenerateSignedURL
<1> HIDE DEF q
<1>5. UNCHANGED <<parts, records, blobs, expired, tablet, faults>>
  BY DEF GenerateSignedURL
<1>6. nonces' = nonces \cup {Fresh} /\ spent' = spent \ {Fresh}
  BY DEF GenerateSignedURL
<1>7. Sound(req[r])'
  BY <1>1, <1>3, <1>4 DEF Sound, TypeOK, Bringing
<1>8. AllSound'
  BY <1>1, <1>4, <1>5, <1>7, OthersSound DEF TypeOK
<1>9. TypeOK'
  BY <1>1, <1>2, <1>3, <1>4, <1>5, <1>6 DEF TypeOK, tablet
<1> QED
  BY <1>1, <1>5, <1>6, <1>8, <1>9 DEF TransferInv, Recorded, SpentGone, CompletedWhenAll, tablet

(* A request that ends, or goes on in the same shape, disturbs nothing. *)
LEMMA QuietInv ==
  ASSUME TransferInv, TypeOK', UNCHANGED <<nonces, parts, records, answered, completed, spent>>,
         NEW r \in Requests, \A s \in Requests \ {r} : req'[s] = req[s], Sound(req[r])'
  PROVE  TransferInv'
<1>1. TypeOK /\ AllSound /\ Recorded /\ SpentGone /\ CompletedWhenAll
  BY DEF TransferInv
<1>2. AllSound'
  BY <1>1, OthersSound DEF TypeOK
<1> QED
  BY <1>1, <1>2 DEF TransferInv, Recorded, SpentGone, CompletedWhenAll

LEMMA EndSound ==
  ASSUME TransferInv, NEW r \in Requests, Done(r)
  PROVE  /\ Sound(req[r])' /\ req' \in [Requests -> Request]
         /\ \A s \in Requests \ {r} : req'[s] = req[s]
<1>1. req \in [Requests -> Request] /\ Sound(NoRequest)' /\ NoRequest \in Request
  BY IdleSound DEF TransferInv, TypeOK, Sound, NoRequest
<1> QED
  BY <1>1 DEF Done

LEMMA VerifyInv ==
  ASSUME TransferInv, NEW r \in Requests, VerifySignedURL(r)
  PROVE  TransferInv' /\ (req'[r].pc \in {"path", "save"} => req[r].url \notin spent)
<1>1. TypeOK /\ AllSound /\ Recorded /\ SpentGone /\ CompletedWhenAll
  BY DEF TransferInv
<1>2. req[r] \in Request /\ Sound(req[r]) /\ req[r].pc = "verify"
  BY <1>1 DEF TypeOK, AllSound, VerifySignedURL, At
<1>3. UNCHANGED <<parts, records, blobs, expired, tablet, faults>>
  BY DEF VerifySignedURL
<1>4. CASE req[r].url \in nonces \ expired
  <2> DEFINE step == IF req[r].what \subseteq Parts THEN "save" ELSE "path"
  <2>1. /\ nonces' = nonces \ {req[r].url} /\ spent' = spent \cup {req[r].url}
        /\ req' = [req EXCEPT ![r].pc = step]
    BY <1>4 DEF VerifySignedURL, Goto
  <2>2. step \in {"save", "path"} /\ (step = "save" <=> req[r].what \subseteq Parts)
    OBVIOUS
  <2> HIDE DEF step
  <2>3. /\ req'[r] \in Request /\ req'[r].pc = step
        /\ req'[r].what = req[r].what /\ req'[r].url = req[r].url
        /\ \A s \in Requests \ {r} : req'[s] = req[s]
    BY <1>1, <1>2, <2>1, <2>2 DEF TypeOK, Request
  <2>4. req[r].url \in Urls /\ \E t \in Transfers : req[r].what = {t}
    BY <1>2 DEF Sound
  <2>5. step = "path" => req[r].what \cap Parts = {}
    BY <2>2, <2>4
  <2>6. Sound(req[r])'
    BY <2>2, <2>3, <2>4, <2>5 DEF Sound, Bringing
  <2>7. AllSound'
    BY <1>1, <1>3, <2>3, <2>6, OthersSound DEF TypeOK
  <2>8. TypeOK'
    <3>1. req' \in [Requests -> Request]
      BY <1>1, <2>1, <2>3 DEF TypeOK
    <3> QED
      BY <1>1, <1>3, <2>1, <2>4, <3>1 DEF TypeOK, tablet
  <2> QED
    BY <1>1, <1>3, <1>4, <2>1, <2>7, <2>8 DEF TransferInv, Recorded, SpentGone, CompletedWhenAll, tablet
<1>5. CASE ~(req[r].url \in nonces \ expired)
  <2>1. Done(r) /\ UNCHANGED <<nonces, spent>>
    BY <1>5 DEF VerifySignedURL
  <2>2. TypeOK'
    BY <1>1, <1>3, <2>1, EndSound DEF TypeOK, tablet
  <2>3. req'[r].pc = "idle"
    BY <1>1, <2>1 DEF TypeOK, Done, NoRequest
  <2> QED
    BY <1>3, <2>1, <2>2, <2>3, EndSound, QuietInv DEF tablet
<1> QED
  BY <1>4, <1>5

-----------------------------------------------------------------------------
(* The bodies: files whole, and parts saved, recorded and counted. *)

(* A handler that goes on from one step to another. *)
LEMMA GotoType ==
  ASSUME TypeOK, NEW r \in Requests, NEW step \in {"verify", "path", "save", "record", "count"}, Goto(r, step)
  PROVE  /\ req' \in [Requests -> Request]
         /\ req'[r].pc = step /\ req'[r].what = req[r].what /\ req'[r].url = req[r].url
         /\ \A s \in Requests \ {r} : req'[s] = req[s]
<1> DEFINE q == [req[r] EXCEPT !.pc = step]
<1>1. req \in [Requests -> Request] /\ req[r] \in Request
  BY DEF TypeOK
<1>2. /\ q \in Request
      /\ q.pc = step /\ q.what = req[r].what /\ q.url = req[r].url
  BY <1>1 DEF Request
<1>3. req' = [req EXCEPT ![r] = q]
  BY DEF Goto
<1> HIDE DEF q
<1> QED
  BY <1>1, <1>2, <1>3

LEMMA BodyInv ==
  ASSUME TransferInv, NEW r \in Requests, Body(r)
  PROVE  TransferInv'
<1>1. TypeOK /\ AllSound /\ Recorded /\ SpentGone /\ CompletedWhenAll
  BY DEF TransferInv
<1>2. Sound(req[r]) /\ req[r].pc = "path" /\ Done(r)
  BY <1>1 DEF AllSound, Body, At
<1>3. UNCHANGED <<nonces, parts, records, expired, completed, spent, faults>>
  BY DEF Body
<1>4. req[r].what \cap Parts = {} /\ req[r].what \subseteq Transfers
  BY <1>2 DEF Sound, Request
<1>5. /\ answered \subseteq answered' /\ answered' \subseteq answered \cup req[r].what
      /\ refused' \subseteq refused \cup req[r].what
      /\ blobs' \subseteq blobs \cup (req[r].what \ (Parts \cup DigestFiles))
  BY <1>4 DEF Body, Answer, PathsMatch
<1>6. TypeOK'
  BY <1>1, <1>2, <1>3, <1>4, <1>5, EndSound DEF TypeOK, Transfers
<1>7. AllSound'
  BY <1>1, <1>2, <1>3, EndSound, OthersSound DEF TypeOK
<1>8. Recorded' /\ CompletedWhenAll'
  BY <1>1, <1>3, <1>4, <1>5 DEF Recorded, CompletedWhenAll
<1> QED
  BY <1>1, <1>3, <1>6, <1>7, <1>8 DEF TransferInv, SpentGone

LEMMA SaveInv ==
  ASSUME TransferInv, NEW r \in Requests, SaveChunk(r) \/ SaveChunkRecord(r)
  PROVE  TransferInv'
<1>1. TypeOK /\ AllSound /\ Recorded /\ SpentGone /\ CompletedWhenAll
  BY DEF TransferInv
<1>2. Sound(req[r]) /\ req[r].pc \in Bringing /\ req[r].what \subseteq Parts
  BY <1>1 DEF AllSound, SaveChunk, SaveChunkRecord, At, Sound, Bringing
<1>3. CASE SaveChunk(r)
  <2>1. Goto(r, "record") /\ parts' = parts \cup req[r].what
    BY <1>3 DEF SaveChunk
  <2>2. UNCHANGED <<nonces, records, blobs, expired, tablet, spent, faults>>
    BY <1>3 DEF SaveChunk
  <2>3. TypeOK'
    BY <1>1, <1>2, <2>1, <2>2, GotoType DEF TypeOK, tablet
  <2>4. Sound(req[r])'
    BY <1>1, <1>2, <2>1, <2>3, GotoType DEF Sound, Bringing, TypeOK
  <2>5. AllSound'
    BY <1>1, <2>1, <2>2, <2>4, GotoType, OthersSound DEF TypeOK
  <2>6. Recorded' /\ CompletedWhenAll'
    BY <1>1, <1>2, <2>1, <2>2 DEF Recorded, CompletedWhenAll, TypeOK, tablet
  <2> QED
    BY <1>1, <2>2, <2>3, <2>5, <2>6 DEF TransferInv, SpentGone
<1>4. CASE SaveChunkRecord(r)
  <2>1. Goto(r, "count") /\ records' = records \cup req[r].what /\ req[r].what \subseteq parts
    BY <1>2, <1>4 DEF SaveChunkRecord, Sound, At
  <2>2. UNCHANGED <<nonces, parts, blobs, expired, tablet, spent, faults>>
    BY <1>4 DEF SaveChunkRecord
  <2>3. TypeOK'
    BY <1>1, <1>2, <2>1, <2>2, GotoType DEF TypeOK, tablet
  <2>4. Sound(req[r])'
    BY <1>1, <1>2, <2>1, <2>2, <2>3, GotoType DEF Sound, Bringing, TypeOK
  <2>5. AllSound'
    BY <1>1, <2>1, <2>2, <2>4, GotoType, OthersSound DEF TypeOK
  <2>6. Recorded' /\ CompletedWhenAll'
    BY <1>1, <2>1, <2>2 DEF Recorded, CompletedWhenAll, tablet
  <2> QED
    BY <1>1, <2>2, <2>3, <2>5, <2>6 DEF TransferInv, SpentGone
<1> QED
  BY <1>3, <1>4

(* The answer that makes the parts complete says so, and no other does.    *)
LEMMA CountInv ==
  ASSUME TransferInv, NEW r \in Requests, CountChunks(r)
  PROVE  TransferInv'
<1>1. TypeOK /\ AllSound /\ Recorded /\ SpentGone /\ CompletedWhenAll
  BY DEF TransferInv
<1>2. req[r].what \subseteq Parts /\ req[r].what \subseteq records /\ Done(r)
  BY <1>1 DEF AllSound, CountChunks, At, Sound, Bringing
<1>3. UNCHANGED <<stored, expired, refused, spent, faults>>
  BY DEF CountChunks
<1>4. answered' = IF req[r].heard THEN answered \cup req[r].what ELSE answered
  BY DEF CountChunks, Answer
<1>5. completed' = (completed \/ (req[r].heard /\ records = Parts))
  BY <1>1, CountIsAll DEF CountChunks, TypeOK
<1>6. completed' \in BOOLEAN
  BY <1>5
<1>7. TypeOK'
  BY <1>1, <1>2, <1>3, <1>4, <1>6, EndSound DEF TypeOK, Transfers, stored
<1>8. AllSound'
  BY <1>1, <1>2, <1>3, EndSound, OthersSound DEF TypeOK, stored
<1>9. Recorded'
  BY <1>1, <1>2, <1>3, <1>4 DEF Recorded, stored
<1>10. CompletedWhenAll'
  <2>1. completed' => parts' = Parts
    BY <1>1, <1>3, <1>5 DEF CompletedWhenAll, Recorded, TypeOK, stored
  <2>2. ASSUME Parts \subseteq answered' PROVE completed'
    <3>1. CASE Parts \subseteq answered
      BY <1>1, <1>5, <3>1 DEF CompletedWhenAll
    <3>2. CASE ~(Parts \subseteq answered)
      <4>1. req[r].heard /\ Parts \subseteq answered \cup req[r].what
        BY <1>4, <2>2, <3>2
      <4>2. records = Parts
        BY <1>1, <1>2, <4>1 DEF Recorded, TypeOK
      <4> QED
        BY <1>5, <4>1, <4>2
    <3> QED
      BY <3>1, <3>2
  <2> QED
    BY <2>1, <2>2 DEF CompletedWhenAll
<1> QED
  BY <1>1, <1>3, <1>7, <1>8, <1>9, <1>10 DEF TransferInv, SpentGone, stored

-----------------------------------------------------------------------------
(* Faults. *)

(* A handler nobody listens to any more goes on as it was. *)
LEMMA DeafSound ==
  ASSUME TransferInv, NEW r \in Requests
  PROVE  Sound([req[r] EXCEPT !.heard = FALSE])
<1> DEFINE q == [req[r] EXCEPT !.heard = FALSE]
<1>1. req[r] \in Request /\ Sound(req[r])
  BY DEF TransferInv, TypeOK, AllSound
<1>2. q \in Request /\ ~q.heard /\ q.pc = req[r].pc /\ q.what = req[r].what /\ q.url = req[r].url
  BY <1>1, Moved
<1> HIDE DEF q
<1>3. Sound(q)
  BY <1>1, <1>2 DEF Sound
<1> QED
  BY <1>3 DEF q

(* So is a request that is made once more. *)
LEMMA AgainSound ==
  ASSUME TransferInv, NEW r \in Requests, req[r].pc # "idle"
  PROVE  LET q == [req[r] EXCEPT !.pc = "verify"] IN Sound(q) /\ q.pc = "verify"
<1> DEFINE q == [req[r] EXCEPT !.pc = "verify"]
<1>1. req[r] \in Request /\ Sound(req[r])
  BY DEF TransferInv, TypeOK, AllSound
<1>2. q \in Request /\ q.pc = "verify" /\ q.what = req[r].what /\ q.url = req[r].url
  BY <1>1, Moved
<1> HIDE DEF q
<1>3. Sound(q) /\ q.pc = "verify"
  BY <1>1, <1>2 DEF Sound, Bringing
<1> QED
  BY <1>3 DEF q

(* Steps that touch requests, the URLs' expiry and the fault count only. *)
LEMMA FaultInv ==
  ASSUME TransferInv, req' \in [Requests -> Request], \A r \in Requests : Sound(req'[r]),
         expired' \in SUBSET Urls, faults' \in 0 .. MaxFaults, UNCHANGED <<stored, tablet, spent>>
  PROVE  TransferInv'
<1>1. TypeOK /\ Recorded /\ SpentGone /\ CompletedWhenAll
  BY DEF TransferInv
<1>2. AllSound'
  BY DEF AllSound, Sound, stored
<1>3. TypeOK'
  BY <1>1 DEF TypeOK, stored, tablet
<1> QED
  BY <1>1, <1>2, <1>3 DEF TransferInv, Recorded, SpentGone, CompletedWhenAll, stored, tablet

LEMMA Counted ==
  ASSUME TypeOK, Fault
  PROVE  faults' \in 0 .. MaxFaults
  BY BoundsAssumption DEF TypeOK, Fault

LEMMA LoseInv ==
  ASSUME TransferInv, NEW r \in Requests, Lose(r)
  PROVE  TransferInv'
<1> DEFINE q == [req[r] EXCEPT !.heard = FALSE]
<1>1. TypeOK /\ AllSound
  BY DEF TransferInv
<1>2. Sound(q) /\ q \in Request
  BY DeafSound DEF Sound
<1>3. req' = [req EXCEPT ![r] = q] /\ UNCHANGED <<stored, expired, tablet, spent>>
  BY DEF Lose
<1> HIDE DEF q
<1>4. req' \in [Requests -> Request] /\ \A s \in Requests : Sound(req'[s])
  BY <1>1, <1>2, <1>3 DEF TypeOK, AllSound
<1>5. faults' \in 0 .. MaxFaults
  BY <1>1, Counted DEF Lose
<1> QED
  BY <1>1, <1>3, <1>4, <1>5, FaultInv DEF TypeOK

LEMMA RepeatInv ==
  ASSUME TransferInv, NEW r \in Requests, NEW p \in Requests, Repeat(r, p)
  PROVE  TransferInv'
<1> DEFINE deaf == [req[r] EXCEPT !.heard = FALSE]
          again == [req[r] EXCEPT !.pc = "verify"]
<1>1. TypeOK /\ AllSound
  BY DEF TransferInv
<1>2. Sound(deaf) /\ deaf \in Request
  BY DeafSound DEF Sound
<1>3. req[r].pc # "idle"
  BY <1>1 DEF Repeat, AllSound, Sound
<1>4. Sound(again) /\ again \in Request
  BY <1>3, AgainSound DEF Sound
<1>5. req' = [req EXCEPT ![r] = deaf, ![p] = again] /\ UNCHANGED <<stored, expired, tablet, spent>>
  BY DEF Repeat
<1> HIDE DEF deaf, again
<1>6. req' \in [Requests -> Request] /\ \A s \in Requests : Sound(req'[s])
  BY <1>1, <1>2, <1>4, <1>5 DEF TypeOK, AllSound
<1>7. faults' \in 0 .. MaxFaults
  BY <1>1, Counted DEF Repeat
<1> QED
  BY <1>1, <1>5, <1>6, <1>7, FaultInv DEF TypeOK

LEMMA CancelInv ==
  ASSUME TransferInv, NEW r \in Requests, Cancel(r)
  PROVE  TransferInv'
<1>1. Done(r) /\ UNCHANGED <<stored, expired, tablet, spent, faults>>
  BY DEF Cancel
<1>2. TypeOK'
  BY <1>1, EndSound DEF TransferInv, TypeOK, stored, tablet
<1> QED
  BY <1>1, <1>2, EndSound, QuietInv DEF stored, tablet

LEMMA ExpireInv ==
  ASSUME TransferInv, NEW u \in Urls, Expire(u)
  PROVE  TransferInv'
<1>1. /\ expired' = expired \cup {u}
      /\ UNCHANGED <<stored, req, tablet, spent>>
  BY DEF Expire
<1>2. TypeOK /\ AllSound /\ faults' \in 0 .. MaxFaults
  BY Counted DEF TransferInv, Expire
<1> QED
  BY <1>1, <1>2, FaultInv DEF TypeOK, AllSound

LEMMA RestartInv ==
  ASSUME TransferInv, Restart
  PROVE  TransferInv'
<1>1. /\ req' = [r \in Requests |-> NoRequest]
      /\ UNCHANGED <<stored, expired, tablet, spent>>
  BY DEF Restart
<1>2. TypeOK /\ faults' \in 0 .. MaxFaults
  BY Counted DEF TransferInv, Restart
<1>3. Sound(NoRequest) /\ NoRequest \in Request
  BY IdleSound DEF Sound
<1> QED
  BY <1>1, <1>2, <1>3, FaultInv DEF TypeOK

-----------------------------------------------------------------------------
LEMMA HandleInv ==
  ASSUME TransferInv, NEW r \in Requests, Handle(r) \/ Lose(r) \/ Cancel(r)
  PROVE  TransferInv'
<1>1. CASE VerifySignedURL(r)
  BY <1>1, VerifyInv
<1>2. CASE Body(r)
  BY <1>2, BodyInv
<1>3. CASE SaveChunk(r) \/ SaveChunkRecord(r)
  BY <1>3, SaveInv
<1>4. CASE CountChunks(r)
  BY <1>4, CountInv
<1>5. CASE Lose(r)
  BY <1>5, LoseInv
<1>6. CASE Cancel(r)
  BY <1>6, CancelInv
<1> QED
  BY <1>1, <1>2, <1>3, <1>4, <1>5, <1>6 DEF Handle

LEMMA StepInv == TransferInv /\ [Next]_vars => TransferInv'
<1> SUFFICES ASSUME TransferInv, [Next]_vars PROVE TransferInv'
  OBVIOUS
<1>1. CASE UNCHANGED vars
  BY <1>1 DEF vars, stored, tablet, TransferInv, TypeOK, AllSound, Sound, Recorded, SpentGone, CompletedWhenAll
<1>2. CASE \E t \in Transfers : Ask(t)
  BY <1>2, AskInv DEF Ask
<1>3. CASE \E r \in Requests : Handle(r) \/ Lose(r) \/ Cancel(r)
  BY <1>3, HandleInv
<1>4. CASE \E r, p \in Requests : Repeat(r, p)
  BY <1>4, RepeatInv
<1>5. CASE \E u \in Urls : Expire(u)
  BY <1>5, ExpireInv
<1>6. CASE Restart
  BY <1>6, RestartInv
<1> QED
  BY <1>1, <1>2, <1>3, <1>4, <1>5, <1>6 DEF Next

LEMMA Invariance == Spec => []TransferInv
  BY InitInv, StepInv, PTL DEF Spec

(* The variables keep their types, for any number of connections, URLs and *)
(* faults: in particular parts are saved as parts and files as files.      *)
THEOREM TypeCorrect == Spec => []TypeOK
  BY Invariance, PTL DEF TransferInv

(* "completed" is said exactly when every part is in the directory,        *)
(* whichever handler counted last: the recorded parts are saved parts, and *)
(* every answered part is a recorded one.                                  *)
THEOREM UploadCompletes == Spec => []CompletedWhenAll
  BY Invariance, PTL DEF TransferInv

(* Only the verification takes a request from "verify" to its work. *)
LEMMA OnlyVerified ==
  ASSUME TransferInv, [Next]_vars, NEW r \in Requests,
         req[r].pc = "verify", req'[r].pc \in {"path", "save"}
  PROVE  VerifySignedURL(r)
<1>1. req \in [Requests -> Request]
  BY DEF TransferInv, TypeOK
<1>2. CASE UNCHANGED vars
  BY <1>2 DEF vars
<1>3. ASSUME NEW q \in Requests, NEW t \in Transfers, GenerateSignedURL(q, t) PROVE FALSE
  BY <1>1, <1>3 DEF GenerateSignedURL
<1>4. ASSUME NEW q \in Requests, Handle(q), q # r PROVE FALSE
  <2>1. Done(q) \/ \E step \in {"path", "save", "record", "count"} : Goto(q, step)
    BY <1>4 DEF Handle, VerifySignedURL, Body, SaveChunk, SaveChunkRecord, CountChunks
  <2> QED
    BY <1>1, <1>4, <2>1 DEF Done, Goto
<1>5. ASSUME Handle(r) PROVE VerifySignedURL(r)
  BY <1>5 DEF Handle, Body, SaveChunk, SaveChunkRecord, CountChunks, At
<1>6. ASSUME NEW q \in Requests, Lose(q) PROVE FALSE
  BY <1>1, <1>6, Moved DEF Lose
<1>7. ASSUME NEW q \in Requests, Cancel(q) PROVE FALSE
  BY <1>1, <1>7 DEF Cancel, Done, NoRequest
<1>8. ASSUME NEW q \in Requests, NEW p \in Requests, Repeat(q, p) PROVE FALSE
  <2> DEFINE deaf == [req[q] EXCEPT !.heard = FALSE]
             again == [req[q] EXCEPT !.pc = "verify"]
  <2>1. deaf.pc = req[q].pc /\ again.pc = "verify"
    BY <1>1, Moved
  <2>2. req' = [req EXCEPT ![q] = deaf, ![p] = again]
    BY <1>8 DEF Repeat
  <2> HIDE DEF deaf, again
  <2> QED
    BY <1>1, <2>1, <2>2
<1>9. ASSUME NEW u \in Urls, Expire(u) PROVE FALSE
  BY <1>9 DEF Expire
<1>10. ASSUME Restart PROVE FALSE
  BY <1>10 DEF Restart, NoRequest
<1> QED
  BY <1>2, <1>3, <1>4, <1>5, <1>6, <1>7, <1>8, <1>9, <1>10 DEF Next, Ask

(* A URL that was accepted once has no nonce any more, so no repetition,   *)
(* lost answer or restart gets it accepted again.                          *)
THEOREM NonceOnce == Spec => SingleUse
<1>1. TransferInv /\ [Next]_vars
        => [\A r \in Requests : At(r, "verify") /\ req'[r].pc \in {"path", "save"}
              => req[r].url \notin spent]_vars
  BY OnlyVerified, VerifyInv DEF At
<1> QED
  BY <1>1, Invariance, PTL DEF Spec, SingleUse
=============================================================================
