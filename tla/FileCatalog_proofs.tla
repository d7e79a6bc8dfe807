------------------------- MODULE FileCatalog_proofs -------------------------
(***************************************************************************)
(* The file catalog, for any requests, names, paths and bounds.            *)
(*                                                                         *)
(* Whatever overlaps or breaks off (parts 1 and 2): no entry is lost or    *)
(* kept twice, an entry's directory is a folder and a file's blob has been *)
(* stored.  As long as requests are served one at a time (parts 3 and 4):  *)
(* names are unique and the catalog is a tree.                             *)
(*                                                                         *)
(* Each part has an invariant: what is to be shown of the tables, and what *)
(* a request must know at each point of its way for its next step not to   *)
(* break it.  One lemma per step shows that the step keeps both.           *)
(***************************************************************************)
EXTENDS FileCatalog, FiniteSetTheorems, TLAPS

-----------------------------------------------------------------------------
(* Requests.  What a request has read by the time it needs it: a path that *)
(* is not used up, a name, a row.                                          *)
Placing == {"put", "resolve", "mkdir", "ancestors", "check", "similar",
            "update", "upload", "folder", "move", "copy"}
Placed == {"upload", "folder", "move", "copy"}

Prepared(q) ==
  /\ q \in Request
  /\ q.at \in {"resolve", "mkdir"} => q.rest # <<>>
  /\ q.at \in Placing => /\ q.op \in Placed /\ q.name \in Name
                         /\ q.op \in {"move", "copy"} => q.row \in Entry
  /\ q.at = "put" => q.md5 # 0
  /\ q.at = "copy" => q.op = "copy"
  /\ q.at = "source" => /\ q.id \in Ids /\ q.op \in {"move", "copy", "delete"}
                        /\ q.op # "delete" => q.name \in Name
  /\ q.at = "copied" => q.row \in Entry
  /\ q.at = "tx" => q.row \in Entry /\ q.found \in Ids

AllPrepared == \A r \in Requests : Prepared(req[r])

(* What is about to be deleted has an id that was given out. *)
FoundKnown == \A r \in Requests : At(r, "tx") => req[r].found < nextId

LEMMA NoKeyType == NoKey \in Key
  BY BoundsAssumption DEF NoKey, Key, Dir

LEMMA PlainType == ASSUME NEW b \in Bases PROVE Plain(b) \in Name
  BY BoundsAssumption DEF Plain, Name

LEMMA IdlePrepared == Prepared(Idle)
  BY NoKeyType, BoundsAssumption, WalkAssumption
     DEF Idle, Prepared, Request, Placing, Dir

LEMMA IdleType == Idle \in Request
  BY IdlePrepared DEF Prepared

LEMMA GoesPrepared ==
  ASSUME NEW q \in Request, NEW at \in {"ancestors", "check", "mkdir"},
         Prepared(q), q.at \in Placing, at = "mkdir" => q.rest # <<>>
  PROVE  Prepared([q EXCEPT !.at = at])
  BY DEF Prepared, Request, Placing

(* Resolving a path needs a path, a name and, to move or copy, a row. *)
LEMMA ResolvingPrepared ==
  ASSUME NEW q \in Request, q.op \in Placed, q.name \in Name,
         q.op \in {"move", "copy"} => q.row \in Entry
  PROVE  Prepared(Resolving(q))
<1>1. CASE q.rest # <<>>
  BY <1>1 DEF Prepared, Resolving, Request, Placing, Placed
<1>2. CASE q.rest = <<>> /\ q.op = "move" /\ q.row.folder
  BY <1>2 DEF Prepared, Resolving, AfterResolve, Request, Placing, Placed
<1>3. CASE q.rest = <<>> /\ ~(q.op = "move" /\ q.row.folder)
  BY <1>3 DEF Prepared, Resolving, AfterResolve, Request, Placing, Placed
<1>4. QED
  BY <1>1, <1>2, <1>3

-----------------------------------------------------------------------------
(* Steps.  What the requests keep when one of them becomes q. *)
RequestsInv == req \in [Requests -> Request] /\ AllPrepared /\ FoundKnown
TablesInv == /\ files \in [Ids -> Entry \cup {None}]
             /\ recycled \in [Ids -> Entry \cup {None}]
             /\ nextId \in 1 .. MaxId + 1
             /\ OneHome
RestInv == /\ DOMAIN blob \subseteq Key /\ \A k \in DOMAIN blob : blob[k] \in 1 .. MaxRequests
           /\ arrived \in 0 .. MaxRequests
           /\ {serving, calm} \subseteq BOOLEAN

CatalogInv == RequestsInv /\ TablesInv /\ RestInv

LEMMA InvType == CatalogInv => TypeOK
  BY DEF CatalogInv, RequestsInv, TablesInv, RestInv, TypeOK, AllPrepared, Prepared

LEMMA RequestStep ==
  ASSUME RequestsInv, nextId \in Nat, NEW r \in Requests, NEW q, Prepared(q),
         req' = [req EXCEPT ![r] = q],
         nextId' \in Nat, nextId' >= nextId, q.at = "tx" => q.found < nextId'
  PROVE  RequestsInv'
<1>1. q \in Request
  BY DEF Prepared
<1>2. req' \in [Requests -> Request] /\ AllPrepared'
  BY <1>1 DEF RequestsInv, AllPrepared
<1>3. FoundKnown'
  <2> SUFFICES ASSUME NEW s \in Requests, req'[s].at = "tx" PROVE req'[s].found < nextId'
    BY DEF FoundKnown, At
  <2>1. CASE s = r
    BY <2>1 DEF RequestsInv
  <2>2. CASE s # r
    <3>1. req[s].found < nextId /\ req[s].found \in Ids
      BY <2>2 DEF RequestsInv, FoundKnown, At, AllPrepared, Prepared
    <3>2. QED
      BY <2>2, <3>1, BoundsAssumption DEF RequestsInv, Ids
  <2>3. QED
    BY <2>1, <2>2
<1>4. QED
  BY <1>2, <1>3 DEF RequestsInv

(* A step that only reads. *)
LEMMA ReadsStep ==
  ASSUME CatalogInv, NEW r \in Requests, NEW q, Prepared(q), Becomes(r, q), Reads,
         q.at = "tx" => q.found < nextId
  PROVE  CatalogInv'
<1>1. RequestsInv /\ TablesInv /\ RestInv /\ nextId \in Nat
  BY BoundsAssumption DEF CatalogInv, TablesInv
<1>2. RequestsInv'
  <2>1. req' = [req EXCEPT ![r] = q] /\ nextId' = nextId
    BY DEF Becomes, Reads, tables
  <2>2. nextId' \in Nat /\ nextId' >= nextId /\ (q.at = "tx" => q.found < nextId')
    BY <1>1, <2>1
  <2>3. QED
    BY <1>1, <2>1, <2>2, RequestStep
<1>3. TablesInv' /\ RestInv'
  BY <1>1 DEF Becomes, Reads, tables, TablesInv, RestInv, OneHome
<1>4. QED
  BY <1>2, <1>3 DEF CatalogInv

(* A new row under the next id. *)
LEMMA InsertTables ==
  ASSUME TablesInv, NEW e \in Entry, Insert(e)
  PROVE  TablesInv' /\ nextId \in Ids /\ nextId' = nextId + 1
  BY NoneAssumption, BoundsAssumption DEF TablesInv, Insert, OneHome, Ids

LEMMA InsertStep ==
  ASSUME CatalogInv, NEW r \in Requests, NEW q, Prepared(q), Becomes(r, q),
         NEW e \in Entry, Insert(e), RestInv', q.at # "tx"
  PROVE  CatalogInv'
<1>1. RequestsInv /\ TablesInv /\ nextId \in Nat
  BY BoundsAssumption DEF CatalogInv, TablesInv
<1>2. TablesInv' /\ nextId' = nextId + 1
  BY <1>1, InsertTables
<1>3. RequestsInv'
  <2>1. req' = [req EXCEPT ![r] = q]
    BY DEF Becomes
  <2>2. nextId' \in Nat /\ nextId' >= nextId
    BY <1>1, <1>2
  <2>3. QED
    BY <1>1, <2>1, <2>2, RequestStep
<1>4. QED
  BY <1>2, <1>3 DEF CatalogInv

LEMMA FolderType ==
  ASSUME NEW d \in Dir, NEW n \in Name
  PROVE  Folder(d, n) \in Entry
  BY NoKeyType, BoundsAssumption DEF Folder, Entry

(* The tables keep their types and lose no entry when a row only changes. *)
LEMMA ChangeTables ==
  ASSUME TablesInv, NEW i \in Live, NEW e \in Entry,
         files' = [files EXCEPT ![i] = e], recycled' = recycled, nextId' = nextId
  PROVE  TablesInv'
  BY NoneAssumption DEF TablesInv, OneHome, Live

(* A request comes in. *)
LEMMA BeginStep ==
  ASSUME CatalogInv, NEW r \in Requests, NEW q, Begin(r, q),
         arrived < MaxRequests => Prepared(q), q.at # "tx"
  PROVE  CatalogInv'
<1>1. RequestsInv /\ TablesInv /\ RestInv /\ nextId \in Nat
  BY BoundsAssumption DEF CatalogInv, TablesInv
<1>2. RequestsInv'
  <2>1. req' = [req EXCEPT ![r] = q] /\ nextId' = nextId /\ Prepared(q)
    BY DEF Begin, tables
  <2>2. nextId' \in Nat /\ nextId' >= nextId
    BY <1>1, <2>1
  <2>3. QED
    BY <1>1, <2>1, <2>2, RequestStep
<1>3. TablesInv' /\ RestInv'
  BY <1>1, BoundsAssumption DEF Begin, tables, TablesInv, RestInv, OneHome
<1>4. QED
  BY <1>2, <1>3 DEF CatalogInv

-----------------------------------------------------------------------------
(* Every action keeps the invariant.  First the arrivals,                  *)
LEMMA UploadInv ==
  ASSUME CatalogInv, NEW r \in Requests, NEW t \in Targets, Upload(r, t[1], t[2])
  PROVE  CatalogInv'
<1> DEFINE q == [Idle EXCEPT !.op = "upload", !.at = "put", !.rest = t[1], !.name = Plain(t[2]),
                             !.key = PathKey(t[1], t[2]), !.md5 = arrived + 1]
<1>1. t[1] \in Seq(Bases) /\ t[2] \in Bases /\ Plain(t[2]) \in Name
  BY TargetsAssumption, PlainType
<1>2. PathKey(t[1], t[2]) \in Key
  BY <1>1, BoundsAssumption DEF PathKey, Key, Dir
<1>3. arrived < MaxRequests => Prepared(q)
  <2>1. arrived < MaxRequests => arrived + 1 \in 0 .. MaxRequests /\ arrived + 1 # 0
    BY BoundsAssumption DEF CatalogInv, RestInv
  <2>2. arrived < MaxRequests => q \in Request
    BY <1>1, <1>2, <2>1, IdleType DEF Request
  <2>3. q.op = "upload" /\ q.at = "put" /\ q.name = Plain(t[2]) /\ q.md5 = arrived + 1
    BY DEF Idle
  <2> HIDE DEF q
  <2>4. QED
    BY <1>1, <2>1, <2>2, <2>3 DEF Prepared, Placing, Placed
<1>4. Begin(r, q) /\ q.at # "tx"
  BY DEF Upload, Idle
<1> HIDE DEF q
<1>5. QED
  BY <1>3, <1>4, BeginStep

LEMMA CreateFolderInv ==
  ASSUME CatalogInv, NEW r \in Requests, NEW t \in Targets, CreateFolder(r, t[1], t[2])
  PROVE  CatalogInv'
<1> DEFINE q == [Idle EXCEPT !.op = "folder", !.rest = t[1], !.name = Plain(t[2])]
<1>1. t[1] \in Seq(Bases) /\ t[2] \in Bases /\ Plain(t[2]) \in Name
  BY TargetsAssumption, PlainType
<1>2. q \in Request /\ q.op = "folder" /\ q.name \in Name
  <2>1. q \in Request
    BY <1>1, IdleType DEF Request
  <2>2. q.op = "folder" /\ q.name = Plain(t[2])
    BY DEF Idle
  <2>3. QED
    BY <1>1, <2>1, <2>2
<1>3. Prepared(Resolving(q)) /\ Resolving(q).at # "tx"
  BY <1>2, ResolvingPrepared DEF Placed, Resolving, AfterResolve, Request
<1>4. Begin(r, Resolving(q))
  BY DEF CreateFolder
<1> HIDE DEF q
<1>5. QED
  BY <1>3, <1>4, BeginStep

LEMMA MoveOrCopyInv ==
  ASSUME CatalogInv, NEW r \in Requests, NEW t \in Targets, NEW op \in {"move", "copy"},
         NEW i \in 1 .. nextId - 1, MoveOrCopy(r, op, i, t[1], t[2])
  PROVE  CatalogInv'
<1> DEFINE q == [Idle EXCEPT !.op = op, !.at = "source", !.id = i, !.rest = t[1],
                             !.name = Plain(t[2])]
<1>1. t[1] \in Seq(Bases) /\ Plain(t[2]) \in Name /\ i \in Ids /\ i \in Dir
  BY TargetsAssumption, PlainType, BoundsAssumption DEF CatalogInv, TablesInv, Ids, Dir
<1>2. Prepared(q)
  <2>1. q \in Request
    BY <1>1, IdleType DEF Request
  <2>2. q.op = op /\ q.at = "source" /\ q.id = i /\ q.name = Plain(t[2])
    BY DEF Idle
  <2> HIDE DEF q
  <2>3. QED
    BY <1>1, <2>1, <2>2 DEF Prepared, Placing
<1>3. Begin(r, q) /\ q.at # "tx"
  BY DEF MoveOrCopy, Idle
<1> HIDE DEF q
<1>4. QED
  BY <1>2, <1>3, BeginStep

LEMMA DeleteInv ==
  ASSUME CatalogInv, NEW r \in Requests, NEW i \in 1 .. nextId - 1, Delete(r, i)
  PROVE  CatalogInv'
<1> DEFINE q == [Idle EXCEPT !.op = "delete", !.at = "source", !.id = i]
<1>1. i \in Ids /\ i \in Dir
  BY BoundsAssumption DEF CatalogInv, TablesInv, Ids, Dir
<1>2. Prepared(q)
  <2>1. q \in Request
    BY <1>1, IdleType DEF Request
  <2>2. q.op = "delete" /\ q.at = "source" /\ q.id = i
    BY DEF Idle
  <2> HIDE DEF q
  <2>3. QED
    BY <1>1, <2>1, <2>2 DEF Prepared, Placing
<1>3. Begin(r, q) /\ q.at # "tx"
  BY DEF Delete, Idle
<1> HIDE DEF q
<1>4. QED
  BY <1>2, <1>3, BeginStep

LEMMA ArrivesInv ==
  ASSUME CatalogInv, NEW r \in Requests, Arrives(r)
  PROVE  CatalogInv'
  BY UploadInv, CreateFolderInv, MoveOrCopyInv, DeleteInv DEF Arrives

-----------------------------------------------------------------------------
(* then the steps that read, *)
LEMMA EndsStep ==
  ASSUME CatalogInv, NEW r \in Requests, Ends(r), Reads
  PROVE  CatalogInv'
<1>1. Idle.at # "tx"
  BY DEF Idle
<1>2. QED
  BY <1>1, IdlePrepared, ReadsStep DEF Ends

LEMMA ResolvingAt ==
  ASSUME NEW q \in Request
  PROVE  Resolving(q).at # "tx"
  BY DEF Resolving, AfterResolve, Request

(* A step that stores a blob. *)
LEMMA StoreStep ==
  ASSUME CatalogInv, NEW r \in Requests, NEW q, Prepared(q), q.at # "tx", Becomes(r, q),
         NEW k \in Key, NEW v \in 1 .. MaxRequests, Store(k, v), UNCHANGED <<tables, arrived>>
  PROVE  CatalogInv'
<1>1. req' = [req EXCEPT ![r] = q] /\ nextId' = nextId /\ nextId \in Nat
  BY BoundsAssumption DEF Becomes, tables, CatalogInv, TablesInv
<1>2. RequestsInv'
  <2>1. RequestsInv /\ nextId' \in Nat /\ nextId' >= nextId
    BY <1>1 DEF CatalogInv
  <2>2. QED
    BY <1>1, <2>1, RequestStep
<1>3. TablesInv'
  BY DEF tables, TablesInv, CatalogInv, OneHome
<1>4. RestInv'
  BY DEF Becomes, Store, RestInv, CatalogInv
<1>5. QED
  BY <1>2, <1>3, <1>4 DEF CatalogInv

LEMMA PutInv ==
  ASSUME CatalogInv, NEW r \in Requests, Put(r)
  PROVE  CatalogInv'
<1> DEFINE q == Resolving(req[r])
<1>1. Prepared(req[r]) /\ req[r] \in Request /\ req[r].at = "put"
  BY DEF CatalogInv, RequestsInv, AllPrepared, Put, At
<1>2. Prepared(q) /\ q.at # "tx"
  BY <1>1, ResolvingPrepared, ResolvingAt DEF Prepared, Placing
<1>3. /\ Becomes(r, q) /\ Store(req[r].key, req[r].md5)
      /\ UNCHANGED <<tables, arrived>>
  BY DEF Put
<1>4. req[r].key \in Key /\ req[r].md5 \in 1 .. MaxRequests
  BY <1>1, BoundsAssumption DEF Prepared, Request
<1> HIDE DEF q
<1>5. QED
  BY <1>2, <1>3, <1>4, StoreStep

LEMMA RequestType ==
  ASSUME CatalogInv, NEW r \in Requests
  PROVE  req[r] \in Request /\ Prepared(req[r])
  BY DEF CatalogInv, RequestsInv, AllPrepared

LEMMA TablesType ==
  ASSUME CatalogInv
  PROVE  /\ \A i \in Ids : files[i] \in Entry \cup {None}
         /\ \A i \in Live : i \in Ids /\ i \in Dir /\ files[i] \in Entry /\ i < nextId
         /\ nextId \in Nat
  BY BoundsAssumption DEF CatalogInv, TablesInv, OneHome, Live, Ids, Dir

LEMMA GetSourceInv ==
  ASSUME CatalogInv, NEW r \in Requests, GetSource(r)
  PROVE  CatalogInv'
<1> DEFINE q == req[r]
           e == files[q.id]
<1>1. Reads /\ q.at = "source" /\ q \in Request /\ Prepared(q)
  BY RequestType DEF GetSource, At
<1>2. /\ q.op \in {"move", "copy", "delete"}
      /\ q.op # "delete" => q.name \in Name
      /\ e \in Entry \cup {None}
  BY <1>1, TablesType DEF Prepared
<1>3. CASE e = None /\ Ends(r)
  BY <1>1, <1>3, EndsStep
<1>4. CASE e # None /\ q.op = "delete"
  <2> DEFINE p == IF e.folder THEN [q EXCEPT !.at = "list", !.queue = {<<q.id, 0>>}]
                              ELSE [q EXCEPT !.at = "soft"]
  <2>1. {<<q.id, 0>>} \in SUBSET (Dir \X Dir)
    BY <1>1, BoundsAssumption DEF Request, Dir
  <2>2. Prepared(p) /\ p.at # "tx"
    <3>1. CASE e.folder
      <4>1. p \in Request /\ p.at = "list"
        BY <1>1, <2>1, <3>1 DEF Request
      <4>2. QED
        BY <4>1 DEF Prepared, Placing
    <3>2. CASE ~e.folder
      <4>1. p \in Request /\ p.at = "soft"
        BY <1>1, <3>2 DEF Request
      <4>2. QED
        BY <4>1 DEF Prepared, Placing
    <3>3. QED
      BY <3>1, <3>2
  <2>3. Becomes(r, p)
    BY <1>4 DEF GetSource
  <2> HIDE DEF p
  <2>4. QED
    BY <1>1, <2>2, <2>3, ReadsStep
<1>5. CASE e # None /\ q.op # "delete" /\ Becomes(r, Resolving([q EXCEPT !.row = e]))
  <2> DEFINE p == [q EXCEPT !.row = e]
  <2>1. p \in Request /\ p.op = q.op /\ p.name = q.name /\ p.row = e
    BY <1>1, <1>2 DEF Request
  <2>2. Becomes(r, Resolving(p))
    BY <1>5
  <2> HIDE DEF p, e
  <2>3. Prepared(Resolving(p)) /\ Resolving(p).at # "tx"
    BY <1>2, <1>5, <2>1, ResolvingPrepared, ResolvingAt DEF Placed
  <2>4. QED
    BY <1>1, <2>2, <2>3, ReadsStep
<1>6. QED
  BY <1>3, <1>4, <1>5 DEF GetSource

(* Entering a folder takes one component off the path. *)
LEMMA EnteredPrepared ==
  ASSUME CatalogInv, NEW r \in Requests, req[r].at \in {"resolve", "mkdir"}, NEW d \in Dir
  PROVE  Prepared(Entered(req[r], d)) /\ Entered(req[r], d).at # "tx"
<1> DEFINE q == req[r]
           p == [q EXCEPT !.rest = Tail(@), !.dir = d]
<1>1. q \in Request /\ Prepared(q)
  BY RequestType
<1>2. q.rest \in Seq(Bases) /\ q.rest # <<>>
  BY <1>1 DEF Prepared, Request
<1>3. Tail(q.rest) \in Seq(Bases)
  BY <1>2
<1>4. p \in Request /\ p.op = q.op /\ p.name = q.name /\ p.row = q.row
  BY <1>1, <1>3 DEF Request
<1> HIDE DEF p
<1>5. Prepared(Resolving(p)) /\ Resolving(p).at # "tx"
  BY <1>1, <1>4, ResolvingPrepared, ResolvingAt DEF Prepared, Placing
<1>6. QED
  BY <1>5 DEF Entered, p

LEMMA LookupInv ==
  ASSUME CatalogInv, NEW r \in Requests, Lookup(r)
  PROVE  CatalogInv'
<1> DEFINE found == Named(req[r].dir, Plain(Head(req[r].rest)))
<1>1. Reads /\ req[r].at = "resolve" /\ req[r] \in Request /\ Prepared(req[r])
  BY RequestType DEF Lookup, At
<1>2. ASSUME NEW i \in found, Becomes(r, Entered(req[r], i)) PROVE CatalogInv'
  <2>1. i \in Dir
    BY <1>2, TablesType DEF Named, Children
  <2>2. Prepared(Entered(req[r], i)) /\ Entered(req[r], i).at # "tx"
    BY <1>1, <2>1, EnteredPrepared
  <2>3. QED
    BY <1>1, <1>2, <2>2, ReadsStep
<1>3. CASE Ends(r)
  BY <1>1, <1>3, EndsStep
<1>4. CASE Goes(r, "mkdir")
  <2> DEFINE p == [req[r] EXCEPT !.at = "mkdir"]
  <2>1. req[r].at \in Placing /\ req[r].rest # <<>>
    BY <1>1 DEF Prepared, Placing
  <2>2. Prepared(p)
    BY <1>1, <2>1, GoesPrepared
  <2>3. p.at # "tx"
    BY <1>1 DEF Request
  <2>4. Becomes(r, p)
    BY <1>4 DEF Goes
  <2> HIDE DEF p
  <2>5. QED
    BY <1>1, <2>2, <2>3, <2>4, ReadsStep
<1>5. QED
  BY <1>2, <1>3, <1>4 DEF Lookup

LEMMA MkdirInv ==
  ASSUME CatalogInv, NEW r \in Requests, Mkdir(r)
  PROVE  CatalogInv'
<1> DEFINE q == Entered(req[r], nextId)
           e == Folder(req[r].dir, Plain(Head(req[r].rest)))
<1>1. req[r].at = "mkdir" /\ req[r] \in Request /\ Prepared(req[r]) /\ Insert(e) /\ Becomes(r, q)
  BY RequestType DEF Mkdir, At
<1>2. nextId \in Dir
  BY <1>1, BoundsAssumption DEF Insert, Ids, Dir
<1>3. Prepared(q) /\ q.at # "tx"
  BY <1>1, <1>2, EnteredPrepared
<1>4. req[r].rest \in Seq(Bases) /\ req[r].rest # <<>> /\ req[r].dir \in Dir
  BY <1>1 DEF Prepared, Request
<1>5. Head(req[r].rest) \in Bases
  BY <1>4
<1>6. e \in Entry
  BY <1>4, <1>5, PlainType, FolderType
<1>7. RestInv'
  BY DEF Mkdir, Becomes, RestInv, CatalogInv
<1> HIDE DEF q, e
<1>8. QED
  BY <1>1, <1>3, <1>6, <1>7, InsertStep
(* To another step of the same request, which keeps what it has read. *)
LEMMA GoesInv ==
  ASSUME CatalogInv, NEW r \in Requests, req[r].at \in Placing,
         NEW at \in {"check", "similar", "upload", "folder", "move", "copy"},
         Goes(r, at), Reads, at = "copy" => req[r].op = "copy"
  PROVE  CatalogInv'
<1> DEFINE p == [req[r] EXCEPT !.at = at]
<1>1. req[r] \in Request /\ Prepared(req[r])
  BY RequestType
<1>2. p \in Request /\ p.at = at /\ p.op = req[r].op /\ p.name = req[r].name /\ p.row = req[r].row
  BY <1>1 DEF Request
<1>3. Becomes(r, p)
  BY DEF Goes
<1> HIDE DEF p
<1>4. Prepared(p) /\ p.at # "tx"
  BY <1>1, <1>2 DEF Prepared, Placing
<1>5. QED
  BY <1>3, <1>4, ReadsStep

LEMMA AncestorsInv ==
  ASSUME CatalogInv, NEW r \in Requests, Ancestors(r)
  PROVE  CatalogInv'
<1> DEFINE q == req[r]
           p == [q EXCEPT !.found = files[q.found].dir, !.levels = @ + 1]
<1>1. Reads /\ q.at = "ancestors" /\ q \in Request /\ Prepared(q) /\ q.at \in Placing
  BY RequestType DEF Ancestors, At, Placing
<1>2. CASE Ends(r)
  BY <1>1, <1>2, EndsStep
<1>3. CASE q.found \in Live /\ q.levels < WalkLimit /\ Becomes(r, p)
  <2>1. files[q.found].dir \in Dir
    BY <1>3, TablesType DEF Entry
  <2>2. q.levels + 1 \in 0 .. WalkLimit
    BY <1>1, <1>3, WalkAssumption DEF Request
  <2>3. p \in Request /\ p.at = "ancestors" /\ p.op = q.op /\ p.name = q.name /\ p.row = q.row
    BY <1>1, <2>1, <2>2 DEF Request
  <2> HIDE DEF p
  <2>4. Prepared(p)
    BY <1>1, <2>3 DEF Prepared, Placing
  <2>5. QED
    BY <1>1, <1>3, <2>3, <2>4, ReadsStep
<1>4. CASE Goes(r, "check")
  BY <1>1, <1>4, GoesInv
<1>5. QED
  BY <1>2, <1>3, <1>4 DEF Ancestors

LEMMA CheckNameInv ==
  ASSUME CatalogInv, NEW r \in Requests, CheckName(r)
  PROVE  CatalogInv'
<1> DEFINE q == req[r]
<1>1. Reads /\ q.at = "check" /\ q \in Request /\ Prepared(q) /\ q.at \in Placing /\ q.op \in Placed
  BY RequestType DEF CheckName, At, Placing, Prepared
<1>2. ASSUME NEW i \in Named(q.dir, q.name), Becomes(r, [q EXCEPT !.at = "update", !.found = i])
      PROVE  CatalogInv'
  <2> DEFINE p == [q EXCEPT !.at = "update", !.found = i]
  <2>1. i \in Dir
    BY <1>2, TablesType DEF Named, Children
  <2>2. p \in Request /\ p.at = "update" /\ p.op = q.op /\ p.name = q.name /\ p.row = q.row
    BY <1>1, <2>1 DEF Request
  <2>3. Becomes(r, p)
    BY <1>2
  <2> HIDE DEF p
  <2>4. Prepared(p)
    BY <1>1, <2>2 DEF Prepared, Placing
  <2>5. QED
    BY <1>1, <2>2, <2>3, <2>4, ReadsStep
<1>3. CASE Goes(r, "similar")
  BY <1>1, <1>3, GoesInv
<1>4. CASE Ends(r)
  BY <1>1, <1>4, EndsStep
<1>5. CASE Goes(r, q.op)
  BY <1>1, <1>5, GoesInv DEF Placed
<1>6. QED
  BY <1>2, <1>3, <1>4, <1>5 DEF CheckName

LEMMA FindSimilarInv ==
  ASSUME CatalogInv, NEW r \in Requests, FindSimilar(r)
  PROVE  CatalogInv'
<1> DEFINE q == req[r]
<1>1. Reads /\ q.at = "similar" /\ q \in Request /\ Prepared(q)
  BY RequestType DEF FindSimilar, At
<1>2. PICK m \in AutoRename(q.name, Similar(q.dir, q.name)) :
        Becomes(r, [q EXCEPT !.at = q.op, !.name = m])
  BY DEF FindSimilar
<1>3. m \in Name
  BY DEF AutoRename
<1> DEFINE p == [q EXCEPT !.at = q.op, !.name = m]
<1>4. q.op \in Placed /\ (q.op \in {"move", "copy"} => q.row \in Entry)
  BY <1>1 DEF Prepared, Placing
<1>5. p \in Request /\ p.at = q.op /\ p.op = q.op /\ p.name = m /\ p.row = q.row
  BY <1>1, <1>3, <1>4 DEF Request, Placed
<1>6. Becomes(r, p)
  BY <1>2
<1> HIDE DEF p
<1>7. Prepared(p) /\ p.at # "tx"
  BY <1>3, <1>4, <1>5 DEF Prepared, Placing, Placed
<1>8. QED
  BY <1>1, <1>6, <1>7, ReadsStep
-----------------------------------------------------------------------------
(* the steps that change a row, *)
LEMMA ChangeStep ==
  ASSUME CatalogInv, NEW r \in Requests, Ends(r), UNCHANGED <<recycled, nextId, blob, arrived>>,
         TablesInv'
  PROVE  CatalogInv'
<1>1. Idle.at # "tx" /\ nextId \in Nat
  BY BoundsAssumption DEF Idle, CatalogInv, TablesInv
<1>2. RequestsInv /\ req' = [req EXCEPT ![r] = Idle] /\ nextId' \in Nat /\ nextId' >= nextId
  BY <1>1 DEF CatalogInv, Ends, Becomes
<1>3. RequestsInv'
  BY <1>1, <1>2, IdlePrepared, RequestStep
<1>4. RestInv'
  BY DEF CatalogInv, RestInv, Ends, Becomes
<1>5. QED
  BY <1>3, <1>4 DEF CatalogInv

LEMMA UpdateFileMD5Inv ==
  ASSUME CatalogInv, NEW r \in Requests, UpdateFileMD5(r)
  PROVE  CatalogInv'
<1> DEFINE i == req[r].found
           e == [files[i] EXCEPT !.md5 = req[r].md5]
<1>1. req[r] \in Request /\ TablesInv
  BY RequestType DEF CatalogInv
<1>2. CASE i \in Live
  <2>1. e \in Entry
    BY <1>1, <1>2, TablesType DEF Entry, Request
  <2>2. files' = [files EXCEPT ![i] = e]
    BY <1>2 DEF UpdateFileMD5
  <2>3. TablesInv'
    BY <1>1, <1>2, <2>1, <2>2, ChangeTables DEF UpdateFileMD5
  <2>4. QED
    BY <2>3, ChangeStep DEF UpdateFileMD5
<1>3. CASE i \notin Live
  <2>1. TablesInv'
    BY <1>1, <1>3 DEF UpdateFileMD5, TablesInv, OneHome
  <2>2. QED
    BY <2>1, ChangeStep DEF UpdateFileMD5
<1>4. QED
  BY <1>2, <1>3

LEMMA MoveFileInv ==
  ASSUME CatalogInv, NEW r \in Requests, MoveFile(r)
  PROVE  CatalogInv'
<1> DEFINE q == req[r]
           e == [files[q.id] EXCEPT !.dir = q.dir, !.name = q.name]
<1>1. q \in Request /\ TablesInv /\ q.name \in Name /\ q.dir \in Dir
  BY RequestType DEF CatalogInv, MoveFile, At, Prepared, Placing, Request
<1>2. CASE q.id \in Live
  <2>1. e \in Entry
    BY <1>1, <1>2, TablesType DEF Entry
  <2>2. files' = [files EXCEPT ![q.id] = e]
    BY <1>2 DEF MoveFile
  <2>3. TablesInv'
    BY <1>1, <1>2, <2>1, <2>2, ChangeTables DEF MoveFile
  <2>4. QED
    BY <2>3, ChangeStep DEF MoveFile
<1>3. CASE q.id \notin Live
  <2>1. TablesInv'
    BY <1>1, <1>3 DEF MoveFile, TablesInv, OneHome
  <2>2. QED
    BY <2>1, ChangeStep DEF MoveFile
<1>4. QED
  BY <1>2, <1>3

(* the steps that insert a row, *)
LEMMA CreateFileInv ==
  ASSUME CatalogInv, NEW r \in Requests, CreateFile(r)
  PROVE  CatalogInv'
<1> DEFINE q == req[r]
           e == [dir |-> q.dir, name |-> q.name, key |-> q.key, md5 |-> q.md5, folder |-> FALSE]
<1>1. q \in Request /\ q.name \in Name
  BY RequestType DEF CreateFile, At, Prepared, Placing
<1>2. e \in Entry
  BY <1>1 DEF Entry, Request
<1>3. Insert(e) /\ Becomes(r, Idle) /\ RestInv' /\ Idle.at # "tx"
  BY DEF CreateFile, Ends, Becomes, RestInv, CatalogInv, Idle
<1> HIDE DEF e
<1>4. QED
  BY <1>2, <1>3, IdlePrepared, InsertStep

LEMMA InsertFolderInv ==
  ASSUME CatalogInv, NEW r \in Requests, InsertFolder(r)
  PROVE  CatalogInv'
<1>1. req[r].dir \in Dir /\ req[r].name \in Name
  BY RequestType DEF InsertFolder, At, Prepared, Placing, Request
<1>2. Folder(req[r].dir, req[r].name) \in Entry
  BY <1>1, FolderType
<1>3. /\ Insert(Folder(req[r].dir, req[r].name)) /\ Becomes(r, Idle)
      /\ RestInv' /\ Idle.at # "tx"
  BY DEF InsertFolder, Ends, Becomes, RestInv, CatalogInv, Idle
<1>4. QED
  BY <1>2, <1>3, IdlePrepared, InsertStep

-----------------------------------------------------------------------------
(* the copy, *)
LEMMA StartCopyInv ==
  ASSUME CatalogInv, NEW r \in Requests, StartCopy(r)
  PROVE  CatalogInv'
<1> DEFINE q == req[r]
           t == [id |-> q.id, row |-> [q.row EXCEPT !.name = q.name], dst |-> q.dir]
<1>1. Reads /\ q \in Request /\ q.name \in Name /\ q.row \in Entry
  BY RequestType DEF StartCopy, At, Prepared, Placing
<1>2. [q.row EXCEPT !.name = q.name] \in Entry
  BY <1>1 DEF Entry
<1>3. {t} \in SUBSET Work
  BY <1>1, <1>2 DEF Work, Request
<1> DEFINE p == [q EXCEPT !.at = "copying", !.todo = {t}]
<1>4. p \in Request /\ p.at = "copying" /\ Becomes(r, p)
  BY <1>1, <1>3 DEF Request, StartCopy
<1> HIDE DEF p
<1>5. Prepared(p) /\ p.at # "tx"
  BY <1>4 DEF Prepared, Placing
<1>6. QED
  BY <1>1, <1>4, <1>5, ReadsStep

(* A copy goes on or ends. *)
LEMMA CopyingStep ==
  ASSUME NEW r \in Requests, NEW q \in Request, q.at = "copying", Copying(r, q)
  PROVE  \E p : Prepared(p) /\ p.at # "tx" /\ Becomes(r, p)
<1>1. Prepared(q)
  BY DEF Prepared, Placing
<1>2. Idle.at # "tx"
  BY DEF Idle
<1>3. QED
  BY <1>1, <1>2, IdlePrepared DEF Copying, Ends

LEMMA CopyFolderInv ==
  ASSUME CatalogInv, NEW r \in Requests, req[r].at = "copying", NEW t \in req[r].todo,
         CopyFolder(r, t), arrived' = arrived
  PROVE  CatalogInv'
<1> DEFINE q == req[r]
           next == [q EXCEPT !.todo = @ \ {t}, !.queue = @ \cup {<<t.id, nextId>>}]
<1>1. q \in Request /\ t \in Work /\ nextId \in Dir
  BY RequestType, BoundsAssumption DEF Request, CopyFolder, Insert, Ids, Dir
<1>2. <<t.id, nextId>> \in Dir \X Dir /\ t.dst \in Dir /\ t.row.name \in Name
  BY <1>1 DEF Work, Entry
<1>3. next \in Request /\ next.at = "copying"
  BY <1>1, <1>2 DEF Request
<1>4. Copying(r, next) /\ Insert(Folder(t.dst, t.row.name))
  BY DEF CopyFolder
<1>5. Folder(t.dst, t.row.name) \in Entry
  BY <1>2, FolderType
<1> HIDE DEF next
<1>6. PICK p : Prepared(p) /\ p.at # "tx" /\ Becomes(r, p)
  BY <1>3, <1>4, CopyingStep
<1>7. RestInv'
  BY <1>6 DEF CopyFolder, Becomes, RestInv, CatalogInv
<1>8. QED
  BY <1>4, <1>5, <1>6, <1>7, InsertStep

LEMMA CopyKeyType ==
  ASSUME NEW k \in Key, NEW c \in CopyKey(k)
  PROVE  c \in Key
  BY BoundsAssumption DEF CopyKey, Unused, Key, Ids, Dir

(* The entry a request has written the blob of and will insert. *)
InHand(q) == [id |-> q.found, row |-> q.row, dst |-> q.dir]

(* What a request that has written a copy's blob carries to the insert. *)
WithBlob(q, t, k, v) == [q EXCEPT !.at = "copied", !.found = t.id, !.row = t.row, !.dir = t.dst,
                                  !.key = k, !.md5 = v]

LEMMA WithBlobType ==
  ASSUME NEW q \in Request, NEW t \in Work, NEW k \in Key, NEW v \in 0 .. MaxRequests
  PROVE  /\ WithBlob(q, t, k, v) \in Request
         /\ WithBlob(q, t, k, v).at = "copied" /\ WithBlob(q, t, k, v).op = q.op
         /\ WithBlob(q, t, k, v).found = t.id /\ WithBlob(q, t, k, v).row = t.row
         /\ WithBlob(q, t, k, v).dir = t.dst /\ WithBlob(q, t, k, v).key = k
         /\ WithBlob(q, t, k, v).queue = q.queue /\ WithBlob(q, t, k, v).todo = q.todo
         /\ InHand(WithBlob(q, t, k, v)) = t
<1>1. /\ t.id \in Dir /\ t.row \in Entry /\ t.dst \in Dir
      /\ t = [id |-> t.id, row |-> t.row, dst |-> t.dst]
  BY DEF Work
<1>2. QED
  BY <1>1 DEF WithBlob, Request, InHand

LEMMA CopyBlobStep ==
  ASSUME CatalogInv, NEW r \in Requests, NEW t \in req[r].todo, CopyBlob(r, t)
  PROVE  /\ req[r] \in Request /\ t \in Work /\ t.row \in Entry /\ ~t.row.folder
         /\ UNCHANGED tables
         /\ \E k \in Key, v \in 1 .. MaxRequests :
              Store(k, v) /\ Becomes(r, WithBlob(req[r], t, k, v)) /\ v \in 0 .. MaxRequests
<1>1. req[r] \in Request /\ t \in Work /\ t.row \in Entry /\ t.row.key \in Key
  BY RequestType DEF Request, Work, Entry
<1>2. blob[t.row.key] \in 1 .. MaxRequests /\ blob[t.row.key] \in 0 .. MaxRequests
  BY BoundsAssumption DEF CopyBlob, CatalogInv, RestInv
<1>3. PICK k \in CopyKey(t.row.key) : Store(k, blob[t.row.key]) /\ Copied(r, t, k)
  BY DEF CopyBlob
<1>4. k \in Key /\ Becomes(r, WithBlob(req[r], t, k, blob[t.row.key]))
  BY <1>1, <1>3, CopyKeyType DEF Copied, WithBlob
<1>5. QED
  BY <1>1, <1>2, <1>3, <1>4 DEF CopyBlob

LEMMA CopyBlobInv ==
  ASSUME CatalogInv, NEW r \in Requests, NEW t \in req[r].todo, CopyBlob(r, t), arrived' = arrived
  PROVE  CatalogInv'
<1>1. req[r] \in Request /\ t \in Work /\ t.row \in Entry /\ UNCHANGED tables
  BY CopyBlobStep
<1>2. PICK k \in Key, v \in 1 .. MaxRequests :
        Store(k, v) /\ Becomes(r, WithBlob(req[r], t, k, v)) /\ v \in 0 .. MaxRequests
  BY CopyBlobStep
<1> DEFINE p == WithBlob(req[r], t, k, v)
<1>3. p \in Request /\ p.at = "copied" /\ p.row \in Entry
  BY <1>1, <1>2, WithBlobType
<1> HIDE DEF p
<1>4. Prepared(p) /\ p.at # "tx"
  BY <1>3 DEF Prepared, Placing
<1>5. QED
  BY <1>1, <1>2, <1>4, StoreStep DEF p

(* The row inserted for it and the request that goes on. *)
RowCopied(q) == [q.row EXCEPT !.dir = q.dir, !.key = q.key, !.md5 = q.md5]
Copies(q) == [q EXCEPT !.at = "copying", !.todo = @ \ {InHand(q)}]

LEMMA CopyRowStep ==
  ASSUME CatalogInv, NEW r \in Requests, CopyRow(r)
  PROVE  /\ req[r] \in Request /\ req[r].at = "copied" /\ req[r].row \in Entry
         /\ RowCopied(req[r]) \in Entry /\ Insert(RowCopied(req[r]))
         /\ RowCopied(req[r]).dir = req[r].dir /\ RowCopied(req[r]).name = req[r].row.name
         /\ RowCopied(req[r]).key = req[r].key /\ RowCopied(req[r]).folder = req[r].row.folder
         /\ Copies(req[r]) \in Request /\ Copies(req[r]).at = "copying"
         /\ Copies(req[r]).op = req[r].op /\ Copies(req[r]).key = req[r].key
         /\ Copies(req[r]).dir = req[r].dir /\ Copies(req[r]).queue = req[r].queue
         /\ Copies(req[r]).todo = req[r].todo \ {InHand(req[r])}
         /\ Copying(r, Copies(req[r])) /\ UNCHANGED <<blob, arrived>>
<1>1. req[r] \in Request /\ req[r].at = "copied" /\ req[r].row \in Entry
  BY RequestType DEF CopyRow, At, Prepared
<1>2. /\ RowCopied(req[r]) \in Entry
      /\ RowCopied(req[r]).dir = req[r].dir /\ RowCopied(req[r]).name = req[r].row.name
      /\ RowCopied(req[r]).key = req[r].key /\ RowCopied(req[r]).folder = req[r].row.folder
  BY <1>1 DEF RowCopied, Entry, Request
<1>3. /\ Copies(req[r]) \in Request /\ Copies(req[r]).at = "copying"
      /\ Copies(req[r]).op = req[r].op /\ Copies(req[r]).key = req[r].key
      /\ Copies(req[r]).dir = req[r].dir /\ Copies(req[r]).queue = req[r].queue
      /\ Copies(req[r]).todo = req[r].todo \ {InHand(req[r])}
  BY <1>1 DEF Copies, Request
<1>4. Insert(RowCopied(req[r])) /\ Copying(r, Copies(req[r])) /\ UNCHANGED <<blob, arrived>>
  BY DEF CopyRow, RowCopied, Copies, InHand
<1>5. QED
  BY <1>1, <1>2, <1>3, <1>4

LEMMA CopyRowInv ==
  ASSUME CatalogInv, NEW r \in Requests, CopyRow(r)
  PROVE  CatalogInv'
<1> DEFINE next == Copies(req[r])
           e == RowCopied(req[r])
<1>1. /\ next \in Request /\ next.at = "copying" /\ Copying(r, next)
      /\ e \in Entry /\ Insert(e) /\ UNCHANGED <<blob, arrived>>
  BY CopyRowStep
<1> HIDE DEF next, e
<1>2. PICK p : Prepared(p) /\ p.at # "tx" /\ Becomes(r, p)
  BY <1>1, CopyingStep
<1>3. RestInv'
  BY <1>1, <1>2 DEF Becomes, RestInv, CatalogInv
<1>4. QED
  BY <1>1, <1>2, <1>3, InsertStep

LEMMA ListedType ==
  ASSUME CatalogInv, NEW d, NEW dst \in Dir
  PROVE  Listed(d, dst) \in SUBSET Work
  BY TablesType DEF Listed, Children, Work

LEMMA CopyChildrenInv ==
  ASSUME CatalogInv, NEW r \in Requests, req[r].at = "copying", NEW p \in req[r].queue,
         CopyChildren(r, p), arrived' = arrived
  PROVE  CatalogInv'
<1> DEFINE q == req[r]
           next == [q EXCEPT !.queue = @ \ {p}, !.todo = @ \cup Listed(p[1], p[2])]
<1>1. q \in Request /\ p \in Dir \X Dir
  BY RequestType DEF Request
<1>2. Listed(p[1], p[2]) \in SUBSET Work
  BY <1>1, ListedType
<1>3. next \in Request /\ next.at = "copying"
  BY <1>1, <1>2 DEF Request
<1>4. Copying(r, next) /\ Reads
  BY DEF CopyChildren, Reads
<1> HIDE DEF next
<1>5. PICK s : Prepared(s) /\ s.at # "tx" /\ Becomes(r, s)
  BY <1>3, <1>4, CopyingStep
<1>6. QED
  BY <1>4, <1>5, ReadsStep

LEMMA CopyInv ==
  ASSUME CatalogInv, NEW r \in Requests, Copy(r)
  PROVE  CatalogInv'
  BY CopyFolderInv, CopyBlobInv, CopyChildrenInv DEF Copy, At
-----------------------------------------------------------------------------
(* the delete, *)
LEMMA ListRecursiveInv ==
  ASSUME CatalogInv, NEW r \in Requests, ListRecursive(r)
  PROVE  CatalogInv'
<1> DEFINE q == req[r]
<1>1. q \in Request /\ q.at = "list" /\ Reads
  BY RequestType DEF ListRecursive, At
<1>2. PICK p \in q.queue :
        LET new == Listed(p[1], 0)
            queue == (q.queue \ {p}) \cup {<<t.id, 0>> : t \in {t \in new : t.row.folder}}
        IN  Becomes(r, [q EXCEPT !.queue = queue, !.todo = @ \cup new,
                                 !.at = IF queue = {} THEN "soft" ELSE "list"])
  BY DEF ListRecursive
<1> DEFINE new == Listed(p[1], 0)
           queue == (q.queue \ {p}) \cup {<<t.id, 0>> : t \in {t \in new : t.row.folder}}
           at == IF queue = {} THEN "soft" ELSE "list"
           next == [q EXCEPT !.queue = queue, !.todo = @ \cup new, !.at = at]
<1>3. 0 \in Dir
  BY BoundsAssumption DEF Dir
<1>4. new \in SUBSET Work
  BY <1>3, ListedType
<1> HIDE DEF new
<1>5. queue \in SUBSET (Dir \X Dir)
  BY <1>1, <1>3, <1>4 DEF Request, Work
<1>6. at \in {"soft", "list"}
  OBVIOUS
<1>7. Becomes(r, next)
  BY <1>2 DEF new
<1> HIDE DEF queue, at
<1>8. next \in Request /\ next.at = at
  BY <1>1, <1>4, <1>5, <1>6 DEF Request
<1> HIDE DEF next
<1>9. Prepared(next) /\ next.at # "tx"
  BY <1>6, <1>8 DEF Prepared, Placing
<1>10. QED
  BY <1>1, <1>7, <1>9, ReadsStep

LEMMA GetDeletedInv ==
  ASSUME CatalogInv, NEW r \in Requests, GetDeleted(r)
  PROVE  CatalogInv'
<1> DEFINE q == req[r]
<1>1. q \in Request /\ Reads
  BY RequestType DEF GetDeleted
<1>2. CASE Ends(r)
  BY <1>1, <1>2, EndsStep
<1>3. ASSUME NEW i \in Live, Becomes(r, [q EXCEPT !.at = "tx", !.found = i, !.row = files[i]])
      PROVE  CatalogInv'
  <2> DEFINE p == [q EXCEPT !.at = "tx", !.found = i, !.row = files[i]]
  <2>1. i \in Ids /\ i \in Dir /\ files[i] \in Entry /\ i < nextId
    BY TablesType
  <2>2. p \in Request /\ p.at = "tx" /\ p.found = i /\ p.row = files[i]
    BY <1>1, <2>1 DEF Request
  <2>3. Becomes(r, p)
    BY <1>3
  <2> HIDE DEF p
  <2>4. Prepared(p)
    BY <2>1, <2>2 DEF Prepared, Placing
  <2>5. QED
    BY <1>1, <2>1, <2>2, <2>3, <2>4, ReadsStep
<1>4. QED
  BY <1>2, <1>3 DEF GetDeleted

(* A second delete of the same entry finds it in the recycle bin and fails *)
(* there; a first one moves a row that exists, whatever it has read.       *)
LEMMA SoftDeleteInv ==
  ASSUME CatalogInv, NEW r \in Requests, SoftDelete(r)
  PROVE  CatalogInv'
<1> DEFINE q == req[r]
           i == q.found
           next == [q EXCEPT !.at = "soft", !.todo = {t \in @ : t.id # i}]
<1>1. /\ q \in Request /\ q.row \in Entry /\ i \in Ids /\ i < nextId
      /\ RequestsInv /\ TablesInv /\ RestInv /\ nextId \in Nat
  BY RequestType, TablesType
     DEF SoftDelete, At, Prepared, CatalogInv, RequestsInv, FoundKnown
<1>2. Prepared(next) /\ next.at # "tx"
  <2>1. next \in Request /\ next.at = "soft"
    BY <1>1 DEF Request
  <2> HIDE DEF next
  <2>2. QED
    BY <2>1 DEF Prepared, Placing
<1>3. Ends(r) \/ Becomes(r, next)
  BY DEF SoftDelete, Deleted
<1> HIDE DEF next
<1>4. PICK p : Prepared(p) /\ p.at # "tx" /\ Becomes(r, p)
  <2>1. Idle.at # "tx"
    BY DEF Idle
  <2>2. QED
    BY <1>2, <1>3, <2>1, IdlePrepared DEF Ends
<1>5. nextId' = nextId /\ blob' = blob /\ arrived' = arrived
  BY DEF SoftDelete
<1>6. RequestsInv'
  <2>1. req' = [req EXCEPT ![r] = p] /\ nextId' \in Nat /\ nextId' >= nextId
    BY <1>1, <1>4, <1>5 DEF Becomes
  <2>2. QED
    BY <1>1, <1>4, <2>1, RequestStep
<1>7. TablesInv'
  <2>1. CASE recycled[i] = None
    BY <1>1, <1>5, <2>1, NoneAssumption DEF SoftDelete, TablesInv, OneHome
  <2>2. CASE recycled[i] # None
    BY <1>1, <1>5, <2>2 DEF SoftDelete, TablesInv, OneHome
  <2>3. QED
    BY <2>1, <2>2
<1>8. RestInv'
  BY <1>1, <1>4, <1>5 DEF Becomes, RestInv
<1>9. QED
  BY <1>6, <1>7, <1>8 DEF CatalogInv

-----------------------------------------------------------------------------
(* and the process. *)
LEMMA BreaksOffInv ==
  ASSUME CatalogInv, UNCHANGED <<tables, blob, arrived>>, serving' \in BOOLEAN, calm' \in BOOLEAN,
         req' \in [Requests -> Request],
         \A r \in Requests : req'[r] = req[r] \/ req'[r] = Idle
  PROVE  CatalogInv'
<1>1. RequestsInv'
  <2>1. AllPrepared'
    BY IdlePrepared DEF CatalogInv, RequestsInv, AllPrepared
  <2>2. FoundKnown'
    BY DEF CatalogInv, RequestsInv, FoundKnown, At, tables, Idle
  <2>3. QED
    BY <2>1, <2>2 DEF RequestsInv
<1>2. TablesInv' /\ RestInv'
  BY DEF CatalogInv, TablesInv, RestInv, OneHome, tables
<1>3. QED
  BY <1>1, <1>2 DEF CatalogInv

(* The startup makes folders in the root and in root folders. *)
Ensures == \/ \E b \in Standard : EnsureRootFolders(b)
           \/ \E s \in SubFolders : EnsureSubFolders(s)

LEMMA EnsuresFolder ==
  ASSUME Ensures
  PROVE  \E d \in Dir, b \in StandardNames :
           /\ EnsureFolder(d, b) /\ b \in Bases
           /\ d = 0 \/ (d \in Live /\ files[d].folder)
<1>1. ASSUME NEW b \in Standard, EnsureRootFolders(b)
      PROVE  b \in StandardNames /\ b \in Bases /\ 0 \in Dir /\ EnsureFolder(0, b)
  BY <1>1, NamesAssumption, BoundsAssumption DEF EnsureRootFolders, StandardNames, Dir
<1>2. ASSUME NEW s \in SubFolders, NEW d \in Folders(0, s[1]), EnsureFolder(d, s[2])
      PROVE  /\ s[2] \in StandardNames /\ s[2] \in Bases
             /\ d \in Dir /\ d \in Live /\ files[d].folder
  BY SubFoldersAssumption, BoundsAssumption
     DEF Folders, Named, Children, Live, StandardNames, Ids, Dir
<1>3. QED
  BY <1>1, <1>2 DEF Ensures, EnsureSubFolders

LEMMA ProcessInv ==
  ASSUME CatalogInv,
         \/ Die \/ Serve \/ Ensures
         \/ \E r \in Requests : Abort(r)
  PROVE  CatalogInv'
<1> USE DEF CatalogInv, RequestsInv, RestInv
<1>1. CASE Die
  <2>1. /\ req' \in [Requests -> Request] /\ calm' \in BOOLEAN
        /\ \A r \in Requests : req'[r] = Idle
    BY <1>1, IdleType DEF Die
  <2>2. QED
    BY <1>1, <2>1, BreaksOffInv DEF Die
<1>2. CASE Serve
  BY <1>2, BreaksOffInv DEF Serve
<1>3. ASSUME NEW r \in Requests, Abort(r) PROVE CatalogInv'
  <2>1. /\ req' \in [Requests -> Request]
        /\ \A s \in Requests : req'[s] = req[s] \/ req'[s] = Idle
    BY <1>3, IdleType DEF Abort
  <2>2. QED
    BY <1>3, <2>1, BreaksOffInv DEF Abort
<1>4. ASSUME NEW d \in Dir, NEW b \in Bases, EnsureFolder(d, b) PROVE CatalogInv'
  <2>1. Folder(d, Plain(b)) \in Entry /\ Insert(Folder(d, Plain(b)))
    BY <1>4, PlainType, FolderType DEF EnsureFolder
  <2>2. TablesInv' /\ nextId \in Nat /\ nextId' = nextId + 1
    BY <2>1, InsertTables, TablesType
  <2>3. RequestsInv'
    <3>1. \A r \in Requests : At(r, "tx") => req[r].found \in Nat
      BY BoundsAssumption DEF AllPrepared, Prepared, At, Ids
    <3>2. FoundKnown'
      BY <1>4, <2>2, <3>1 DEF FoundKnown, At, EnsureFolder
    <3>3. QED
      BY <1>4, <3>2 DEF AllPrepared, EnsureFolder
  <2>4. RestInv'
    BY <1>4 DEF EnsureFolder
  <2>5. QED
    BY <2>2, <2>3, <2>4
<1>5. QED
  BY <1>1, <1>2, <1>3, <1>4, EnsuresFolder

LEMMA HandlesInv ==
  ASSUME CatalogInv, NEW r \in Requests, Handles(r)
  PROVE  CatalogInv'
  BY PutInv, GetSourceInv, LookupInv, MkdirInv, AncestorsInv, CheckNameInv, FindSimilarInv,
     UpdateFileMD5Inv, CreateFileInv, InsertFolderInv, MoveFileInv, StartCopyInv, CopyInv,
     CopyRowInv, ListRecursiveInv, GetDeletedInv, SoftDeleteInv
     DEF Handles

LEMMA StepInv ==
  ASSUME CatalogInv, [Next]_vars
  PROVE  CatalogInv'
<1>1. ASSUME NEW r \in Requests, Arrives(r) PROVE CatalogInv'
  BY <1>1, ArrivesInv
<1>2. ASSUME NEW r \in Requests, Handles(r) PROVE CatalogInv'
  BY <1>2, HandlesInv
<1>3. CASE UNCHANGED vars
  BY <1>3 DEF vars, tables, CatalogInv, RequestsInv, TablesInv, RestInv, AllPrepared,
              FoundKnown, At, OneHome
<1>4. QED
  BY <1>1, <1>2, <1>3, ProcessInv DEF Next, Ensures

(* The inductive invariant: types, what each request has read by the time  *)
(* it needs it, and every known id in exactly one of the two tables.       *)
THEOREM CatalogInvariant == Spec => []CatalogInv
<1>1. Init => CatalogInv
  <2> SUFFICES ASSUME Init PROVE CatalogInv
    OBVIOUS
  <2>1. Idle.at # "tx"
    BY DEF Idle
  <2>2. RequestsInv
    BY <2>1, IdlePrepared, IdleType DEF Init, RequestsInv, AllPrepared, FoundKnown, At
  <2>3. TablesInv
    BY BoundsAssumption DEF Init, TablesInv, OneHome, Ids
  <2>4. RestInv
    <3>1. DOMAIN blob = {} /\ arrived \in 0 .. MaxRequests
      BY BoundsAssumption DEF Init
    <3>2. {serving, calm} \subseteq BOOLEAN
      BY Zenon DEF Init
    <3>3. QED
      BY <3>1, <3>2 DEF RestInv
  <2>5. QED
    BY <2>2, <2>3, <2>4 DEF CatalogInv
<1>2. CatalogInv /\ [Next]_vars => CatalogInv'
  BY StepInv
<1>3. QED
  BY <1>1, <1>2, PTL DEF Spec

(* Rows, requests and blobs keep their types. *)
THEOREM TypeCorrect == Spec => []TypeOK
  BY CatalogInvariant, InvType, PTL

(* Whatever overlaps, breaks off or dies, an entry is in the catalog or in *)
(* the recycle bin, and never in both.                                     *)
THEOREM Conservation == Spec => []OneHome
<1>1. CatalogInv => OneHome
  BY DEF CatalogInv, TablesInv
<1>2. QED
  BY <1>1, CatalogInvariant, PTL
(* What the recycle bin holds of an entry is never replaced: the one step  *)
(* that writes there is refused when the id is taken.                      *)
THEOREM RecycledStays == Spec => RecycledKept
<1> DEFINE Kept == \A i \in Ids : recycled[i] # None => recycled'[i] = recycled[i]
<1>1. CatalogInv /\ [Next]_vars => [Kept]_vars
  <2> SUFFICES ASSUME CatalogInv, [Next]_vars, recycled' # recycled PROVE Kept
    BY DEF vars
  <2>1. PICK r \in Requests : SoftDelete(r)
    <3>1. \A r \in Requests : ~Arrives(r)
      BY DEF Arrives, Upload, CreateFolder, MoveOrCopy, Delete, Begin, tables
    <3>2. \A r \in Requests : ~Abort(r)
      BY DEF Abort, tables
    <3>3. ~Die /\ ~Serve /\ ~Ensures
      BY DEF Die, Serve, Ensures, EnsureRootFolders, EnsureSubFolders, EnsureFolder, Insert, tables
    <3>4. \A r \in Requests : Handles(r) => SoftDelete(r)
      BY DEF Handles, Put, GetSource, Lookup, Mkdir, Ancestors, CheckName, FindSimilar,
             UpdateFileMD5, CreateFile, InsertFolder, MoveFile, StartCopy, Copy, CopyFolder,
             CopyBlob, CopyRow, CopyChildren, ListRecursive, GetDeleted, Insert, Reads, tables
    <3>5. QED
      BY <3>1, <3>2, <3>3, <3>4 DEF Next, Ensures, vars
  <2>2. recycled' = [recycled EXCEPT ![req[r].found] = req[r].row] /\ recycled[req[r].found] = None
    BY <2>1 DEF SoftDelete
  <2>3. QED
    BY <2>2 DEF CatalogInv, TablesInv
<1>2. QED
  BY <1>1, CatalogInvariant, PTL DEF Spec, RecycledKept

-----------------------------------------------------------------------------
(* Part 2.  What entries refer to: the directory of an entry is a folder,  *)
(* and the blob of a file has been stored.  A request must know that too   *)
(* of what it is about to insert, and nothing may take it back.            *)
KnownFolder(d) == d = 0 \/ (d \in Ids /\ IsFolder(d))
Stored(e) == e.folder \/ e.key \in DOMAIN blob

Holds(q) ==
  /\ q.at = "upload" => q.op = "upload"
  /\ q.op = "upload" /\ q.at # "put" => q.key \in DOMAIN blob
  /\ KnownFolder(q.dir)
  /\ \A p \in q.queue : KnownFolder(p[2])
  /\ \A t \in q.todo : KnownFolder(t.dst)
  /\ q.at = "copied" => q.key \in DOMAIN blob
  /\ q.at = "tx" => Stored(q.row) /\ (q.found \in Live => files[q.found].folder = q.row.folder)

AllHold == \A r \in Requests : Holds(req[r])
HeldInv == BlobBehindEntry /\ ParentIsFolder /\ AllHold

(* No blob goes, a folder stays one wherever its row is, and no id comes back. *)
Grows == /\ DOMAIN blob \subseteq DOMAIN blob'
         /\ \A i \in Ids : IsFolder(i) => IsFolder(i)'
         /\ \A i \in Ids : i < nextId /\ files'[i] # None
                             => files[i] # None /\ files'[i].folder = files[i].folder

LEMMA HoldsKept ==
  ASSUME Grows, NEW q, Holds(q), q.at = "tx" => q.found \in Ids /\ q.found < nextId
  PROVE  Holds(q)'
<1>1. \A d : KnownFolder(d) => KnownFolder(d)'
  BY DEF Grows, KnownFolder
<1>2. q.at = "tx" => Stored(q.row)'
  BY DEF Holds, Grows, Stored
<1>3. ASSUME q.at = "tx", q.found \in Live' PROVE files'[q.found].folder = q.row.folder
  BY <1>3 DEF Holds, Grows, Live
<1>4. QED
  BY <1>1, <1>2, <1>3 DEF Holds, Grows

LEMMA HeldStep ==
  ASSUME CatalogInv, HeldInv, Grows, BlobBehindEntry', ParentIsFolder',
         NEW r \in Requests, NEW q, req' = [req EXCEPT ![r] = q], Holds(q)'
  PROVE  HeldInv'
<1> SUFFICES ASSUME NEW s \in Requests PROVE Holds(req[s])'
  BY DEF HeldInv, AllHold
<1>1. CASE s = r
  <2>1. req'[s] = q
    BY <1>1 DEF CatalogInv, RequestsInv
  <2>2. QED
    BY <2>1 DEF Holds, KnownFolder, IsFolder, Stored, Live
<1>2. CASE s # r
  <2>1. PICK p : p = req[s]
    OBVIOUS
  <2>2. Holds(p) /\ (p.at = "tx" => p.found \in Ids /\ p.found < nextId)
    BY <2>1 DEF HeldInv, AllHold, CatalogInv, RequestsInv, FoundKnown, At, AllPrepared, Prepared
  <2>3. Holds(p)' /\ req'[s] = p
    BY <1>2, <2>1, <2>2, HoldsKept DEF CatalogInv, RequestsInv
  <2>4. QED
    BY <2>3 DEF Holds, KnownFolder, IsFolder, Stored, Live
<1>3. QED
  BY <1>1, <1>2

(* A step that leaves the tables and the blobs alone. *)
LEMMA StaysHeld ==
  ASSUME HeldInv, UNCHANGED <<files, recycled, blob>>
  PROVE  Grows /\ BlobBehindEntry' /\ ParentIsFolder' /\ \A q : Holds(q) => Holds(q)'
<1>1. \A i \in Ids : (IsFolder(i) <=> IsFolder(i)')
  BY DEF IsFolder
<1>2. Live' = Live
  BY DEF Live
<1>3. BlobBehindEntry' /\ ParentIsFolder'
  BY <1>1, <1>2 DEF HeldInv, BlobBehindEntry, ParentIsFolder, IsFolder
<1>4. Grows
  BY <1>1 DEF Grows
<1>5. \A q : Holds(q) => Holds(q)'
  BY DEF Holds, KnownFolder, IsFolder, Stored, Live
<1>6. QED
  BY <1>3, <1>4, <1>5

LEMMA ReadsHeld ==
  ASSUME CatalogInv, HeldInv, NEW r \in Requests, UNCHANGED <<files, recycled, blob>>,
         NEW q, req' = [req EXCEPT ![r] = q], Holds(q)
  PROVE  HeldInv'
<1>1. PICK p : p = q
  OBVIOUS
<1>2. Holds(p)' /\ Grows /\ BlobBehindEntry' /\ ParentIsFolder'
  BY <1>1, StaysHeld
<1>3. QED
  BY <1>1, <1>2, HeldStep

LEMMA IdleHolds == Holds(Idle)
  BY DEF Holds, Idle, KnownFolder

LEMMA EndsHeld ==
  ASSUME CatalogInv, HeldInv, NEW r \in Requests, UNCHANGED <<files, recycled, blob>>, Ends(r)
  PROVE  HeldInv'
  BY IdleHolds, ReadsHeld DEF Ends, Becomes

(* A request that is about to look for its place, or to copy. *)
Ready(q) == /\ q.op = "upload" => q.key \in DOMAIN blob
            /\ KnownFolder(q.dir)
            /\ \A p \in q.queue : KnownFolder(p[2])
            /\ \A t \in q.todo : KnownFolder(t.dst)

LEMMA ReadyHolds ==
  ASSUME NEW q, Ready(q), q.at \notin {"upload", "copied", "tx"}
  PROVE  Holds(q)
  BY DEF Ready, Holds

LEMMA ResolvingHolds ==
  ASSUME NEW q \in Request, Ready(q)
  PROVE  Holds(Resolving(q)) /\ Ready(Resolving(q))
<1>1. /\ Resolving(q).op = q.op /\ Resolving(q).key = q.key /\ Resolving(q).dir = q.dir
      /\ Resolving(q).queue = q.queue /\ Resolving(q).todo = q.todo
      /\ Resolving(q).at \notin {"upload", "copied", "tx"}
  BY DEF Resolving, AfterResolve, Request
<1>2. Ready(Resolving(q))
  BY <1>1 DEF Ready
<1>3. QED
  BY <1>1, <1>2, ReadyHolds

LEMMA HoldsReady ==
  ASSUME CatalogInv, HeldInv, NEW r \in Requests
  PROVE  /\ req[r] \in Request /\ Prepared(req[r]) /\ Holds(req[r])
         /\ req[r].at # "put" => Ready(req[r])
  BY RequestType DEF HeldInv, AllHold, Holds, Ready

(* A new row refers to what is there. *)
LEMMA InsertHeld ==
  ASSUME CatalogInv, HeldInv, NEW e \in Entry, Insert(e), DOMAIN blob \subseteq DOMAIN blob',
         e.folder \/ e.key \in DOMAIN blob', KnownFolder(e.dir)
  PROVE  /\ Grows /\ BlobBehindEntry' /\ ParentIsFolder'
         /\ e.folder => \A d : d = nextId => KnownFolder(d)'
<1>1. /\ nextId \in Ids /\ files[nextId] = None /\ recycled[nextId] = None /\ recycled' = recycled
      /\ files \in [Ids -> Entry \cup {None}] /\ files' = [files EXCEPT ![nextId] = e]
  BY BoundsAssumption DEF Insert, CatalogInv, TablesInv, OneHome, Ids
<1>2. e # None
  BY NoneAssumption
<1>3. \A i \in Ids : IsFolder(i) => IsFolder(i)'
  BY <1>1 DEF IsFolder
<1>4. Grows
  BY <1>1, <1>3, BoundsAssumption DEF Grows, Ids
<1>5. BlobBehindEntry'
  BY <1>1 DEF HeldInv, BlobBehindEntry
<1>6. ParentIsFolder'
  <2> SUFFICES ASSUME NEW i \in Ids, files'[i] # None, files'[i].dir # 0
               PROVE  IsFolder(files[i].dir)' 
    BY DEF ParentIsFolder, Live
  <2>1. PICK d : d = files'[i].dir
    OBVIOUS
  <2>2. d \in Ids /\ IsFolder(d)
    <3>1. CASE i = nextId
      BY <1>1, <2>1, <3>1 DEF KnownFolder
    <3>2. CASE i # nextId
      <4>1. files'[i] = files[i] /\ i \in Live /\ files[i] \in Entry
        BY <1>1, <3>2 DEF Live
      <4>2. QED
        BY <2>1, <4>1, BoundsAssumption DEF HeldInv, ParentIsFolder, Entry, Ids, Dir
    <3>3. QED
      BY <3>1, <3>2
  <2>3. IsFolder(d)'
    BY <1>3, <2>2
  <2>4. QED
    BY <2>1, <2>3 DEF IsFolder
<1>7. e.folder => \A d : d = nextId => KnownFolder(d)'
  BY <1>1, <1>2 DEF KnownFolder, IsFolder
<1>8. QED
  BY <1>4, <1>5, <1>6, <1>7

(* A row that changes keeps its kind and its blob. *)
LEMMA ChangeHeld ==
  ASSUME CatalogInv, HeldInv, NEW i \in Live, NEW e \in Entry, files' = [files EXCEPT ![i] = e],
         UNCHANGED <<recycled, blob>>, e.folder = files[i].folder, e.key = files[i].key,
         KnownFolder(e.dir)
  PROVE  Grows /\ BlobBehindEntry' /\ ParentIsFolder'
<1>1. /\ i \in Ids /\ files[i] # None /\ files[i] \in Entry
      /\ files \in [Ids -> Entry \cup {None}]
  BY DEF Live, CatalogInv, TablesInv
<1>2. e # None
  BY NoneAssumption
<1>3. \A j \in Ids : IsFolder(j) => IsFolder(j)'
  BY <1>1, <1>2 DEF IsFolder
<1>4. Grows
  BY <1>1, <1>3 DEF Grows
<1>5. BlobBehindEntry'
  BY <1>1 DEF HeldInv, BlobBehindEntry
<1>6. ParentIsFolder'
  <2> SUFFICES ASSUME NEW j \in Ids, files'[j] # None, files'[j].dir # 0
               PROVE  IsFolder(files[j].dir)'
    BY DEF ParentIsFolder, Live
  <2>1. PICK d : d = files'[j].dir
    OBVIOUS
  <2>2. d \in Ids /\ IsFolder(d)
    <3>1. CASE j = i
      BY <1>1, <2>1, <3>1 DEF KnownFolder
    <3>2. CASE j # i
      <4>1. files'[j] = files[j] /\ j \in Live /\ files[j] \in Entry
        BY <1>1, <3>2 DEF Live, CatalogInv, TablesInv
      <4>2. QED
        BY <2>1, <4>1, BoundsAssumption DEF HeldInv, ParentIsFolder, Entry, Ids, Dir
    <3>3. QED
      BY <3>1, <3>2
  <2>3. IsFolder(d)'
    BY <1>3, <2>2
  <2>4. QED
    BY <2>1, <2>3 DEF IsFolder
<1>7. QED
  BY <1>4, <1>5, <1>6

-----------------------------------------------------------------------------
(* Every action keeps it: the arrivals, *)
LEMMA ArrivesHeld ==
  ASSUME CatalogInv, HeldInv, NEW r \in Requests, Arrives(r)
  PROVE  HeldInv'
<1>1. ASSUME NEW q, Holds(q), Begin(r, q) PROVE HeldInv'
  BY <1>1, ReadsHeld DEF Begin, tables
<1>2. ASSUME NEW q \in Request, Ready(q), Begin(r, Resolving(q)) PROVE HeldInv'
  <2>1. PICK p : p = Resolving(q)
    OBVIOUS
  <2>2. Holds(p) /\ Begin(r, p)
    BY <1>2, <2>1, ResolvingHolds
  <2>3. QED
    BY <2>2, <1>1
<1>3. ASSUME NEW t \in Targets, Upload(r, t[1], t[2]) PROVE HeldInv'
  <2>1. Holds([Idle EXCEPT !.op = "upload", !.at = "put", !.rest = t[1], !.name = Plain(t[2]),
                           !.key = PathKey(t[1], t[2]), !.md5 = arrived + 1])
    BY DEF Holds, Idle, KnownFolder
  <2>2. QED
    BY <1>1, <1>3, <2>1 DEF Upload
<1>4. ASSUME NEW t \in Targets, CreateFolder(r, t[1], t[2]) PROVE HeldInv'
  <2> DEFINE q == [Idle EXCEPT !.op = "folder", !.rest = t[1], !.name = Plain(t[2])]
  <2>1. t[1] \in Seq(Bases) /\ Plain(t[2]) \in Name
    BY TargetsAssumption, PlainType
  <2>2. q \in Request /\ Ready(q)
    BY <2>1, IdleType DEF Request, Ready, Idle, KnownFolder
  <2>3. Begin(r, Resolving(q))
    BY <1>4 DEF CreateFolder
  <2> HIDE DEF q
  <2>4. QED
    BY <1>2, <2>2, <2>3
<1>5. ASSUME NEW t \in Targets, NEW op \in {"move", "copy"}, NEW i \in 1 .. nextId - 1,
             MoveOrCopy(r, op, i, t[1], t[2])
      PROVE  HeldInv'
  <2>1. Holds([Idle EXCEPT !.op = op, !.at = "source", !.id = i, !.rest = t[1],
                           !.name = Plain(t[2])])
    BY DEF Holds, Idle, KnownFolder
  <2>2. QED
    BY <1>1, <1>5, <2>1 DEF MoveOrCopy
<1>6. ASSUME NEW i \in 1 .. nextId - 1, Delete(r, i) PROVE HeldInv'
  <2>1. Holds([Idle EXCEPT !.op = "delete", !.at = "source", !.id = i])
    BY DEF Holds, Idle, KnownFolder
  <2>2. QED
    BY <1>1, <1>6, <2>1 DEF Delete
<1>7. QED
  BY <1>3, <1>4, <1>5, <1>6 DEF Arrives

(* the steps that read, *)
LEMMA GoesHeld ==
  ASSUME CatalogInv, HeldInv, NEW r \in Requests, req[r].at # "put", Reads, NEW at,
         at \notin {"copied", "tx"}, at = "upload" => req[r].op = "upload", Goes(r, at)
  PROVE  HeldInv'
<1>1. Holds([req[r] EXCEPT !.at = at])
  BY HoldsReady DEF Ready, Holds, Request
<1>2. QED
  BY <1>1, ReadsHeld DEF Goes, Becomes, Reads, tables

LEMMA GetSourceHeld ==
  ASSUME CatalogInv, HeldInv, NEW r \in Requests, GetSource(r)
  PROVE  HeldInv'
<1> DEFINE q == req[r]
           e == files[q.id]
<1>1. /\ q \in Request /\ Prepared(q) /\ Ready(q) /\ q.at = "source"
      /\ Reads /\ UNCHANGED <<files, recycled, blob>>
  BY HoldsReady DEF GetSource, At, Reads, tables
<1>2. CASE Ends(r)
  BY <1>1, <1>2, EndsHeld
<1>3. CASE e # None /\ q.op = "delete"
  <2>1. Holds([q EXCEPT !.at = "list", !.queue = {<<q.id, 0>>}])
    BY <1>1, <1>3 DEF Holds, Ready, Request, KnownFolder
  <2>2. Holds([q EXCEPT !.at = "soft"])
    BY <1>1, <1>3 DEF Holds, Ready, Request
  <2>3. QED
    BY <1>1, <1>3, <2>1, <2>2, ReadsHeld DEF GetSource, Becomes
<1>4. CASE e # None /\ Becomes(r, Resolving([q EXCEPT !.row = e]))
  <2>1. e \in Entry
    BY <1>1, <1>4, TablesType DEF Prepared
  <2>2. [q EXCEPT !.row = e] \in Request /\ Ready([q EXCEPT !.row = e])
    BY <1>1, <2>1 DEF Request, Ready
  <2>3. Holds(Resolving([q EXCEPT !.row = e]))
    BY <2>2, ResolvingHolds
  <2>4. QED
    BY <1>1, <1>4, <2>3, ReadsHeld DEF Becomes
<1>5. QED
  BY <1>2, <1>3, <1>4 DEF GetSource

LEMMA EnteredRequest ==
  ASSUME NEW q \in Request, q.rest # <<>>, NEW d \in Dir
  PROVE  [q EXCEPT !.rest = Tail(@), !.dir = d] \in Request
<1>1. Tail(q.rest) \in Seq(Bases)
  BY DEF Request
<1>2. QED
  BY <1>1 DEF Request

LEMMA LookupHeld ==
  ASSUME CatalogInv, HeldInv, NEW r \in Requests, Lookup(r)
  PROVE  HeldInv'
<1> DEFINE q == req[r]
<1>1. /\ q \in Request /\ Prepared(q) /\ Ready(q) /\ q.at = "resolve"
      /\ Reads /\ UNCHANGED <<files, recycled, blob>>
  BY HoldsReady DEF Lookup, At, Reads, tables
<1>2. ASSUME NEW i \in Live, files[i].folder, Becomes(r, Entered(q, i)) PROVE HeldInv'
  <2> DEFINE p == [q EXCEPT !.rest = Tail(@), !.dir = i]
  <2>1. i \in Dir /\ KnownFolder(i)
    BY <1>2, TablesType DEF KnownFolder, IsFolder, Live
  <2>2. p \in Request
    BY <1>1, <2>1, EnteredRequest DEF Prepared
  <2>3. Ready(p)
    BY <1>1, <2>1 DEF Ready, Request
  <2>4. Becomes(r, Resolving(p))
    BY <1>2 DEF Entered
  <2> HIDE DEF p
  <2>5. Holds(Resolving(p))
    BY <2>2, <2>3, ResolvingHolds
  <2>6. QED
    BY <1>1, <2>4, <2>5, ReadsHeld DEF Becomes
<1>3. CASE Ends(r)
  BY <1>1, <1>3, EndsHeld
<1>4. CASE Goes(r, "mkdir")
  BY <1>1, <1>4, GoesHeld
<1>5. QED
  BY <1>2, <1>3, <1>4 DEF Lookup, Named, Children

LEMMA AncestorsHeld ==
  ASSUME CatalogInv, HeldInv, NEW r \in Requests, Ancestors(r)
  PROVE  HeldInv'
<1> DEFINE q == req[r]
<1>1. /\ q \in Request /\ Ready(q) /\ q.at = "ancestors"
      /\ Reads /\ UNCHANGED <<files, recycled, blob>>
  BY HoldsReady DEF Ancestors, At, Reads, tables
<1>2. CASE Ends(r)
  BY <1>1, <1>2, EndsHeld
<1>3. CASE Becomes(r, [q EXCEPT !.found = files[q.found].dir, !.levels = @ + 1])
  <2>1. Holds([q EXCEPT !.found = files[q.found].dir, !.levels = @ + 1])
    BY <1>1 DEF Holds, Ready, Request
  <2>2. QED
    BY <1>1, <1>3, <2>1, ReadsHeld DEF Becomes
<1>4. CASE Goes(r, "check")
  BY <1>1, <1>4, GoesHeld
<1>5. QED
  BY <1>2, <1>3, <1>4 DEF Ancestors

LEMMA CheckNameHeld ==
  ASSUME CatalogInv, HeldInv, NEW r \in Requests, CheckName(r)
  PROVE  HeldInv'
<1> DEFINE q == req[r]
<1>1. /\ q \in Request /\ Prepared(q) /\ Ready(q) /\ q.at = "check"
      /\ Reads /\ UNCHANGED <<files, recycled, blob>>
  BY HoldsReady DEF CheckName, At, Reads, tables
<1>2. ASSUME NEW i, Becomes(r, [q EXCEPT !.at = "update", !.found = i]) PROVE HeldInv'
  <2>1. Holds([q EXCEPT !.at = "update", !.found = i])
    BY <1>1 DEF Holds, Ready, Request
  <2>2. QED
    BY <1>1, <1>2, <2>1, ReadsHeld DEF Becomes
<1>3. CASE Ends(r)
  BY <1>1, <1>3, EndsHeld
<1>4. CASE Goes(r, "similar")
  BY <1>1, <1>4, GoesHeld
<1>5. CASE Goes(r, q.op)
  <2>1. q.op \notin {"copied", "tx"}
    BY <1>1 DEF Request
  <2>2. QED
    BY <1>1, <1>5, <2>1, GoesHeld
<1>6. QED
  BY <1>2, <1>3, <1>4, <1>5 DEF CheckName

LEMMA FindSimilarHeld ==
  ASSUME CatalogInv, HeldInv, NEW r \in Requests, FindSimilar(r)
  PROVE  HeldInv'
<1> DEFINE q == req[r]
<1>1. /\ q \in Request /\ Ready(q) /\ q.at = "similar"
      /\ Reads /\ UNCHANGED <<files, recycled, blob>>
  BY HoldsReady DEF FindSimilar, At, Reads, tables
<1>2. PICK m : Becomes(r, [q EXCEPT !.at = q.op, !.name = m])
  BY DEF FindSimilar
<1>3. Holds([q EXCEPT !.at = q.op, !.name = m])
  BY <1>1 DEF Holds, Ready, Request
<1>4. QED
  BY <1>1, <1>2, <1>3, ReadsHeld DEF Becomes

LEMMA StartCopyHeld ==
  ASSUME CatalogInv, HeldInv, NEW r \in Requests, StartCopy(r)
  PROVE  HeldInv'
<1> DEFINE q == req[r]
           p == [q EXCEPT !.at = "copying",
                   !.todo = {[id |-> q.id, row |-> [q.row EXCEPT !.name = q.name], dst |-> q.dir]}]
<1>1. /\ q \in Request /\ Ready(q) /\ UNCHANGED <<files, recycled, blob>>
  BY HoldsReady DEF StartCopy, At, Reads, tables
<1>2. Holds(p)
  BY <1>1 DEF Holds, Ready, Request
<1>3. Becomes(r, p)
  BY DEF StartCopy
<1> HIDE DEF p
<1>4. QED
  BY <1>1, <1>2, <1>3, ReadsHeld DEF Becomes

LEMMA ListRecursiveHeld ==
  ASSUME CatalogInv, HeldInv, NEW r \in Requests, ListRecursive(r)
  PROVE  HeldInv'
<1> DEFINE q == req[r]
<1>1. /\ q \in Request /\ Ready(q) /\ q.at = "list" /\ UNCHANGED <<files, recycled, blob>>
  BY HoldsReady DEF ListRecursive, At, Reads, tables
<1>2. PICK p \in q.queue :
        LET new == Listed(p[1], 0)
            queue == (q.queue \ {p}) \cup {<<t.id, 0>> : t \in {t \in new : t.row.folder}}
        IN  Becomes(r, [q EXCEPT !.queue = queue, !.todo = @ \cup new,
                                 !.at = IF queue = {} THEN "soft" ELSE "list"])
  BY DEF ListRecursive
<1> DEFINE new == Listed(p[1], 0)
           queue == (q.queue \ {p}) \cup {<<t.id, 0>> : t \in {t \in new : t.row.folder}}
           at == IF queue = {} THEN "soft" ELSE "list"
           next == [q EXCEPT !.queue = queue, !.todo = @ \cup new, !.at = at]
<1>3. KnownFolder(0)
  BY DEF KnownFolder
<1>4. \A t \in new : t.dst = 0
  BY DEF Listed
<1>5. Becomes(r, next)
  BY <1>2
<1> HIDE DEF new
<1>6. \A s \in queue : KnownFolder(s[2])
  BY <1>1, <1>3 DEF Ready
<1>7. at \in {"soft", "list"}
  OBVIOUS
<1> HIDE DEF queue, at
<1>8. Holds(next)
  BY <1>1, <1>3, <1>4, <1>6, <1>7 DEF Holds, Ready, Request
<1> HIDE DEF next
<1>9. QED
  BY <1>1, <1>5, <1>8, ReadsHeld DEF Becomes

LEMMA GetDeletedHeld ==
  ASSUME CatalogInv, HeldInv, NEW r \in Requests, GetDeleted(r)
  PROVE  HeldInv'
<1> DEFINE q == req[r]
<1>1. /\ q \in Request /\ Ready(q) /\ q.at = "soft" /\ UNCHANGED <<files, recycled, blob>>
  BY HoldsReady DEF GetDeleted, At, Reads, tables
<1>2. CASE Ends(r)
  BY <1>1, <1>2, EndsHeld
<1>3. ASSUME NEW i \in Live, Becomes(r, [q EXCEPT !.at = "tx", !.found = i, !.row = files[i]])
      PROVE  HeldInv'
  <2> DEFINE p == [q EXCEPT !.at = "tx", !.found = i, !.row = files[i]]
  <2>1. i \in Ids /\ files[i] # None
    BY DEF Live
  <2>2. Stored(files[i])
    BY <2>1 DEF HeldInv, BlobBehindEntry, Stored
  <2>3. /\ p.at = "tx" /\ p.row = files[i] /\ p.found = i /\ p.op = q.op /\ p.key = q.key
        /\ p.dir = q.dir /\ p.queue = q.queue /\ p.todo = q.todo
    BY <1>1 DEF Request
  <2>4. Becomes(r, p)
    BY <1>3
  <2> HIDE DEF p
  <2>5. Holds(p)
    BY <1>1, <2>2, <2>3 DEF Holds, Ready
  <2>6. QED
    BY <1>1, <2>4, <2>5, ReadsHeld DEF Becomes
<1>4. QED
  BY <1>2, <1>3 DEF GetDeleted

(* the steps that write, *)
LEMMA StoreHeld ==
  ASSUME CatalogInv, HeldInv, NEW k, NEW v, Store(k, v), UNCHANGED <<files, recycled>>
  PROVE  /\ Grows /\ BlobBehindEntry' /\ ParentIsFolder'
         /\ k \in DOMAIN blob' /\ \A d : KnownFolder(d) => KnownFolder(d)'
<1>1. DOMAIN blob' = DOMAIN blob \cup {k}
  BY DEF Store
<1>2. \A i \in Ids : IsFolder(i) <=> IsFolder(i)'
  BY DEF IsFolder
<1>3. Grows
  BY <1>1, <1>2 DEF Grows
<1>4. BlobBehindEntry' /\ ParentIsFolder'
  BY <1>1, <1>2 DEF HeldInv, BlobBehindEntry, ParentIsFolder, Live, IsFolder
<1>5. \A d : KnownFolder(d) => KnownFolder(d)'
  BY <1>2 DEF KnownFolder
<1>6. QED
  BY <1>1, <1>3, <1>4, <1>5

LEMMA PutHeld ==
  ASSUME CatalogInv, HeldInv, NEW r \in Requests, Put(r)
  PROVE  HeldInv'
<1> DEFINE q == req[r]
<1>1. /\ q \in Request /\ Holds(q) /\ Store(q.key, q.md5)
      /\ UNCHANGED <<files, recycled>> /\ Becomes(r, Resolving(q))
  BY HoldsReady DEF Put, tables
<1>2. /\ Grows /\ BlobBehindEntry' /\ ParentIsFolder'
      /\ q.key \in DOMAIN blob' /\ \A d : KnownFolder(d) => KnownFolder(d)'
  BY <1>1, StoreHeld
<1>3. PICK p : p = Resolving(q)
  OBVIOUS
<1>4. p.key = q.key /\ p.dir = q.dir /\ p.queue = q.queue /\ p.todo = q.todo
      /\ p.at \notin {"upload", "copied", "tx"}
  BY <1>1, <1>3 DEF Resolving, AfterResolve, Request
<1>5. Holds(p)'
  BY <1>1, <1>2, <1>4 DEF Holds
<1>6. QED
  BY <1>1, <1>2, <1>3, <1>5, HeldStep DEF Becomes

(* What a request still holds after a step of its own. *)
LEMMA ReadyKept ==
  ASSUME Grows, NEW q, Ready(q)
  PROVE  /\ q.op = "upload" => q.key \in DOMAIN blob'
         /\ KnownFolder(q.dir)'
         /\ \A p \in q.queue : KnownFolder(p[2])'
         /\ \A t \in q.todo : KnownFolder(t.dst)'
<1>1. \A d : KnownFolder(d) => KnownFolder(d)'
  BY DEF Grows, KnownFolder
<1>2. QED
  BY <1>1 DEF Ready, Grows

LEMMA IdleHeld ==
  ASSUME CatalogInv, HeldInv, Grows, BlobBehindEntry', ParentIsFolder', NEW r \in Requests,
         Ends(r)
  PROVE  HeldInv'
<1>1. PICK p : p = Idle
  OBVIOUS
<1>2. Holds(p)'
  BY <1>1 DEF Holds, Idle, KnownFolder
<1>3. QED
  BY <1>1, <1>2, HeldStep DEF Ends, Becomes

LEMMA MkdirHeld ==
  ASSUME CatalogInv, HeldInv, NEW r \in Requests, Mkdir(r)
  PROVE  HeldInv'
<1>1. PICK q : q = req[r]
  OBVIOUS
<1>2. PICK i : i = nextId
  OBVIOUS
<1> DEFINE e == Folder(q.dir, Plain(Head(q.rest)))
           w == [q EXCEPT !.rest = Tail(@), !.dir = i]
<1>3. q \in Request /\ Prepared(q) /\ Ready(q) /\ Insert(e) /\ blob' = blob /\ i \in Dir
      /\ q.at = "mkdir" /\ Becomes(r, Resolving(w))
  BY <1>1, <1>2, HoldsReady, BoundsAssumption DEF Mkdir, At, Entered, Insert, Ids, Dir
<1>4. Head(q.rest) \in Bases /\ q.dir \in Dir
  BY <1>3 DEF Prepared, Request
<1>5. e \in Entry /\ e.folder /\ e.dir = q.dir
  BY <1>4, PlainType, FolderType DEF Folder
<1>6. /\ Grows /\ BlobBehindEntry' /\ ParentIsFolder'
      /\ KnownFolder(i)'
  BY <1>2, <1>3, <1>5, InsertHeld DEF Ready
<1>7. w \in Request /\ w.op = q.op /\ w.key = q.key /\ w.dir = i /\ w.queue = q.queue
      /\ w.todo = q.todo
  BY <1>3, EnteredRequest DEF Prepared, Request
<1> HIDE DEF w, e
<1>8. PICK p : p = Resolving(w)
  OBVIOUS
<1>9. /\ p.op = q.op /\ p.key = q.key /\ p.dir = i /\ p.queue = q.queue /\ p.todo = q.todo
      /\ p.at \notin {"upload", "copied", "tx"}
  BY <1>7, <1>8 DEF Resolving, AfterResolve, Request
<1>10. Holds(p)'
  BY <1>3, <1>6, <1>9, ReadyKept DEF Holds
<1>11. QED
  BY <1>3, <1>6, <1>8, <1>10, HeldStep DEF Becomes

LEMMA UpdateFileMD5Held ==
  ASSUME CatalogInv, HeldInv, NEW r \in Requests, UpdateFileMD5(r)
  PROVE  HeldInv'
<1> DEFINE i == req[r].found
           e == [files[i] EXCEPT !.md5 = req[r].md5]
<1>1. CASE i \in Live
  <2>1. i \in Ids /\ files[i] \in Entry /\ req[r] \in Request /\ files[i].dir \in Dir
    BY <1>1, TablesType, RequestType DEF Entry
  <2>2. e \in Entry /\ e.folder = files[i].folder /\ e.key = files[i].key /\ e.dir = files[i].dir
    BY <2>1 DEF Entry, Request
  <2>3. files' = [files EXCEPT ![i] = e]
    BY <1>1 DEF UpdateFileMD5
  <2>4. KnownFolder(e.dir)
    BY <1>1, <2>1, <2>2, BoundsAssumption DEF HeldInv, ParentIsFolder, KnownFolder, Ids, Dir
  <2> HIDE DEF e
  <2>5. QED
    BY <1>1, <2>2, <2>3, <2>4, ChangeHeld, IdleHeld DEF UpdateFileMD5
<1>2. CASE i \notin Live
  BY <1>2, EndsHeld DEF UpdateFileMD5
<1>3. QED
  BY <1>1, <1>2

LEMMA MoveFileHeld ==
  ASSUME CatalogInv, HeldInv, NEW r \in Requests, MoveFile(r)
  PROVE  HeldInv'
<1> DEFINE q == req[r]
           e == [files[q.id] EXCEPT !.dir = q.dir, !.name = q.name]
<1>1. q \in Request /\ Prepared(q) /\ Ready(q) /\ q.at = "move"
  BY HoldsReady DEF MoveFile, At
<1>2. CASE q.id \in Live
  <2>1. files[q.id] \in Entry /\ q.name \in Name
    BY <1>1, <1>2, TablesType DEF Prepared, Placing
  <2>2. e \in Entry /\ e.folder = files[q.id].folder /\ e.key = files[q.id].key /\ e.dir = q.dir
    BY <1>1, <2>1 DEF Entry, Request
  <2>3. files' = [files EXCEPT ![q.id] = e]
    BY <1>2 DEF MoveFile
  <2> HIDE DEF e
  <2>4. QED
    BY <1>1, <1>2, <2>2, <2>3, ChangeHeld, IdleHeld DEF MoveFile, Ready
<1>3. CASE q.id \notin Live
  BY <1>3, EndsHeld DEF MoveFile
<1>4. QED
  BY <1>2, <1>3

LEMMA CreateFileHeld ==
  ASSUME CatalogInv, HeldInv, NEW r \in Requests, CreateFile(r)
  PROVE  HeldInv'
<1> DEFINE q == req[r]
           e == [dir |-> q.dir, name |-> q.name, key |-> q.key, md5 |-> q.md5, folder |-> FALSE]
<1>1. q \in Request /\ Prepared(q) /\ Ready(q) /\ q.at = "upload" /\ q.op = "upload"
  BY HoldsReady DEF CreateFile, At, Holds
<1>2. e \in Entry /\ e.key \in DOMAIN blob /\ e.dir = q.dir
  BY <1>1 DEF Entry, Request, Prepared, Placing, Ready
<1>3. Insert(e) /\ Ends(r) /\ blob' = blob
  BY DEF CreateFile
<1> HIDE DEF e
<1>4. QED
  BY <1>1, <1>2, <1>3, InsertHeld, IdleHeld DEF Ready

LEMMA InsertFolderHeld ==
  ASSUME CatalogInv, HeldInv, NEW r \in Requests, InsertFolder(r)
  PROVE  HeldInv'
<1> DEFINE q == req[r]
           e == Folder(q.dir, q.name)
<1>1. q \in Request /\ Prepared(q) /\ Ready(q) /\ q.at = "folder"
  BY HoldsReady DEF InsertFolder, At
<1>2. e \in Entry /\ e.folder /\ e.dir = q.dir
  BY <1>1, FolderType DEF Request, Prepared, Placing, Folder
<1>3. Insert(e) /\ Ends(r) /\ blob' = blob
  BY DEF InsertFolder
<1> HIDE DEF e
<1>4. QED
  BY <1>1, <1>2, <1>3, InsertHeld, IdleHeld DEF Ready

LEMMA CopyingHeld ==
  ASSUME CatalogInv, HeldInv, Grows, BlobBehindEntry', ParentIsFolder', NEW r \in Requests,
         NEW q, q.at = "copying", Copying(r, q), q.op = "upload" => q.key \in DOMAIN blob',
         KnownFolder(q.dir)', \A p \in q.queue : KnownFolder(p[2])',
         \A t \in q.todo : KnownFolder(t.dst)'
  PROVE  HeldInv'
<1>1. CASE Ends(r)
  BY <1>1, IdleHeld
<1>2. CASE Becomes(r, q)
  <2>1. Holds(q)'
    BY DEF Holds
  <2>2. QED
    BY <1>2, <2>1, HeldStep DEF Becomes
<1>3. QED
  BY <1>1, <1>2 DEF Copying

LEMMA CopyFolderHeld ==
  ASSUME CatalogInv, HeldInv, NEW r \in Requests, req[r].at = "copying", NEW t \in req[r].todo,
         CopyFolder(r, t)
  PROVE  HeldInv'
<1>1. PICK q : q = req[r]
  OBVIOUS
<1>2. PICK i : i = nextId
  OBVIOUS
<1>3. PICK p : p = [q EXCEPT !.todo = @ \ {t}, !.queue = @ \cup {<<t.id, i>>}]
  OBVIOUS
<1> DEFINE e == Folder(t.dst, t.row.name)
<1>4. q \in Request /\ Ready(q) /\ t \in q.todo /\ t \in Work
  BY <1>1, HoldsReady DEF Request
<1>5. e \in Entry /\ e.folder /\ e.dir = t.dst /\ Insert(e) /\ blob' = blob
  BY <1>4, FolderType DEF Work, Entry, Folder, CopyFolder
<1> HIDE DEF e
<1>6. Grows /\ BlobBehindEntry' /\ ParentIsFolder' /\ KnownFolder(i)'
  BY <1>2, <1>4, <1>5, InsertHeld DEF Ready
<1>7. /\ p.at = "copying" /\ p.op = q.op /\ p.key = q.key /\ p.dir = q.dir
      /\ p.todo \subseteq q.todo /\ \A s \in p.queue : s \in q.queue \/ s = <<t.id, i>>
  BY <1>1, <1>3, <1>4 DEF Request
<1>8. Copying(r, p)
  BY <1>1, <1>2, <1>3 DEF CopyFolder
<1>9. \A s \in p.queue : KnownFolder(s[2])'
  BY <1>4, <1>6, <1>7, ReadyKept
<1>10. QED
  BY <1>4, <1>6, <1>7, <1>8, <1>9, ReadyKept, CopyingHeld

LEMMA CopyBlobHeld ==
  ASSUME CatalogInv, HeldInv, NEW r \in Requests, NEW t \in req[r].todo, CopyBlob(r, t)
  PROVE  HeldInv'
<1>1. PICK q : q = req[r]
  OBVIOUS
<1>2. q \in Request /\ t \in Work /\ t \in q.todo /\ Holds(q) /\ UNCHANGED <<files, recycled>>
  BY <1>1, CopyBlobStep, HoldsReady DEF tables
<1>3. PICK k \in Key, v \in 1 .. MaxRequests :
        Store(k, v) /\ Becomes(r, WithBlob(q, t, k, v)) /\ v \in 0 .. MaxRequests
  BY <1>1, CopyBlobStep
<1>4. PICK p : p = WithBlob(q, t, k, v)
  OBVIOUS
<1>5. /\ p.at = "copied" /\ p.dir = t.dst /\ p.key = k
      /\ p.queue = q.queue /\ p.todo = q.todo
  BY <1>2, <1>3, <1>4, WithBlobType
<1>6. /\ Grows /\ BlobBehindEntry' /\ ParentIsFolder'
      /\ k \in DOMAIN blob' /\ \A d : KnownFolder(d) => KnownFolder(d)'
  BY <1>2, <1>3, StoreHeld
<1>7. Holds(p)'
  BY <1>2, <1>5, <1>6 DEF Holds
<1>8. QED
  BY <1>3, <1>4, <1>6, <1>7, HeldStep DEF Becomes

LEMMA CopyRowHeld ==
  ASSUME CatalogInv, HeldInv, NEW r \in Requests, CopyRow(r)
  PROVE  HeldInv'
<1>1. PICK q : q = req[r]
  OBVIOUS
<1>2. PICK p : p = Copies(q)
  OBVIOUS
<1>3. PICK e : e = RowCopied(q)
  OBVIOUS
<1>4. /\ q \in Request /\ q.at = "copied" /\ e \in Entry /\ Insert(e)
      /\ e.dir = q.dir /\ e.key = q.key /\ UNCHANGED <<blob, arrived>>
      /\ p.at = "copying" /\ p.op = q.op /\ p.key = q.key /\ p.dir = q.dir
      /\ p.queue = q.queue /\ p.todo \subseteq q.todo /\ Copying(r, p)
  BY <1>1, <1>2, <1>3, CopyRowStep
<1>5. Holds(q) /\ Ready(q) /\ q.key \in DOMAIN blob
  BY <1>1, <1>4, HoldsReady DEF Holds
<1>6. Grows /\ BlobBehindEntry' /\ ParentIsFolder'
  BY <1>4, <1>5, InsertHeld DEF Ready
<1>7. QED
  BY <1>4, <1>5, <1>6, ReadyKept, CopyingHeld

LEMMA CopyChildrenHeld ==
  ASSUME CatalogInv, HeldInv, NEW r \in Requests, req[r].at = "copying", NEW s \in req[r].queue,
         CopyChildren(r, s)
  PROVE  HeldInv'
<1>1. PICK q : q = req[r]
  OBVIOUS
<1>2. PICK p : p = [q EXCEPT !.queue = @ \ {s}, !.todo = @ \cup Listed(s[1], s[2])]
  OBVIOUS
<1>3. /\ q \in Request /\ Ready(q) /\ s \in q.queue
      /\ UNCHANGED <<files, recycled, blob>>
  BY <1>1, HoldsReady DEF CopyChildren, tables
<1>4. Grows /\ BlobBehindEntry' /\ ParentIsFolder'
  BY <1>3, StaysHeld
<1>5. \A t \in Listed(s[1], s[2]) : t.dst = s[2]
  BY DEF Listed
<1>6. /\ p.at = "copying" /\ p.op = q.op /\ p.key = q.key /\ p.dir = q.dir
      /\ p.queue \subseteq q.queue /\ \A t \in p.todo : t \in q.todo \/ t.dst = s[2]
  BY <1>1, <1>2, <1>3, <1>5 DEF Request
<1>7. Copying(r, p)
  BY <1>1, <1>2 DEF CopyChildren
<1>8. \A t \in p.todo : KnownFolder(t.dst)'
  BY <1>3, <1>4, <1>6, ReadyKept
<1>9. QED
  BY <1>3, <1>4, <1>6, <1>7, <1>8, ReadyKept, CopyingHeld

(* The row goes from one table to the other as it was read, and what was   *)
(* read has the kind of the row that is there.                             *)
LEMMA SoftDeleteHeld ==
  ASSUME CatalogInv, HeldInv, NEW r \in Requests, SoftDelete(r)
  PROVE  HeldInv'
<1>1. PICK q : q = req[r]
  OBVIOUS
<1>2. PICK i : i = q.found
  OBVIOUS
<1>3. /\ q \in Request /\ Prepared(q) /\ Holds(q) /\ Ready(q) /\ q.at = "tx" /\ blob' = blob
      /\ i \in Ids /\ i < nextId
      /\ q.row \in Entry
  BY <1>1, <1>2, HoldsReady
     DEF SoftDelete, At, Prepared, CatalogInv, RequestsInv, FoundKnown
<1>4. CASE recycled[i] # None
  <2>1. Ends(r) /\ UNCHANGED <<files, recycled, blob>>
    BY <1>1, <1>2, <1>3, <1>4 DEF SoftDelete
  <2>2. QED
    BY <2>1, EndsHeld
<1>5. CASE recycled[i] = None
  <2>1. /\ recycled' = [recycled EXCEPT ![i] = q.row] /\ files' = [files EXCEPT ![i] = None]
        /\ Deleted(r, i)
    BY <1>1, <1>2, <1>5 DEF SoftDelete
  <2>2. /\ i \in Live /\ files[i].folder = q.row.folder
        /\ files \in [Ids -> Entry \cup {None}] /\ recycled \in [Ids -> Entry \cup {None}]
    BY <1>2, <1>3, <1>5 DEF CatalogInv, TablesInv, OneHome, Live, Holds
  <2>3. q.row # None
    BY <1>3, NoneAssumption
  <2>4. \A j \in Ids : IsFolder(j) => IsFolder(j)'
    <3> SUFFICES ASSUME NEW j \in Ids, IsFolder(j) PROVE IsFolder(j)'
      OBVIOUS
    <3>1. CASE j = i
      <4>1. q.row.folder
        BY <1>5, <2>2, <3>1 DEF IsFolder
      <4>2. recycled'[j] = q.row
        BY <2>1, <2>2, <3>1
      <4>3. QED
        BY <2>3, <4>1, <4>2 DEF IsFolder
    <3>2. CASE j # i
      <4>1. recycled'[j] = recycled[j] /\ files'[j] = files[j]
        BY <2>1, <2>2, <3>2
      <4>2. QED
        BY <4>1 DEF IsFolder
    <3>3. QED
      BY <3>1, <3>2
  <2>5. Grows
    BY <1>3, <2>1, <2>2, <2>4 DEF Grows
  <2>6. BlobBehindEntry'
    BY <1>3, <2>1, <2>2 DEF HeldInv, BlobBehindEntry, Holds, Stored
  <2>7. ParentIsFolder'
    <3> SUFFICES ASSUME NEW j \in Ids, files'[j] # None, files'[j].dir # 0
                 PROVE  IsFolder(files[j].dir)'
      BY DEF ParentIsFolder, Live
    <3>1. files'[j] = files[j] /\ j \in Live /\ files[j] \in Entry
      BY <2>1, <2>2 DEF Live
    <3>2. PICK d : d = files[j].dir
      OBVIOUS
    <3>3. d \in Ids /\ IsFolder(d) /\ files'[j].dir = d
      BY <3>1, <3>2, BoundsAssumption DEF HeldInv, ParentIsFolder, Entry, Ids, Dir
    <3>4. IsFolder(d)'
      BY <2>4, <3>3
    <3>5. QED
      BY <3>3, <3>4 DEF IsFolder
  <2>8. CASE Ends(r)
    BY <2>5, <2>6, <2>7, <2>8, IdleHeld
  <2>9. CASE Becomes(r, [q EXCEPT !.at = "soft", !.todo = {t \in @ : t.id # i}])
    <3>1. PICK p : p = [q EXCEPT !.at = "soft", !.todo = {t \in @ : t.id # i}]
      OBVIOUS
    <3>2. /\ p.at = "soft" /\ p.op = q.op /\ p.key = q.key /\ p.dir = q.dir
          /\ p.todo \subseteq q.todo /\ p.queue = q.queue
      BY <1>3, <3>1 DEF Request
    <3>3. Holds(p)'
      BY <1>3, <2>5, <3>2, ReadyKept DEF Holds
    <3>4. QED
      BY <2>5, <2>6, <2>7, <2>9, <3>1, <3>3, HeldStep DEF Becomes
  <2>10. QED
    BY <1>1, <2>1, <2>8, <2>9 DEF Deleted
<1>6. QED
  BY <1>4, <1>5

(* and the process. *)
LEMMA ProcessHeld ==
  ASSUME CatalogInv, HeldInv,
         \/ Die \/ Serve
         \/ Ensures
         \/ \E r \in Requests : Abort(r)
  PROVE  HeldInv'
<1>1. ASSUME UNCHANGED <<files, recycled, blob>>,
             \A r \in Requests : req'[r] = req[r] \/ req'[r] = Idle
      PROVE  HeldInv'
  <2>1. /\ BlobBehindEntry' /\ ParentIsFolder'
        /\ \A q : Holds(q) => Holds(q)'
    BY <1>1, StaysHeld
  <2>2. ASSUME NEW r \in Requests PROVE Holds(req[r])'
    <3>1. PICK p : p = req'[r]
      OBVIOUS
    <3>2. Holds(p)
      BY <1>1, <3>1, IdleHolds DEF HeldInv, AllHold
    <3>3. Holds(p)'
      BY <2>1, <3>2
    <3>4. QED
      BY <3>1, <3>3 DEF Holds, KnownFolder, IsFolder, Stored, Live
  <2>3. QED
    BY <2>1, <2>2 DEF HeldInv, AllHold
<1>2. CASE Die
  BY <1>1, <1>2 DEF Die, tables
<1>3. CASE Serve
  BY <1>1, <1>3 DEF Serve, tables
<1>4. ASSUME NEW r \in Requests, Abort(r) PROVE HeldInv'
  BY <1>1, <1>4 DEF Abort, tables, CatalogInv, RequestsInv
<1>5. ASSUME NEW d \in Dir, NEW b \in Bases, EnsureFolder(d, b),
             d = 0 \/ (d \in Live /\ files[d].folder)
      PROVE  HeldInv'
  <2> DEFINE e == Folder(d, Plain(b))
  <2>1. e \in Entry /\ e.folder /\ e.dir = d
    BY PlainType, FolderType DEF Folder
  <2>2. Insert(e) /\ blob' = blob /\ req' = req
    BY <1>5 DEF EnsureFolder
  <2> HIDE DEF e
  <2>3. Grows /\ BlobBehindEntry' /\ ParentIsFolder'
    <3>1. KnownFolder(d)
      BY <1>5 DEF KnownFolder, IsFolder, Live
    <3>2. QED
      BY <2>1, <2>2, <3>1, InsertHeld
  <2>4. ASSUME NEW r \in Requests PROVE Holds(req[r])'
    <3>1. PICK p : p = req[r]
      OBVIOUS
    <3>2. Holds(p) /\ (p.at = "tx" => p.found \in Ids /\ p.found < nextId)
      BY <3>1 DEF HeldInv, AllHold, CatalogInv, RequestsInv, FoundKnown, At, AllPrepared, Prepared
    <3>3. Holds(p)' /\ req'[r] = p
      BY <2>2, <2>3, <3>1, <3>2, HoldsKept
    <3>4. QED
      BY <3>3 DEF Holds, KnownFolder, IsFolder, Stored, Live
  <2>5. QED
    BY <2>3, <2>4 DEF HeldInv, AllHold
<1>6. QED
  BY <1>2, <1>3, <1>4, <1>5, EnsuresFolder

LEMMA HandlesHeld ==
  ASSUME CatalogInv, HeldInv, NEW r \in Requests, Handles(r)
  PROVE  HeldInv'
<1>1. CASE Copy(r)
  BY <1>1, CopyFolderHeld, CopyBlobHeld, CopyChildrenHeld DEF Copy, At
<1>2. QED
  BY <1>1, PutHeld, GetSourceHeld, LookupHeld, MkdirHeld, AncestorsHeld, CheckNameHeld,
     FindSimilarHeld, UpdateFileMD5Held, CreateFileHeld, InsertFolderHeld, MoveFileHeld,
     StartCopyHeld, CopyRowHeld, ListRecursiveHeld, GetDeletedHeld, SoftDeleteHeld
     DEF Handles

LEMMA StepHeld ==
  ASSUME CatalogInv, HeldInv, [Next]_vars
  PROVE  HeldInv'
<1>1. ASSUME NEW r \in Requests, Arrives(r) PROVE HeldInv'
  BY <1>1, ArrivesHeld
<1>2. ASSUME NEW r \in Requests, Handles(r) PROVE HeldInv'
  BY <1>2, HandlesHeld
<1>3. CASE UNCHANGED vars
  BY <1>3 DEF vars, tables, HeldInv, BlobBehindEntry, ParentIsFolder, AllHold, Holds,
              KnownFolder, IsFolder, Stored, Live
<1>4. QED
  BY <1>1, <1>2, <1>3, ProcessHeld DEF Next, Ensures

(* What entries refer to, and what requests know of what they will insert. *)
THEOREM ReferencesInvariant == Spec => []HeldInv
<1>1. Init => HeldInv
  <2> SUFFICES ASSUME Init PROVE HeldInv
    OBVIOUS
  <2>1. BlobBehindEntry /\ ParentIsFolder
    BY DEF Init, BlobBehindEntry, ParentIsFolder, Live
  <2>2. AllHold
    BY IdleHolds DEF Init, AllHold
  <2>3. QED
    BY <2>1, <2>2 DEF HeldInv
<1>2. CatalogInv /\ HeldInv /\ [Next]_vars => HeldInv'
  BY StepHeld
<1>3. QED
  BY <1>1, <1>2, CatalogInvariant, PTL DEF Spec

(* Nothing is ever placed below a file, whatever overlaps or breaks off.   *)
THEOREM NothingBelowFiles == Spec => []ParentIsFolder
<1>1. HeldInv => ParentIsFolder
  BY DEF HeldInv
<1>2. QED
  BY <1>1, ReferencesInvariant, PTL

(* A file in the catalog or in the recycle bin has had its blob stored.    *)
THEOREM BlobsStored == Spec => []BlobBehindEntry
<1>1. HeldInv => BlobBehindEntry
  BY DEF HeldInv
<1>2. QED
  BY <1>1, ReferencesInvariant, PTL

-----------------------------------------------------------------------------
(* Part 3.  Requests served one at a time: no two entries of a folder get  *)
(* the same name.  A request that overlaps no other finds the directory as *)
(* it has checked it; a copy fills folders that it has made itself.        *)
Alone == /\ ~serving => \A r \in Requests : req[r] = Idle
         /\ calm => \A r, s \in Requests : req[r] # Idle /\ req[s] # Idle => r = s

LEMMA BecomesAlone ==
  ASSUME CatalogInv, Alone, NEW r \in Requests, req[r] # Idle, NEW q, Becomes(r, q)
  PROVE  Alone'
  BY DEF Alone, Becomes, CatalogInv, RequestsInv

LEMMA HandlesBecomes ==
  ASSUME NEW r \in Requests, Handles(r)
  PROVE  req[r] # Idle /\ \E q : Becomes(r, q)
<1>1. req[r].at # "idle"
  BY DEF Handles, Put, GetSource, Lookup, Mkdir, Ancestors, CheckName, FindSimilar,
         UpdateFileMD5, CreateFile, InsertFolder, MoveFile, StartCopy, Copy,
         CopyRow, ListRecursive, GetDeleted, SoftDelete, At
<1>2. \E q : Becomes(r, q)
  <2>1. CASE Copy(r) \/ CopyRow(r) \/ SoftDelete(r)
    BY <2>1 DEF Copy, CopyFolder, CopyBlob, Copied, CopyRow, CopyChildren, Copying, SoftDelete,
                Deleted, Ends
  <2>2. CASE Put(r) \/ GetSource(r) \/ Lookup(r) \/ Mkdir(r) \/ Ancestors(r) \/ CheckName(r)
             \/ FindSimilar(r)
    BY <2>2 DEF Put, GetSource, Lookup, Mkdir, Ancestors, CheckName, FindSimilar, Goes, Ends
  <2>3. CASE UpdateFileMD5(r) \/ CreateFile(r) \/ InsertFolder(r) \/ MoveFile(r) \/ StartCopy(r)
             \/ ListRecursive(r) \/ GetDeleted(r)
    BY <2>3 DEF UpdateFileMD5, CreateFile, InsertFolder, MoveFile, StartCopy, ListRecursive,
                GetDeleted, Ends
  <2>4. QED
    BY <2>1, <2>2, <2>3 DEF Handles
<1>3. QED
  BY <1>1, <1>2 DEF Idle

LEMMA ArrivesBegins ==
  ASSUME NEW r \in Requests, Arrives(r)
  PROVE  \E q : Begin(r, q)
  BY DEF Arrives, Upload, CreateFolder, MoveOrCopy, Delete

LEMMA StepAlone ==
  ASSUME CatalogInv, Alone, [Next]_vars
  PROVE  Alone'
<1>1. ASSUME NEW r \in Requests, Arrives(r) PROVE Alone'
  <2>1. PICK q : Begin(r, q)
    BY <1>1, ArrivesBegins
  <2>2. QED
    BY <2>1 DEF Begin, Alone, CatalogInv, RequestsInv
<1>2. ASSUME NEW r \in Requests, Handles(r) PROVE Alone'
  BY <1>2, HandlesBecomes, BecomesAlone
<1>3. CASE Die \/ Serve \/ Ensures \/ UNCHANGED vars
  BY <1>3 DEF Die, Serve, Ensures, EnsureRootFolders, EnsureSubFolders, EnsureFolder, vars, Alone
<1>4. ASSUME NEW r \in Requests, Abort(r) PROVE Alone'
  BY <1>4 DEF Abort, Alone, CatalogInv, RequestsInv
<1>5. QED
  BY <1>1, <1>2, <1>3, <1>4 DEF Next, Ensures

(* In calm, what holds of the request that takes a step, and of one that   *)
(* is idle, holds of every request.                                        *)
LEMMA AloneTogether ==
  ASSUME CatalogInv, Alone, calm, NEW r \in Requests, NEW q, req' = [req EXCEPT ![r] = q],
         req[r] # Idle \/ \A s \in Requests : req[s] = Idle
  PROVE  req'[r] = q /\ \A s \in Requests \ {r} : req'[s] = Idle
  BY DEF Alone, CatalogInv, RequestsInv

LEMMA CalmlyAlone == Spec => []Alone
<1>1. Init => Alone
  BY DEF Init, Alone
<1>2. CatalogInv /\ Alone /\ [Next]_vars => Alone'
  BY StepAlone
<1>3. QED
  BY <1>1, <1>2, CatalogInvariant, PTL DEF Spec

(* Names with an extension and those of the standard folders are exempt.   *)
Exempt(n) == n.base \in Dotted \cup StandardNames
Free(d, n) == Exempt(n) \/ Named(d, n) = {}

Unique == \A i, j \in Live :
            files[i].dir = files[j].dir /\ files[i].name = files[j].name /\ ~Exempt(files[i].name)
              => i = j

Asked == {"source", "put", "resolve", "mkdir", "ancestors", "check", "similar"}
Works == {"copying", "copied", "list", "soft", "tx"}

(* What a request knows of the names: it asks for one without a number, it *)
(* has found the one it will insert free, and what it copies goes to       *)
(* places of their own, the folders it has yet to fill being empty.        *)
CopiesApart(q) ==
  /\ \A t \in q.todo : Free(t.dst, t.row.name)
  /\ \A t, u \in q.todo :
       t.dst = u.dst /\ t.row.name = u.row.name /\ ~Exempt(t.row.name) => t = u
  /\ \A p \in q.queue : Children(p[2]) = {} /\ \A t \in q.todo : t.dst # p[2]
  /\ \A p, s \in q.queue : p[2] = s[2] => p = s

CalmName(q) ==
  /\ q.at \in Asked => (q.op # "delete" => q.name.n = 0)
  /\ q.at = "mkdir" => Free(q.dir, Plain(Head(q.rest)))
  /\ q.at \in {"upload", "folder", "copy"} => Free(q.dir, q.name)
  /\ q.at = "move" => Exempt(q.name) \/ Named(q.dir, q.name) \subseteq {q.id}
  /\ q.at \notin Works => q.todo = {} /\ q.queue = {}
  /\ q.at \in {"copying", "copied"} => CopiesApart(q)
  /\ q.at = "copied" => InHand(q) \in q.todo

NamesInv == calm => Unique /\ \A r \in Requests : CalmName(req[r])

LEMMA IdleNamed == CalmName(Idle)
  BY DEF CalmName, Idle, Asked, Works

LEMMA ToNamed ==
  ASSUME CatalogInv, NEW r \in Requests, NEW q, req' = [req EXCEPT ![r] = q], CalmName(q)'
  PROVE  CalmName(req[r])'
<1>1. req'[r] = q
  BY DEF CatalogInv, RequestsInv
<1>2. QED
  BY <1>1 DEF CalmName, CopiesApart, Free, Named, Children, Live

LEMMA EndsNamed ==
  ASSUME CatalogInv, NEW r \in Requests, Ends(r)
  PROVE  CalmName(req[r])'
<1>1. PICK q : q = Idle
  OBVIOUS
<1>2. CalmName(q)'
  BY <1>1 DEF CalmName, Idle, Asked, Works
<1>3. QED
  BY <1>1, <1>2, ToNamed DEF Ends, Becomes

LEMMA StaysNamed ==
  ASSUME files' = files
  PROVE  /\ Live' = Live /\ (Unique => Unique')
         /\ \A q : CalmName(q) => CalmName(q)'
<1>1. Live' = Live
  BY DEF Live
<1>2. QED
  BY <1>1 DEF Unique, CalmName, CopiesApart, Free, Named, Children

LEMMA ReadsNamed ==
  ASSUME CatalogInv, Unique, NEW r \in Requests, files' = files,
         NEW q, req' = [req EXCEPT ![r] = q], CalmName(q)
  PROVE  Unique' /\ CalmName(req[r])'
<1>1. PICK p : p = q
  OBVIOUS
<1>2. Unique' /\ CalmName(p)'
  BY <1>1, StaysNamed
<1>3. QED
  BY <1>1, <1>2, ToNamed

(* A new row whose name is free. *)
LEMMA InsertNamed ==
  ASSUME CatalogInv, NEW e \in Entry, Insert(e)
  PROVE  /\ files' = [files EXCEPT ![nextId] = e] /\ nextId \in Ids /\ files[nextId] = None
         /\ Live' = Live \cup {nextId} /\ nextId \notin Live
         /\ files'[nextId] = e /\ \A i \in Live : files'[i] = files[i]
         /\ Unique /\ Free(e.dir, e.name) => Unique'
<1>1. /\ nextId \in Ids /\ files[nextId] = None /\ files \in [Ids -> Entry \cup {None}]
      /\ files' = [files EXCEPT ![nextId] = e]
  BY BoundsAssumption DEF Insert, CatalogInv, TablesInv, OneHome, Ids
<1>2. e # None
  BY NoneAssumption
<1>3. /\ Live' = Live \cup {nextId} /\ nextId \notin Live /\ files'[nextId] = e
      /\ \A i \in Live : files'[i] = files[i]
  BY <1>1, <1>2 DEF Live
<1>4. ASSUME Unique, Free(e.dir, e.name) PROVE Unique'
  <2> SUFFICES ASSUME NEW i \in Live', NEW j \in Live', files'[i].dir = files'[j].dir,
                      files'[i].name = files'[j].name, ~Exempt(files'[i].name)
               PROVE  i = j
    BY DEF Unique, Exempt
  <2>1. CASE i \in Live /\ j \in Live
    BY <1>3, <1>4, <2>1 DEF Unique
  <2>2. CASE i = nextId \/ j = nextId
    BY <1>3, <1>4, <2>2 DEF Free, Named, Children
  <2>3. QED
    BY <1>3, <2>1, <2>2
<1>5. QED
  BY <1>1, <1>3, <1>4

-----------------------------------------------------------------------------
(* Steps that read the tables. *)
LEMMA ResolvingNamed ==
  ASSUME NEW q \in Request, q.name.n = 0, q.todo = {}, q.queue = {}
  PROVE  CalmName(Resolving(q))
<1>1. /\ Resolving(q).at \in {"resolve", "check", "ancestors"}
      /\ Resolving(q).name = q.name /\ Resolving(q).todo = q.todo /\ Resolving(q).queue = q.queue
  BY DEF Resolving, AfterResolve, Request
<1>2. QED
  BY <1>1 DEF CalmName, Asked, Works

LEMMA PlainNumber == \A b : Plain(b).n = 0 /\ Plain(b).base = b
  BY DEF Plain

LEMMA ArrivesNamed ==
  ASSUME CatalogInv, Unique, NEW r \in Requests, Arrives(r)
  PROVE  Unique' /\ CalmName(req[r])'
<1>1. ASSUME NEW q, CalmName(q), Begin(r, q) PROVE Unique' /\ CalmName(req[r])'
  BY <1>1, ReadsNamed DEF Begin, tables
<1>2. ASSUME NEW t \in Targets, Upload(r, t[1], t[2]) PROVE Unique' /\ CalmName(req[r])'
  <2>1. CalmName([Idle EXCEPT !.op = "upload", !.at = "put", !.rest = t[1], !.name = Plain(t[2]),
                              !.key = PathKey(t[1], t[2]), !.md5 = arrived + 1])
    BY PlainNumber DEF CalmName, Idle, Asked, Works
  <2>2. QED
    BY <1>1, <1>2, <2>1 DEF Upload
<1>3. ASSUME NEW t \in Targets, CreateFolder(r, t[1], t[2]) PROVE Unique' /\ CalmName(req[r])'
  <2> DEFINE q == [Idle EXCEPT !.op = "folder", !.rest = t[1], !.name = Plain(t[2])]
  <2>1. t[1] \in Seq(Bases) /\ Plain(t[2]) \in Name
    BY TargetsAssumption, PlainType
  <2>2. q \in Request /\ q.name.n = 0 /\ q.todo = {} /\ q.queue = {}
    BY <2>1, IdleType, PlainNumber DEF Request, Idle
  <2>3. Begin(r, Resolving(q))
    BY <1>3 DEF CreateFolder
  <2> HIDE DEF q
  <2>4. QED
    BY <1>1, <2>2, <2>3, ResolvingNamed
<1>4. ASSUME NEW t \in Targets, NEW op \in {"move", "copy"}, NEW i \in 1 .. nextId - 1,
             MoveOrCopy(r, op, i, t[1], t[2])
      PROVE  Unique' /\ CalmName(req[r])'
  <2>1. CalmName([Idle EXCEPT !.op = op, !.at = "source", !.id = i, !.rest = t[1],
                              !.name = Plain(t[2])])
    BY PlainNumber DEF CalmName, Idle, Asked, Works
  <2>2. QED
    BY <1>1, <1>4, <2>1 DEF MoveOrCopy
<1>5. ASSUME NEW i \in 1 .. nextId - 1, Delete(r, i) PROVE Unique' /\ CalmName(req[r])'
  <2>1. CalmName([Idle EXCEPT !.op = "delete", !.at = "source", !.id = i])
    BY DEF CalmName, Idle, Asked, Works
  <2>2. QED
    BY <1>1, <1>5, <2>1 DEF Delete
<1>6. QED
  BY <1>2, <1>3, <1>4, <1>5 DEF Arrives

(* What an asking request has. *)
LEMMA AskedName ==
  ASSUME CatalogInv, NEW r \in Requests, CalmName(req[r])
  PROVE  /\ req[r] \in Request /\ Prepared(req[r])
         /\ req[r].at \in Asked /\ req[r].op # "delete" =>
              req[r].name.n = 0 /\ req[r].todo = {} /\ req[r].queue = {}
         /\ req[r].at \in Asked \ {"source"} => req[r].op # "delete"
  BY RequestType DEF CalmName, Asked, Works, Prepared, Placing, Placed

LEMMA PutNamed ==
  ASSUME CatalogInv, Unique, NEW r \in Requests, CalmName(req[r]), Put(r)
  PROVE  Unique' /\ CalmName(req[r])'
<1>1. CalmName(Resolving(req[r]))
  BY AskedName, ResolvingNamed DEF Put, At, Asked
<1>2. QED
  BY <1>1, ReadsNamed DEF Put, Becomes, tables

LEMMA GetSourceNamed ==
  ASSUME CatalogInv, Unique, NEW r \in Requests, CalmName(req[r]), GetSource(r)
  PROVE  Unique' /\ CalmName(req[r])'
<1> DEFINE q == req[r]
           e == files[q.id]
<1>1. q \in Request /\ Prepared(q) /\ q.at = "source" /\ q.at \in Asked /\ files' = files
  BY AskedName DEF GetSource, At, Asked, Reads, tables
<1>2. CASE Ends(r)
  BY <1>1, <1>2, EndsNamed, StaysNamed
<1>3. CASE q.op = "delete" /\ e # None
  <2>1. CalmName([q EXCEPT !.at = "list", !.queue = {<<q.id, 0>>}])
    BY <1>1 DEF CalmName, Request, Asked, Works
  <2>2. CalmName([q EXCEPT !.at = "soft"])
    BY <1>1 DEF CalmName, Request, Asked, Works
  <2>3. QED
    BY <1>1, <1>3, <2>1, <2>2, ReadsNamed DEF GetSource, Becomes
<1>4. CASE e # None /\ q.op # "delete" /\ Becomes(r, Resolving([q EXCEPT !.row = e]))
  <2> DEFINE p == [q EXCEPT !.row = e]
  <2>1. e \in Entry
    BY <1>1, <1>4, TablesType DEF Prepared
  <2>2. p \in Request /\ p.name = q.name /\ p.todo = q.todo /\ p.queue = q.queue
    BY <1>1, <2>1 DEF Request
  <2>3. Becomes(r, Resolving(p))
    BY <1>4
  <2> HIDE DEF p
  <2>4. CalmName(Resolving(p))
    BY <1>1, <1>4, <2>2, AskedName, ResolvingNamed
  <2>5. QED
    BY <1>1, <2>3, <2>4, ReadsNamed DEF Becomes
<1>5. QED
  BY <1>2, <1>3, <1>4 DEF GetSource

LEMMA EnteredNamed ==
  ASSUME CatalogInv, NEW r \in Requests, CalmName(req[r]), req[r].at \in {"resolve", "mkdir"},
         NEW d \in Dir
  PROVE  CalmName(Entered(req[r], d))
<1> DEFINE q == req[r]
           w == [q EXCEPT !.rest = Tail(@), !.dir = d]
<1>1. q \in Request /\ q.rest # <<>> /\ q.name.n = 0 /\ q.todo = {} /\ q.queue = {}
  BY AskedName DEF Asked, Prepared
<1>2. w \in Request
  BY <1>1, EnteredRequest
<1> HIDE DEF q
<1>3. w.name = q.name /\ w.todo = q.todo /\ w.queue = q.queue
  BY <1>1 DEF Request
<1> HIDE DEF w
<1>4. CalmName(Resolving(w))
  BY <1>1, <1>2, <1>3, ResolvingNamed
<1>5. QED
  BY <1>4 DEF Entered, w, q

LEMMA LookupNamed ==
  ASSUME CatalogInv, Unique, NEW r \in Requests, CalmName(req[r]), Lookup(r)
  PROVE  Unique' /\ CalmName(req[r])'
<1> DEFINE q == req[r]
           found == Named(q.dir, Plain(Head(q.rest)))
<1>1. q \in Request /\ q.at = "resolve" /\ files' = files
  BY AskedName DEF Lookup, At, Reads, tables
<1>2. ASSUME NEW i \in Live, Becomes(r, Entered(q, i)) PROVE Unique' /\ CalmName(req[r])'
  <2>1. i \in Dir
    BY TablesType
  <2>2. CalmName(Entered(q, i))
    BY <1>1, <2>1, EnteredNamed
  <2>3. QED
    BY <1>1, <1>2, <2>2, ReadsNamed DEF Becomes
<1>3. CASE Ends(r)
  BY <1>1, <1>3, EndsNamed, StaysNamed
<1>4. CASE found = {} /\ Goes(r, "mkdir")
  <2>1. CalmName([q EXCEPT !.at = "mkdir"])
    BY <1>1, <1>4, AskedName DEF CalmName, Request, Asked, Works, Free
  <2>2. QED
    BY <1>1, <1>4, <2>1, ReadsNamed DEF Goes, Becomes
<1>5. QED
  BY <1>2, <1>3, <1>4 DEF Lookup, Named, Children

LEMMA AncestorsNamed ==
  ASSUME CatalogInv, Unique, NEW r \in Requests, CalmName(req[r]), Ancestors(r)
  PROVE  Unique' /\ CalmName(req[r])'
<1> DEFINE q == req[r]
<1>1. q \in Request /\ q.at = "ancestors" /\ files' = files /\ q.name.n = 0 /\ q.todo = {}
      /\ q.queue = {}
  BY AskedName DEF Ancestors, At, Reads, tables, Asked
<1>2. CASE Ends(r)
  BY <1>1, <1>2, EndsNamed, StaysNamed
<1>3. CASE Becomes(r, [q EXCEPT !.found = files[q.found].dir, !.levels = @ + 1])
  <2>1. CalmName([q EXCEPT !.found = files[q.found].dir, !.levels = @ + 1])
    BY <1>1 DEF CalmName, Request, Asked, Works
  <2>2. QED
    BY <1>1, <1>3, <2>1, ReadsNamed DEF Becomes
<1>4. CASE Goes(r, "check")
  <2>1. CalmName([q EXCEPT !.at = "check"])
    BY <1>1 DEF CalmName, Request, Asked, Works
  <2>2. QED
    BY <1>1, <1>4, <2>1, ReadsNamed DEF Goes, Becomes
<1>5. QED
  BY <1>2, <1>3, <1>4 DEF Ancestors

LEMMA CheckNameNamed ==
  ASSUME CatalogInv, Unique, NEW r \in Requests, CalmName(req[r]), CheckName(r)
  PROVE  Unique' /\ CalmName(req[r])'
<1> DEFINE q == req[r]
           found == Named(q.dir, q.name)
           itself == q.op = "move" /\ q.id \in found
<1>1. q \in Request /\ q.at = "check" /\ files' = files /\ q.name.n = 0 /\ q.todo = {}
      /\ q.queue = {} /\ q.op \in Placed
  BY AskedName DEF CheckName, At, Reads, tables, Asked, Prepared, Placing
<1>2. ASSUME NEW i, Becomes(r, [q EXCEPT !.at = "update", !.found = i])
      PROVE  Unique' /\ CalmName(req[r])'
  <2>1. CalmName([q EXCEPT !.at = "update", !.found = i])
    BY <1>1 DEF CalmName, Request, Asked, Works
  <2>2. QED
    BY <1>1, <1>2, <2>1, ReadsNamed DEF Becomes
<1>3. CASE Goes(r, "similar")
  <2>1. CalmName([q EXCEPT !.at = "similar"])
    BY <1>1 DEF CalmName, Request, Asked, Works
  <2>2. QED
    BY <1>1, <1>3, <2>1, ReadsNamed DEF Goes, Becomes
<1>4. CASE Ends(r)
  BY <1>1, <1>4, EndsNamed, StaysNamed
<1>5. CASE (found = {} \/ itself) /\ Goes(r, q.op)
  <2>1. q.op = "move" => Exempt(q.name) \/ found \subseteq {q.id}
    BY <1>5 DEF Unique, Named, Children
  <2>2. q.op # "move" => Free(q.dir, q.name)
    BY <1>5 DEF Free
  <2>3. CalmName([q EXCEPT !.at = q.op])
    BY <1>1, <2>1, <2>2 DEF CalmName, Request, Asked, Works, Placed
  <2>4. QED
    BY <1>1, <1>5, <2>3, ReadsNamed DEF Goes, Becomes
<1>6. QED
  BY <1>2, <1>3, <1>4, <1>5 DEF CheckName

(* The number AutoRename finds is free: what it is given are all variants  *)
(* of a name without extension.                                            *)
LEMMA RenamedFree ==
  ASSUME NEW n, n.n = 0, NEW d, NEW m \in AutoRename(n, Similar(d, n))
  PROVE  Exempt(m) \/ Named(d, m) = {}
<1> SUFFICES ASSUME NEW i \in Children(d), files[i].name = m, m.base \notin Dotted PROVE FALSE
  BY DEF Exempt, Named
<1>1. m.base = n.base /\ m \notin Similar(d, n)
  BY DEF AutoRename
<1>2. QED
  BY <1>1 DEF Similar

LEMMA FindSimilarNamed ==
  ASSUME CatalogInv, Unique, NEW r \in Requests, CalmName(req[r]), FindSimilar(r)
  PROVE  Unique' /\ CalmName(req[r])'
<1> DEFINE q == req[r]
<1>1. q \in Request /\ q.at = "similar" /\ files' = files /\ q.name.n = 0 /\ q.todo = {}
      /\ q.queue = {} /\ q.op \in Placed
  BY AskedName DEF FindSimilar, At, Reads, tables, Asked, Prepared, Placing
<1>2. PICK m \in AutoRename(q.name, Similar(q.dir, q.name)) :
        Becomes(r, [q EXCEPT !.at = q.op, !.name = m])
  BY DEF FindSimilar
<1>3. Exempt(m) \/ Named(q.dir, m) = {}
  BY <1>1, RenamedFree
<1>4. CalmName([q EXCEPT !.at = q.op, !.name = m])
  BY <1>1, <1>3 DEF CalmName, Request, Asked, Works, Placed, Free
<1>5. QED
  BY <1>1, <1>2, <1>4, ReadsNamed DEF Becomes

-----------------------------------------------------------------------------
(* Steps that write a row, *)
LEMMA MkdirNamed ==
  ASSUME CatalogInv, Unique, NEW r \in Requests, CalmName(req[r]), Mkdir(r)
  PROVE  Unique' /\ CalmName(req[r])'
<1> DEFINE q == req[r]
           e == Folder(q.dir, Plain(Head(q.rest)))
<1>1. q \in Request /\ q.rest # <<>> /\ q.at = "mkdir" /\ Free(q.dir, Plain(Head(q.rest)))
  BY AskedName DEF Mkdir, At, Prepared, CalmName
<1>2. Head(q.rest) \in Bases /\ q.dir \in Dir
  BY <1>1 DEF Request
<1>3. e \in Entry /\ e.dir = q.dir /\ e.name = Plain(Head(q.rest)) /\ Insert(e)
  BY <1>2, PlainType, FolderType DEF Folder, Mkdir
<1> HIDE DEF e
<1>4. Unique' /\ nextId \in Dir
  BY <1>1, <1>3, InsertNamed, BoundsAssumption DEF Ids, Dir
<1>5. PICK p : p = Entered(q, nextId)
  OBVIOUS
<1>6. CalmName(p) /\ p.at \notin {"mkdir", "upload", "folder", "copy", "move", "copying", "copied"}
  <2>1. p.at \in {"resolve", "check", "ancestors"}
    BY <1>1, <1>4, <1>5, EnteredRequest DEF Entered, Resolving, AfterResolve, Request
  <2>2. QED
    BY <1>1, <1>4, <1>5, <2>1, EnteredNamed
<1>7. CalmName(p)'
  BY <1>6 DEF CalmName
<1>8. QED
  BY <1>4, <1>5, <1>7, ToNamed DEF Mkdir, Becomes

LEMMA UpdateFileMD5Named ==
  ASSUME CatalogInv, Unique, NEW r \in Requests, CalmName(req[r]), UpdateFileMD5(r)
  PROVE  Unique' /\ CalmName(req[r])'
<1> DEFINE i == req[r].found
<1>1. CASE i \in Live
  <2>1. files \in [Ids -> Entry \cup {None}] /\ files' = [files EXCEPT ![i].md5 = req[r].md5]
    BY <1>1 DEF CatalogInv, TablesInv, UpdateFileMD5
  <2>2. Live' \subseteq Live
    BY <1>1, <2>1 DEF Live
  <2>3. \A j \in Live : files'[j].dir = files[j].dir /\ files'[j].name = files[j].name
    BY <1>1, <2>1, TablesType DEF Live, Entry
  <2>4. Unique'
    BY <2>2, <2>3 DEF Unique, Exempt
  <2>5. QED
    BY <2>4, EndsNamed DEF UpdateFileMD5
<1>2. CASE i \notin Live
  BY <1>2, StaysNamed, EndsNamed DEF UpdateFileMD5
<1>3. QED
  BY <1>1, <1>2

LEMMA MoveFileNamed ==
  ASSUME CatalogInv, Unique, NEW r \in Requests, CalmName(req[r]), MoveFile(r)
  PROVE  Unique' /\ CalmName(req[r])'
<1> DEFINE q == req[r]
           i == q.id
<1>1. Exempt(q.name) \/ Named(q.dir, q.name) \subseteq {i}
  BY DEF CalmName, MoveFile, At
<1>2. CASE i \in Live
  <2>1. files \in [Ids -> Entry \cup {None}]
        /\ files' = [files EXCEPT ![i].dir = q.dir, ![i].name = q.name]
    BY <1>2 DEF CatalogInv, TablesInv, MoveFile
  <2>2. files[i] \in Entry /\ i \in Ids
    BY <1>2, TablesType
  <2>3. files'[i].dir = q.dir /\ files'[i].name = q.name
    BY <2>1, <2>2 DEF Entry
  <2>4. \A j \in Ids \ {i} : files'[j] = files[j]
    BY <2>1
  <2>5. Live' \subseteq Live
    BY <1>2, <2>4 DEF Live
  <2>6. Unique'
    <3> SUFFICES ASSUME NEW j \in Live', NEW k \in Live', files'[j].dir = files'[k].dir,
                        files'[j].name = files'[k].name, ~Exempt(files'[j].name), j # k
                 PROVE  FALSE
      BY DEF Unique, Exempt
    <3>1. CASE j # i /\ k # i
      BY <2>4, <2>5, <3>1 DEF Unique, Live
    <3>2. CASE j = i
      BY <1>1, <2>3, <2>4, <2>5, <3>2 DEF Named, Children, Live
    <3>3. CASE k = i
      BY <1>1, <2>3, <2>4, <2>5, <3>3 DEF Named, Children, Live
    <3>4. QED
      BY <3>1, <3>2, <3>3
  <2>7. QED
    BY <2>6, EndsNamed DEF MoveFile
<1>3. CASE i \notin Live
  BY <1>3, StaysNamed, EndsNamed DEF MoveFile
<1>4. QED
  BY <1>2, <1>3

LEMMA CreateNamed ==
  ASSUME CatalogInv, Unique, NEW r \in Requests, CalmName(req[r]), CreateFile(r) \/ InsertFolder(r)
  PROVE  Unique' /\ CalmName(req[r])'
<1> DEFINE q == req[r]
           e == [dir |-> q.dir, name |-> q.name, key |-> q.key, md5 |-> q.md5, folder |-> FALSE]
           f == Folder(q.dir, q.name)
<1>1. q \in Request /\ q.name \in Name /\ Free(q.dir, q.name)
  BY RequestType DEF CreateFile, InsertFolder, At, Prepared, Placing, CalmName
<1>2. e \in Entry /\ e.dir = q.dir /\ e.name = q.name
  BY <1>1 DEF Entry, Request
<1>3. f \in Entry /\ f.dir = q.dir /\ f.name = q.name
  BY <1>1, FolderType DEF Folder, Request
<1>4. Ends(r) /\ (Insert(e) \/ Insert(f))
  BY DEF CreateFile, InsertFolder
<1> HIDE DEF e, f
<1>5. Unique'
  BY <1>1, <1>2, <1>3, <1>4, InsertNamed
<1>6. QED
  BY <1>4, <1>5, EndsNamed

(* the copy, *)
LEMMA StartCopyNamed ==
  ASSUME CatalogInv, Unique, NEW r \in Requests, CalmName(req[r]), StartCopy(r)
  PROVE  Unique' /\ CalmName(req[r])'
<1> DEFINE q == req[r]
           t == [id |-> q.id, row |-> [q.row EXCEPT !.name = q.name], dst |-> q.dir]
           p == [q EXCEPT !.at = "copying", !.todo = {t}]
<1>1. q \in Request /\ q.row \in Entry /\ Free(q.dir, q.name) /\ q.queue = {} /\ q.op = "copy"
  BY RequestType DEF StartCopy, At, Prepared, Placing, CalmName, Works
<1>2. t.row.name = q.name /\ t.dst = q.dir
  BY <1>1 DEF Entry
<1>3. p.at = "copying" /\ p.todo = {t} /\ p.queue = {}
  BY <1>1 DEF Request
<1>4. Becomes(r, p) /\ files' = files
  BY DEF StartCopy, Reads, tables
<1> HIDE DEF t, p
<1>5. CalmName(p)
  BY <1>1, <1>2, <1>3 DEF CalmName, CopiesApart, Asked, Works
<1>6. QED
  BY <1>4, <1>5, ReadsNamed DEF Becomes

LEMMA CopyingNamed ==
  ASSUME CatalogInv, NEW r \in Requests, NEW q, q.at = "copying", Copying(r, q), CopiesApart(q)'
  PROVE  CalmName(req[r])'
<1>1. CalmName(q)'
  BY DEF CalmName, Asked, Works
<1>2. QED
  BY <1>1, ToNamed, EndsNamed DEF Copying, Becomes

(* What is made first is one of the entries to make. *)
LEMMA MadeApart ==
  ASSUME CatalogInv, HeldInv, Unique, NEW q \in Request, CopiesApart(q), Holds(q),
         NEW t \in q.todo, NEW e \in Entry, Insert(e), e.dir = t.dst, e.name = t.row.name
  PROVE  /\ Unique'
         /\ \A u \in q.todo \ {t} : Free(u.dst, u.row.name)'
         /\ \A p \in q.queue : Children(p[2])' = {}
         /\ \A d : d = nextId => /\ Children(d)' = {}
                                 /\ \A u \in q.todo : u.dst # d
                                 /\ \A p \in q.queue : p[2] # d
<1>1. /\ files' = [files EXCEPT ![nextId] = e] /\ nextId \in Ids /\ files[nextId] = None
      /\ Live' = Live \cup {nextId} /\ nextId \notin Live
      /\ files'[nextId] = e /\ \A i \in Live : files'[i] = files[i]
  BY InsertNamed
<1>2. Unique'
  BY InsertNamed DEF CopiesApart
<1>3. \A u \in q.todo \ {t} : Free(u.dst, u.row.name)'
  <2> SUFFICES ASSUME NEW u \in q.todo \ {t}, NEW i \in Live', files'[i].dir = u.dst,
                      files'[i].name = u.row.name, ~Exempt(u.row.name)
               PROVE  FALSE
    BY DEF Free, Named, Children, Exempt
  <2>1. CASE i = nextId
    BY <1>1, <2>1 DEF CopiesApart
  <2>2. CASE i \in Live
    BY <1>1, <2>2 DEF CopiesApart, Free, Named, Children
  <2>3. QED
    BY <1>1, <2>1, <2>2
<1>4. \A p \in q.queue : Children(p[2])' = {}
  <2> SUFFICES ASSUME NEW p \in q.queue, NEW i \in Live', files'[i].dir = p[2] PROVE FALSE
    BY DEF Children
  <2>1. CASE i = nextId
    BY <1>1, <2>1 DEF CopiesApart
  <2>2. CASE i \in Live
    BY <1>1, <2>2 DEF CopiesApart, Children
  <2>3. QED
    BY <1>1, <2>1, <2>2
<1>5. recycled[nextId] = None /\ ~KnownFolder(nextId)
  <2>1. recycled[nextId] = None /\ nextId # 0
    BY <1>1, BoundsAssumption DEF CatalogInv, TablesInv, OneHome, Ids
  <2>2. QED
    BY <1>1, <2>1 DEF KnownFolder, IsFolder
<1>6. /\ \A u \in q.todo : u.dst # nextId
      /\ \A p \in q.queue : p[2] # nextId
  BY <1>5 DEF Holds
<1>7. \A i \in Live' : files'[i].dir # nextId
  <2> SUFFICES ASSUME NEW i \in Live', files'[i].dir = nextId PROVE FALSE
    OBVIOUS
  <2>1. CASE i = nextId
    BY <1>1, <1>6, <2>1
  <2>2. CASE i \in Live
    BY <1>1, <1>5, <2>2 DEF HeldInv, ParentIsFolder, KnownFolder
  <2>3. QED
    BY <1>1, <2>1, <2>2
<1>8. \A d : d = nextId => Children(d)' = {}
  BY <1>7 DEF Children
<1>9. QED
  BY <1>2, <1>3, <1>4, <1>6, <1>8

LEMMA CopyFolderNamed ==
  ASSUME CatalogInv, HeldInv, Unique, NEW r \in Requests, CalmName(req[r]), req[r].at = "copying",
         NEW t \in req[r].todo, CopyFolder(r, t)
  PROVE  Unique' /\ CalmName(req[r])'
<1>1. PICK q : q = req[r]
  OBVIOUS
<1>2. PICK d : d = nextId
  OBVIOUS
<1>3. PICK p : p = [q EXCEPT !.todo = @ \ {t}, !.queue = @ \cup {<<t.id, d>>}]
  OBVIOUS
<1> DEFINE e == Folder(t.dst, t.row.name)
<1>4. q \in Request /\ Holds(q) /\ CopiesApart(q) /\ t \in q.todo /\ t \in Work
  BY <1>1, HoldsReady DEF Request, CalmName
<1>5. e \in Entry /\ e.dir = t.dst /\ e.name = t.row.name /\ Insert(e)
  BY <1>4, FolderType DEF Work, Entry, Folder, CopyFolder
<1> HIDE DEF e
<1>6. /\ Unique'
      /\ \A u \in q.todo \ {t} : Free(u.dst, u.row.name)'
      /\ \A s \in q.queue : Children(s[2])' = {}
      /\ Children(d)' = {}
      /\ \A u \in q.todo : u.dst # d
      /\ \A s \in q.queue : s[2] # d
  BY <1>2, <1>4, <1>5, MadeApart
<1>7. p.at = "copying" /\ p.todo = q.todo \ {t} /\ p.queue = q.queue \cup {<<t.id, d>>}
  BY <1>1, <1>3, <1>4 DEF Request
<1>8. CopiesApart(p)'
  <2>1. \A u \in p.todo : Free(u.dst, u.row.name)'
    BY <1>6, <1>7
  <2>2. \A s \in p.queue : Children(s[2])' = {}
    <3> SUFFICES ASSUME NEW s \in p.queue PROVE Children(s[2])' = {}
      OBVIOUS
    <3>1. CASE s \in q.queue
      BY <1>6, <3>1
    <3>2. CASE s = <<t.id, d>>
      <4>1. s[2] = d
        BY <3>2
      <4>2. QED
        BY <1>6, <4>1 DEF Children
    <3>3. QED
      BY <1>7, <3>1, <3>2
  <2>3. /\ \A u, v \in p.todo :
             u.dst = v.dst /\ u.row.name = v.row.name /\ ~Exempt(u.row.name) => u = v
        /\ \A s \in p.queue : \A u \in p.todo : u.dst # s[2]
        /\ \A s, u \in p.queue : s[2] = u[2] => s = u
    BY <1>4, <1>6, <1>7 DEF CopiesApart
  <2>4. QED
    BY <2>1, <2>2, <2>3 DEF CopiesApart, Exempt
<1>9. Copying(r, p)
  BY <1>1, <1>2, <1>3 DEF CopyFolder
<1>10. QED
  BY <1>6, <1>7, <1>8, <1>9, CopyingNamed

LEMMA CopyBlobNamed ==
  ASSUME CatalogInv, Unique, NEW r \in Requests, CalmName(req[r]), req[r].at = "copying",
         NEW t \in req[r].todo, CopyBlob(r, t)
  PROVE  Unique' /\ CalmName(req[r])'
<1>1. PICK q : q = req[r]
  OBVIOUS
<1>2. q \in Request /\ t \in Work /\ t \in q.todo /\ CopiesApart(q) /\ files' = files
  BY <1>1, CopyBlobStep DEF tables, CalmName
<1>3. PICK k \in Key, v \in 1 .. MaxRequests :
        Store(k, v) /\ Becomes(r, WithBlob(q, t, k, v)) /\ v \in 0 .. MaxRequests
  BY <1>1, CopyBlobStep
<1>4. PICK p : p = WithBlob(q, t, k, v)
  OBVIOUS
<1>5. p.at = "copied" /\ p.queue = q.queue /\ p.todo = q.todo /\ InHand(p) = t
  BY <1>2, <1>3, <1>4, WithBlobType
<1>6. CalmName(p)
  BY <1>2, <1>5 DEF CalmName, CopiesApart, Asked, Works
<1>7. QED
  BY <1>2, <1>3, <1>4, <1>6, ReadsNamed DEF Becomes

LEMMA CopyRowNamed ==
  ASSUME CatalogInv, HeldInv, Unique, NEW r \in Requests, CalmName(req[r]), CopyRow(r)
  PROVE  Unique' /\ CalmName(req[r])'
<1>1. PICK q : q = req[r]
  OBVIOUS
<1>2. PICK p : p = Copies(q)
  OBVIOUS
<1>3. PICK e : e = RowCopied(q)
  OBVIOUS
<1>4. PICK t : t = InHand(q)
  OBVIOUS
<1>5. /\ q \in Request /\ q.at = "copied" /\ e \in Entry /\ Insert(e)
      /\ e.dir = q.dir /\ e.name = q.row.name
      /\ p.at = "copying" /\ p.queue = q.queue /\ p.todo = q.todo \ {t} /\ Copying(r, p)
  BY <1>1, <1>2, <1>3, <1>4, CopyRowStep
<1>6. Holds(q) /\ CopiesApart(q) /\ t \in q.todo /\ t.dst = e.dir /\ t.row.name = e.name
  BY <1>1, <1>4, <1>5, HoldsReady DEF CalmName, InHand
<1>7. /\ Unique'
      /\ \A u \in q.todo \ {t} : Free(u.dst, u.row.name)'
      /\ \A s \in q.queue : Children(s[2])' = {}
  BY <1>5, <1>6, MadeApart
<1>8. CopiesApart(p)'
  BY <1>5, <1>6, <1>7 DEF CopiesApart, Exempt
<1>9. QED
  BY <1>5, <1>7, <1>8, CopyingNamed

(* The entries of a folder have different names, and go to an empty one. *)
LEMMA CopyChildrenNamed ==
  ASSUME CatalogInv, HeldInv, Unique, NEW r \in Requests, CalmName(req[r]), req[r].at = "copying",
         NEW s \in req[r].queue, CopyChildren(r, s)
  PROVE  Unique' /\ CalmName(req[r])'
<1>1. PICK q : q = req[r]
  OBVIOUS
<1> DEFINE new == Listed(s[1], s[2])
<1>2. PICK p : p = [q EXCEPT !.queue = @ \ {s}, !.todo = @ \cup new]
  OBVIOUS
<1>3. q \in Request /\ CopiesApart(q) /\ s \in q.queue /\ files' = files
  BY <1>1, HoldsReady DEF CalmName, CopyChildren, tables
<1>4. p.at = "copying" /\ p.todo = q.todo \cup new /\ p.queue = q.queue \ {s}
  BY <1>1, <1>2, <1>3 DEF Request
<1>5. \A t \in new : /\ t.dst = s[2] /\ t.id \in Live /\ t.row = files[t.id]
                     /\ t.row.dir = s[1] /\ t = [id |-> t.id, row |-> t.row, dst |-> t.dst]
  BY DEF Listed, Children
<1>6. \A t, u \in new : t.row.name = u.row.name /\ ~Exempt(t.row.name) => t = u
  BY <1>5 DEF Unique
<1>7. \A n : Named(s[2], n) = {}
  BY <1>3 DEF CopiesApart, Named
<1> HIDE DEF new
<1>8. CopiesApart(p)
  <2>1. \A t \in p.todo : Free(t.dst, t.row.name)
    BY <1>3, <1>4, <1>5, <1>7 DEF CopiesApart, Free
  <2>2. \A t, u \in p.todo :
          t.dst = u.dst /\ t.row.name = u.row.name /\ ~Exempt(t.row.name) => t = u
    BY <1>3, <1>4, <1>5, <1>6 DEF CopiesApart
  <2>3. \A v \in p.queue : Children(v[2]) = {} /\ \A t \in p.todo : t.dst # v[2]
    BY <1>3, <1>4, <1>5 DEF CopiesApart
  <2>4. \A v, w \in p.queue : v[2] = w[2] => v = w
    BY <1>3, <1>4 DEF CopiesApart
  <2>5. QED
    BY <2>1, <2>2, <2>3, <2>4 DEF CopiesApart
<1>9. CopiesApart(p)'
  BY <1>3, <1>8 DEF CopiesApart, Free, Named, Children, Live
<1>10. Copying(r, p)
  BY <1>1, <1>2 DEF CopyChildren, new
<1>11. QED
  BY <1>3, <1>4, <1>9, <1>10, CopyingNamed, StaysNamed

(* and the delete. *)
LEMMA DeletingNamed ==
  ASSUME CatalogInv, NEW r \in Requests, NEW q, q.at \in {"list", "soft", "tx"}, Becomes(r, q)
  PROVE  CalmName(req[r])'
<1>1. CalmName(q)'
  BY DEF CalmName, Asked, Works
<1>2. QED
  BY <1>1, ToNamed DEF Becomes

LEMMA DeleteNamed ==
  ASSUME CatalogInv, Unique, NEW r \in Requests, CalmName(req[r]),
         ListRecursive(r) \/ GetDeleted(r) \/ SoftDelete(r)
  PROVE  Unique' /\ CalmName(req[r])'
<1> DEFINE q == req[r]
<1>1. q \in Request
  BY RequestType
<1>2. CASE ListRecursive(r)
  <2>1. PICK new, queue, at : /\ at \in {"soft", "list"}
                              /\ Becomes(r, [q EXCEPT !.queue = queue, !.todo = @ \cup new, !.at = at])
    BY <1>2 DEF ListRecursive
  <2>2. [q EXCEPT !.queue = queue, !.todo = @ \cup new, !.at = at].at = at
    BY <1>1 DEF Request
  <2>3. PICK p : p = [q EXCEPT !.queue = queue, !.todo = @ \cup new, !.at = at]
    OBVIOUS
  <2>4. Becomes(r, p) /\ p.at \in {"soft", "list"}
    BY <2>1, <2>2, <2>3
  <2>5. CalmName(req[r])'
    BY <2>4, DeletingNamed
  <2>6. files' = files
    BY <1>2 DEF ListRecursive, Reads, tables
  <2>7. QED
    BY <2>5, <2>6, StaysNamed
<1>3. CASE GetDeleted(r)
  <2>1. ASSUME NEW i, Becomes(r, [q EXCEPT !.at = "tx", !.found = i, !.row = files[i]])
        PROVE  CalmName(req[r])'
    <3>1. PICK p : p = [q EXCEPT !.at = "tx", !.found = i, !.row = files[i]]
      OBVIOUS
    <3>2. p.at = "tx"
      BY <1>1, <3>1 DEF Request
    <3>3. Becomes(r, p)
      BY <2>1, <3>1
    <3>4. QED
      BY <3>2, <3>3, DeletingNamed
  <2>2. CalmName(req[r])'
    BY <1>3, <2>1, EndsNamed DEF GetDeleted
  <2>3. QED
    BY <1>3, <2>2, StaysNamed DEF GetDeleted, Reads, tables
<1>4. CASE SoftDelete(r)
  <2>1. PICK i : i = q.found
    OBVIOUS
  <2>2. files \in [Ids -> Entry \cup {None}]
    BY DEF CatalogInv, TablesInv
  <2>3. files' = [files EXCEPT ![i] = None] \/ files' = files
    BY <1>4, <2>1 DEF SoftDelete
  <2>4. Live' \subseteq Live /\ \A j \in Live' : files'[j] = files[j]
    BY <2>2, <2>3 DEF Live
  <2>5. Unique'
    BY <2>4 DEF Unique, Exempt
  <2>6. PICK p : p = [q EXCEPT !.at = "soft", !.todo = {t \in @ : t.id # i}]
    OBVIOUS
  <2>7. p.at = "soft" /\ (Ends(r) \/ Becomes(r, p))
    BY <1>1, <1>4, <2>1, <2>6 DEF Request, SoftDelete, Deleted
  <2>8. QED
    BY <2>5, <2>7, EndsNamed, DeletingNamed
<1>5. QED
  BY <1>2, <1>3, <1>4

LEMMA HandlesNamed ==
  ASSUME CatalogInv, HeldInv, Unique, NEW r \in Requests, CalmName(req[r]), Handles(r)
  PROVE  Unique' /\ CalmName(req[r])'
<1>1. CASE Copy(r)
  BY <1>1, CopyFolderNamed, CopyBlobNamed, CopyChildrenNamed DEF Copy, At
<1>2. QED
  BY <1>1, PutNamed, GetSourceNamed, LookupNamed, MkdirNamed, AncestorsNamed, CheckNameNamed,
     FindSimilarNamed, UpdateFileMD5Named, MoveFileNamed, CreateNamed, StartCopyNamed, CopyRowNamed,
     DeleteNamed
     DEF Handles

LEMMA IdleNamedNext ==
  ASSUME NEW r \in Requests, req'[r] = Idle
  PROVE  CalmName(req[r])'
  BY DEF CalmName, Idle, Asked, Works

(* Every step, while requests are served one at a time. *)
LEMMA StepNamed ==
  ASSUME CatalogInv, HeldInv, Alone, NamesInv, [Next]_vars
  PROVE  NamesInv'
<1> SUFFICES ASSUME calm' PROVE Unique' /\ \A r \in Requests : CalmName(req[r])'
  BY DEF NamesInv
<1>1. ASSUME NEW r \in Requests, Arrives(r)
      PROVE  Unique' /\ \A s \in Requests : CalmName(req[s])'
  <2>1. PICK q : Begin(r, q)
    BY <1>1, ArrivesBegins
  <2>2. calm /\ \A s \in Requests \ {r} : req'[s] = Idle
    BY <2>1, AloneTogether DEF Begin
  <2>3. Unique' /\ CalmName(req[r])'
    BY <1>1, <2>2, ArrivesNamed DEF NamesInv
  <2>4. QED
    BY <2>2, <2>3, IdleNamedNext
<1>2. ASSUME NEW r \in Requests, Handles(r)
      PROVE  Unique' /\ \A s \in Requests : CalmName(req[s])'
  <2>1. PICK q : Becomes(r, q)
    BY <1>2, HandlesBecomes
  <2>2. calm /\ \A s \in Requests \ {r} : req'[s] = Idle
    BY <1>2, <2>1, HandlesBecomes, AloneTogether DEF Becomes
  <2>3. Unique' /\ CalmName(req[r])'
    BY <1>2, <2>2, HandlesNamed DEF NamesInv
  <2>4. QED
    BY <2>2, <2>3, IdleNamedNext
<1>3. ASSUME NEW r \in Requests, Abort(r) PROVE FALSE
  BY <1>3 DEF Abort
<1>4. ASSUME NEW d \in Dir, NEW b \in StandardNames, b \in Bases, EnsureFolder(d, b)
      PROVE  Unique' /\ \A s \in Requests : CalmName(req[s])'
  <2> DEFINE e == Folder(d, Plain(b))
  <2>1. e \in Entry /\ Free(e.dir, e.name)
    BY <1>4, PlainType, PlainNumber, FolderType DEF Folder, Free, Exempt
  <2>2. Insert(e) /\ ~serving /\ req' = req /\ calm' = calm
    BY <1>4 DEF EnsureFolder
  <2> HIDE DEF e
  <2>3. Unique'
    BY <2>1, <2>2, InsertNamed DEF NamesInv
  <2>4. QED
    BY <2>2, <2>3, IdleNamedNext DEF Alone
<1>5. CASE Die \/ Serve \/ UNCHANGED vars
  <2>1. files' = files /\ calm
    BY <1>5 DEF Die, Serve, vars, tables
  <2>2. \A r \in Requests : req'[r] = req[r] \/ req'[r] = Idle
    BY <1>5 DEF Die, Serve, vars
  <2>3. ASSUME NEW r \in Requests, req'[r] = req[r] PROVE CalmName(req[r])'
    <3>1. PICK q : q = req[r]
      OBVIOUS
    <3>2. CalmName(q)'
      BY <2>1, <3>1, StaysNamed DEF NamesInv
    <3>3. QED
      BY <2>3, <3>1, <3>2 DEF CalmName, CopiesApart, Free, Named, Children, Live
  <2>4. QED
    BY <2>1, <2>2, <2>3, StaysNamed, IdleNamedNext DEF NamesInv
<1>6. QED
  BY <1>1, <1>2, <1>3, <1>4, <1>5, EnsuresFolder DEF Next, Ensures

(* Served one at a time, requests leave the names of a folder different,   *)
(* and each knows of the names what it needs.                              *)
THEOREM NamesInvariant == Spec => []NamesInv
<1>1. Init => NamesInv
  BY IdleNamed DEF Init, NamesInv, Unique, Live
<1>2. CatalogInv /\ HeldInv /\ Alone /\ NamesInv /\ [Next]_vars => NamesInv'
  BY StepNamed
<1>3. QED
  BY <1>1, <1>2, CatalogInvariant, ReferencesInvariant, CalmlyAlone, PTL DEF Spec

(* Requests served one at a time leave no two entries of a folder with the *)
(* same name, except those with an extension and the standard folders.     *)
THEOREM NamesUnique == Spec => []UniqueNames
<1>1. NamesInv => UniqueNames
  BY DEF NamesInv, UniqueNames, Settled, Unique, Exempt
<1>2. QED
  BY <1>1, NamesInvariant, PTL

-----------------------------------------------------------------------------
(* Part 4.  Requests served one at a time keep the catalog a tree, as long *)
(* as the walk up from a folder is not cut off before the root.            *)
Reach(d) == d = 0 \/ d \in Live
Acyclic == \A S \in SUBSET Live : S # {} => \E i \in S : files[i].dir \notin S
Parented(D) == \A i \in Live : Reach(files[i].dir) \/ i \in D

(* What a delete has listed, and the folder it has listed it for. *)
Doomed(q) == IF q.op = "delete" THEN {t.id : t \in q.todo} ELSE {}
Branch(q) == {q.id} \cup Doomed(q)

(* No folder below i is d or above it. *)
Escapes(i, d) == \A S \in SUBSET Live : d \in S => \E j \in S \ {i} : files[j].dir \notin S

(* What f passes, up to its n-th, are different entries. *)
Different(f, n) == \A j, k \in 0 .. n : f[j] = f[k] => j = k

(* The walk from the target directory has passed f[0], f[1] and so on. *)
Walked(q, f) == /\ f[0] = q.dir /\ f[q.levels] = q.found
                /\ \A k \in 0 .. q.levels - 1 : /\ f[k] \in Live \ {q.id}
                                                /\ files[f[k]].dir = f[k + 1]
                /\ Different(f, q.levels - 1)
Walk(q) == \E f \in [0 .. q.levels -> Dir] : Walked(q, f)

(* No entry is so deep that the walk up from it is cut off: on the way up  *)
(* from an entry there are never more than WalkLimit different ones.  That *)
(* there is no loop is not part of this.                                   *)
Shallow == \A f \in [0 .. WalkLimit -> Live] :
             Different(f, WalkLimit) => \E k \in 0 .. WalkLimit - 1 : files[f[k]].dir # f[k + 1]

Lists(q) == /\ \A i \in Doomed(q) : files[i].dir \in Branch(q)
            /\ \A p \in q.queue : p[1] \in Branch(q)
            /\ \A i \in Live \ Doomed(q) :
                 files[i].dir \in Branch(q) => \E p \in q.queue : p[1] = files[i].dir
Closed(q) == \A i \in Live : files[i].dir \in Branch(q) => i \in Doomed(q)

CalmDelete(q) ==
  /\ q.at \in {"list", "soft", "tx"} => /\ q.op = "delete" /\ q.id \in Live /\ q.id \notin Doomed(q)
                                        /\ Doomed(q) \subseteq Live
  /\ q.at = "list" => Lists(q)
  /\ q.at \in {"soft", "tx"} => Closed(q)
  /\ q.at = "tx" => q.found \in Branch(q) /\ (Doomed(q) # {} => q.found # q.id)

CalmMove(q) ==
  /\ q.at \in {"put", "source", "resolve", "mkdir"} => q.levels = 0
  /\ q.at = "move" => q.op = "move"
  /\ q.op = "move" /\ q.at \in {"resolve", "mkdir", "ancestors", "check", "similar", "move"}
       => q.id \in Live /\ files[q.id] = q.row
  /\ q.at = "ancestors" => q.op = "move" /\ q.row.folder /\ Walk(q)
  /\ q.at \in {"check", "similar", "move"} /\ q.op = "move" /\ q.row.folder => Escapes(q.id, q.dir)

CalmPlace(q) ==
  /\ q.at \notin Works => q.todo = {} /\ q.queue = {}
  /\ q.at = "put" => q.op = "upload"
  /\ q.dir # 0 => q.dir \in Live /\ q.op # "delete"
  /\ q.at \in {"copying", "copied"} => /\ q.op = "copy"
                                       /\ \A t \in q.todo : Reach(t.dst)
                                       /\ \A p \in q.queue : Reach(p[2])

TreeAt(q) == Acyclic /\ Parented(Doomed(q)) /\ CalmPlace(q) /\ CalmMove(q) /\ CalmDelete(q)

TreeInv == calm => /\ (\A r \in Requests : req[r] = Idle) => TreeAt(Idle)
                   /\ \A r \in Requests : req[r] # Idle => TreeAt(req[r])

LEMMA IdlePlaced ==
  /\ CalmPlace(Idle) /\ CalmMove(Idle) /\ CalmDelete(Idle) /\ Doomed(Idle) = {}
  /\ (CalmPlace(Idle) /\ CalmMove(Idle) /\ CalmDelete(Idle))'
  BY DEF CalmPlace, CalmMove, CalmDelete, Idle, Doomed, Works

LEMMA SameTree ==
  ASSUME NEW r \in Requests, NEW q, req'[r] = q, TreeAt(q)'
  PROVE  TreeAt(req[r])'
<1>1. CalmPlace(req[r])' /\ CalmDelete(req[r])' /\ Parented(Doomed(req[r]))' /\ Acyclic'
  BY DEF TreeAt, Acyclic, Parented, CalmPlace, CalmDelete, Doomed, Branch, Lists, Closed, Reach, Live
<1>2. Walk(q)' => Walk(req[r])'
  BY DEF Walk, Walked, Live
<1>3. CalmMove(req[r])'
  BY <1>2 DEF TreeAt, CalmMove, Escapes, Live
<1>4. QED
  BY <1>1, <1>3 DEF TreeAt

LEMMA ToTree ==
  ASSUME CatalogInv, NEW r \in Requests, NEW q, Becomes(r, q), TreeAt(q)'
  PROVE  TreeAt(req[r])'
<1>1. req'[r] = q
  BY DEF CatalogInv, RequestsInv, Becomes
<1>2. QED
  BY <1>1, SameTree

LEMMA StaysTree ==
  ASSUME files' = files
  PROVE  \A q : TreeAt(q) => TreeAt(q)'
<1>1. Live' = Live
  BY DEF Live
<1>2. Acyclic => Acyclic'
  BY <1>1 DEF Acyclic
<1>3. \A q : Parented(Doomed(q)) => Parented(Doomed(q))'
  BY <1>1 DEF Parented, Doomed, Reach
<1>4. \A q : CalmPlace(q) => CalmPlace(q)'
  BY <1>1 DEF CalmPlace, Reach
<1>5. \A q : CalmDelete(q) => CalmDelete(q)'
  BY <1>1 DEF CalmDelete, Lists, Closed, Branch, Doomed
<1>6. \A q : CalmMove(q) => CalmMove(q)'
  <2>1. \A i, d : Escapes(i, d) => Escapes(i, d)'
    BY <1>1 DEF Escapes
  <2>2. \A q : Walk(q) => Walk(q)'
    BY <1>1 DEF Walk, Walked
  <2>3. QED
    BY <1>1, <2>1, <2>2 DEF CalmMove
<1>7. QED
  BY <1>2, <1>3, <1>4, <1>5, <1>6 DEF TreeAt

LEMMA ReadsTree ==
  ASSUME CatalogInv, NEW r \in Requests, files' = files, NEW q, Becomes(r, q), TreeAt(q)
  PROVE  TreeAt(req[r])'
<1>1. PICK p : p = q
  OBVIOUS
<1>2. TreeAt(p)' /\ Becomes(r, p)
  BY <1>1, StaysTree
<1>3. QED
  BY <1>2, ToTree

LEMMA EndsTree ==
  ASSUME CatalogInv, NEW r \in Requests, Ends(r), Acyclic', Parented({})'
  PROVE  TreeAt(req[r])'
<1>1. PICK q : q = Idle
  OBVIOUS
<1>2. Doomed(q) = {}
  BY <1>1, IdlePlaced
<1>3. (CalmPlace(q) /\ CalmMove(q) /\ CalmDelete(q))'
  BY <1>1 DEF CalmPlace, CalmMove, CalmDelete, Idle, Works
<1>4. Parented(Doomed(q))'
  BY <1>2 DEF Parented, Doomed
<1>5. Becomes(r, q)
  BY <1>1 DEF Ends
<1>6. TreeAt(q)'
  BY <1>3, <1>4 DEF TreeAt
<1>7. QED
  BY <1>5, <1>6, ToTree

(* A request gives up, or is done, without having changed a row. *)
LEMMA GivesUpTree ==
  ASSUME CatalogInv, NEW r \in Requests, Ends(r), files' = files, TreeAt(req[r]),
         Doomed(req[r]) = {}
  PROVE  TreeAt(req[r])'
<1>1. Live' = Live
  BY DEF Live
<1>2. Acyclic'
  BY <1>1 DEF TreeAt, Acyclic
<1>3. Parented({})'
  BY <1>1 DEF TreeAt, Parented, Reach
<1>4. QED
  BY <1>2, <1>3, EndsTree

-----------------------------------------------------------------------------
(* Steps that read. *)
Resolved(p, q) ==
  /\ p.at \in {"resolve", "check", "ancestors"}
  /\ p.at = "ancestors" => p.op = "move" /\ p.row.folder /\ p.found = p.dir
  /\ p.at = "check" => ~(p.op = "move" /\ p.row.folder)
  /\ p.op = q.op /\ p.id = q.id /\ p.dir = q.dir /\ p.row = q.row /\ p.levels = q.levels
  /\ p.todo = q.todo /\ p.queue = q.queue

LEMMA ResolvingResolves ==
  ASSUME NEW q \in Request
  PROVE  Resolved(Resolving(q), q)
<1>1. CASE q.rest # <<>>
  BY <1>1 DEF Resolving, Resolved, Request
<1>2. CASE q.rest = <<>> /\ q.op = "move" /\ q.row.folder
  BY <1>2 DEF Resolving, AfterResolve, Resolved, Request
<1>3. CASE q.rest = <<>> /\ ~(q.op = "move" /\ q.row.folder)
  BY <1>3 DEF Resolving, AfterResolve, Resolved, Request
<1>4. QED
  BY <1>1, <1>2, <1>3

(* The walk has not begun: no folder has been passed. *)
LEMMA WalkBegins ==
  ASSUME NEW q, q.levels = 0, q.found = q.dir, q.dir \in Dir
  PROVE  Walk(q) /\ Walk(q)'
<1> DEFINE f == [k \in 0 .. 0 |-> q.dir]
<1>1. f \in [0 .. 0 -> Dir] /\ f[0] = q.dir /\ 0 .. 0 - 1 = {}
  OBVIOUS
<1> HIDE DEF f
<1>2. Walked(q, f)
  BY <1>1 DEF Walked, Different
<1>3. Walked(q, f)'
  BY <1>1 DEF Walked, Different
<1>4. Walk(q)
  BY <1>1, <1>2 DEF Walk
<1>5. Walk(q)'
  BY <1>1, <1>3 DEF Walk, Walked
<1>6. QED
  BY <1>4, <1>5

(* What a request that looks for its place brings along. *)
Seeks(q) == /\ q.op \in Placed /\ q.todo = {} /\ q.queue = {} /\ q.levels = 0
            /\ q.dir # 0 => q.dir \in Live
            /\ q.op = "move" => q.id \in Live /\ files[q.id] = q.row

LEMMA ResolvedTree ==
  ASSUME NEW q, NEW p, Resolved(p, q), Seeks(q), Acyclic, Parented({})
  PROVE  TreeAt(p)
<1>1. Doomed(p) = {}
  BY DEF Doomed, Resolved, Seeks, Placed
<1>2. CalmPlace(p)
  BY DEF CalmPlace, Resolved, Seeks, Placed, Works
<1>3. p.at = "ancestors" => Walk(p)
  <2>1. p.dir \in Dir
    BY BoundsAssumption DEF Resolved, Seeks, Live, Ids, Dir
  <2>2. QED
    BY <2>1, WalkBegins DEF Resolved, Seeks
<1>4. CalmMove(p)
  BY <1>3 DEF CalmMove, Resolved, Seeks
<1>5. CalmDelete(p)
  BY DEF CalmDelete, Resolved
<1>6. QED
  BY <1>1, <1>2, <1>4, <1>5 DEF TreeAt

LEMMA ResolvedTreeNext ==
  ASSUME NEW q, NEW p, Resolved(p, q), Seeks(q)', Acyclic', Parented({})'
  PROVE  TreeAt(p)'
<1>1. Doomed(p) = {}
  BY DEF Doomed, Resolved, Seeks, Placed
<1>2. CalmPlace(p)'
  BY DEF CalmPlace, Resolved, Seeks, Placed, Works
<1>3. p.at = "ancestors" => Walk(p)'
  <2>1. p.dir \in Dir
    BY BoundsAssumption DEF Resolved, Seeks, Live, Ids, Dir
  <2>2. p.levels = 0
    BY DEF Resolved, Seeks
  <2>3. QED
    BY <2>1, <2>2, WalkBegins DEF Resolved
<1>4. CalmMove(p)'
  <2>1. /\ p.op = "move" => p.id \in Live' /\ files'[p.id] = p.row
        /\ p.levels = 0
    BY DEF Resolved, Seeks
  <2>2. QED
    BY <1>3, <2>1 DEF CalmMove, Resolved
<1>5. CalmDelete(p)'
  BY DEF CalmDelete, Resolved
<1>6. Parented(Doomed(p))'
  BY <1>1 DEF Parented, Doomed
<1>7. QED
  BY <1>2, <1>4, <1>5, <1>6 DEF TreeAt

LEMMA BeginsTree ==
  ASSUME CatalogInv, TreeAt(Idle), NEW r \in Requests, NEW q, Begin(r, q), TreeAt(q)
  PROVE  TreeAt(req[r])'
<1>1. PICK p : p = q
  OBVIOUS
<1>2. TreeAt(p)' /\ req'[r] = p
  BY <1>1, StaysTree DEF Begin, tables, CatalogInv, RequestsInv
<1>3. QED
  BY <1>2, SameTree

LEMMA ArrivesTree ==
  ASSUME CatalogInv, TreeAt(Idle), NEW r \in Requests, Arrives(r)
  PROVE  TreeAt(req[r])'
<1>1. Acyclic /\ Parented({})
  BY IdlePlaced DEF TreeAt
<1>2. ASSUME NEW t \in Targets, Upload(r, t[1], t[2]) PROVE TreeAt(req[r])'
  <2> DEFINE q == [Idle EXCEPT !.op = "upload", !.at = "put", !.rest = t[1], !.name = Plain(t[2]),
                               !.key = PathKey(t[1], t[2]), !.md5 = arrived + 1]
  <2>1. CalmPlace(q) /\ CalmMove(q) /\ CalmDelete(q) /\ Doomed(q) = {}
    BY DEF CalmPlace, CalmMove, CalmDelete, Doomed, Idle, Works
  <2>2. Begin(r, q)
    BY <1>2 DEF Upload
  <2> HIDE DEF q
  <2>3. QED
    BY <1>1, <2>1, <2>2, BeginsTree DEF TreeAt
<1>3. ASSUME NEW t \in Targets, CreateFolder(r, t[1], t[2]) PROVE TreeAt(req[r])'
  <2> DEFINE q == [Idle EXCEPT !.op = "folder", !.rest = t[1], !.name = Plain(t[2])]
  <2>1. t[1] \in Seq(Bases) /\ Plain(t[2]) \in Name
    BY TargetsAssumption, PlainType
  <2>2. q \in Request /\ Seeks(q)
    BY <2>1, IdleType DEF Request, Idle, Seeks, Placed
  <2>3. Begin(r, Resolving(q))
    BY <1>3 DEF CreateFolder
  <2> HIDE DEF q
  <2>4. TreeAt(Resolving(q))
    BY <1>1, <2>2, ResolvingResolves, ResolvedTree
  <2>5. QED
    BY <2>3, <2>4, BeginsTree
<1>4. ASSUME NEW t \in Targets, NEW op \in {"move", "copy"}, NEW i \in 1 .. nextId - 1,
             MoveOrCopy(r, op, i, t[1], t[2])
      PROVE  TreeAt(req[r])'
  <2> DEFINE q == [Idle EXCEPT !.op = op, !.at = "source", !.id = i, !.rest = t[1],
                               !.name = Plain(t[2])]
  <2>1. CalmPlace(q) /\ CalmMove(q) /\ CalmDelete(q) /\ Doomed(q) = {}
    BY DEF CalmPlace, CalmMove, CalmDelete, Doomed, Idle, Works
  <2>2. Begin(r, q)
    BY <1>4 DEF MoveOrCopy
  <2> HIDE DEF q
  <2>3. QED
    BY <1>1, <2>1, <2>2, BeginsTree DEF TreeAt
<1>5. ASSUME NEW i \in 1 .. nextId - 1, Delete(r, i) PROVE TreeAt(req[r])'
  <2> DEFINE q == [Idle EXCEPT !.op = "delete", !.at = "source", !.id = i]
  <2>1. CalmPlace(q) /\ CalmMove(q) /\ CalmDelete(q) /\ Doomed(q) = {}
    BY DEF CalmPlace, CalmMove, CalmDelete, Doomed, Idle, Works
  <2>2. Begin(r, q)
    BY <1>5 DEF Delete
  <2> HIDE DEF q
  <2>3. QED
    BY <1>1, <2>1, <2>2, BeginsTree DEF TreeAt
<1>6. QED
  BY <1>2, <1>3, <1>4, <1>5 DEF Arrives

(* A request that has not come to its work yet has nothing to delete. *)
LEMMA SeekingTree ==
  ASSUME CatalogInv, NEW r \in Requests, TreeAt(req[r]), req[r].at \notin Works
  PROVE  /\ req[r] \in Request /\ Prepared(req[r]) /\ Doomed(req[r]) = {}
         /\ req[r].todo = {} /\ req[r].queue = {} /\ Acyclic /\ Parented({})
<1>1. Doomed(req[r]) = {}
  BY DEF Doomed, TreeAt, CalmPlace
<1>2. QED
  BY <1>1, RequestType DEF TreeAt, CalmPlace

LEMMA PutTree ==
  ASSUME CatalogInv, NEW r \in Requests, TreeAt(req[r]), Put(r)
  PROVE  TreeAt(req[r])'
<1>1. req[r].at = "put" /\ Becomes(r, Resolving(req[r])) /\ files' = files
  BY DEF Put, At, tables
<1>2. /\ req[r] \in Request /\ Prepared(req[r]) /\ req[r].todo = {} /\ req[r].queue = {}
      /\ Acyclic /\ Parented({})
  BY <1>1, SeekingTree DEF Works
<1>3. Seeks(req[r])
  BY <1>1, <1>2 DEF Seeks, TreeAt, CalmPlace, CalmMove, Prepared, Placing, Placed
<1>4. TreeAt(Resolving(req[r]))
  BY <1>2, <1>3, ResolvingResolves, ResolvedTree
<1>5. QED
  BY <1>1, <1>4, ReadsTree

(* Nothing is below a file. *)
LEMMA FileChildless ==
  ASSUME CatalogInv, HeldInv, NEW i \in Live, ~files[i].folder
  PROVE  /\ \A j \in Live : files[j].dir # i
         /\ ~KnownFolder(i)
<1>1. i \in Ids /\ i # 0 /\ recycled[i] = None
  BY BoundsAssumption DEF CatalogInv, TablesInv, OneHome, Live, Ids
<1>2. ~IsFolder(i)
  BY <1>1 DEF IsFolder
<1>3. QED
  BY <1>1, <1>2 DEF HeldInv, ParentIsFolder, KnownFolder

LEMMA GetSourceTree ==
  ASSUME CatalogInv, HeldInv, NEW r \in Requests, TreeAt(req[r]), GetSource(r)
  PROVE  TreeAt(req[r])'
<1> DEFINE q == req[r]
           i == q.id
           e == files[i]
<1>1. q.at = "source" /\ q.at \notin Works /\ files' = files
  BY DEF GetSource, At, Reads, tables, Works
<1>2. /\ q \in Request /\ Prepared(q) /\ Doomed(q) = {} /\ q.todo = {} /\ q.queue = {}
      /\ Acyclic /\ Parented({})
  BY <1>1, SeekingTree
<1>3. i \in Ids /\ q.op \in {"move", "copy", "delete"} /\ e \in Entry \cup {None}
  BY <1>1, <1>2, TablesType DEF Prepared
<1>4. CASE Ends(r)
  BY <1>1, <1>2, <1>4, GivesUpTree
<1>5. CASE e # None /\ q.op = "delete"
  <2>1. i \in Live
    BY <1>3, <1>5 DEF Live
  <2>2. q.dir = 0
    BY <1>5 DEF TreeAt, CalmPlace
  <2>3. CASE e.folder
    <3> DEFINE p == [q EXCEPT !.at = "list", !.queue = {<<q.id, 0>>}]
    <3>1. /\ p.at = "list" /\ p.op = "delete" /\ p.id = i /\ p.dir = 0 /\ p.todo = {}
          /\ p.queue = {<<i, 0>>}
      BY <1>2, <1>5, <2>2 DEF Request
    <3>2. Becomes(r, p)
      BY <1>5, <2>3 DEF GetSource
    <3> HIDE DEF p, q, i, e
    <3>3. Doomed(p) = {} /\ Branch(p) = {i}
      BY <3>1 DEF Doomed, Branch
    <3>4. Lists(p)
      BY <3>1, <3>3 DEF Lists
    <3>5. CalmPlace(p) /\ CalmMove(p) /\ CalmDelete(p)
      BY <2>1, <3>1, <3>3, <3>4 DEF CalmPlace, CalmMove, CalmDelete, Works
    <3>6. TreeAt(p)
      BY <1>2, <3>3, <3>5 DEF TreeAt
    <3>7. QED
      BY <1>1, <3>2, <3>6, ReadsTree
  <2>4. CASE ~e.folder
    <3> DEFINE p == [q EXCEPT !.at = "soft"]
    <3>1. p.at = "soft" /\ p.op = "delete" /\ p.id = i /\ p.dir = 0 /\ p.todo = {}
      BY <1>2, <1>5, <2>2 DEF Request
    <3>2. Becomes(r, p)
      BY <1>5, <2>4 DEF GetSource
    <3>3. \A j \in Live : files[j].dir # i
      BY <2>1, <2>4, FileChildless
    <3> HIDE DEF p, q, i, e
    <3>4. Doomed(p) = {} /\ Branch(p) = {i}
      BY <3>1 DEF Doomed, Branch
    <3>5. Closed(p)
      BY <3>3, <3>4 DEF Closed
    <3>6. CalmPlace(p) /\ CalmMove(p) /\ CalmDelete(p)
      BY <2>1, <3>1, <3>4, <3>5 DEF CalmPlace, CalmMove, CalmDelete, Works
    <3>7. TreeAt(p)
      BY <1>2, <3>4, <3>6 DEF TreeAt
    <3>8. QED
      BY <1>1, <3>2, <3>7, ReadsTree
  <2>5. QED
    BY <2>3, <2>4
<1>6. CASE e # None /\ q.op # "delete" /\ Becomes(r, Resolving([q EXCEPT !.row = e]))
  <2> DEFINE p == [q EXCEPT !.row = e]
  <2>1. i \in Live /\ e \in Entry
    BY <1>3, <1>6 DEF Live
  <2>2. /\ p \in Request /\ p.op = q.op /\ p.todo = {} /\ p.queue = {} /\ p.dir = q.dir
        /\ p.id = i /\ p.row = e /\ p.levels = q.levels
    BY <1>2, <2>1 DEF Request
  <2>3. Becomes(r, Resolving(p))
    BY <1>6
  <2>4. q.levels = 0 /\ (q.dir # 0 => q.dir \in Live)
    BY <1>1 DEF TreeAt, CalmMove, CalmPlace
  <2> HIDE DEF p
  <2>5. Seeks(p)
    BY <1>3, <1>6, <2>1, <2>2, <2>4 DEF Seeks, Placed
  <2>6. TreeAt(Resolving(p))
    BY <1>2, <2>2, <2>5, ResolvingResolves, ResolvedTree
  <2>7. QED
    BY <1>1, <2>3, <2>6, ReadsTree
<1>7. QED
  BY <1>3, <1>4, <1>5, <1>6 DEF GetSource

(* A request on its way to its directory. *)
LEMMA OnTheWay ==
  ASSUME CatalogInv, NEW r \in Requests, TreeAt(req[r]), req[r].at \in {"resolve", "mkdir"}
  PROVE  Seeks(req[r]) /\ req[r] \in Request /\ req[r].rest # <<>> /\ Acyclic /\ Parented({})
         /\ Doomed(req[r]) = {}
<1>1. req[r].at \notin Works
  BY DEF Works
<1>2. QED
  BY <1>1, SeekingTree DEF Seeks, TreeAt, CalmPlace, CalmMove, Prepared, Placing

LEMMA EnteredSeeks ==
  ASSUME NEW q \in Request, q.rest # <<>>, NEW d \in Dir
  PROVE  LET w == [q EXCEPT !.rest = Tail(@), !.dir = d]
         IN  /\ w \in Request /\ w.op = q.op /\ w.todo = q.todo /\ w.queue = q.queue
             /\ w.levels = q.levels /\ w.dir = d /\ w.id = q.id /\ w.row = q.row
<1>1. [q EXCEPT !.rest = Tail(@), !.dir = d] \in Request
  BY EnteredRequest
<1>2. QED
  BY <1>1 DEF Request

LEMMA LookupTree ==
  ASSUME CatalogInv, NEW r \in Requests, TreeAt(req[r]), Lookup(r)
  PROVE  TreeAt(req[r])'
<1>1. PICK q : q = req[r]
  OBVIOUS
<1>2. q.at = "resolve" /\ files' = files
  BY <1>1 DEF Lookup, At, Reads, tables
<1>3. Seeks(q) /\ q \in Request /\ q.rest # <<>> /\ Acyclic /\ Parented({}) /\ Doomed(q) = {}
  BY <1>1, <1>2, OnTheWay
<1>4. ASSUME NEW i \in Live, Becomes(r, Entered(q, i)) PROVE TreeAt(req[r])'
  <2>1. PICK w : w = [q EXCEPT !.rest = Tail(@), !.dir = i]
    OBVIOUS
  <2>2. i \in Dir
    BY TablesType
  <2>3. w \in Request /\ w.op = q.op /\ w.todo = q.todo /\ w.queue = q.queue
        /\ w.levels = q.levels /\ w.dir = i /\ w.id = q.id /\ w.row = q.row
    BY <1>3, <2>1, <2>2, EnteredSeeks
  <2>4. Seeks(w)
    BY <1>3, <2>3 DEF Seeks
  <2>5. TreeAt(Resolving(w)) /\ Becomes(r, Resolving(w))
    BY <1>3, <1>4, <2>1, <2>3, <2>4, ResolvingResolves, ResolvedTree DEF Entered
  <2>6. QED
    BY <1>2, <2>5, ReadsTree
<1>5. CASE Ends(r)
  BY <1>1, <1>2, <1>3, <1>5, GivesUpTree
<1>6. CASE Goes(r, "mkdir")
  <2>1. PICK p : p = [q EXCEPT !.at = "mkdir"]
    OBVIOUS
  <2>2. /\ p.at = "mkdir" /\ p.op = q.op /\ p.todo = {} /\ p.queue = {} /\ p.levels = 0
        /\ p.dir = q.dir /\ p.id = q.id /\ p.row = q.row
    BY <1>3, <2>1 DEF Request, Seeks
  <2>3. Doomed(p) = {} /\ CalmPlace(p) /\ CalmMove(p) /\ CalmDelete(p)
    BY <1>3, <2>2 DEF Doomed, CalmPlace, CalmMove, CalmDelete, Seeks, Placed, Works
  <2>4. TreeAt(p) /\ Becomes(r, p)
    BY <1>1, <1>3, <1>6, <2>1, <2>3 DEF TreeAt, Goes
  <2>5. QED
    BY <1>2, <2>4, ReadsTree
<1>7. QED
  BY <1>1, <1>4, <1>5, <1>6 DEF Lookup, Named, Children

(* A new row below the root or a folder of the tree is a leaf. *)
LEMMA InsertTree ==
  ASSUME CatalogInv, HeldInv, Acyclic, Parented({}), NEW e \in Entry, Insert(e), Reach(e.dir)
  PROVE  /\ Acyclic' /\ Parented({})'
         /\ \A d : Reach(d) => Reach(d)'
         /\ \A d : d = nextId => d \in Live'
         /\ \A i \in Live : files'[i] = files[i]
<1>1. PICK n : n = nextId
  OBVIOUS
<1>2. /\ n \in Ids /\ files[n] = None /\ Live' = Live \cup {n} /\ n \notin Live
      /\ files'[n] = e /\ \A i \in Live : files'[i] = files[i]
  BY <1>1, InsertNamed
<1>3. n # 0
  BY <1>2, BoundsAssumption DEF Ids
<1>4. \A i \in Live : files[i].dir # n
  BY <1>2, <1>3 DEF Parented, Reach
<1>5. Acyclic'
  <2> SUFFICES ASSUME NEW S \in SUBSET (Live'), S # {}
               PROVE  \E i \in S : files'[i].dir \notin S
    BY DEF Acyclic
  <2>1. CASE n \notin S
    BY <1>2, <2>1 DEF Acyclic
  <2>2. CASE S = {n}
    BY <1>2, <1>3, <2>2 DEF Reach
  <2>3. CASE n \in S /\ S # {n}
    <3>1. S \ {n} \in SUBSET Live /\ S \ {n} # {}
      BY <1>2, <2>3
    <3>2. PICK i \in S \ {n} : files[i].dir \notin S \ {n}
      BY <3>1 DEF Acyclic
    <3>3. i \in Live /\ files'[i] = files[i] /\ files[i].dir # n
      BY <1>2, <1>4, <3>1
    <3>4. QED
      BY <3>2, <3>3
  <2>4. QED
    BY <2>1, <2>2, <2>3
<1>6. \A d : Reach(d) => Reach(d)'
  BY <1>2 DEF Reach
<1>7. Parented({})'
  BY <1>2, <1>6 DEF Parented, Reach
<1>8. QED
  BY <1>1, <1>2, <1>5, <1>6, <1>7

LEMMA MkdirTree ==
  ASSUME CatalogInv, HeldInv, NEW r \in Requests, TreeAt(req[r]), Mkdir(r)
  PROVE  TreeAt(req[r])'
<1>1. PICK q : q = req[r]
  OBVIOUS
<1>2. PICK n : n = nextId
  OBVIOUS
<1> DEFINE e == Folder(q.dir, Plain(Head(q.rest)))
<1>3. q.at = "mkdir" /\ Insert(e) /\ n \in Dir
  BY <1>1, <1>2, BoundsAssumption DEF Mkdir, At, Insert, Ids, Dir
<1>4. Seeks(q) /\ q \in Request /\ q.rest # <<>> /\ Acyclic /\ Parented({})
  BY <1>1, <1>3, OnTheWay
<1>5. Head(q.rest) \in Bases /\ q.dir \in Dir
  BY <1>4 DEF Request
<1>6. e \in Entry /\ Reach(e.dir)
  BY <1>4, <1>5, PlainType, FolderType DEF Folder, Reach, Seeks
<1> HIDE DEF e
<1>7. /\ Acyclic' /\ Parented({})' /\ n \in Live'
      /\ \A d : Reach(d) => Reach(d)'
      /\ \A i \in Live : files'[i] = files[i]
  BY <1>2, <1>3, <1>4, <1>6, InsertTree
<1>8. PICK w : w = [q EXCEPT !.rest = Tail(@), !.dir = n]
  OBVIOUS
<1>9. w \in Request /\ w.op = q.op /\ w.todo = q.todo /\ w.queue = q.queue
      /\ w.levels = q.levels /\ w.dir = n /\ w.id = q.id /\ w.row = q.row
  BY <1>3, <1>4, <1>8, EnteredSeeks
<1>10. Seeks(w)'
  <2>1. q.op = "move" => q.id \in Live' /\ files'[q.id] = q.row
    <3> SUFFICES ASSUME q.op = "move" PROVE q.id \in Live' /\ files'[q.id] = q.row
      OBVIOUS
    <3>1. q.id \in Live /\ files[q.id] = q.row /\ q.id # 0
      BY <1>4, BoundsAssumption DEF Seeks, Live, Ids
    <3>2. Reach(q.id)'
      BY <1>7, <3>1 DEF Reach
    <3>3. QED
      BY <1>7, <3>1, <3>2 DEF Reach
  <2>2. QED
    BY <1>4, <1>7, <1>9, <2>1 DEF Seeks
<1>11. PICK p : p = Resolving(w)
  OBVIOUS
<1>12. Resolved(p, w) /\ Becomes(r, p)
  BY <1>1, <1>2, <1>8, <1>9, <1>11, ResolvingResolves DEF Mkdir, Entered
<1>13. TreeAt(p)'
  BY <1>7, <1>10, <1>12, ResolvedTreeNext
<1>14. QED
  BY <1>12, <1>13, ToTree

(* In a tree the walk passes no folder twice. *)
LEMMA WalkNew ==
  ASSUME Acyclic, NEW q, q.levels \in Nat, NEW f, Walked(q, f), q.found \in Live
  PROVE  Different(f, q.levels)
<1> DEFINE V == {f[k] : k \in 0 .. q.levels - 1}
<1>1. q.found \notin V
  <2> SUFFICES ASSUME q.found \in V PROVE FALSE
    OBVIOUS
  <2>1. ASSUME NEW k \in 0 .. q.levels - 1 PROVE f[k + 1] \in V
    <3>1. CASE k + 1 = q.levels
      BY <3>1 DEF Walked
    <3>2. CASE k + 1 # q.levels
      <4>1. k + 1 \in 0 .. q.levels - 1
        BY <3>2
      <4>2. QED
        BY <4>1
    <3>3. QED
      BY <3>1, <3>2
  <2>2. \A v \in V : v \in Live /\ files[v].dir \in V
    BY <2>1 DEF Walked
  <2> HIDE DEF V
  <2>3. V \in SUBSET Live /\ V # {}
    BY <2>2
  <2>4. QED
    BY <2>2, <2>3 DEF Acyclic
<1>2. \A k \in 0 .. q.levels - 1 : f[k] # f[q.levels]
  BY <1>1 DEF Walked
<1>3. \A k \in 0 .. q.levels : k \in 0 .. q.levels - 1 \/ k = q.levels
  OBVIOUS
<1>4. QED
  BY <1>2, <1>3 DEF Walked, Different

LEMMA WalkOn ==
  ASSUME CatalogInv, Acyclic, NEW q, q.levels \in Nat, Walk(q), q.found \in Live, q.found # q.id,
         NEW p, p.levels = q.levels + 1, p.dir = q.dir, p.id = q.id, p.found = files[q.found].dir
  PROVE  Walk(p)
<1>1. PICK f \in [0 .. q.levels -> Dir] : Walked(q, f)
  BY DEF Walk
<1> DEFINE g == [k \in 0 .. q.levels + 1 |-> IF k <= q.levels THEN f[k] ELSE files[q.found].dir]
<1>2. files[q.found].dir \in Dir
  BY TablesType DEF Entry
<1>3. g \in [0 .. p.levels -> Dir]
  BY <1>2
<1>4. g[0] = p.dir /\ g[p.levels] = p.found
  BY <1>1 DEF Walked
<1>5. ASSUME NEW k \in 0 .. p.levels - 1
      PROVE  g[k] \in Live \ {p.id} /\ files[g[k]].dir = g[k + 1]
  <2>1. CASE k < q.levels
    <3>1. k \in 0 .. q.levels - 1 /\ g[k] = f[k] /\ g[k + 1] = f[k + 1]
      BY <2>1
    <3>2. QED
      BY <1>1, <3>1 DEF Walked
  <2>2. CASE k = q.levels
    <3>1. g[k] = f[q.levels] /\ g[k + 1] = files[q.found].dir
      BY <2>2
    <3>2. QED
      BY <1>1, <3>1 DEF Walked
  <2>3. QED
    BY <2>1, <2>2
<1>6. Different(g, p.levels - 1)
  <2>1. Different(f, q.levels)
    BY <1>1, WalkNew
  <2>2. \A k \in 0 .. p.levels - 1 : k \in 0 .. q.levels /\ g[k] = f[k]
    OBVIOUS
  <2> HIDE DEF g
  <2>3. QED
    BY <2>1, <2>2 DEF Different
<1> HIDE DEF g
<1>7. Walked(p, g)
  BY <1>4, <1>5, <1>6 DEF Walked
<1>8. QED
  BY <1>3, <1>7 DEF Walk

(* The walk comes out of a tree that is not too deep before its limit.     *)
LEMMA WalkReachesRoot ==
  ASSUME Acyclic, Shallow, NEW q, q.levels = WalkLimit, Walk(q)
  PROVE  q.found \notin Live
<1> SUFFICES ASSUME q.found \in Live PROVE FALSE
  OBVIOUS
<1>1. PICK f \in [0 .. WalkLimit -> Dir] : Walked(q, f)
  BY DEF Walk
<1>2. ASSUME NEW k \in 0 .. WalkLimit PROVE f[k] \in Live
  <2>1. CASE k = WalkLimit
    BY <1>1, <2>1 DEF Walked
  <2>2. CASE k # WalkLimit
    <3>1. k \in 0 .. q.levels - 1
      BY <2>2, WalkAssumption
    <3>2. QED
      BY <1>1, <3>1 DEF Walked
  <2>3. QED
    BY <2>1, <2>2
<1>3. f \in [0 .. WalkLimit -> Live]
  BY <1>2
<1>4. Different(f, WalkLimit)
  BY <1>1, WalkNew, WalkAssumption
<1>5. \A k \in 0 .. WalkLimit - 1 : files[f[k]].dir = f[k + 1]
  BY <1>1 DEF Walked
<1>6. QED
  BY <1>3, <1>4, <1>5 DEF Shallow

(* A walk that has come out of the tree has passed all that is above. *)
LEMMA WalkEnds ==
  ASSUME Acyclic, NEW q, q.levels \in Nat, Walk(q), q.found \notin Live
  PROVE  Escapes(q.id, q.dir)
<1>1. PICK f \in [0 .. q.levels -> Dir] : Walked(q, f)
  BY DEF Walk
<1> SUFFICES ASSUME NEW S \in SUBSET Live, q.dir \in S, \A j \in S \ {q.id} : files[j].dir \in S
             PROVE  FALSE
  BY DEF Escapes
<1> DEFINE V == {f[k] : k \in 0 .. q.levels - 1}
<1>2. ASSUME NEW k \in 0 .. q.levels, f[k] \in S PROVE f[k] \in V
  <2>1. k # q.levels
    BY <1>1, <1>2 DEF Walked
  <2>2. QED
    BY <2>1
<1>3. q.dir \in V
  BY <1>1, <1>2 DEF Walked
<1>4. ASSUME NEW v \in V \cap S PROVE files[v].dir \in V \cap S
  <2>1. PICK k \in 0 .. q.levels - 1 : v = f[k]
    OBVIOUS
  <2>2. v # q.id /\ files[v].dir = f[k + 1]
    BY <1>1, <2>1 DEF Walked
  <2>3. files[v].dir \in S
    BY <2>2
  <2>4. k + 1 \in 0 .. q.levels
    OBVIOUS
  <2>5. QED
    BY <1>2, <2>2, <2>3, <2>4
<1> HIDE DEF V
<1>5. V \cap S \in SUBSET Live /\ V \cap S # {}
  BY <1>3
<1>6. QED
  BY <1>4, <1>5 DEF Acyclic

LEMMA AncestorsTree ==
  ASSUME CatalogInv, Shallow, NEW r \in Requests, TreeAt(req[r]), Ancestors(r)
  PROVE  TreeAt(req[r])'
<1>1. PICK q : q = req[r]
  OBVIOUS
<1>2. q.at = "ancestors" /\ q.at \notin Works /\ files' = files
  BY <1>1 DEF Ancestors, At, Reads, tables, Works
<1>3. /\ q \in Request /\ Doomed(q) = {} /\ q.todo = {} /\ q.queue = {} /\ Acyclic /\ Parented({})
      /\ q.levels \in 0 .. WalkLimit
  <2>1. /\ q \in Request /\ Doomed(q) = {} /\ q.todo = {} /\ q.queue = {} /\ Acyclic
        /\ Parented({})
    BY <1>1, <1>2, SeekingTree
  <2>2. QED
    BY <2>1 DEF Request
<1>4. /\ q.op = "move" /\ q.row.folder /\ Walk(q) /\ q.id \in Live /\ files[q.id] = q.row
      /\ q.dir # 0 => q.dir \in Live
  BY <1>1, <1>2 DEF TreeAt, CalmMove, CalmPlace
<1>5. CASE Ends(r)
  BY <1>1, <1>2, <1>3, <1>5, GivesUpTree
<1>6. CASE /\ q.found # q.id /\ q.found \in Live
           /\ Becomes(r, [q EXCEPT !.found = files[q.found].dir, !.levels = @ + 1])
  <2>1. PICK p : p = [q EXCEPT !.found = files[q.found].dir, !.levels = @ + 1]
    OBVIOUS
  <2>2. /\ p.at = "ancestors" /\ p.op = "move" /\ p.todo = {} /\ p.queue = {} /\ p.dir = q.dir
        /\ p.id = q.id /\ p.row = q.row /\ p.found = files[q.found].dir /\ p.levels = q.levels + 1
    BY <1>2, <1>3, <1>4, <2>1 DEF Request
  <2>3. Walk(p)
    BY <1>3, <1>4, <1>6, <2>2, WalkOn, WalkAssumption
  <2>4. Doomed(p) = {} /\ CalmPlace(p) /\ CalmMove(p) /\ CalmDelete(p)
    BY <1>4, <2>2, <2>3 DEF Doomed, CalmPlace, CalmMove, CalmDelete, Works
  <2>5. TreeAt(p) /\ Becomes(r, p)
    BY <1>3, <1>6, <2>1, <2>4 DEF TreeAt
  <2>6. QED
    BY <1>2, <2>5, ReadsTree
<1>7. CASE (q.levels = WalkLimit \/ q.found \notin Live) /\ Goes(r, "check")
  <2>1. q.found \notin Live
    <3>1. CASE q.levels = WalkLimit
        BY <1>3, <1>4, <3>1, WalkReachesRoot
    <3>2. CASE q.levels # WalkLimit
      BY <1>3, <1>7, <3>2, WalkAssumption
    <3>3. QED
      BY <3>1, <3>2
  <2>2. q.levels \in Nat
    BY <1>3, WalkAssumption
  <2>3. Escapes(q.id, q.dir)
    BY <1>3, <1>4, <2>1, <2>2, WalkEnds
  <2>4. PICK p : p = [q EXCEPT !.at = "check"]
    OBVIOUS
  <2>5. /\ p.at = "check" /\ p.op = "move" /\ p.todo = {} /\ p.queue = {} /\ p.dir = q.dir
        /\ p.id = q.id /\ p.row = q.row
    BY <1>3, <1>4, <2>4 DEF Request
  <2>6. Doomed(p) = {} /\ CalmPlace(p) /\ CalmMove(p) /\ CalmDelete(p)
    BY <1>4, <2>3, <2>5 DEF Doomed, CalmPlace, CalmMove, CalmDelete, Works
  <2>7. TreeAt(p) /\ Becomes(r, p)
    BY <1>1, <1>3, <1>7, <2>4, <2>6 DEF TreeAt, Goes
  <2>8. QED
    BY <1>2, <2>7, ReadsTree
<1>8. QED
  BY <1>1, <1>5, <1>6, <1>7 DEF Ancestors

(* To another step of the same request, with what it knows. *)
LEMMA PlacedTree ==
  ASSUME CatalogInv, NEW r \in Requests, TreeAt(req[r]), req[r].at \in {"check", "similar"},
         files' = files, NEW p, Becomes(r, p),
         p.at \in {"similar", "update", "upload", "folder", "move", "copy"},
         p.at = "move" => p.op = "move", p.op = req[r].op, p.id = req[r].id, p.dir = req[r].dir, p.row = req[r].row,
         p.todo = req[r].todo, p.queue = req[r].queue
  PROVE  TreeAt(req[r])'
<1>1. Doomed(p) = {} /\ p.todo = {} /\ p.queue = {} /\ Acyclic /\ Parented({})
  BY SeekingTree DEF Works, Doomed
<1>2. CalmPlace(p) /\ CalmMove(p) /\ CalmDelete(p)
  BY <1>1 DEF TreeAt, CalmPlace, CalmMove, CalmDelete, Works
<1>3. TreeAt(p)
  BY <1>1, <1>2 DEF TreeAt
<1>4. QED
  BY <1>3, ReadsTree

LEMMA CheckNameTree ==
  ASSUME CatalogInv, NEW r \in Requests, TreeAt(req[r]), CheckName(r)
  PROVE  TreeAt(req[r])'
<1>1. PICK q : q = req[r]
  OBVIOUS
<1>2. /\ q.at = "check" /\ q.at \notin Works /\ files' = files
      /\ q \in Request /\ q.op \in Placed
  BY <1>1, RequestType DEF CheckName, At, Reads, tables, Works, Prepared, Placing
<1>3. CASE Ends(r)
  BY <1>1, <1>2, <1>3, SeekingTree, GivesUpTree
<1>4. ASSUME NEW i, Becomes(r, [q EXCEPT !.at = "update", !.found = i]) PROVE TreeAt(req[r])'
  <2>1. PICK p : p = [q EXCEPT !.at = "update", !.found = i]
    OBVIOUS
  <2>2. /\ p.at = "update" /\ p.op = q.op /\ p.id = q.id /\ p.dir = q.dir /\ p.row = q.row
        /\ p.todo = q.todo /\ p.queue = q.queue /\ Becomes(r, p)
    BY <1>2, <1>4, <2>1 DEF Request
  <2>3. QED
    BY <1>1, <1>2, <2>2, PlacedTree
<1>5. ASSUME NEW at \in {q.op, "similar"}, Goes(r, at) PROVE TreeAt(req[r])'
  <2>1. PICK p : p = [q EXCEPT !.at = at]
    OBVIOUS
  <2>2. /\ p.at = at /\ p.op = q.op /\ p.id = q.id /\ p.dir = q.dir /\ p.row = q.row
        /\ p.todo = q.todo /\ p.queue = q.queue /\ Becomes(r, p)
    BY <1>1, <1>2, <1>5, <2>1 DEF Request, Goes
  <2>3. QED
    BY <1>1, <1>2, <2>2, PlacedTree DEF Placed
<1>6. QED
  BY <1>1, <1>2, <1>3, <1>4, <1>5 DEF CheckName

LEMMA FindSimilarTree ==
  ASSUME CatalogInv, NEW r \in Requests, TreeAt(req[r]), FindSimilar(r)
  PROVE  TreeAt(req[r])'
<1>1. PICK q : q = req[r]
  OBVIOUS
<1>2. q.at = "similar" /\ files' = files /\ q \in Request /\ q.op \in Placed
  BY <1>1, RequestType DEF FindSimilar, At, Reads, tables, Prepared, Placing
<1>3. PICK m : Becomes(r, [q EXCEPT !.at = q.op, !.name = m])
  BY <1>1 DEF FindSimilar
<1>4. PICK p : p = [q EXCEPT !.at = q.op, !.name = m]
  OBVIOUS
<1>5. /\ p.at = q.op /\ p.op = q.op /\ p.id = q.id /\ p.dir = q.dir /\ p.row = q.row
      /\ p.todo = q.todo /\ p.queue = q.queue /\ Becomes(r, p)
  BY <1>2, <1>3, <1>4 DEF Request
<1>6. QED
  BY <1>1, <1>2, <1>5, PlacedTree DEF Placed

-----------------------------------------------------------------------------
(* Steps that write a row, *)
LEMMA UpdateFileMD5Tree ==
  ASSUME CatalogInv, NEW r \in Requests, TreeAt(req[r]), UpdateFileMD5(r)
  PROVE  TreeAt(req[r])'
<1> DEFINE i == req[r].found
<1>1. Acyclic /\ Parented({}) /\ Ends(r)
  BY SeekingTree DEF UpdateFileMD5, At, Works
<1>2. Live' = Live /\ \A j \in Live : files'[j].dir = files[j].dir
  <2>1. files \in [Ids -> Entry \cup {None}]
    BY DEF CatalogInv, TablesInv
  <2>2. CASE i \in Live
    <3>1. files[i] \in Entry /\ i \in Ids
      BY <2>2, TablesType
    <3>2. [files[i] EXCEPT !.md5 = req[r].md5] \in Entry
      BY <3>1, RequestType DEF Entry, Request
    <3>3. files' = [files EXCEPT ![i] = [files[i] EXCEPT !.md5 = req[r].md5]]
      BY <2>2 DEF UpdateFileMD5
    <3>4. [files[i] EXCEPT !.md5 = req[r].md5].dir = files[i].dir
      BY <3>1 DEF Entry
    <3>5. QED
      BY <2>1, <2>2, <3>1, <3>2, <3>3, <3>4, NoneAssumption DEF Live
  <2>3. CASE i \notin Live
    BY <2>3 DEF UpdateFileMD5, Live
  <2>4. QED
    BY <2>2, <2>3
<1>3. Acyclic' /\ Parented({})'
  BY <1>1, <1>2 DEF Acyclic, Parented, Reach
<1>4. QED
  BY <1>1, <1>3, EndsTree

(* A folder escapes its target directory, and nothing is below a file: no  *)
(* set of entries becomes closed under "is in".                            *)
LEMMA MoveFileTree ==
  ASSUME CatalogInv, HeldInv, NEW r \in Requests, TreeAt(req[r]), MoveFile(r)
  PROVE  TreeAt(req[r])'
<1>1. PICK q : q = req[r]
  OBVIOUS
<1>2. PICK i : i = q.id
  OBVIOUS
<1>3. PICK d : d = q.dir
  OBVIOUS
<1>4. q.at = "move" /\ q.op \in Placed /\ Ends(r) /\ Acyclic /\ Parented({}) /\ q \in Request
      /\ Holds(q)
  BY <1>1, SeekingTree, HoldsReady DEF MoveFile, At, Works, Prepared, Placing
<1>5. CASE i \in Live
  <2>1. /\ files \in [Ids -> Entry \cup {None}] /\ i \in Ids /\ files[i] \in Entry
        /\ files' = [files EXCEPT ![i] = [files[i] EXCEPT !.dir = d, !.name = q.name]]
    BY <1>1, <1>2, <1>3, <1>5, TablesType DEF CatalogInv, TablesInv, MoveFile
  <2>2. q.name \in Name /\ d \in Dir
    BY <1>1, <1>3, <1>4, RequestType DEF Prepared, Placing, Request
  <2>3. PICK e : e = [files[i] EXCEPT !.dir = d, !.name = q.name]
    OBVIOUS
  <2>4. e \in Entry /\ e.dir = d /\ e # None
    BY <2>1, <2>2, <2>3, NoneAssumption DEF Entry
  <2>5. Live' = Live /\ files'[i].dir = d /\ \A j \in Live \ {i} : files'[j] = files[j]
    BY <1>5, <2>1, <2>3, <2>4 DEF Live
  <2>6. Reach(d)
    BY <1>1, <1>3, <1>4 DEF TreeAt, CalmPlace, Reach
  <2>7. Parented({})'
    BY <1>4, <2>5, <2>6 DEF Parented, Reach
  <2>8. Acyclic'
    <3> SUFFICES ASSUME NEW S \in SUBSET Live, S # {}, \A j \in S : files'[j].dir \in S
                 PROVE  FALSE
      BY <2>5 DEF Acyclic
    <3>1. i \in S
      BY <1>4, <2>5 DEF Acyclic
    <3>2. d \in S /\ d \in Live
      BY <2>5, <3>1
    <3>3. \A j \in S \ {i} : files[j].dir \in S
      BY <2>5
    <3>4. CASE files[i].folder
      <4>1. q.op = "move" => q.row = files[i]
        BY <1>1, <1>2, <1>4 DEF TreeAt, CalmMove
      <4>2. q.op = "move"
        BY <1>1, <1>4 DEF TreeAt, CalmMove
      <4>3. Escapes(i, d)
        BY <1>1, <1>2, <1>3, <1>4, <3>4, <4>1, <4>2 DEF TreeAt, CalmMove
      <4>4. QED
        BY <3>2, <3>3, <4>3 DEF Escapes
    <3>5. CASE ~files[i].folder
      <4>1. (\A j \in Live : files[j].dir # i) /\ ~KnownFolder(i)
        BY <1>5, <3>5, FileChildless
      <4>2. d # i
        BY <1>3, <1>4, <4>1 DEF Holds
      <4>3. S \ {i} \in SUBSET Live /\ S \ {i} # {} /\ \A j \in S \ {i} : files[j].dir \in S \ {i}
        BY <3>2, <3>3, <4>1, <4>2
      <4>4. QED
        BY <1>4, <4>3 DEF Acyclic
    <3>6. QED
      BY <3>4, <3>5
  <2>9. QED
    BY <1>4, <2>7, <2>8, EndsTree
<1>6. CASE i \notin Live
  BY <1>1, <1>2, <1>4, <1>6, SeekingTree, GivesUpTree DEF MoveFile, At, Works
<1>7. QED
  BY <1>5, <1>6

LEMMA CreateTree ==
  ASSUME CatalogInv, HeldInv, NEW r \in Requests, TreeAt(req[r]), CreateFile(r) \/ InsertFolder(r)
  PROVE  TreeAt(req[r])'
<1> DEFINE q == req[r]
           e == [dir |-> q.dir, name |-> q.name, key |-> q.key, md5 |-> q.md5, folder |-> FALSE]
           f == Folder(q.dir, q.name)
<1>1. q.at \in {"upload", "folder"}
  BY DEF CreateFile, InsertFolder, At
<1>2. q \in Request /\ q.name \in Name /\ Acyclic /\ Parented({}) /\ Reach(q.dir)
  BY <1>1, SeekingTree DEF Works, Prepared, Placing, TreeAt, CalmPlace, Reach
<1>3. e \in Entry /\ e.dir = q.dir
  BY <1>2 DEF Entry, Request
<1>4. f \in Entry /\ f.dir = q.dir
  BY <1>2, FolderType DEF Folder, Request
<1>5. Ends(r) /\ (Insert(e) \/ Insert(f))
  BY DEF CreateFile, InsertFolder
<1> HIDE DEF e, f
<1>6. Acyclic' /\ Parented({})'
  BY <1>2, <1>3, <1>4, <1>5, InsertTree
<1>7. QED
  BY <1>5, <1>6, EndsTree

(* the copy, *)
LEMMA StartCopyTree ==
  ASSUME CatalogInv, NEW r \in Requests, TreeAt(req[r]), StartCopy(r)
  PROVE  TreeAt(req[r])'
<1>1. PICK q : q = req[r]
  OBVIOUS
<1>2. PICK t : t = [id |-> q.id, row |-> [q.row EXCEPT !.name = q.name], dst |-> q.dir]
  OBVIOUS
<1>3. PICK p : p = [q EXCEPT !.at = "copying", !.todo = {t}]
  OBVIOUS
<1>4. q.at = "copy" /\ q \in Request /\ q.op = "copy" /\ q.queue = {} /\ Acyclic /\ Parented({})
      /\ files' = files
  BY <1>1, SeekingTree DEF StartCopy, At, Works, Prepared, Reads, tables
<1>5. Reach(q.dir) /\ t.dst = q.dir
  BY <1>1, <1>2 DEF TreeAt, CalmPlace, Reach
<1>6. p.at = "copying" /\ p.op = "copy" /\ p.dir = q.dir /\ p.todo = {t} /\ p.queue = {}
  BY <1>3, <1>4 DEF Request
<1>7. Becomes(r, p)
  BY <1>1, <1>2, <1>3 DEF StartCopy
<1>8. Doomed(p) = {} /\ CalmPlace(p) /\ CalmMove(p) /\ CalmDelete(p)
  BY <1>5, <1>6 DEF Doomed, CalmPlace, CalmMove, CalmDelete, Works, Reach
<1>9. TreeAt(p)
  BY <1>4, <1>8 DEF TreeAt
<1>10. QED
  BY <1>4, <1>7, <1>9, ReadsTree

LEMMA CopyingFacts ==
  ASSUME CatalogInv, NEW r \in Requests, TreeAt(req[r]), req[r].at \in {"copying", "copied"}
  PROVE  /\ req[r] \in Request /\ req[r].op = "copy" /\ Acyclic /\ Parented({}) /\ Reach(req[r].dir)
         /\ \A t \in req[r].todo : Reach(t.dst)
         /\ \A p \in req[r].queue : Reach(p[2])
<1>1. req[r].op = "copy"
  BY DEF TreeAt, CalmPlace
<1>2. Doomed(req[r]) = {}
  BY <1>1 DEF Doomed
<1>3. QED
  BY <1>1, <1>2, RequestType DEF TreeAt, CalmPlace, Reach

LEMMA CopyingTree ==
  ASSUME CatalogInv, NEW r \in Requests, NEW p, Copying(r, p), Acyclic', Parented({})',
         p.at = "copying", p.op = "copy", Reach(p.dir)', \A t \in p.todo : Reach(t.dst)',
         \A s \in p.queue : Reach(s[2])'
  PROVE  TreeAt(req[r])'
<1>1. Doomed(p) = {}
  BY DEF Doomed
<1>2. CalmPlace(p)'
  BY DEF CalmPlace, Works, Reach
<1>3. CalmMove(p)'
  BY DEF CalmMove
<1>4. CalmDelete(p)'
  BY DEF CalmDelete
<1>5. Parented(Doomed(p))'
  BY <1>1 DEF Parented, Doomed
<1>6. TreeAt(p)'
  BY <1>2, <1>3, <1>4, <1>5 DEF TreeAt
<1>7. QED
  BY <1>6, ToTree, EndsTree DEF Copying

LEMMA CopyFolderTree ==
  ASSUME CatalogInv, HeldInv, NEW r \in Requests, TreeAt(req[r]), req[r].at = "copying",
         NEW t \in req[r].todo, CopyFolder(r, t)
  PROVE  TreeAt(req[r])'
<1>1. PICK q : q = req[r]
  OBVIOUS
<1>2. PICK n : n = nextId
  OBVIOUS
<1>3. PICK p : p = [q EXCEPT !.todo = @ \ {t}, !.queue = @ \cup {<<t.id, n>>}]
  OBVIOUS
<1> DEFINE e == Folder(t.dst, t.row.name)
<1>4. /\ q \in Request /\ q.op = "copy" /\ Acyclic /\ Parented({}) /\ Reach(q.dir)
      /\ \A u \in q.todo : Reach(u.dst)
      /\ \A s \in q.queue : Reach(s[2])
  BY <1>1, CopyingFacts
<1>5. t \in q.todo /\ t \in Work
  BY <1>1, <1>4 DEF Request
<1>6. e \in Entry /\ e.dir = t.dst /\ Insert(e)
  BY <1>5, FolderType DEF Work, Entry, Folder, CopyFolder
<1> HIDE DEF e
<1>7. Acyclic' /\ Parented({})' /\ (\A d : Reach(d) => Reach(d)') /\ n \in Live'
  BY <1>2, <1>4, <1>5, <1>6, InsertTree
<1>8. /\ p.at = "copying" /\ p.op = "copy" /\ p.dir = q.dir /\ p.todo \subseteq q.todo
      /\ \A s \in p.queue : s \in q.queue \/ s = <<t.id, n>>
  BY <1>1, <1>3, <1>4 DEF Request
<1>9. \A s \in p.queue : Reach(s[2])'
  <2> SUFFICES ASSUME NEW s \in p.queue PROVE Reach(s[2])'
    OBVIOUS
  <2>1. CASE s \in q.queue
    BY <1>4, <1>7, <2>1
  <2>2. CASE s = <<t.id, n>>
    BY <1>7, <2>2 DEF Reach
  <2>3. QED
    BY <1>8, <2>1, <2>2
<1>10. \A u \in p.todo : Reach(u.dst)'
  BY <1>4, <1>7, <1>8
<1>11. Reach(p.dir)'
  BY <1>4, <1>7, <1>8
<1>12. Copying(r, p)
  BY <1>1, <1>2, <1>3 DEF CopyFolder
<1>13. QED
  BY <1>7, <1>8, <1>9, <1>10, <1>11, <1>12, CopyingTree

LEMMA CopyBlobTree ==
  ASSUME CatalogInv, NEW r \in Requests, TreeAt(req[r]), req[r].at = "copying",
         NEW t \in req[r].todo, CopyBlob(r, t)
  PROVE  TreeAt(req[r])'
<1>1. PICK q : q = req[r]
  OBVIOUS
<1>2. /\ q \in Request /\ q.op = "copy" /\ Acyclic /\ Parented({})
      /\ \A u \in q.todo : Reach(u.dst)
      /\ \A s \in q.queue : Reach(s[2])
  BY <1>1, CopyingFacts
<1>3. t \in Work /\ t \in q.todo /\ files' = files
  BY <1>1, CopyBlobStep DEF tables
<1>4. PICK k \in Key, v \in 1 .. MaxRequests :
        Store(k, v) /\ Becomes(r, WithBlob(q, t, k, v)) /\ v \in 0 .. MaxRequests
  BY <1>1, CopyBlobStep
<1>5. PICK p : p = WithBlob(q, t, k, v)
  OBVIOUS
<1>6. /\ p.at = "copied" /\ p.op = "copy" /\ p.dir = t.dst
      /\ p.queue = q.queue /\ p.todo = q.todo
  BY <1>2, <1>3, <1>4, <1>5, WithBlobType
<1>7. Doomed(p) = {} /\ CalmPlace(p) /\ CalmMove(p) /\ CalmDelete(p)
  BY <1>2, <1>3, <1>6 DEF Doomed, CalmPlace, CalmMove, CalmDelete, Works, Reach
<1>8. TreeAt(p)
  BY <1>2, <1>7 DEF TreeAt
<1>9. QED
  BY <1>3, <1>4, <1>5, <1>8, ReadsTree

LEMMA CopyRowTree ==
  ASSUME CatalogInv, HeldInv, NEW r \in Requests, TreeAt(req[r]), CopyRow(r)
  PROVE  TreeAt(req[r])'
<1>1. PICK q : q = req[r]
  OBVIOUS
<1>2. PICK p : p = Copies(q)
  OBVIOUS
<1>3. PICK e : e = RowCopied(q)
  OBVIOUS
<1>4. /\ q.at = "copied" /\ e \in Entry /\ Insert(e) /\ e.dir = q.dir
      /\ p.at = "copying" /\ p.op = q.op /\ p.dir = q.dir
      /\ p.queue = q.queue /\ p.todo \subseteq q.todo /\ Copying(r, p)
  BY <1>1, <1>2, <1>3, CopyRowStep
<1>5. /\ q.op = "copy" /\ Acyclic /\ Parented({}) /\ Reach(q.dir)
      /\ \A u \in q.todo : Reach(u.dst)
      /\ \A s \in q.queue : Reach(s[2])
  BY <1>1, <1>4, CopyingFacts
<1>6. Acyclic' /\ Parented({})' /\ (\A d : Reach(d) => Reach(d)')
  BY <1>4, <1>5, InsertTree
<1>7. /\ Reach(p.dir)' /\ \A u \in p.todo : Reach(u.dst)'
      /\ \A s \in p.queue : Reach(s[2])'
  BY <1>4, <1>5, <1>6
<1>8. QED
  BY <1>4, <1>5, <1>6, <1>7, CopyingTree

LEMMA CopyChildrenTree ==
  ASSUME CatalogInv, NEW r \in Requests, TreeAt(req[r]), req[r].at = "copying",
         NEW s \in req[r].queue, CopyChildren(r, s)
  PROVE  TreeAt(req[r])'
<1>1. PICK q : q = req[r]
  OBVIOUS
<1>2. PICK p : p = [q EXCEPT !.queue = @ \ {s}, !.todo = @ \cup Listed(s[1], s[2])]
  OBVIOUS
<1>3. /\ q \in Request /\ q.op = "copy" /\ Acyclic /\ Parented({}) /\ Reach(q.dir)
      /\ \A u \in q.todo : Reach(u.dst)
      /\ \A v \in q.queue : Reach(v[2])
  BY <1>1, CopyingFacts
<1>4. \A t \in Listed(s[1], s[2]) : t.dst = s[2]
  BY DEF Listed
<1>5. files' = files /\ Live' = Live
  BY DEF CopyChildren, tables, Live
<1>6. Acyclic' /\ Parented({})' /\ (\A d : Reach(d) => Reach(d)')
  BY <1>3, <1>5 DEF Acyclic, Parented, Reach
<1>7. /\ p.at = "copying" /\ p.op = "copy" /\ p.dir = q.dir /\ p.queue \subseteq q.queue
      /\ \A t \in p.todo : t \in q.todo \/ t.dst = s[2]
  BY <1>1, <1>2, <1>3, <1>4 DEF Request
<1>8. /\ Reach(p.dir)' /\ \A u \in p.todo : Reach(u.dst)'
      /\ \A v \in p.queue : Reach(v[2])'
  BY <1>1, <1>3, <1>6, <1>7
<1>9. Copying(r, p)
  BY <1>1, <1>2 DEF CopyChildren
<1>10. QED
  BY <1>6, <1>7, <1>8, <1>9, CopyingTree

-----------------------------------------------------------------------------
(* Deletion: what is below the folder is listed, and goes before it.       *)

(* What a request that deletes knows. *)
LEMMA DeletingFacts ==
  ASSUME CatalogInv, NEW r \in Requests, TreeAt(req[r]), req[r].at \in {"list", "soft", "tx"}
  PROVE  /\ req[r] \in Request /\ req[r].op = "delete" /\ req[r].dir = 0
         /\ req[r].id \in Live /\ req[r].id \notin Doomed(req[r]) /\ Doomed(req[r]) \subseteq Live
         /\ Acyclic /\ Parented(Doomed(req[r]))
<1>1. req[r].op = "delete"
  BY DEF TreeAt, CalmDelete
<1>2. QED
  BY <1>1, RequestType DEF TreeAt, CalmDelete, CalmPlace

LEMMA DeletingTree ==
  ASSUME NEW p, p.at \in {"list", "soft", "tx"}, p.op = "delete", p.dir = 0,
         p.id \in Live, p.id \notin Doomed(p), Doomed(p) \subseteq Live,
         Acyclic, Parented(Doomed(p)),
         p.at = "list" => Lists(p),
         p.at \in {"soft", "tx"} => Closed(p),
         p.at = "tx" => p.found \in Branch(p) /\ (Doomed(p) # {} => p.found # p.id)
  PROVE  TreeAt(p)
<1>1. CalmPlace(p)
  BY DEF CalmPlace, Works
<1>2. CalmMove(p)
  BY DEF CalmMove
<1>3. CalmDelete(p)
  BY DEF CalmDelete
<1>4. QED
  BY <1>1, <1>2, <1>3 DEF TreeAt

LEMMA ListRecursiveTree ==
  ASSUME CatalogInv, HeldInv, NEW r \in Requests, TreeAt(req[r]), ListRecursive(r)
  PROVE  TreeAt(req[r])'
<1>1. PICK q : q = req[r]
  OBVIOUS
<1>2. q.at = "list" /\ files' = files
  BY <1>1 DEF ListRecursive, At, Reads, tables
<1>3. /\ q \in Request /\ q.op = "delete" /\ q.dir = 0
      /\ q.id \in Live /\ q.id \notin Doomed(q) /\ Doomed(q) \subseteq Live
      /\ Acyclic /\ Parented(Doomed(q)) /\ Lists(q)
  BY <1>1, <1>2, DeletingFacts DEF TreeAt, CalmDelete
<1>4. PICK s \in q.queue :
        LET new == Listed(s[1], 0)
            queue == (q.queue \ {s}) \cup {<<t.id, 0>> : t \in {t \in new : t.row.folder}}
        IN  Becomes(r, [q EXCEPT !.queue = queue, !.todo = @ \cup new,
                                 !.at = IF queue = {} THEN "soft" ELSE "list"])
  BY <1>1 DEF ListRecursive
<1>5. PICK new : new = Listed(s[1], 0)
  OBVIOUS
<1>6. PICK queue : queue = (q.queue \ {s}) \cup {<<t.id, 0>> : t \in {t \in new : t.row.folder}}
  OBVIOUS
<1>7. PICK p : p = [q EXCEPT !.queue = queue, !.todo = @ \cup new,
                            !.at = IF queue = {} THEN "soft" ELSE "list"]
  OBVIOUS
<1>8. Becomes(r, p)
  BY <1>4, <1>5, <1>6, <1>7
<1>9. /\ p.op = "delete" /\ p.dir = 0 /\ p.id = q.id /\ p.todo = q.todo \cup new
      /\ p.queue = queue /\ p.at = IF queue = {} THEN "soft" ELSE "list"
  BY <1>3, <1>7 DEF Request
<1> DEFINE N == Children(s[1])
<1>10. /\ \A i \in N : i \in Live /\ files[i].dir = s[1] /\ \E t \in new : t.id = i /\ t.row = files[i]
       /\ \A t \in new : t.id \in N
  <2>1. \A i \in N : [id |-> i, row |-> files[i], dst |-> 0] \in new
    BY <1>5 DEF Listed
  <2>2. \A t \in new : t.id \in N
    BY <1>5 DEF Listed
  <2>3. \A i \in N : i \in Live /\ files[i].dir = s[1]
    BY DEF Children
  <2> HIDE DEF N
  <2>4. QED
    BY <2>1, <2>2, <2>3
<1>11. Doomed(p) = Doomed(q) \cup N
  BY <1>3, <1>9, <1>10 DEF Doomed
<1>12. s[1] \in Branch(q)
  BY <1>3 DEF Lists
<1>13. \A i \in Live : files[i].dir = s[1] => i \in N
  BY DEF Children
<1> HIDE DEF N
<1>14. q.id \notin N
  <2> SUFFICES ASSUME q.id \in N PROVE FALSE
    OBVIOUS
  <2>1. files[q.id].dir \in Branch(q)
    BY <1>10, <1>12
  <2>2. \A i \in Branch(q) : files[i].dir \in Branch(q)
    BY <1>3, <2>1 DEF Lists, Branch
  <2>3. Branch(q) \in SUBSET Live /\ Branch(q) # {}
    BY <1>3 DEF Branch
  <2>4. QED
    BY <1>3, <2>2, <2>3 DEF Acyclic
<1>15. Parented(Doomed(p))
  BY <1>3, <1>11 DEF Parented
<1>16. Branch(p) = Branch(q) \cup N
  BY <1>9, <1>11 DEF Branch
<1>17. \A i \in Live \ Doomed(p) : files[i].dir \in Branch(p) => \E v \in queue : v[1] = files[i].dir
  <2> SUFFICES ASSUME NEW i \in Live \ Doomed(p), files[i].dir \in Branch(p)
               PROVE  \E v \in queue : v[1] = files[i].dir
    OBVIOUS
  <2>1. CASE files[i].dir \in Branch(q)
    <3>1. PICK v \in q.queue : v[1] = files[i].dir
      BY <1>3, <1>11, <2>1 DEF Lists
    <3>2. v # s
      BY <1>11, <1>13, <3>1
    <3>3. QED
      BY <1>6, <3>1, <3>2
  <2>2. CASE files[i].dir \in N
    <3>1. PICK t \in new : t.id = files[i].dir /\ t.row = files[files[i].dir]
      BY <1>10, <2>2
    <3>2. t.row.folder
      BY <1>10, <2>2, <3>1, FileChildless
    <3>3. <<t.id, 0>> \in queue
      BY <1>6, <3>2
    <3>4. QED
      BY <3>1, <3>3
  <2>3. QED
    BY <1>16, <2>1, <2>2
<1>18. \A v \in queue : v[1] \in Branch(p)
  <2>1. \A v \in queue : v \in q.queue \/ \E t \in new : v = <<t.id, 0>>
    BY <1>6
  <2>2. \A v \in q.queue : v[1] \in Branch(p)
    BY <1>3, <1>16 DEF Lists
  <2>3. \A t \in new : <<t.id, 0>>[1] \in Branch(p)
    BY <1>10, <1>16
  <2>4. QED
    BY <2>1, <2>2, <2>3
<1>19. Lists(p)
  <2>1. \A i \in Doomed(p) : files[i].dir \in Branch(p)
    BY <1>3, <1>10, <1>11, <1>12, <1>16 DEF Lists
  <2>2. QED
    BY <1>9, <1>17, <1>18, <2>1 DEF Lists
<1>20. p.at \in {"soft", "tx"} => Closed(p)
  BY <1>9, <1>17 DEF Closed
<1>21. p.at \in {"list", "soft"} /\ p.id \in Live /\ p.id \notin Doomed(p) /\ Doomed(p) \subseteq Live
  BY <1>3, <1>9, <1>10, <1>11, <1>14
<1>22. TreeAt(p)
  BY <1>3, <1>9, <1>15, <1>19, <1>20, <1>21, DeletingTree
<1>23. QED
  BY <1>2, <1>8, <1>22, ReadsTree

(* No other request deletes what this one is about to delete. *)
LEMMA GetDeletedTree ==
  ASSUME CatalogInv, NEW r \in Requests, TreeAt(req[r]), GetDeleted(r)
  PROVE  TreeAt(req[r])'
<1>1. PICK q : q = req[r]
  OBVIOUS
<1>2. q.at = "soft" /\ files' = files
  BY <1>1 DEF GetDeleted, At, Reads, tables
<1>3. /\ q \in Request /\ q.op = "delete" /\ q.dir = 0
      /\ q.id \in Live /\ q.id \notin Doomed(q) /\ Doomed(q) \subseteq Live
      /\ Acyclic /\ Parented(Doomed(q)) /\ Closed(q)
  BY <1>1, <1>2, DeletingFacts DEF TreeAt, CalmDelete
<1>4. PICK i \in IF q.todo = {} THEN {q.id} ELSE {t.id : t \in q.todo} :
        \/ i \notin Live
        \/ i \in Live /\ Becomes(r, [q EXCEPT !.at = "tx", !.found = i, !.row = files[i]])
  BY <1>1 DEF GetDeleted
<1>5. i \in Branch(q) /\ (Doomed(q) # {} => i # q.id)
  <2>1. Doomed(q) = {t.id : t \in q.todo}
    BY <1>3 DEF Doomed
  <2>2. CASE q.todo = {}
    BY <1>4, <2>1, <2>2 DEF Branch
  <2>3. CASE q.todo # {}
    BY <1>3, <1>4, <2>1, <2>3 DEF Branch
  <2>4. QED
    BY <2>2, <2>3
<1>6. i \in Live
  BY <1>3, <1>5 DEF Branch
<1>7. PICK p : p = [q EXCEPT !.at = "tx", !.found = i, !.row = files[i]]
  OBVIOUS
<1>8. Becomes(r, p)
  BY <1>4, <1>6, <1>7
<1>9. /\ p.at = "tx" /\ p.op = "delete" /\ p.dir = 0 /\ p.id = q.id /\ p.found = i
      /\ p.todo = q.todo
  BY <1>3, <1>7 DEF Request
<1>10. Doomed(p) = Doomed(q) /\ Branch(p) = Branch(q)
  BY <1>3, <1>9 DEF Doomed, Branch
<1>11. Closed(p)
  BY <1>3, <1>10 DEF Closed
<1>12. TreeAt(p)
  BY <1>3, <1>5, <1>9, <1>10, <1>11, DeletingTree
<1>13. QED
  BY <1>2, <1>8, <1>12, ReadsTree

(* The row goes: of what is listed, or, when nothing is left of that, of   *)
(* the folder itself, below which there is nothing any more.               *)
LEMMA SoftDeleteTree ==
  ASSUME CatalogInv, NEW r \in Requests, TreeAt(req[r]), SoftDelete(r)
  PROVE  TreeAt(req[r])'
<1>1. PICK q : q = req[r]
  OBVIOUS
<1>2. PICK i : i = q.found
  OBVIOUS
<1>3. q.at = "tx"
  BY <1>1 DEF SoftDelete, At
<1>4. /\ q \in Request /\ q.op = "delete" /\ q.dir = 0
      /\ q.id \in Live /\ q.id \notin Doomed(q) /\ Doomed(q) \subseteq Live
      /\ Acyclic /\ Parented(Doomed(q)) /\ Closed(q)
      /\ i \in Branch(q) /\ (Doomed(q) # {} => i # q.id)
  BY <1>1, <1>2, <1>3, DeletingFacts DEF TreeAt, CalmDelete
<1>5. i \in Live /\ i \in Ids /\ recycled[i] = None
  <2>1. i \in Live
    BY <1>4 DEF Branch
  <2>2. QED
    BY <2>1, TablesType DEF CatalogInv, TablesInv, OneHome, Live, Ids
<1>6. files' = [files EXCEPT ![i] = None] /\ Deleted(r, i)
  BY <1>1, <1>2, <1>5 DEF SoftDelete
<1>7. Live' = Live \ {i} /\ \A j \in Live' : files'[j] = files[j]
  <2>1. files \in [Ids -> Entry \cup {None}]
    BY DEF CatalogInv, TablesInv
  <2>2. QED
    BY <1>5, <1>6, <2>1 DEF Live
<1>8. Acyclic'
  BY <1>4, <1>7 DEF Acyclic
<1>9. CASE i = q.id
  <2>1. Doomed(q) = {} /\ Branch(q) = {i}
    BY <1>4, <1>9 DEF Branch
  <2>2. \A j \in Live : files[j].dir # i /\ Reach(files[j].dir)
    BY <1>4, <2>1 DEF Closed, Parented
  <2>3. \A j \in Live' : files'[j].dir = 0 \/ files'[j].dir \in Live'
    BY <1>7, <2>2 DEF Reach
  <2>4. Parented({})'
    BY <2>3 DEF Parented, Reach
  <2>5. Ends(r)
    BY <1>1, <1>6, <1>9 DEF Deleted
  <2>6. QED
    BY <1>8, <2>4, <2>5, EndsTree
<1>10. CASE i # q.id
  <2>1. i \in Doomed(q)
    BY <1>4, <1>10 DEF Branch
  <2>2. PICK p : p = [q EXCEPT !.at = "soft", !.todo = {t \in @ : t.id # i}]
    OBVIOUS
  <2>3. Becomes(r, p)
    BY <1>1, <1>6, <1>10, <2>2 DEF Deleted
  <2>4. /\ p.at = "soft" /\ p.op = "delete" /\ p.dir = 0 /\ p.id = q.id
        /\ p.todo = {t \in q.todo : t.id # i}
    BY <1>4, <2>2 DEF Request
  <2>5. Doomed(p) = Doomed(q) \ {i}
    BY <1>4, <2>4 DEF Doomed
  <2>6. Branch(p) = Branch(q) \ {i}
    BY <1>10, <2>4, <2>5 DEF Branch
  <2>7. \A j \in Live' : j \in Doomed(q) => j \in Doomed(p)
    BY <1>7, <2>5
  <2>8. \A j \in Live' : files'[j].dir \in Branch(p) => j \in Doomed(p)
    BY <1>4, <1>7, <2>6, <2>7 DEF Closed
  <2>9. \A j \in Live' : files'[j].dir = 0 \/ files'[j].dir \in Live' \/ j \in Doomed(p)
    <3> SUFFICES ASSUME NEW j \in Live', j \notin Doomed(q)
                 PROVE  files'[j].dir = 0 \/ files'[j].dir \in Live'
      BY <2>7
    <3>1. files[j].dir = 0 \/ files[j].dir \in Live
      BY <1>4, <1>7 DEF Parented, Reach
    <3>2. files[j].dir # i
      BY <1>4, <1>7 DEF Closed
    <3>3. QED
      BY <1>7, <3>1, <3>2
  <2>10. p.id \in Live' /\ p.id \notin Doomed(p) /\ Doomed(p) \subseteq Live'
    BY <1>4, <1>7, <1>10, <2>4, <2>5
  <2>11. CalmPlace(p)'
    BY <2>4 DEF CalmPlace, Works
  <2>12. CalmMove(p)'
    BY <2>4 DEF CalmMove
  <2>13. CalmDelete(p)'
    BY <2>4, <2>8, <2>10 DEF CalmDelete, Closed, Doomed, Branch
  <2>14. Parented(Doomed(p))'
    BY <2>9 DEF Parented, Doomed, Reach
  <2>15. TreeAt(p)'
    BY <1>8, <2>11, <2>12, <2>13, <2>14 DEF TreeAt
  <2>16. QED
    BY <2>3, <2>15, ToTree
<1>11. QED
  BY <1>9, <1>10

-----------------------------------------------------------------------------
(* All the steps together. *)
LEMMA HandlesTree ==
  ASSUME CatalogInv, HeldInv, Shallow, NEW r \in Requests, TreeAt(req[r]), Handles(r)
  PROVE  TreeAt(req[r])'
<1>1. CASE Copy(r)
  BY <1>1, CopyFolderTree, CopyBlobTree, CopyChildrenTree DEF Copy, At
<1>2. CASE ListRecursive(r) \/ GetDeleted(r) \/ SoftDelete(r)
  BY <1>2, ListRecursiveTree, GetDeletedTree, SoftDeleteTree
<1>3. QED
  BY <1>1, <1>2, PutTree, GetSourceTree, LookupTree, MkdirTree, AncestorsTree, CheckNameTree,
     FindSimilarTree, UpdateFileMD5Tree, MoveFileTree, CreateTree, StartCopyTree,
     CopyRowTree DEF Handles

(* What the one request that is not idle knows is all there is to know. *)
LEMMA OneTree ==
  ASSUME NEW r \in Requests, TreeAt(req[r])', \A s \in Requests \ {r} : req'[s] = Idle
  PROVE  TreeInv'
<1>1. ASSUME req'[r] = Idle PROVE TreeAt(Idle)'
  <2>1. PICK q : q = Idle
    OBVIOUS
  <2>2. Acyclic' /\ Parented(Doomed(q))'
    BY <1>1, <2>1 DEF TreeAt, Parented, Doomed
  <2>3. Doomed(q) = {}
    BY <2>1, IdlePlaced
  <2>4. Parented(Doomed(Idle))'
    BY <2>1, <2>2 DEF Parented, Doomed
  <2>5. QED
    BY <2>2, <2>4, IdlePlaced DEF TreeAt
<1>2. \A s \in Requests : req'[s] # Idle => s = r
  OBVIOUS
<1>3. QED
  BY <1>1, <1>2 DEF TreeInv

(* The files stay, and requests break off that there are none of. *)
LEMMA StillTree ==
  ASSUME TreeInv, files' = files, req' = req, calm' = calm
  PROVE  TreeInv'
<1> SUFFICES ASSUME calm' PROVE /\ (\A r \in Requests : req[r] = Idle) => TreeAt(Idle)'
                                /\ \A r \in Requests : req[r] # Idle => TreeAt(req[r])'
  BY DEF TreeInv
<1>1. PICK o : o = Idle
  OBVIOUS
<1>2. ASSUME \A r \in Requests : req[r] = Idle PROVE TreeAt(Idle)'
  <2>1. TreeAt(o)'
    BY <1>1, <1>2, StaysTree DEF TreeInv
  <2>2. Acyclic' /\ Parented({})'
    BY <1>1, <2>1, IdlePlaced DEF TreeAt, Parented
  <2>3. Parented(Doomed(Idle))'
    BY <2>2, IdlePlaced DEF Parented, Doomed
  <2>4. QED
    BY <2>2, <2>3, IdlePlaced DEF TreeAt
<1>3. ASSUME NEW r \in Requests, req[r] # Idle PROVE TreeAt(req[r])'
  <2>1. PICK q : q = req[r]
    OBVIOUS
  <2>2. TreeAt(q)' /\ req'[r] = q
    BY <1>3, <2>1, StaysTree DEF TreeInv
  <2>3. QED
    BY <2>2, SameTree
<1>4. QED
  BY <1>2, <1>3

LEMMA StepTree ==
  ASSUME CatalogInv, HeldInv, Alone, Shallow, TreeInv, [Next]_vars
  PROVE  TreeInv'
<1> SUFFICES ASSUME calm' PROVE TreeInv'
  BY DEF TreeInv
<1>1. ASSUME NEW r \in Requests, Arrives(r) PROVE TreeInv'
  <2>1. PICK q : Begin(r, q)
    BY <1>1, ArrivesBegins
  <2>2. calm /\ (\A s \in Requests : req[s] = Idle) /\ \A s \in Requests \ {r} : req'[s] = Idle
    BY <2>1, AloneTogether DEF Begin
  <2>3. TreeAt(req[r])'
    BY <1>1, <2>2, ArrivesTree DEF TreeInv
  <2>4. QED
    BY <2>2, <2>3, OneTree
<1>2. ASSUME NEW r \in Requests, Handles(r) PROVE TreeInv'
  <2>1. PICK q : Becomes(r, q)
    BY <1>2, HandlesBecomes
  <2>2. calm /\ req[r] # Idle /\ \A s \in Requests \ {r} : req'[s] = Idle
    BY <1>2, <2>1, HandlesBecomes, AloneTogether DEF Becomes
  <2>3. TreeAt(req[r])'
    BY <1>2, <2>2, HandlesTree DEF TreeInv
  <2>4. QED
    BY <2>2, <2>3, OneTree
<1>3. ASSUME NEW r \in Requests, Abort(r) PROVE FALSE
  BY <1>3 DEF Abort
<1>4. ASSUME NEW d \in Dir, NEW b \in Bases, EnsureFolder(d, b), d = 0 \/ d \in Live
      PROVE  TreeInv'
  <2>1. PICK e : e = Folder(d, Plain(b))
    OBVIOUS
  <2>2. e \in Entry /\ e.dir = d
    BY <2>1, PlainType, FolderType DEF Folder
  <2>3. Insert(e) /\ ~serving /\ req' = req /\ calm' = calm
    BY <1>4, <2>1 DEF EnsureFolder
  <2>4. \A r \in Requests : req[r] = Idle
    BY <2>3 DEF Alone
  <2>5. Acyclic /\ Parented({})
    BY <2>3, <2>4, IdlePlaced DEF TreeInv, TreeAt
  <2>6. Acyclic' /\ Parented({})'
    BY <1>4, <2>2, <2>3, <2>5, InsertTree DEF Reach
  <2>7. TreeAt(Idle)'
    <3>1. Parented(Doomed(Idle))'
      BY <2>6, IdlePlaced DEF Parented, Doomed
    <3>2. QED
      BY <2>6, <3>1, IdlePlaced DEF TreeAt
  <2>8. QED
    BY <2>3, <2>4, <2>7 DEF TreeInv
<1>5. CASE Die
  <2>1. files' = files /\ calm' = calm /\ \A r \in Requests : req[r] = Idle
    BY <1>5 DEF Die, tables, TreeInv
  <2>2. req' = req
    BY <1>5, <2>1 DEF Die, CatalogInv, RequestsInv
  <2>3. QED
    BY <2>1, <2>2, StillTree
<1>6. CASE Serve \/ UNCHANGED vars
  BY <1>6, StillTree DEF Serve, vars, tables
<1>7. QED
  BY <1>1, <1>2, <1>3, <1>4, <1>5, <1>6, EnsuresFolder DEF Next, Ensures

(* Served one at a time, requests keep the catalog a tree, up to the       *)
(* entries a delete that is under way has still to delete, as long as      *)
(* nothing in it is deeper than GetAncestorIDs looks.                      *)
THEOREM TreeInvariant == Spec /\ []Shallow => []TreeInv
<1>1. Init => TreeInv
  <2> SUFFICES ASSUME Init PROVE TreeInv
    OBVIOUS
  <2>1. Live = {} /\ \A r \in Requests : req[r] = Idle
    BY DEF Init, Live
  <2>2. TreeAt(Idle)
    BY <2>1, IdlePlaced DEF TreeAt, Acyclic, Parented
  <2>3. QED
    BY <2>1, <2>2 DEF TreeInv
<1>2. CatalogInv /\ HeldInv /\ Alone /\ Shallow /\ TreeInv /\ [Next]_vars => TreeInv'
  BY StepTree
<1>3. QED
  BY <1>1, <1>2, CatalogInvariant, ReferencesInvariant, CalmlyAlone, PTL DEF Spec

(* There are no more different entries than there are ids. *)
LEMMA FewAreShallow ==
  ASSUME MaxId <= WalkLimit
  PROVE  Shallow
<1> SUFFICES ASSUME NEW f \in [0 .. WalkLimit -> Live], Different(f, WalkLimit) PROVE FALSE
  BY DEF Shallow
<1>1. IsFiniteSet(0 .. WalkLimit) /\ Cardinality(0 .. WalkLimit) = WalkLimit + 1
  <2>1. IsFiniteSet(0 .. WalkLimit)
        /\ Cardinality(0 .. WalkLimit) = IF 0 > WalkLimit THEN 0 ELSE WalkLimit - 0 + 1
    BY FS_Interval, WalkAssumption
  <2>2. QED
    BY <2>1, WalkAssumption
<1>2. IsFiniteSet(1 .. MaxId) /\ Cardinality(1 .. MaxId) = MaxId
  <2>1. IsFiniteSet(1 .. MaxId) /\ Cardinality(1 .. MaxId) = IF 1 > MaxId THEN 0 ELSE MaxId - 1 + 1
    BY FS_Interval, BoundsAssumption
  <2>2. QED
    BY <2>1, BoundsAssumption
<1>3. IsFiniteSet(Live) /\ Cardinality(Live) <= MaxId
  <2>1. Live \in SUBSET (1 .. MaxId)
    BY DEF Live, Ids
  <2>2. QED
    BY <1>2, <2>1, FS_Subset
<1>4. Cardinality(Live) \in Nat /\ Cardinality(Live) < Cardinality(0 .. WalkLimit)
  <2>1. Cardinality(Live) \in Nat
    BY <1>3, FS_CardinalityType
  <2>2. QED
    BY <1>1, <1>3, <2>1, BoundsAssumption, WalkAssumption
<1>5. PICK j, k \in 0 .. WalkLimit : j # k /\ f[j] = f[k]
  BY <1>1, <1>3, <1>4, FS_PigeonHole
<1>6. QED
  BY <1>5 DEF Different

(* Between requests served one at a time every entry is in the root or in  *)
(* a folder that has not been deleted, and no moves have closed a loop, as *)
(* long as nothing in the catalog is deeper than GetAncestorIDs looks.     *)
THEOREM TreeKept == Spec /\ []Shallow => []TreeWhole
<1>1. HeldInv /\ TreeInv => TreeWhole
  <2> SUFFICES ASSUME HeldInv, TreeInv, Settled PROVE TreeWhole
    BY DEF TreeWhole
  <2>1. Acyclic /\ Parented({})
    BY IdlePlaced DEF TreeInv, TreeAt, Settled
  <2>2. ASSUME NEW i \in Live, files[i].dir # 0
        PROVE  files[i].dir \in Live /\ IsFolder(files[i].dir)
    BY <2>1, <2>2 DEF Parented, Reach, HeldInv, ParentIsFolder
  <2>3. QED
    BY <2>1, <2>2 DEF TreeWhole, Acyclic
<1>2. QED
  BY <1>1, TreeInvariant, ReferencesInvariant, PTL

(* The same for every catalog of at most as many entries as there are      *)
(* levels in the walk, without a word on its shape: no walk is cut off.    *)
THEOREM SmallTreeKept == ASSUME MaxId <= WalkLimit PROVE Spec => []TreeWhole
<1>1. Shallow
  BY FewAreShallow
<1>2. QED
  BY <1>1, TreeKept, PTL
=============================================================================
