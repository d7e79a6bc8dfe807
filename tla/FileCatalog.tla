---------------------------- MODULE FileCatalog ----------------------------
(***************************************************************************)
(* The file catalog of one account: the tables files and recycle_files,    *)
(* the blob store, and the handlers that upload, create, move, copy and    *)
(* delete.  A handler is several statements without a transaction, each a  *)
(* step here, and handlers run in goroutines of their own.                 *)
(*                                                                         *)
(* A name is a base and the number AutoRename has appended, 0 for none; a  *)
(* file's content and its MD5 are the number of the upload.  Entries a     *)
(* handler works through are kept as sets: it may take them in any order,  *)
(* where the code has the order of the listing.                            *)
(***************************************************************************)
EXTENDS Naturals, Sequences

CONSTANTS Requests,    \* goroutines of handlers
          Bases,       \* names of files and folders
          Dotted,      \* those that have an extension
          Standard,    \* those of the root folders made at startup
          SubFolders,  \* those made in them: a root folder's name and their own
          Targets,     \* paths requests name: a directory path and a base
          None,        \* no row, no name
          MaxId,       \* bound on the ids generated
          MaxRequests, \* bound on the requests served
          MaxNumber,   \* bound on the number AutoRename appends
          WalkLimit    \* levels GetAncestorIDs walks

ASSUME BoundsAssumption == MaxId \in Nat /\ MaxRequests \in Nat /\ MaxNumber \in Nat
ASSUME NamesAssumption == Dotted \subseteq Bases /\ Standard \subseteq Bases
ASSUME SubFoldersAssumption == SubFolders \subseteq Standard \X Bases
ASSUME TargetsAssumption == Targets \subseteq Seq(Bases) \X Bases
ASSUME WalkAssumption == WalkLimit \in Nat

Ids == 1 .. MaxId
Dir == 0 .. MaxId    \* 0 is the root
Name == [base : Bases, n : 0 .. MaxNumber]
Plain(b) == [base |-> b, n |-> 0]

(* An uploaded blob's key is its path, a copy's is the key of the original *)
(* with the id of the copy appended.                                       *)
Key == [path : Seq(Bases), copy : Dir]
NoKey == [path |-> <<>>, copy |-> 0]
PathKey(d, b) == [path |-> Append(d, b), copy |-> 0]

Entry == [dir : Dir, name : Name, key : Key, md5 : 0 .. MaxRequests, folder : BOOLEAN]
Folder(d, n) == [dir |-> d, name |-> n, key |-> NoKey, md5 |-> 0, folder |-> TRUE]

ASSUME NoneAssumption == None \notin Entry \cup Name

VARIABLES files,     \* files[i]: the row of id i
          recycled,  \* recycled[i]: the row of id i in recycle_files
          blob,      \* contents by key
          nextId,    \* the id the generator gives next
          arrived,   \* requests so far
          serving,   \* the process has started and listens
          req,       \* req[r]: where request r stands, and what it has read
          calm       \* no request has overlapped another or broken off

vars == <<files, recycled, blob, nextId, arrived, serving, req, calm>>
tables == <<files, recycled, nextId>>

Idle == [op |-> "none", at |-> "idle", id |-> 0, rest |-> <<>>, dir |-> 0,
         name |-> None, key |-> NoKey, md5 |-> 0, row |-> None,
         found |-> 0, levels |-> 0, queue |-> {}, todo |-> {}]

Live == {i \in Ids : files[i] # None}
Children(d) == {i \in Live : files[i].dir = d}
Named(d, n) == {i \in Children(d) : files[i].name = n}

Insert(e) == /\ nextId \in Ids
             /\ files' = [files EXCEPT ![nextId] = e]
             /\ nextId' = nextId + 1
             /\ UNCHANGED recycled

-----------------------------------------------------------------------------
(* Requests.                                                               *)

Becomes(r, q) == req' = [req EXCEPT ![r] = q] /\ UNCHANGED <<serving, calm>>
Ends(r) == Becomes(r, Idle)
Goes(r, at) == Becomes(r, [req[r] EXCEPT !.at = at])

(* What a request does once its target directory is known. *)
AfterResolve(q) == IF q.op = "move" /\ q.row.folder THEN [q EXCEPT !.at = "ancestors", !.found = q.dir]
                                                    ELSE [q EXCEPT !.at = "check"]
Resolving(q) == IF q.rest = <<>> THEN AfterResolve(q) ELSE [q EXCEPT !.at = "resolve"]

Begin(r, q) == /\ serving /\ req[r] = Idle
               /\ arrived < MaxRequests
               /\ arrived' = arrived + 1
               /\ req' = [req EXCEPT ![r] = q]
               /\ calm' = (calm /\ \A s \in Requests : req[s] = Idle)
               /\ UNCHANGED <<tables, blob, serving>>

(* A tablet uploads to a path: the PUT, then upload/finish. *)
Upload(r, d, b) ==
  Begin(r, [Idle EXCEPT !.op = "upload", !.at = "put", !.rest = d, !.name = Plain(b),
                        !.key = PathKey(d, b), !.md5 = arrived + 1])

CreateFolder(r, d, b) ==
  Begin(r, Resolving([Idle EXCEPT !.op = "folder", !.rest = d, !.name = Plain(b)]))

MoveOrCopy(r, op, i, d, b) ==
  Begin(r, [Idle EXCEPT !.op = op, !.at = "source", !.id = i, !.rest = d, !.name = Plain(b)])

Delete(r, i) == Begin(r, [Idle EXCEPT !.op = "delete", !.at = "source", !.id = i])

(* The connection is lost or a statement fails: the handler returns, and   *)
(* what it has done stays.                                                 *)
Abort(r) == /\ req[r] # Idle
            /\ req' = [req EXCEPT ![r] = Idle]
            /\ calm' = FALSE
            /\ UNCHANGED <<tables, blob, arrived, serving>>

Reads == UNCHANGED <<tables, blob, arrived>>
At(r, at) == req[r].at = at

Store(k, v) == blob' = [x \in DOMAIN blob \cup {k} |-> IF x = k THEN v ELSE blob[x]]

Put(r) == /\ At(r, "put")
          /\ Store(req[r].key, req[r].md5)
          /\ Becomes(r, Resolving(req[r]))
          /\ UNCHANGED <<tables, arrived>>

(* The row the request is about is read. *)
GetSource(r) ==
  LET q == req[r]
      e == files[q.id]
  IN  /\ At(r, "source")
      /\ \/ e = None /\ Ends(r)
         \/ /\ e # None /\ q.op = "delete"
            /\ Becomes(r, IF e.folder THEN [q EXCEPT !.at = "list", !.queue = {<<q.id, 0>>}]
                                      ELSE [q EXCEPT !.at = "soft"])
         \/ /\ e # None /\ q.op # "delete"
            /\ Becomes(r, Resolving([q EXCEPT !.row = e]))
      /\ Reads

Entered(q, d) == Resolving([q EXCEPT !.rest = Tail(@), !.dir = d])

(* Faulty variant: a file is entered like a folder. *)
Lookup_AnyEntry(r) ==
  LET found == Named(req[r].dir, Plain(Head(req[r].rest)))
  IN  /\ At(r, "resolve")
      /\ \/ \E i \in found : Becomes(r, Entered(req[r], i))
         \/ found = {} /\ Goes(r, "mkdir")
      /\ Reads

(* The next component of the directory path: a folder is entered, a file   *)
(* refuses the request, a missing one is created.                          *)
Lookup(r) ==
  LET found == Named(req[r].dir, Plain(Head(req[r].rest)))
  IN  /\ At(r, "resolve")
      /\ \/ \E i \in found : /\ files[i].folder
                             /\ Becomes(r, Entered(req[r], i))
         \/ \E i \in found : ~files[i].folder /\ Ends(r)
         \/ found = {} /\ Goes(r, "mkdir")
      /\ Reads

Mkdir(r) == /\ At(r, "mkdir")
            /\ Insert(Folder(req[r].dir, Plain(Head(req[r].rest))))
            /\ Becomes(r, Entered(req[r], nextId))
            /\ UNCHANGED <<blob, arrived>>

(* Faulty variant: the result of the walk is not looked at. *)
Ancestors_Ignored(r) == At(r, "ancestors") /\ Goes(r, "check") /\ Reads

(* A folder must not move below itself: one level of the walk up from the  *)
(* target directory, which ends at the root, at a missing row or at the    *)
(* limit.                                                                  *)
Ancestors(r) ==
  LET q == req[r] IN
  /\ At(r, "ancestors")
  /\ \/ q.levels < WalkLimit /\ q.found = q.id /\ Ends(r)
     \/ /\ q.levels < WalkLimit /\ q.found # q.id /\ q.found \in Live
        /\ Becomes(r, [q EXCEPT !.found = files[q.found].dir, !.levels = @ + 1])
     \/ /\ q.levels = WalkLimit \/ (q.found # q.id /\ q.found \notin Live)
        /\ Goes(r, "check")
  /\ Reads

-----------------------------------------------------------------------------
(* Names.                                                                  *)

(* FindByName asks for names LIKE 'name%': the numbered variants of a name *)
(* without extension are among them, those of "notes.pdf" are not.         *)
Similar(d, n) == {m \in {files[i].name : i \in Children(d)} :
                    m = n \/ (n.n = 0 /\ n.base \notin Dotted /\ m.base = n.base)}

(* Faulty variant: the first number whether or not it is taken. *)
AutoRename_First(n, taken) == {m \in Name : m.base = n.base /\ m.n = IF n \in taken THEN 1 ELSE 0}

(* The name itself, or with the first number that is not taken. *)
AutoRename(n, taken) ==
  {m \in Name : /\ m.base = n.base /\ m \notin taken
                /\ \A k \in 0 .. m.n - 1 : [m EXCEPT !.n = k] \in taken}

(* The entry of the target's name, if any, decides how the request goes    *)
(* on; whether it asks for autorename matters only here.                   *)
CheckName(r) ==
  LET q == req[r]
      found == Named(q.dir, q.name)
      itself == q.op = "move" /\ q.id \in found
  IN  /\ At(r, "check")
      /\ \/ /\ q.op = "upload"
            /\ \E i \in found : Becomes(r, [q EXCEPT !.at = "update", !.found = i])
         \/ /\ q.op # "upload" /\ found # {} /\ ~(itself /\ found = {q.id})
            /\ Goes(r, "similar") \/ Ends(r)
         \/ (found = {} \/ itself) /\ Goes(r, q.op)
      /\ Reads

FindSimilar(r) ==
  LET q == req[r] IN
  /\ At(r, "similar")
  /\ \E m \in AutoRename(q.name, Similar(q.dir, q.name)) :
       Becomes(r, [q EXCEPT !.at = q.op, !.name = m])
  /\ Reads

-----------------------------------------------------------------------------
(* What the request came for.                                              *)

(* upload/finish updates the entry it found, by id, *)
UpdateFileMD5(r) ==
  LET i == req[r].found IN
  /\ At(r, "update")
  /\ files' = IF i \in Live THEN [files EXCEPT ![i].md5 = req[r].md5] ELSE files
  /\ Ends(r)
  /\ UNCHANGED <<recycled, nextId, blob, arrived>>

(* or inserts one whose storage key is the path. *)
CreateFile(r) ==
  LET q == req[r] IN
  /\ At(r, "upload")
  /\ Insert([dir |-> q.dir, name |-> q.name, key |-> q.key, md5 |-> q.md5, folder |-> FALSE])
  /\ Ends(r)
  /\ UNCHANGED <<blob, arrived>>

InsertFolder(r) == /\ At(r, "folder")
                   /\ Insert(Folder(req[r].dir, req[r].name))
                   /\ Ends(r)
                   /\ UNCHANGED <<blob, arrived>>

(* The storage key stays what it was. *)
MoveFile(r) ==
  LET q == req[r] IN
  /\ At(r, "move")
  /\ files' = IF q.id \in Live THEN [files EXCEPT ![q.id].dir = q.dir, ![q.id].name = q.name]
                               ELSE files
  /\ Ends(r)
  /\ UNCHANGED <<recycled, nextId, blob, arrived>>

(* A copy of the row is what is to be made first. *)
StartCopy(r) ==
  LET q == req[r] IN
  /\ At(r, "copy")
  /\ Becomes(r, [q EXCEPT !.at = "copying",
                   !.todo = {[id |-> q.id, row |-> [q.row EXCEPT !.name = q.name], dst |-> q.dir]}])
  /\ Reads

(* Ready or still copying. *)
Copying(r, q) == IF q.queue = {} /\ q.todo = {} THEN Ends(r) ELSE Becomes(r, q)

CopyFolder(r, t) ==
  /\ t.row.folder
  /\ Insert(Folder(t.dst, t.row.name))
  /\ Copying(r, [req[r] EXCEPT !.todo = @ \ {t}, !.queue = @ \cup {<<t.id, nextId>>}])
  /\ UNCHANGED blob

(* A file's blob is written first, under a key of the copy's own: the      *)
(* original's with an id that no other key has.  What the ids are does not *)
(* matter, so this is the least number unused.                             *)
Unused == {n \in Ids : \A k \in DOMAIN blob : k.copy # n}
CopyKey(k) == {[k EXCEPT !.copy = n] : n \in {n \in Unused : \A m \in Unused : n <= m}}

Copied(r, t, k) ==
  Becomes(r, [req[r] EXCEPT !.at = "copied", !.found = t.id, !.row = t.row, !.dir = t.dst,
                            !.key = k, !.md5 = blob[t.row.key]])

(* Faulty variant: the blob is not written. *)
CopyBlob_NoPut(r, t) ==
  /\ ~t.row.folder /\ t.row.key \in DOMAIN blob
  /\ \E k \in CopyKey(t.row.key) : Copied(r, t, k)
  /\ UNCHANGED <<tables, blob>>

CopyBlob(r, t) ==
  /\ ~t.row.folder /\ t.row.key \in DOMAIN blob
  /\ \E k \in CopyKey(t.row.key) : Store(k, blob[t.row.key]) /\ Copied(r, t, k)
  /\ UNCHANGED tables

(* Then the row is inserted, with the MD5 of what was written. *)
CopyRow(r) ==
  LET q == req[r]
      t == [id |-> q.found, row |-> q.row, dst |-> q.dir]
  IN  /\ At(r, "copied")
      /\ Insert([q.row EXCEPT !.dir = q.dir, !.key = q.key, !.md5 = q.md5])
      /\ Copying(r, [q EXCEPT !.at = "copying", !.todo = @ \ {t}])
      /\ UNCHANGED <<blob, arrived>>

Listed(d, dst) == {[id |-> i, row |-> files[i], dst |-> dst] : i \in Children(d)}

CopyChildren(r, p) ==
  /\ Copying(r, [req[r] EXCEPT !.queue = @ \ {p}, !.todo = @ \cup Listed(p[1], p[2])])
  /\ UNCHANGED <<tables, blob>>

Copy(r) == /\ At(r, "copying")
           /\ \/ \E t \in req[r].todo : CopyFolder(r, t) \/ CopyBlob(r, t)
              \/ \E p \in req[r].queue : CopyChildren(r, p)
           /\ UNCHANGED arrived

(* A folder's descendants are listed, one folder at a time, *)
ListRecursive(r) ==
  LET q == req[r] IN
  /\ At(r, "list")
  /\ \E p \in q.queue :
       LET new == Listed(p[1], 0)
           queue == (q.queue \ {p}) \cup {<<t.id, 0>> : t \in {t \in new : t.row.folder}}
       IN  Becomes(r, [q EXCEPT !.queue = queue, !.todo = @ \cup new,
                                !.at = IF queue = {} THEN "soft" ELSE "list"])
  /\ Reads

(* Faulty variant: the row is not checked for nil. *)
GetDeleted_NoNilCheck(r) ==
  LET q == req[r] IN
  /\ At(r, "soft")
  /\ \/ \E t \in q.todo : Becomes(r, [q EXCEPT !.at = "tx", !.found = t.id, !.row = files[t.id]])
     \/ /\ q.todo = {}
        /\ Becomes(r, [q EXCEPT !.at = "tx", !.found = q.id, !.row = files[q.id]])
  /\ Reads

(* then deleted one by one, the folder last: SoftDelete reads the row, *)
GetDeleted(r) ==
  LET q == req[r]
      next == IF q.todo = {} THEN {q.id} ELSE {t.id : t \in q.todo}
  IN  /\ At(r, "soft")
      /\ \E i \in next :
           \/ i \notin Live /\ Ends(r)
           \/ i \in Live /\ Becomes(r, [q EXCEPT !.at = "tx", !.found = i, !.row = files[i]])
      /\ Reads

Deleted(r, i) == IF i = req[r].id THEN Ends(r)
                 ELSE Becomes(r, [req[r] EXCEPT !.at = "soft", !.todo = {t \in @ : t.id # i}])

(* Faulty variant: INSERT OR REPLACE. *)
SoftDelete_Replace(r) ==
  LET i == req[r].found IN
  /\ At(r, "tx")
  /\ recycled' = [recycled EXCEPT ![i] = req[r].row]
  /\ files' = [files EXCEPT ![i] = None]
  /\ Deleted(r, i)
  /\ UNCHANGED <<nextId, blob, arrived>>

(* Faulty variant: the row stays in files. *)
SoftDelete_KeepsRow(r) ==
  LET i == req[r].found IN
  /\ At(r, "tx")
  /\ recycled' = [recycled EXCEPT ![i] = req[r].row]
  /\ Deleted(r, i)
  /\ UNCHANGED <<files, nextId, blob, arrived>>

(* and, in a transaction, inserts what it read into recycle_files, where   *)
(* the id is the primary key, and deletes the row.                         *)
SoftDelete(r) ==
  LET i == req[r].found IN
  /\ At(r, "tx")
  /\ \/ /\ recycled[i] = None
        /\ recycled' = [recycled EXCEPT ![i] = req[r].row]
        /\ files' = [files EXCEPT ![i] = None]
        /\ Deleted(r, i)
     \/ /\ recycled[i] # None
        /\ Ends(r)
        /\ UNCHANGED <<recycled, files>>
  /\ UNCHANGED <<nextId, blob, arrived>>

-----------------------------------------------------------------------------
(* The process.  When it dies, requests break off; before it listens again *)
(* it makes the standard folders that are missing, those in the root and   *)
(* then those in them.                                                     *)
Die == /\ serving
       /\ serving' = FALSE
       /\ req' = [r \in Requests |-> Idle]
       /\ calm' = (calm /\ \A r \in Requests : req[r] = Idle)
       /\ UNCHANGED <<tables, blob, arrived>>

Folders(d, b) == {i \in Named(d, Plain(b)) : files[i].folder}

EnsureFolder(d, b) == /\ ~serving /\ Folders(d, b) = {}
                      /\ Insert(Folder(d, Plain(b)))
                      /\ UNCHANGED <<blob, arrived, serving, req, calm>>

EnsureRootFolders(b) == EnsureFolder(0, b)

(* When several folders have a root folder's name, the query returns any.  *)
RootsMade == \A b \in Standard : Folders(0, b) # {}
EnsureSubFolders(s) == RootsMade /\ \E d \in Folders(0, s[1]) : EnsureFolder(d, s[2])
SubsMade == \A s \in SubFolders : \E d \in Folders(0, s[1]) : Folders(d, s[2]) # {}

Serve == /\ ~serving /\ RootsMade /\ SubsMade
         /\ serving' = TRUE
         /\ UNCHANGED <<tables, blob, arrived, req, calm>>

Init == /\ files = [i \in Ids |-> None]
        /\ recycled = [i \in Ids |-> None]
        /\ blob = [k \in {} |-> 0]
        /\ nextId = 1
        /\ arrived = 0
        /\ serving = FALSE
        /\ req = [r \in Requests |-> Idle]
        /\ calm = TRUE

Arrives(r) == \/ \E t \in Targets :
                   \/ Upload(r, t[1], t[2]) \/ CreateFolder(r, t[1], t[2])
                   \/ \E i \in 1 .. nextId - 1, op \in {"move", "copy"} :
                        MoveOrCopy(r, op, i, t[1], t[2])
              \/ \E i \in 1 .. nextId - 1 : Delete(r, i)

Handles(r) == \/ Put(r) \/ GetSource(r) \/ Lookup(r) \/ Mkdir(r) \/ Ancestors(r)
              \/ CheckName(r) \/ FindSimilar(r)
              \/ UpdateFileMD5(r) \/ CreateFile(r) \/ InsertFolder(r) \/ MoveFile(r)
              \/ StartCopy(r) \/ Copy(r) \/ CopyRow(r)
              \/ ListRecursive(r) \/ GetDeleted(r) \/ SoftDelete(r)

Next == \/ Die \/ Serve
        \/ \E b \in Standard : EnsureRootFolders(b)
        \/ \E s \in SubFolders : EnsureSubFolders(s)
        \/ \E r \in Requests : Arrives(r) \/ Handles(r) \/ Abort(r)

Spec == Init /\ [][Next]_vars
-----------------------------------------------------------------------------
Work == [id : Dir, row : Entry, dst : Dir]    \* what to copy, or to delete

Request == [op : {"none", "upload", "folder", "move", "copy", "delete"},
            at : {"idle", "put", "source", "resolve", "mkdir", "ancestors", "check", "similar",
                  "update", "upload", "folder", "move", "copy", "copying", "copied", "list", "soft", "tx"},
            id : Dir, rest : Seq(Bases), dir : Dir, name : Name \cup {None},
            key : Key, md5 : 0 .. MaxRequests, row : Entry \cup {None}, found : Dir,
            levels : 0 .. WalkLimit, queue : SUBSET (Dir \X Dir),
            todo : SUBSET Work]

TypeOK == /\ files \in [Ids -> Entry \cup {None}]
          /\ recycled \in [Ids -> Entry \cup {None}]
          /\ DOMAIN blob \subseteq Key /\ \A k \in DOMAIN blob : blob[k] \in 1 .. MaxRequests
          /\ nextId \in 1 .. MaxId + 1
          /\ arrived \in 0 .. MaxRequests
          /\ req \in [Requests -> Request]
          /\ {serving, calm} \subseteq BOOLEAN
          /\ \A r \in Requests : req[r].at = "tx" => req[r].row \in Entry

(* No entry is lost or kept twice: whatever overlaps or breaks off, an id  *)
(* once inserted has a row in the catalog or in the recycle bin, and never *)
(* in both.                                                                *)
OneHome == \A i \in Ids : IF i < nextId THEN (files[i] = None) # (recycled[i] = None)
                           ELSE files[i] = None /\ recycled[i] = None

(* Nothing is ever placed below a file: the directory of an entry is the   *)
(* root or a folder, be it one that has been recycled meanwhile.           *)
IsFolder(i) == \E e \in {files[i], recycled[i]} \ {None} : e.folder
ParentIsFolder == \A i \in Live : files[i].dir = 0 \/ IsFolder(files[i].dir)

(* A file in the catalog or in the recycle bin, from which it is to be     *)
(* recoverable (handlers_fileops.go:86), has had its blob stored before.   *)
BlobBehindEntry ==
  \A i \in Ids : \A e \in {files[i], recycled[i]} \ {None} : ~e.folder => e.key \in DOMAIN blob

(* What the recycle bin holds of an entry is never replaced, by a second   *)
(* delete of the same entry that has read an older row, for one.           *)
RecycledKept == [][\A i \in Ids : recycled[i] # None => recycled'[i] = recycled[i]]_vars

Settled == calm /\ \A r \in Requests : req[r] = Idle

(* Served one at a time and to the end, requests keep the catalog a tree:  *)
(* no folder is deleted from above its entries, and no moves close a loop. *)
TreeWhole ==
  Settled => /\ \A i \in Live : files[i].dir = 0 \/ (files[i].dir \in Live /\ IsFolder(files[i].dir))
             /\ \A S \in SUBSET Live : S # {} => \E i \in S : files[i].dir \notin S

StandardNames == Standard \cup {s[2] : s \in SubFolders}

(* AutoRename, "until a non-colliding name is found" (fileutil.go:10):     *)
(* requests served one at a time leave no two entries of a folder with the *)
(* same name, except names with an extension, whose numbered variants      *)
(* FindByName does not see, and the standard folders.                      *)
UniqueNames ==
  Settled => \A i, j \in Live :
               /\ files[i].dir = files[j].dir /\ files[i].name = files[j].name
               /\ files[i].name.base \notin Dotted \cup StandardNames
               => i = j

(* Test plan 2.2, "Verify file metadata (MD5, size, timestamps) matches":  *)
(* the MD5 a tablet is told of a file is that of the blob it downloads.    *)
MetadataMatchesBlob ==
  Settled => \A i \in Live : ~files[i].folder => blob[files[i].key] = files[i].md5
=============================================================================
