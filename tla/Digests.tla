------------------------------ MODULE Digests ------------------------------
(***************************************************************************)
(* The table summaries: digests and their groups, made, edited, deleted    *)
(* and listed page by page by tablets.  A create takes an id from the      *)
(* generator, looks for its unique identifier and inserts, in separate     *)
(* statements; the table's only key is the id.  A listing is a COUNT and a *)
(* SELECT for every page the tablet asks for.                              *)
(***************************************************************************)
EXTENDS Snowflake, FiniteSets

CONSTANTS Requests,    \* handlers in progress at the same time
          Uids,        \* unique identifiers
          NoUid,       \* a digest sent without one
          PageSize,    \* rows of a page the tablet asks for
          MaxWrites    \* bound on the creates and updates

ASSUME NoUidAssumption == NoUid \notin Uids
ASSUME PageSizeAssumption == PageSize \in Nat \ {0}
ASSUME MaxWritesAssumption == MaxWrites \in Nat

VARIABLES summaries,   \* the rows
          req,         \* req[r]: where handler r stands
          list,        \* a tablet's listing in progress
          writes       \* creates and updates so far

vars == <<snowflake, summaries, req, list, writes>>

(* edited: some field a listing does not go by has been updated.           *)
(* raced is a ghost: a row of the same identifier was inserted between     *)
(* this one's look-up and its insert.                                      *)
Digest == [uid : Uids \cup {NoUid}, group : BOOLEAN, edited : BOOLEAN, raced : BOOLEAN]
Row == [id : Ids, digest : Digest]
Request == [pc : {"idle", "unique", "insert", "update"}, id : Ids, digest : Digest]

NoDigest == [uid |-> NoUid, group |-> FALSE, edited |-> FALSE, raced |-> FALSE]
NoId == [time |-> 0, seq |-> 0]
NoRequest == [pc |-> "idle", id |-> NoId, digest |-> NoDigest]

HasId(i) == \E row \in summaries : row.id = i
At(r, step) == req[r].pc = step
Done(r) == req' = [req EXCEPT ![r] = NoRequest]
-----------------------------------------------------------------------------
(* Listings.  Every row is listed by attributes no update changes.         *)

Filters == {"groups", "items", "all"}
ListState == [pc : {"idle", "count", "select"}, filter : Filters, page : Nat, pages : Nat,
              got : SUBSET Ids, new : SUBSET Ids, shifted : BOOLEAN]

Matches(row, filter) == \/ filter = "all"
                        \/ filter = "groups" /\ row.digest.group
                        \/ filter = "items" /\ ~row.digest.group

Listing == list.pc # "idle"

Listed == {row \in summaries : Matches(row, list.filter)}

(* Faulty variant: without ORDER BY id; rows come as they are stored. *)
Position_Stored(row) == Cardinality({other \in Listed : Before(row.id, other.id)})

(* ORDER BY id *)
Position(row) == Cardinality({other \in Listed : Before(other.id, row.id)})

Offset == (list.page - 1) * PageSize

(* LIMIT PageSize OFFSET Offset *)
Page == {row \in Listed : Position(row) >= Offset /\ Position(row) < Offset + PageSize}

LastPage == list.page >= list.pages

(* A page's offset counts rows: the rows of the later pages move up when   *)
(* one of an earlier page goes.                                            *)
NoteDelete(row) ==
  list' = IF Listing /\ row \in Listed
          THEN [list EXCEPT !.shifted = @ \/ Position(row) < Offset]
          ELSE list

(* A row that enters before another, between a page's COUNT and its        *)
(* SELECT, pushes the last one off the last page.                          *)
NoteInsert(row) ==
  list' = IF Listing /\ Matches(row, list.filter)
          THEN [list EXCEPT !.new = @ \cup {row.id},
                            !.shifted = @ \/ /\ list.pc = "select"
                                             /\ \E other \in Listed : Before(row.id, other.id)]
          ELSE list
-----------------------------------------------------------------------------
(* Creating a digest or a group.  A group must have an identifier. *)

CreateSummary(r, digest) ==
  /\ At(r, "idle")
  /\ writes < MaxWrites
  /\ Generate
  /\ req' = [req EXCEPT ![r] = [pc |-> "unique", id |-> NextId, digest |-> digest]]
  /\ writes' = writes + 1
  /\ UNCHANGED <<summaries, list>>

(* Faulty variant: only rows of the same kind are looked at. *)
CheckUnique_SameKind(r) ==
  LET digest == req[r].digest
  IN  /\ At(r, "unique")
      /\ IF digest.uid # NoUid
            /\ \E row \in summaries : row.digest.uid = digest.uid /\ row.digest.group = digest.group
         THEN Done(r)
         ELSE req' = [req EXCEPT ![r].pc = "insert"]
      /\ UNCHANGED <<snowflake, summaries, list, writes>>

(* ErrUniqueIDExists, among digests and groups alike; an empty identifier  *)
(* is not looked up.                                                       *)
CheckUnique(r) ==
  LET digest == req[r].digest
  IN  /\ At(r, "unique")
      /\ IF digest.uid # NoUid /\ \E row \in summaries : row.digest.uid = digest.uid
         THEN Done(r)
         ELSE req' = [req EXCEPT ![r].pc = "insert"]
      /\ UNCHANGED <<snowflake, summaries, list, writes>>

(* Those who have looked for the same identifier and not yet inserted. *)
Rivals(r) == {q \in Requests \ {r} : /\ At(q, "insert")
                                     /\ req[r].digest.uid # NoUid
                                     /\ req[q].digest.uid = req[r].digest.uid}

(* The primary key refuses an id that is there already. *)
InsertSummary(r) ==
  LET row == [id |-> req[r].id, digest |-> req[r].digest]
  IN  /\ At(r, "insert")
      /\ IF HasId(row.id)
         THEN Done(r) /\ UNCHANGED <<summaries, list>>
         ELSE /\ summaries' = summaries \cup {row}
              /\ NoteInsert(row)
              /\ req' = [q \in Requests |->
                           IF q = r THEN NoRequest
                           ELSE IF q \in Rivals(r) THEN [req[q] EXCEPT !.digest.raced = TRUE]
                           ELSE req[q]]
      /\ UNCHANGED <<snowflake, writes>>

(* The row must exist, digest or group, whichever the handler is for. *)
UpdateSummary(r, row) ==
  /\ At(r, "idle")
  /\ writes < MaxWrites
  /\ req' = [req EXCEPT ![r] = [pc |-> "update", id |-> row.id, digest |-> NoDigest]]
  /\ writes' = writes + 1
  /\ UNCHANGED <<snowflake, summaries, list>>

(* UPDATE by id: a row deleted meanwhile makes no difference to the answer. *)
WriteUpdate(r) ==
  /\ At(r, "update")
  /\ summaries' = {IF row.id = req[r].id THEN [row EXCEPT !.digest.edited = TRUE] ELSE row :
                     row \in summaries}
  /\ Done(r)
  /\ UNCHANGED <<snowflake, list, writes>>

(* Deleting what is not there is a success too. *)
DeleteSummary(row) ==
  /\ summaries' = summaries \ {row}
  /\ NoteDelete(row)
  /\ UNCHANGED <<snowflake, req, writes>>
-----------------------------------------------------------------------------
(* The listing tablet: it asks for pages until there are no more. *)

NoList == [pc |-> "idle", filter |-> "all", page |-> 1, pages |-> 0,
           got |-> {}, new |-> {}, shifted |-> FALSE]

ListStart(filter) == /\ ~Listing
                     /\ list' = [NoList EXCEPT !.pc = "count", !.filter = filter]
                     /\ UNCHANGED <<snowflake, summaries, req, writes>>

ListCount == /\ list.pc = "count"
             /\ list' = [list EXCEPT !.pc = "select",
                                     !.pages = (Cardinality(Listed) + PageSize - 1) \div PageSize]
             /\ UNCHANGED <<snowflake, summaries, req, writes>>

Received == list.got \cup {row.id : row \in Page}

ListSelect == /\ list.pc = "select"
              /\ list' = IF LastPage THEN NoList
                         ELSE [list EXCEPT !.pc = "count", !.page = @ + 1, !.got = Received]
              /\ UNCHANGED <<snowflake, summaries, req, writes>>

(* A restart ends the handlers; the tablet goes on with the next page. *)
Restart == /\ NewGenerator
           /\ req' = [r \in Requests |-> NoRequest]
           /\ list' = IF list.pc = "select" THEN NoList ELSE list
           /\ UNCHANGED <<summaries, writes>>

Clock == (Tick \/ StepBack) /\ UNCHANGED <<summaries, req, list, writes>>
-----------------------------------------------------------------------------
Init == /\ GeneratorInit
        /\ summaries = {}
        /\ req = [r \in Requests |-> NoRequest]
        /\ list = NoList
        /\ writes = 0

(* What a tablet may send: a group has an identifier, a digest may lack it. *)
Fresh == {d \in Digest : ~d.edited /\ ~d.raced}
NewGroups == {d \in Fresh : d.group /\ d.uid # NoUid}
NewItems == {d \in Fresh : ~d.group}
NewDigests == NewGroups \cup NewItems

Next == \/ \E r \in Requests : \/ \E d \in NewDigests : CreateSummary(r, d)
                               \/ CheckUnique(r)
                               \/ InsertSummary(r)
                               \/ \E row \in summaries : UpdateSummary(r, row)
                               \/ WriteUpdate(r)
        \/ \E row \in summaries : DeleteSummary(row)
        \/ \E filter \in Filters : ListStart(filter)
        \/ ListCount \/ ListSelect
        \/ Restart \/ Clock

Spec == Init /\ [][Next]_vars
-----------------------------------------------------------------------------
TypeOK == /\ GeneratorTypeOK
          /\ summaries \in SUBSET Row
          /\ req \in [Requests -> Request]
          /\ list \in ListState
          /\ writes \in 0 .. MaxWrites

(* CreateSummary checks "uniqueness on (user_id, unique_identifier)": two  *)
(* rows of one identifier, digest or group, come only of two creates that  *)
(* were both past their look-up before the first of them inserted.         *)
DuplicateOnlyByRace ==
  \A a, b \in summaries :
    a # b /\ a.digest.uid = b.digest.uid /\ a.digest.uid # NoUid => a.digest.raced \/ b.digest.raced

(* A paged listing misses no digest that was there from its first page to  *)
(* its last, whatever was made meanwhile, with ids from a clock that steps *)
(* back and inserts out of order, and whatever of the later pages was      *)
(* deleted: unless a row of an earlier page was deleted, or one entered    *)
(* before another between a COUNT and its SELECT.                          *)
DigestPagesComplete ==
  [][ListSelect /\ LastPage /\ ~list.shifted
       => \A row \in Listed : row.id \in Received \cup list.new]_vars
=============================================================================
