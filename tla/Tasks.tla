-------------------------------- MODULE Tasks --------------------------------
(***************************************************************************)
(* The tables schedule_groups and schedule_tasks and their three writers:  *)
(* tablets, which upsert, update and delete rows; calendar clients, which  *)
(* put and delete objects; and the web page, which completes and deletes.  *)
(* A tablet reads the tasks page by page and keeps a sync token.           *)
(*                                                                         *)
(* Each SQL statement is a step.  A handler that reads before it writes    *)
(* is a record of what it has read.  Foreign keys are declared, but SQLite *)
(* does not enforce them unless asked to.                                  *)
(***************************************************************************)
EXTENDS Naturals, FiniteSets

CONSTANTS TaskIds, Groups,
          Default,     \* no group of a tablet's: a calendar's list, or none at all
          TabletTimes, \* the last_modified tablets send
          Updates,     \* what a batch may hold for a task
          PageSize,    \* rows of a page the tablet asks for
          MaxClock     \* bound on the clock, and so on the writes

ASSUME TaskIdsAssumption == IsFiniteSet(TaskIds)
ASSUME DefaultAssumption == Default \notin Groups
(* Fields that are not sent stay as they are: a tablet's last_modified is  *)
(* never 0, and fills says that every column is sent.                      *)
Update == [moves : BOOLEAN, group : Groups \cup {Default}, modified : 0 .. MaxClock,
           deleted : {"kept", "Y", "N"}, fills : BOOLEAN]

ASSUME TabletTimesAssumption == TabletTimes \subseteq 0 .. MaxClock
ASSUME UpdatesAssumption == Updates \subseteq Update
ASSUME PageSizeAssumption == PageSize \in Nat \ {0}
ASSUME MaxClockAssumption == MaxClock \in Nat

VARIABLES groups,      \* task_list_id of the rows of schedule_groups
          row,         \* row[t] of schedule_tasks, NoRow when there is none
          clock        \* the time; every write that reads it gets its own
VARIABLES tablet,      \* a tablet's write in progress
          client,      \* a calendar's or the page's write in progress
          list,        \* another tablet's listing in progress
          token,       \* the sync token that tablet holds, 0 when it has none
          current      \* the tasks whose rows that tablet has as they are

vars == <<groups, row, clock, tablet, client, list, token, current>>

Times == 0 .. MaxClock
NoRow == [absent |-> TRUE]
(* updated is 0 for NULL; partial when columns a tablet fills are NULL;    *)
(* late is a ghost: the group was gone when the row was put into it.       *)
Row == [group : Groups \cup {Default}, modified : Times, updated : Times,
        deleted : BOOLEAN, partial : BOOLEAN, late : BOOLEAN]

Write == [pc : {"idle", "upsert", "batch"}, tasks : SUBSET TaskIds,
          group : Groups \cup {Default}, stamp : Times, late : BOOLEAN]
Client == [pc : {"idle", "create", "update"}, task : SUBSET TaskIds, partial : BOOLEAN]
ListState == [pc : {"idle", "count", "select"}, page : Nat, pages : Nat,
              got : SUBSET TaskIds, changed : SUBSET TaskIds, shifted : BOOLEAN]

NoWrite == [pc |-> "idle", tasks |-> {}, group |-> Default, stamp |-> 0, late |-> FALSE]
NoClient == [pc |-> "idle", task |-> {}, partial |-> FALSE]
NoList == [pc |-> "idle", page |-> 1, pages |-> 0, got |-> {}, changed |-> {}, shifted |-> FALSE]

Exists(t) == row[t] # NoRow
Visible(t) == Exists(t) /\ ~row[t].deleted
-----------------------------------------------------------------------------
(* The listing's result set, and what a change of the rows does to a       *)
(* listing in progress.                                                    *)

(* No is_deleted in the condition; NULL fails the comparison. *)
Passes(r) == r # NoRow /\ (token # 0 => r.updated # 0 /\ r.updated >= token)

Listed == {t \in TaskIds : Passes(row[t])}

Listing == list.pc \in {"count", "select"}

(* Any fixed order will do for rows made equal by one batch. *)
RowId == CHOOSE f \in [TaskIds -> 1 .. Cardinality(TaskIds)] :
           \A t, u \in TaskIds : f[t] = f[u] => t = u

(* Last modified first; equal ones come as the index on                    *)
(* (user_id, updated_at) has them.                                         *)
Newer(t, u, rt, ru) ==
  \/ rt.modified > ru.modified
  \/ rt.modified = ru.modified /\ rt.updated < ru.updated
  \/ rt.modified = ru.modified /\ rt.updated = ru.updated /\ RowId[t] < RowId[u]

(* A page's offset counts rows: the later pages move up when a row that    *)
(* stood before one of theirs leaves the set or falls behind it, and the   *)
(* last row falls off the last page when one enters between that page's    *)
(* COUNT and its SELECT.                                                   *)
Shifts(new, changed) ==
  \E t \in changed :
    \/ list.pc = "select" /\ ~Passes(row[t]) /\ Passes(new[t])
    \/ \E u \in Listed \ changed :
         /\ Passes(row[t])
         /\ Newer(t, u, row[t], row[u])
         /\ Passes(new[t]) => Newer(u, t, row[u], new[t])

Commit(new) ==
  LET changed == {t \in TaskIds : new[t] # row[t]}
  IN  /\ row' = new
      /\ current' = current \ changed
      /\ list' = IF ~Listing THEN list
                 ELSE [list EXCEPT !.changed = @ \cup changed,
                                   !.shifted = @ \/ Shifts(new, changed)]

Tick == clock < MaxClock /\ clock' = clock + 1
-----------------------------------------------------------------------------
(* A tablet's writes. *)

UpsertScheduleGroup(g) == /\ groups' = groups \cup {g}
                          /\ UNCHANGED <<row, clock, tablet, client, list, token, current>>

(* Faulty variant: the tasks are left to ON DELETE CASCADE. *)
DeleteScheduleGroup_GroupOnly(g) ==
  /\ g \in groups
  /\ groups' = groups \ {g}
  /\ tablet' = [tablet EXCEPT !.late = @ \/ tablet.group = g]
  /\ UNCHANGED <<row, clock, client, list, token, current>>

(* The tasks and the group are deleted in one transaction. *)
DeleteScheduleGroup(g) ==
  /\ g \in groups
  /\ groups' = groups \ {g}
  /\ Commit([t \in TaskIds |-> IF Exists(t) /\ row[t].group = g THEN NoRow ELSE row[t]])
  /\ tablet' = [tablet EXCEPT !.late = @ \/ tablet.group = g]
  /\ UNCHANGED <<clock, client, token>>

(* The group is looked up, if the task has one; then updated_at is read    *)
(* from the clock.                                                         *)
CheckGroup(t, g) ==
  /\ tablet.pc = "idle"
  /\ g \in groups \cup {Default}
  /\ Tick
  /\ tablet' = [pc |-> "upsert", tasks |-> {t}, group |-> g, stamp |-> clock', late |-> FALSE]
  /\ UNCHANGED <<groups, row, client, list, token, current>>

(* INSERT OR REPLACE: is_deleted is not among the columns.  last_modified  *)
(* is the tablet's own.                                                    *)
UpsertScheduleTask ==
  /\ tablet.pc = "upsert"
  /\ \E modified \in TabletTimes :
       Commit([t \in TaskIds |->
         IF t \in tablet.tasks
         THEN [group |-> tablet.group, modified |-> modified, updated |-> tablet.stamp,
               deleted |-> FALSE, partial |-> FALSE, late |-> tablet.late]
         ELSE row[t]])
  /\ tablet' = NoWrite
  /\ UNCHANGED <<groups, clock, client, token>>

(* Every task must exist when the batch is checked. *)
CheckBatch(batch) ==
  /\ tablet.pc = "idle"
  /\ batch # {} /\ \A t \in batch : Exists(t)
  /\ Tick
  /\ tablet' = [NoWrite EXCEPT !.pc = "batch", !.tasks = batch, !.stamp = clock']
  /\ UNCHANGED <<groups, row, client, list, token, current>>

(* Neither the group nor the deletion mark is looked at. *)
Updated(r, u) ==
  [r EXCEPT !.updated = tablet.stamp,
            !.group = IF u.moves THEN u.group ELSE @,
            !.late = IF u.moves THEN u.group \in Groups \ groups ELSE @,
            !.modified = IF u.modified # 0 THEN u.modified ELSE @,
            !.deleted = IF u.deleted = "kept" THEN @ ELSE u.deleted = "Y",
            !.partial = @ /\ ~u.fills]

(* The updates are one transaction; a task that has gone is passed over.   *)
BatchUpdateTasks ==
  /\ tablet.pc = "batch"
  /\ \E sent \in [tablet.tasks -> Updates] :
       Commit([t \in TaskIds |->
         IF t \in tablet.tasks /\ Exists(t) THEN Updated(row[t], sent[t]) ELSE row[t]])
  /\ tablet' = NoWrite
  /\ UNCHANGED <<groups, clock, client, token>>

DeleteScheduleTask(t) == /\ Exists(t)
                         /\ Commit([row EXCEPT ![t] = NoRow])
                         /\ UNCHANGED <<groups, clock, tablet, client, token>>
-----------------------------------------------------------------------------
(* Calendar clients and the web page. *)

(* PutCalendarObject reads the task, deleted ones excepted. *)
PutCalendarObject(t) ==
  /\ client.pc = "idle"
  /\ client' = [pc |-> IF Visible(t) THEN "update" ELSE "create", task |-> {t}, partial |-> TRUE]
  /\ UNCHANGED <<groups, row, clock, tablet, list, token, current>>

(* handleCompleteTask reads the task and will write all of it back. *)
CompleteTask(t) ==
  /\ client.pc = "idle"
  /\ Visible(t)
  /\ client' = [pc |-> "update", task |-> {t}, partial |-> row[t].partial]
  /\ UNCHANGED <<groups, row, clock, tablet, list, token, current>>

(* A plain INSERT: a row marked deleted still has the primary key.  Most   *)
(* columns and updated_at stay NULL.                                       *)
CreateTask ==
  /\ client.pc = "create"
  /\ \E t \in client.task :
       \/ /\ ~Exists(t)
          /\ Tick
          /\ Commit([row EXCEPT ![t] = [group |-> Default, modified |-> clock', updated |-> 0,
                                        deleted |-> FALSE, partial |-> TRUE, late |-> FALSE]])
       \/ /\ Exists(t)
          /\ UNCHANGED <<row, clock, list, current>>
  /\ client' = NoClient
  /\ UNCHANGED <<groups, tablet, token>>

(* Faulty variant: the row is written with is_deleted = 'N'. *)
UpdateTask_Undeletes ==
  /\ client.pc = "update"
  /\ Tick
  /\ \E t \in client.task :
       Commit(IF Exists(t) THEN [row EXCEPT ![t].modified = clock', ![t].deleted = FALSE] ELSE row)
  /\ client' = NoClient
  /\ UNCHANGED <<groups, tablet, token>>

(* UPDATE by id, deleted or not.  A calendar's object has no recurrence,   *)
(* which becomes NULL; updated_at is left alone.                           *)
UpdateTask ==
  /\ client.pc = "update"
  /\ Tick
  /\ \E t \in client.task :
       Commit(IF Exists(t)
              THEN [row EXCEPT ![t].modified = clock', ![t].partial = @ \/ client.partial]
              ELSE row)
  /\ client' = NoClient
  /\ UNCHANGED <<groups, tablet, token>>

(* DeleteCalendarObject and the page's bulk delete mark the row. *)
DeleteTask(t) ==
  /\ Exists(t)
  /\ Tick
  /\ Commit([row EXCEPT ![t].modified = clock', ![t].deleted = TRUE])
  /\ UNCHANGED <<groups, tablet, client, token>>
-----------------------------------------------------------------------------
(* The listing tablet. *)

ListStart == /\ ~Listing
             /\ list' = [NoList EXCEPT !.pc = "count"]
             /\ UNCHANGED <<groups, row, clock, tablet, client, token, current>>

ListCount == /\ list.pc = "count"
             /\ list' = [list EXCEPT !.pc = "select",
                                     !.pages = (Cardinality(Listed) + PageSize - 1) \div PageSize]
             /\ UNCHANGED <<groups, row, clock, tablet, client, token, current>>

(* Faulty variant: ORDER BY last_modified without DESC. *)
Before_Ascending(t, u) == Newer(u, t, row[u], row[t])

(* ORDER BY last_modified DESC *)
Before(t, u) == Newer(t, u, row[t], row[u])

(* LIMIT PageSize OFFSET (page - 1) * PageSize *)
Page == {t \in Listed : LET n == Cardinality({u \in Listed : Before(u, t)})
                        IN  n >= (list.page - 1) * PageSize /\ n < list.page * PageSize}

LastPage == list.page >= list.pages

(* A NULL can not be scanned into the columns' types: the listing fails. *)
Unscannable == \E t \in Page : row[t].partial

ListSelect ==
  /\ list.pc = "select"
  /\ ~Unscannable
  /\ current' = current \cup Page
  /\ IF LastPage
     THEN /\ list' = NoList
          /\ token' = clock
     ELSE /\ list' = [list EXCEPT !.pc = "count", !.page = @ + 1, !.got = @ \cup Page]
          /\ UNCHANGED token
  /\ UNCHANGED <<groups, row, clock, tablet, client>>

ListFails == /\ list.pc = "select"
             /\ Unscannable
             /\ list' = NoList
             /\ UNCHANGED <<groups, row, clock, tablet, client, token, current>>
-----------------------------------------------------------------------------
Init == /\ groups = {}
        /\ row = [t \in TaskIds |-> NoRow]
        /\ clock = 0
        /\ tablet = NoWrite
        /\ client = NoClient
        /\ list = NoList
        /\ token = 0
        /\ current = {}

TabletWrites == \/ \E g \in Groups : UpsertScheduleGroup(g) \/ DeleteScheduleGroup(g)
                \/ \E t \in TaskIds, g \in Groups \cup {Default} : CheckGroup(t, g)
                \/ \E batch \in SUBSET TaskIds : CheckBatch(batch)
                \/ UpsertScheduleTask \/ BatchUpdateTasks
                \/ \E t \in TaskIds : DeleteScheduleTask(t)

ClientWrites == \/ \E t \in TaskIds : PutCalendarObject(t) \/ CompleteTask(t) \/ DeleteTask(t)
                \/ CreateTask \/ UpdateTask

List == ListCount \/ ListSelect \/ ListFails

Next == TabletWrites \/ ClientWrites \/ ListStart \/ List

Spec == Init /\ [][Next]_vars

(* The tablet keeps synchronising, and the server runs its handlers. *)
SyncSpec == Spec /\ WF_vars(ListStart) /\ WF_vars(List)
                 /\ WF_vars(CreateTask \/ UpdateTask)
                 /\ WF_vars(UpsertScheduleTask \/ BatchUpdateTasks)
-----------------------------------------------------------------------------
TypeOK ==
  /\ groups \in SUBSET Groups
  /\ row \in [TaskIds -> Row \cup {NoRow}]
  /\ clock \in Times
  /\ tablet \in Write
  /\ client \in Client
  /\ list \in ListState
  /\ token \in Times
  /\ current \in SUBSET TaskIds

(* A task whose group is gone was put there when it was gone already: the  *)
(* upsert had looked it up before its deletion, or a batch moved it there. *)
(* Deleting a group takes along every task that is in it, with batches,    *)
(* puts and calendar deletions in between.                                 *)
OrphanOnlyIfLate ==
  \A t \in TaskIds : Exists(t) /\ row[t].group \in Groups \ groups => row[t].late

(* A deletion in a calendar or on the page stands against every put and    *)
(* completion that read the task before: only a tablet's write brings it   *)
(* back.                                                                   *)
DeletionStands ==
  [][\A t \in TaskIds :
       Exists(t) /\ row[t].deleted /\ Visible(t)' => tablet.pc # "idle" /\ tablet'.pc = "idle"]_vars

(* A paged listing, full or since the token, misses no task that stayed as *)
(* it was from the first page to the last, whatever was inserted or edited *)
(* meanwhile, unless a row left the result set or fell back in its order,  *)
(* or one entered between the COUNT and the SELECT of a page.              *)
PagesComplete ==
  [][ListSelect /\ LastPage /\ ~list.shifted
       => Listed \subseteq list.got \cup Page \cup list.changed]_vars

(* The test plan's steps 12 and 13, "Complete task in CalDAV client" and   *)
(* "Sync tablet - verify task shows as completed": a tablet that keeps     *)
(* synchronising has every task as it is in the end.                       *)
CalendarReachesTablet ==
  \A t \in TaskIds : Visible(t) /\ t \notin current ~> ~Visible(t) \/ t \in current
=============================================================================
