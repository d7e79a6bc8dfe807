---------------------------- MODULE Tasks_proofs ----------------------------
(***************************************************************************)
(* Theorems of Tasks, for any number of tasks, groups and writes: a task   *)
(* without its group was put there when the group was gone, a deletion is  *)
(* undone by a tablet's write only, and a paged listing that nothing       *)
(* shifts is complete.                                                     *)
(***************************************************************************)
EXTENDS Tasks, FunctionTheorems, FiniteSetTheorems, TLAPS

-----------------------------------------------------------------------------
(* Rows. *)

(* What an edit leaves of a row: its group, and its deletion mark. *)
Edited(r, s) ==
  /\ s \in Row
  /\ s.group = r.group /\ s.late = r.late
  /\ r.deleted => s.deleted

LEMMA ReturnedRow ==
  ASSUME NEW r \in Row, NEW c \in Times, NEW b \in BOOLEAN
  PROVE  Edited(r, [r EXCEPT !.modified = c, !.partial = b])
  BY DEF Edited, Row

LEMMA MarkedRow ==
  ASSUME NEW r \in Row, NEW c \in Times
  PROVE  Edited(r, [r EXCEPT !.modified = c, !.deleted = TRUE])
  BY DEF Edited, Row

LEMMA NoRowIsNone == NoRow \notin Row
  BY DEF Row, NoRow

LEMMA FreshRow ==
  ASSUME NEW g \in Groups \cup {Default}, NEW m \in Times, NEW u \in Times,
         NEW p \in BOOLEAN, NEW b \in BOOLEAN
  PROVE  LET s == [group |-> g, modified |-> m, updated |-> u, deleted |-> FALSE,
                   partial |-> p, late |-> b]
         IN  s \in Row /\ s.group = g /\ s.late = b
  BY DEF Row

-----------------------------------------------------------------------------
(* The invariant: a row, or an upsert on its way, whose group is gone was  *)
(* put there, or checked against it, before the deletion.                  *)

UpsertLate == tablet.pc = "upsert" /\ tablet.group \in Groups \ groups => tablet.late

TasksInv == TypeOK /\ OrphanOnlyIfLate /\ UpsertLate

(* A statement that edits rows, or removes them, and leaves the groups. *)
EditsRows == \A t \in TaskIds : row'[t] = row[t] \/ row'[t] = NoRow
                                \/ (Exists(t) /\ Edited(row[t], row'[t]))

LEMMA CommitTypes ==
  ASSUME TypeOK, NEW new, new \in [TaskIds -> Row \cup {NoRow}], Commit(new)
  PROVE  /\ row' \in [TaskIds -> Row \cup {NoRow}]
         /\ list' \in ListState
         /\ current' \in SUBSET TaskIds
<1> DEFINE changed == {t \in TaskIds : new[t] # row[t]}
           shifts  == Shifts(new, changed)
           all     == list.changed \cup changed
           moved   == list.shifted \/ shifts
           after   == [list EXCEPT !.changed = all, !.shifted = moved]
<1>1. row' = new /\ current' = current \ changed /\ list' = (IF ~Listing THEN list ELSE after)
  BY DEF Commit
<1>2. list \in ListState /\ all \in SUBSET TaskIds /\ moved \in BOOLEAN
  BY DEF TypeOK, ListState
<1> HIDE DEF shifts, all, moved
<1>3. after \in ListState
  BY <1>2 DEF ListState
<1> HIDE DEF after
<1> QED
  BY <1>1, <1>2, <1>3 DEF TypeOK

LEMMA NextTick ==
  ASSUME TypeOK, Tick
  PROVE  clock' \in Times
  BY MaxClockAssumption DEF TypeOK, Tick, Times

(* Statements that only edit rows keep the invariant. *)
LEMMA EditInv ==
  ASSUME TasksInv, TypeOK', EditsRows, groups' = groups, UpsertLate'
  PROVE  TasksInv'
<1> SUFFICES ASSUME NEW t \in TaskIds, Exists(t)', row'[t].group \in Groups \ groups
             PROVE  row'[t].late
  BY DEF TasksInv, OrphanOnlyIfLate
<1> QED
  BY DEF EditsRows, Exists, Edited, TasksInv, OrphanOnlyIfLate

LEMMA InitInv == Init => TasksInv
<1> SUFFICES ASSUME Init PROVE TasksInv
  OBVIOUS
<1>1. 0 \in Times
  BY MaxClockAssumption DEF Times
<1>2. tablet \in Write /\ client \in Client /\ list \in ListState
  BY <1>1 DEF Init, NoWrite, NoClient, NoList, Write, Client, ListState
<1>3. TypeOK
  BY <1>1, <1>2 DEF Init, TypeOK
<1>4. OrphanOnlyIfLate /\ UpsertLate
  BY DEF Init, OrphanOnlyIfLate, UpsertLate, NoWrite, Exists
<1> QED
  BY <1>3, <1>4 DEF TasksInv

-----------------------------------------------------------------------------
(* A tablet's writes. *)

LEMMA UpsertGroupInv ==
  ASSUME TasksInv, NEW g \in Groups, UpsertScheduleGroup(g)
  PROVE  TasksInv'
<1>1. /\ groups' = groups \cup {g}
      /\ UNCHANGED <<row, clock, tablet, client, list, token, current>>
  BY DEF UpsertScheduleGroup
<1>2. TypeOK'
  BY <1>1 DEF TasksInv, TypeOK
<1>3. OrphanOnlyIfLate' /\ UpsertLate'
  BY <1>1 DEF TasksInv, OrphanOnlyIfLate, UpsertLate, Exists
<1> QED
  BY <1>2, <1>3 DEF TasksInv

LEMMA DeleteGroupInv ==
  ASSUME TasksInv, NEW g \in Groups, DeleteScheduleGroup(g)
  PROVE  TasksInv'
<1> DEFINE new  == [t \in TaskIds |-> IF Exists(t) /\ row[t].group = g THEN NoRow ELSE row[t]]
           r    == tablet.late \/ tablet.group = g
           after == [tablet EXCEPT !.late = r]
<1>1. groups' = groups \ {g} /\ Commit(new) /\ tablet' = after /\ UNCHANGED <<clock, client, token>>
  BY DEF DeleteScheduleGroup
<1>2. TypeOK /\ new \in [TaskIds -> Row \cup {NoRow}]
  BY DEF TasksInv, TypeOK
<1>3. tablet \in Write /\ r \in BOOLEAN
  BY <1>2 DEF TypeOK, Write
<1>4. r <=> tablet.late \/ tablet.group = g
  OBVIOUS
<1> HIDE DEF r
<1>5. /\ after \in Write /\ after.pc = tablet.pc /\ after.group = tablet.group
      /\ after.late = r
  BY <1>3 DEF Write
<1>6. row' = new
  BY <1>1 DEF Commit
<1>7. TypeOK'
  <2>1. row' \in [TaskIds -> Row \cup {NoRow}] /\ list' \in ListState /\ current' \in SUBSET TaskIds
    BY <1>1, <1>2, CommitTypes
  <2> QED
    BY <1>1, <1>2, <1>5, <2>1 DEF TypeOK
<1>8. OrphanOnlyIfLate'
  BY <1>1, <1>6 DEF TasksInv, OrphanOnlyIfLate, Exists
<1>9. UpsertLate'
  BY <1>1, <1>4, <1>5 DEF TasksInv, UpsertLate
<1> QED
  BY <1>7, <1>8, <1>9 DEF TasksInv

LEMMA CheckGroupInv ==
  ASSUME TasksInv, NEW t \in TaskIds, NEW g \in Groups \cup {Default}, CheckGroup(t, g)
  PROVE  TasksInv'
<1> DEFINE w == [pc |-> "upsert", tasks |-> {t}, group |-> g, stamp |-> clock', late |-> FALSE]
<1>1. /\ tablet' = w /\ g \in groups \cup {Default} /\ Tick
      /\ UNCHANGED <<groups, row, client, list, token, current>>
  BY DEF CheckGroup
<1>2. TypeOK /\ clock' \in Times
  BY <1>1, NextTick DEF TasksInv
<1>3. w \in Write /\ w.group = g
  BY <1>2 DEF Write
<1> HIDE DEF w
<1>4. TypeOK'
  BY <1>1, <1>2, <1>3 DEF TypeOK
<1>5. OrphanOnlyIfLate' /\ UpsertLate'
  BY <1>1, <1>3, DefaultAssumption DEF TasksInv, OrphanOnlyIfLate, UpsertLate, Exists
<1> QED
  BY <1>4, <1>5 DEF TasksInv

LEMMA UpsertTaskInv ==
  ASSUME TasksInv, UpsertScheduleTask
  PROVE  TasksInv'
<1>0. PICK m \in TabletTimes :
        Commit([t \in TaskIds |->
          IF t \in tablet.tasks
          THEN [group |-> tablet.group, modified |-> m, updated |-> tablet.stamp,
                deleted |-> FALSE, partial |-> FALSE, late |-> tablet.late]
          ELSE row[t]])
  BY DEF UpsertScheduleTask
<1> DEFINE s == [group |-> tablet.group, modified |-> m, updated |-> tablet.stamp,
                 deleted |-> FALSE, partial |-> FALSE, late |-> tablet.late]
           new == [t \in TaskIds |-> IF t \in tablet.tasks THEN s ELSE row[t]]
<1>1. /\ tablet.pc = "upsert" /\ Commit(new) /\ tablet' = NoWrite
      /\ UNCHANGED <<groups, clock, client, token>>
  BY <1>0 DEF UpsertScheduleTask
<1>2. TypeOK
  BY DEF TasksInv
<1>3. tablet \in Write
  BY <1>2 DEF TypeOK
<1>4. s \in Row /\ s.group = tablet.group /\ s.late = tablet.late
  BY <1>3, FreshRow, TabletTimesAssumption DEF Write, Times
<1>5. s # NoRow
  BY <1>4, NoRowIsNone
<1> HIDE DEF s
<1>6. new \in [TaskIds -> Row \cup {NoRow}]
  BY <1>2, <1>4 DEF TypeOK
<1>7. row' = new
  BY <1>1 DEF Commit
<1>8. NoWrite \in Write /\ NoWrite.pc = "idle"
  BY MaxClockAssumption DEF NoWrite, Write, Times
<1>9. TypeOK'
  <2>1. row' \in [TaskIds -> Row \cup {NoRow}] /\ list' \in ListState /\ current' \in SUBSET TaskIds
    BY <1>1, <1>2, <1>6, CommitTypes
  <2> QED
    BY <1>1, <1>2, <1>8, <2>1 DEF TypeOK
<1>10. OrphanOnlyIfLate'
  BY <1>1, <1>4, <1>7 DEF TasksInv, OrphanOnlyIfLate, UpsertLate, Exists
<1> QED
  BY <1>1, <1>8, <1>9, <1>10 DEF TasksInv, UpsertLate

LEMMA CheckBatchInv ==
  ASSUME TasksInv, NEW batch \in SUBSET TaskIds, CheckBatch(batch)
  PROVE  TasksInv'
<1> DEFINE w == [NoWrite EXCEPT !.pc = "batch", !.tasks = batch, !.stamp = clock']
<1>1. tablet' = w /\ Tick /\ UNCHANGED <<groups, row, client, list, token, current>>
  BY DEF CheckBatch
<1>2. TypeOK /\ clock' \in Times
  BY <1>1, NextTick DEF TasksInv
<1>3. w \in Write /\ w.pc = "batch"
  BY <1>2 DEF NoWrite, Write
<1> HIDE DEF w
<1>4. TypeOK'
  BY <1>1, <1>2, <1>3 DEF TypeOK
<1>5. OrphanOnlyIfLate' /\ UpsertLate'
  BY <1>1, <1>3 DEF TasksInv, OrphanOnlyIfLate, UpsertLate, Exists
<1> QED
  BY <1>4, <1>5 DEF TasksInv

(* A batch leaves a row in its group with what it knew of it, or notes     *)
(* whether the group it moves it to is there.                              *)
LEMMA UpdatedRow ==
  ASSUME NEW r \in Row, NEW u \in Updates, tablet.stamp \in Times
  PROVE  /\ Updated(r, u) \in Row
         /\ Updated(r, u).group \in Groups \ groups
              => Updated(r, u).late \/ (Updated(r, u).group = r.group /\ Updated(r, u).late = r.late)
<1> DEFINE g == IF u.moves THEN u.group ELSE r.group
           l == IF u.moves THEN u.group \in Groups \ groups ELSE r.late
           m == IF u.modified # 0 THEN u.modified ELSE r.modified
           d == IF u.deleted = "kept" THEN r.deleted ELSE u.deleted = "Y"
           p == r.partial /\ ~u.fills
           s == [r EXCEPT !.updated = tablet.stamp, !.group = g, !.late = l,
                          !.modified = m, !.deleted = d, !.partial = p]
<1>1. /\ u.group \in Groups \cup {Default} /\ u.modified \in Times
      /\ u.moves \in BOOLEAN /\ u.fills \in BOOLEAN
  BY UpdatesAssumption DEF Update, Times
<1>2. /\ r.group \in Groups \cup {Default} /\ r.modified \in Times
      /\ r.deleted \in BOOLEAN /\ r.partial \in BOOLEAN /\ r.late \in BOOLEAN
  BY DEF Row
<1>3. g \in Groups \cup {Default} /\ m \in Times
  BY <1>1, <1>2
<1>4. d \in BOOLEAN /\ p \in BOOLEAN /\ l \in BOOLEAN
  <2>1. (u.deleted = "Y") \in BOOLEAN /\ (u.group \in Groups \ groups) \in BOOLEAN /\ p \in BOOLEAN
    OBVIOUS
  <2>2. d \in BOOLEAN
    BY <1>2, <2>1
  <2>3. l \in BOOLEAN
    BY <1>2, <2>1
  <2> QED
    BY <2>1, <2>2, <2>3
<1>5. g \in Groups \ groups => l \/ (g = r.group /\ l = r.late)
  BY <1>1
<1>6. Updated(r, u) = s
  BY DEF Updated
<1> HIDE DEF g, l, m, d, p
<1>7. s \in Row /\ s.group = g /\ s.late = l
  BY <1>3, <1>4 DEF Row
<1> QED
  BY <1>5, <1>6, <1>7

LEMMA BatchInv ==
  ASSUME TasksInv, BatchUpdateTasks
  PROVE  TasksInv'
<1>1. TypeOK /\ tablet \in Write /\ tablet.stamp \in Times
  BY DEF TasksInv, TypeOK, Write
<1>2. PICK sent \in [tablet.tasks -> Updates] :
        Commit([t \in TaskIds |->
          IF t \in tablet.tasks /\ Exists(t) THEN Updated(row[t], sent[t]) ELSE row[t]])
  BY DEF BatchUpdateTasks
<1> DEFINE new == [t \in TaskIds |->
                     IF t \in tablet.tasks /\ Exists(t) THEN Updated(row[t], sent[t]) ELSE row[t]]
<1>3. Commit(new) /\ tablet' = NoWrite /\ UNCHANGED <<groups, clock, client, token>>
  BY <1>2 DEF BatchUpdateTasks
<1>4. ASSUME NEW t \in TaskIds, t \in tablet.tasks, Exists(t)
      PROVE  /\ Updated(row[t], sent[t]) \in Row
             /\ Updated(row[t], sent[t]).group \in Groups \ groups
                  => \/ Updated(row[t], sent[t]).late
                     \/ /\ Updated(row[t], sent[t]).group = row[t].group
                        /\ Updated(row[t], sent[t]).late = row[t].late
  <2>1. row[t] \in Row /\ sent[t] \in Updates
    BY <1>1, <1>2, <1>4 DEF TypeOK, Exists
  <2> QED
    BY <1>1, <2>1, UpdatedRow
<1>5. new \in [TaskIds -> Row \cup {NoRow}]
  BY <1>1, <1>4 DEF TypeOK
<1>6. row' = new
  BY <1>3 DEF Commit
<1>7. NoWrite \in Write /\ NoWrite.pc = "idle"
  BY MaxClockAssumption DEF NoWrite, Write, Times
<1>8. TypeOK'
  <2>1. row' \in [TaskIds -> Row \cup {NoRow}] /\ list' \in ListState /\ current' \in SUBSET TaskIds
    BY <1>1, <1>3, <1>5, CommitTypes
  <2> QED
    BY <1>1, <1>3, <1>7, <2>1 DEF TypeOK
<1>9. OrphanOnlyIfLate'
  <2> SUFFICES ASSUME NEW t \in TaskIds, Exists(t)', row'[t].group \in Groups \ groups
               PROVE  row'[t].late
    BY <1>3 DEF OrphanOnlyIfLate
  <2>1. CASE t \in tablet.tasks /\ Exists(t)
    <3>1. row'[t] = Updated(row[t], sent[t])
      BY <1>6, <2>1
    <3> QED
      BY <1>4, <2>1, <3>1 DEF TasksInv, OrphanOnlyIfLate
  <2>2. CASE ~(t \in tablet.tasks /\ Exists(t))
    <3>1. row'[t] = row[t]
      BY <1>6, <2>2
    <3> QED
      BY <3>1 DEF TasksInv, OrphanOnlyIfLate, Exists
  <2> QED
    BY <2>1, <2>2
<1>10. UpsertLate'
  BY <1>3, <1>7 DEF UpsertLate
<1> QED
  BY <1>8, <1>9, <1>10 DEF TasksInv

LEMMA DeleteRowInv ==
  ASSUME TasksInv, NEW t \in TaskIds, DeleteScheduleTask(t)
  PROVE  TasksInv' /\ EditsRows
<1> DEFINE new == [row EXCEPT ![t] = NoRow]
<1>1. Commit(new) /\ UNCHANGED <<groups, clock, tablet, client, token>>
  BY DEF DeleteScheduleTask
<1>2. TypeOK /\ new \in [TaskIds -> Row \cup {NoRow}]
  BY DEF TasksInv, TypeOK
<1>3. row' = new
  BY <1>1 DEF Commit
<1>4. EditsRows
  BY <1>2, <1>3 DEF EditsRows, TypeOK
<1>5. TypeOK'
  <2>1. row' \in [TaskIds -> Row \cup {NoRow}] /\ list' \in ListState /\ current' \in SUBSET TaskIds
    BY <1>1, <1>2, CommitTypes
  <2> QED
    BY <1>1, <1>2, <2>1 DEF TypeOK
<1>6. UpsertLate'
  BY <1>1 DEF TasksInv, UpsertLate
<1> QED
  BY <1>1, <1>4, <1>5, <1>6, EditInv

-----------------------------------------------------------------------------
(* Calendars and the page. *)

LEMMA ReadInv ==
  ASSUME TasksInv, NEW t \in TaskIds, PutCalendarObject(t) \/ CompleteTask(t)
  PROVE  TasksInv' /\ row' = row
<1>1. TypeOK /\ UNCHANGED <<groups, row, clock, tablet, list, token, current>>
  BY DEF TasksInv, PutCalendarObject, CompleteTask
<1>2. client' \in Client
  <2>1. CASE PutCalendarObject(t)
    BY <2>1 DEF PutCalendarObject, Client
  <2>2. CASE CompleteTask(t)
    <3>1. row[t] \in Row
      BY <1>1, <2>2 DEF TypeOK, CompleteTask, Visible, Exists
    <3> DEFINE p == row[t].partial
    <3>2. p \in BOOLEAN
      BY <3>1 DEF Row
    <3>3. client' = [pc |-> "update", task |-> {t}, partial |-> p]
      BY <2>2 DEF CompleteTask
    <3> HIDE DEF p
    <3> QED
      BY <3>2, <3>3 DEF Client
  <2> QED
    BY <2>1, <2>2
<1> QED
  BY <1>1, <1>2 DEF TasksInv, TypeOK, OrphanOnlyIfLate, UpsertLate, Exists

(* Statements of a client touch rows, the clock and the client only. *)
LEMMA ClientInv ==
  ASSUME TasksInv, clock' \in Times, NEW new, new \in [TaskIds -> Row \cup {NoRow}], Commit(new),
         client' \in Client, UNCHANGED <<groups, tablet, token>>
  PROVE  TypeOK' /\ UpsertLate' /\ row' = new
<1>1. TypeOK
  BY DEF TasksInv
<1>2. row' \in [TaskIds -> Row \cup {NoRow}] /\ list' \in ListState /\ current' \in SUBSET TaskIds
  BY <1>1, CommitTypes
<1>3. TypeOK'
  BY <1>1, <1>2 DEF TypeOK
<1>4. UpsertLate' /\ row' = new
  BY DEF TasksInv, UpsertLate, Commit
<1> QED
  BY <1>3, <1>4

LEMMA IdleClient == NoClient \in Client
  BY DEF NoClient, Client

LEMMA CreateInv ==
  ASSUME TasksInv, CreateTask
  PROVE  TasksInv' /\ \A t \in TaskIds : Exists(t) => row'[t] = row[t]
<1>1. TypeOK /\ client \in Client /\ client' \in Client /\ UNCHANGED <<groups, tablet, token>>
  BY IdleClient DEF TasksInv, TypeOK, CreateTask
<1>2. PICK t \in client.task :
        \/ /\ ~Exists(t)
           /\ Tick
           /\ Commit([row EXCEPT ![t] = [group |-> Default, modified |-> clock', updated |-> 0,
                                         deleted |-> FALSE, partial |-> TRUE, late |-> FALSE]])
        \/ Exists(t) /\ UNCHANGED <<row, clock, list, current>>
  BY DEF CreateTask
<1>3. t \in TaskIds
  BY <1>1 DEF Client
<1>4. CASE Exists(t) /\ UNCHANGED <<row, clock, list, current>>
  BY <1>1, <1>4 DEF TasksInv, TypeOK, OrphanOnlyIfLate, UpsertLate, Exists
<1>5. CASE ~Exists(t) /\ Tick
  <2> DEFINE s == [group |-> Default, modified |-> clock', updated |-> 0,
                   deleted |-> FALSE, partial |-> TRUE, late |-> FALSE]
             new == [row EXCEPT ![t] = s]
  <2>1. ~Exists(t) /\ clock' \in Times /\ 0 \in Times
    BY <1>1, <1>5, NextTick, MaxClockAssumption DEF Times
  <2>2. Commit(new)
    BY <1>2, <2>1
  <2>3. s \in Row /\ s.group = Default
    BY <2>1, FreshRow
  <2> HIDE DEF s
  <2>4. new \in [TaskIds -> Row \cup {NoRow}]
    BY <1>1, <1>3, <2>3 DEF TypeOK
  <2>5. TypeOK' /\ UpsertLate' /\ row' = new
    BY <1>1, <2>1, <2>2, <2>4, ClientInv
  <2>6. OrphanOnlyIfLate'
    BY <1>1, <2>3, <2>5, DefaultAssumption DEF TasksInv, TypeOK, OrphanOnlyIfLate, Exists
  <2> QED
    BY <1>1, <2>1, <2>5, <2>6 DEF TasksInv, TypeOK
<1> QED
  BY <1>2, <1>4, <1>5

LEMMA UpdateInv ==
  ASSUME TasksInv, UpdateTask
  PROVE  TasksInv' /\ EditsRows
<1>1. /\ TypeOK /\ client \in Client /\ client' \in Client /\ clock' \in Times
      /\ UNCHANGED <<groups, tablet, token>>
  BY IdleClient, NextTick DEF TasksInv, TypeOK, UpdateTask
<1>2. PICK t \in client.task :
        Commit(IF Exists(t)
               THEN [row EXCEPT ![t].modified = clock', ![t].partial = @ \/ client.partial]
               ELSE row)
  BY DEF UpdateTask
<1> DEFINE p == row[t].partial \/ client.partial
           s == [row[t] EXCEPT !.modified = clock', !.partial = p]
           new == IF Exists(t) THEN [row EXCEPT ![t] = s] ELSE row
<1>3. Commit(new)
  <2>1. CASE Exists(t)
    <3>1. [row EXCEPT ![t].modified = clock', ![t].partial = @ \/ client.partial] = new
      BY <1>1, <2>1 DEF TypeOK
    <3> QED
      BY <1>2, <2>1, <3>1
  <2>2. CASE ~Exists(t)
    BY <1>2, <2>2
  <2> QED
    BY <2>1, <2>2
<1>4. t \in TaskIds /\ p \in BOOLEAN
  BY <1>1 DEF Client
<1> HIDE DEF p
<1>5. Exists(t) => Edited(row[t], s)
  BY <1>1, <1>4, ReturnedRow DEF TypeOK, Exists
<1> HIDE DEF s
<1>6. new \in [TaskIds -> Row \cup {NoRow}]
  BY <1>1, <1>4, <1>5 DEF TypeOK, Edited
<1>7. TypeOK' /\ UpsertLate' /\ row' = new
  BY <1>1, <1>3, <1>6, ClientInv
<1>8. EditsRows
  BY <1>1, <1>4, <1>5, <1>7 DEF EditsRows, TypeOK
<1> QED
  BY <1>1, <1>7, <1>8, EditInv

LEMMA MarkInv ==
  ASSUME TasksInv, NEW t \in TaskIds, DeleteTask(t)
  PROVE  TasksInv' /\ EditsRows
<1> DEFINE s == [row[t] EXCEPT !.modified = clock', !.deleted = TRUE]
           new == [row EXCEPT ![t] = s]
<1>1. /\ TypeOK /\ client' \in Client /\ clock' \in Times /\ Exists(t)
      /\ UNCHANGED <<groups, tablet, token>>
  BY NextTick DEF TasksInv, TypeOK, DeleteTask
<1>2. Commit(new)
  <2>1. [row EXCEPT ![t].modified = clock', ![t].deleted = TRUE] = new
    BY <1>1 DEF TypeOK
  <2> QED
    BY <2>1 DEF DeleteTask
<1>3. Edited(row[t], s)
  BY <1>1, MarkedRow DEF TypeOK, Exists
<1> HIDE DEF s
<1>4. new \in [TaskIds -> Row \cup {NoRow}]
  BY <1>1, <1>3 DEF TypeOK, Edited
<1>5. TypeOK' /\ UpsertLate' /\ row' = new
  BY <1>1, <1>2, <1>4, ClientInv
<1>6. EditsRows
  BY <1>1, <1>3, <1>5 DEF EditsRows, TypeOK
<1> QED
  BY <1>1, <1>5, <1>6, EditInv

-----------------------------------------------------------------------------
(* The listing changes no row. *)

LEMMA ListInv ==
  ASSUME TasksInv, ListStart \/ List
  PROVE  TasksInv' /\ row' = row
<1>1. TypeOK /\ UNCHANGED <<groups, row, clock, tablet, client>>
  BY DEF TasksInv, ListStart, List, ListCount, ListSelect, ListFails
<1>2. list \in ListState /\ Page \in SUBSET TaskIds /\ clock \in Times
  BY <1>1 DEF TypeOK, Page, Listed
<1>3. NoList \in ListState /\ [NoList EXCEPT !.pc = "count"] \in ListState
  BY DEF NoList, ListState
<1>4. list' \in ListState /\ token' \in Times /\ current' \in SUBSET TaskIds
  <2>1. CASE ListStart \/ ListFails
    BY <1>1, <1>3, <2>1 DEF ListStart, ListFails, TypeOK
  <2>2. CASE ListCount
    <3> DEFINE n == Cardinality(Listed)
               k == (n + PageSize - 1) \div PageSize
    <3>1. n \in Nat
      <4>1. IsFiniteSet(Listed)
        BY TaskIdsAssumption, FS_Subset DEF Listed
      <4> QED
        BY <4>1, FS_CardinalityType
    <3>2. list' = [list EXCEPT !.pc = "select", !.pages = k] /\ UNCHANGED <<token, current>>
      BY <2>2 DEF ListCount
    <3> HIDE DEF n
    <3>3. k \in Nat
      BY <3>1, PageSizeAssumption
    <3> HIDE DEF k
    <3> QED
      BY <1>1, <1>2, <3>2, <3>3 DEF ListState, TypeOK
  <2>3. CASE ListSelect
    <3> DEFINE all == list.got \cup Page
               n == list.page + 1
               next == [list EXCEPT !.pc = "count", !.page = n, !.got = all]
    <3>1. all \in SUBSET TaskIds /\ n \in Nat
      <4>1. list.page \in Nat /\ list.got \in SUBSET TaskIds
        BY <1>2 DEF ListState
      <4> QED
        BY <1>2, <4>1
    <3>2. /\ list' = NoList \/ list' = next
          /\ token' = clock \/ token' = token
          /\ current' = current \cup Page
      BY <2>3 DEF ListSelect
    <3> HIDE DEF all, n
    <3>3. next \in ListState
      BY <1>2, <3>1 DEF ListState
    <3> QED
      BY <1>1, <1>2, <1>3, <3>2, <3>3 DEF TypeOK
  <2> QED
    BY <2>1, <2>2, <2>3 DEF List
<1>5. TypeOK'
  BY <1>1, <1>4 DEF TypeOK
<1> QED
  BY <1>1, <1>5 DEF TasksInv, OrphanOnlyIfLate, UpsertLate, Exists

-----------------------------------------------------------------------------
(* What a step does to one task, by its kind. *)

LEMMA StepRows ==
  ASSUME TasksInv, Next
  PROVE  /\ TasksInv'
         /\ \/ EditsRows
            \/ UpsertScheduleTask \/ BatchUpdateTasks
            \/ \A t \in TaskIds : Exists(t) => row'[t] = row[t] \/ row'[t] = NoRow
<1>1. ASSUME NEW g \in Groups, UpsertScheduleGroup(g) PROVE TasksInv' /\ EditsRows
  BY <1>1, UpsertGroupInv DEF UpsertScheduleGroup, EditsRows
<1>2. ASSUME NEW g \in Groups, DeleteScheduleGroup(g) PROVE TasksInv' /\ EditsRows
  BY <1>2, DeleteGroupInv DEF DeleteScheduleGroup, Commit, EditsRows
<1>3. ASSUME NEW t \in TaskIds, NEW g \in Groups \cup {Default}, CheckGroup(t, g) PROVE TasksInv' /\ EditsRows
  BY <1>3, CheckGroupInv DEF CheckGroup, EditsRows
<1>4. ASSUME NEW batch \in SUBSET TaskIds, CheckBatch(batch) PROVE TasksInv' /\ EditsRows
  BY <1>4, CheckBatchInv DEF CheckBatch, EditsRows
<1>5. CASE UpsertScheduleTask
  BY <1>5, UpsertTaskInv
<1>6. CASE BatchUpdateTasks
  BY <1>6, BatchInv
<1>7. ASSUME NEW t \in TaskIds, DeleteScheduleTask(t) PROVE TasksInv' /\ EditsRows
  BY <1>7, DeleteRowInv
<1>8. ASSUME NEW t \in TaskIds, PutCalendarObject(t) \/ CompleteTask(t) PROVE TasksInv' /\ EditsRows
  BY <1>8, ReadInv DEF EditsRows
<1>9. ASSUME NEW t \in TaskIds, DeleteTask(t) PROVE TasksInv' /\ EditsRows
  BY <1>9, MarkInv
<1>10. CASE CreateTask
  BY <1>10, CreateInv
<1>11. CASE UpdateTask
  BY <1>11, UpdateInv
<1>12. CASE ListStart \/ List
  BY <1>12, ListInv DEF EditsRows
<1>13. CASE TabletWrites
  BY <1>1, <1>2, <1>3, <1>4, <1>5, <1>6, <1>7, <1>13 DEF TabletWrites
<1>14. CASE ClientWrites
  BY <1>8, <1>9, <1>10, <1>11, <1>14 DEF ClientWrites
<1> QED
  BY <1>12, <1>13, <1>14 DEF Next

LEMMA StepInv == TasksInv /\ [Next]_vars => TasksInv'
<1>1. ASSUME TasksInv, UNCHANGED vars PROVE TasksInv'
  BY <1>1 DEF vars, TasksInv, TypeOK, OrphanOnlyIfLate, UpsertLate, Exists
<1> QED
  BY <1>1, StepRows

LEMMA Invariance == Spec => []TasksInv
  BY InitInv, StepInv, PTL DEF Spec

(* The tables, the writes in progress and the listing keep their types,    *)
(* for any number of tasks, groups and writes.                             *)
THEOREM TypeCorrect == Spec => []TypeOK
  BY Invariance, PTL DEF TasksInv

(* Deleting a group takes its tasks along: what is left without its group  *)
(* was put there when the group was gone.                                  *)
THEOREM GroupTakesTasks == Spec => []OrphanOnlyIfLate
  BY Invariance, PTL DEF TasksInv

(* Every statement but a tablet's upsert or batch keeps a row's mark. *)
LEMMA MarkKept ==
  ASSUME TasksInv, [Next]_vars, NEW t \in TaskIds, Exists(t), row[t].deleted, Visible(t)'
  PROVE  tablet.pc # "idle" /\ tablet'.pc = "idle"
<1>1. CASE UNCHANGED vars
  BY <1>1 DEF vars, Visible, Exists
<1>2. CASE EditsRows
  BY <1>2 DEF EditsRows, Edited, Visible, Exists
<1>3. CASE row'[t] = row[t] \/ row'[t] = NoRow
  BY <1>3 DEF Visible, Exists
<1>4. CASE UpsertScheduleTask \/ BatchUpdateTasks
  BY <1>4 DEF UpsertScheduleTask, BatchUpdateTasks, NoWrite
<1> QED
  BY <1>1, <1>2, <1>3, <1>4, StepRows

(* A task deleted in a calendar or on the page comes back only by a        *)
(* tablet's write.                                                         *)
THEOREM DeletionKept == Spec => DeletionStands
<1>1. TasksInv /\ [Next]_vars
        => [\A t \in TaskIds : Exists(t) /\ row[t].deleted /\ Visible(t)'
              => tablet.pc # "idle" /\ tablet'.pc = "idle"]_vars
  BY MarkKept
<1> QED
  BY <1>1, Invariance, PTL DEF Spec, DeletionStands

-----------------------------------------------------------------------------
(* Paged listings.  The order of the rows, and a row's rank in it. *)

LEMMA RowIds ==
  /\ \A t \in TaskIds : RowId[t] \in Nat
  /\ \A t, u \in TaskIds : RowId[t] = RowId[u] => t = u
<1> DEFINE n == Cardinality(TaskIds)
           P(f) == \A t, u \in TaskIds : f[t] = f[u] => t = u
<1>1. n \in Nat /\ ExistsBijection(1 .. n, TaskIds)
  BY TaskIdsAssumption, FS_CardinalityType
<1>2. ExistsBijection(TaskIds, 1 .. n)
  BY <1>1, Fun_ExistsBijSymmetric
<1>3. \E f \in [TaskIds -> 1 .. n] : P(f)
  BY <1>2 DEF ExistsBijection, Bijection, Injection, IsInjective
<1>4. RowId \in [TaskIds -> 1 .. n] /\ P(RowId)
  BY <1>3 DEF RowId
<1> QED
  BY <1>1, <1>4

LEMMA RowOrder ==
  ASSUME NEW t \in TaskIds, NEW u \in TaskIds, NEW r \in Row, NEW s \in Row
  PROVE  /\ ~Newer(t, t, r, r)
         /\ t # u /\ ~Newer(u, t, s, r) => Newer(t, u, r, s)
<1>1. /\ r.modified \in Nat /\ r.updated \in Nat /\ s.modified \in Nat /\ s.updated \in Nat
  BY MaxClockAssumption DEF Row, Times
<1> QED
  BY <1>1, RowIds DEF Newer

Ahead(t) == {u \in Listed : Before(u, t)}
Rank(t) == Cardinality(Ahead(t))
Offset == (list.page - 1) * PageSize

LEMMA ListedTypes ==
  ASSUME TypeOK
  PROVE  /\ IsFiniteSet(Listed) /\ Cardinality(Listed) \in Nat
         /\ \A t : IsFiniteSet(Ahead(t)) /\ Rank(t) \in Nat
         /\ \A t \in Listed : t \in TaskIds /\ row[t] \in Row
<1>1. Listed \in SUBSET TaskIds
  BY DEF Listed
<1>2. IsFiniteSet(Listed) /\ Cardinality(Listed) \in Nat
  BY <1>1, TaskIdsAssumption, FS_Subset, FS_CardinalityType
<1>3. ASSUME NEW t PROVE IsFiniteSet(Ahead(t)) /\ Rank(t) \in Nat
  <2>1. Ahead(t) \in SUBSET Listed
    BY DEF Ahead
  <2> QED
    BY <1>2, <2>1, FS_Subset, FS_CardinalityType DEF Rank
<1>4. \A t \in Listed : t \in TaskIds /\ row[t] \in Row
  BY DEF Listed, Passes, TypeOK
<1> QED
  BY <1>2, <1>3, <1>4

(* So many pages are a natural number, and enough for n rows. *)
LEMMA PagesEnough ==
  ASSUME NEW n \in Nat
  PROVE  /\ (n + PageSize - 1) \div PageSize \in Nat
         /\ n <= ((n + PageSize - 1) \div PageSize) * PageSize
  BY PageSizeAssumption, SMTT(30)

LEMMA OffsetType ==
  ASSUME TypeOK
  PROVE  /\ Offset \in Int
         /\ list.page * PageSize = Offset + PageSize
         /\ list.page >= list.pages => list.page * PageSize >= list.pages * PageSize
         /\ list.pages * PageSize \in Nat
<1>1. list.page \in Nat /\ list.pages \in Nat /\ PageSize \in Nat
  BY PageSizeAssumption DEF TypeOK, ListState
<1> DEFINE p == list.page
           q == list.pages
<1> HIDE DEF p, q
<1>2. p \in Nat /\ q \in Nat
  BY <1>1 DEF p, q
<1>3. (p - 1) * PageSize \in Int /\ p * PageSize = (p - 1) * PageSize + PageSize
  BY <1>1, <1>2
<1>4. p >= q => p * PageSize >= q * PageSize
  BY <1>1, <1>2
<1>5. q * PageSize \in Nat
  BY <1>1, <1>2
<1> QED
  BY <1>3, <1>4, <1>5 DEF Offset, p, q

(* What stands in front of the page to come has been received, or was      *)
(* changed meanwhile; and between a COUNT and its SELECT the rows fit on   *)
(* the pages.                                                              *)
Reached == Listing /\ ~list.shifted =>
             \A t \in Listed \ list.changed : Rank(t) < Offset => t \in list.got
Fits == list.pc = "select" /\ ~list.shifted => Cardinality(Listed) <= list.pages * PageSize

PagesInv == Reached /\ Fits

LEMMA PageIs ==
  ASSUME TypeOK, NEW t \in Listed, Rank(t) >= Offset, Rank(t) < Offset + PageSize
  PROVE  t \in Page
<1>1. list.page * PageSize = Offset + PageSize
  BY OffsetType
<1> DEFINE top == list.page * PageSize
<1>2. top = Offset + PageSize
  BY <1>1
<1>3. Page = {u \in Listed : Rank(u) >= Offset /\ Rank(u) < top}
  BY DEF Page, Rank, Ahead, Offset
<1> HIDE DEF top
<1> QED
  BY <1>2, <1>3

(* The last page ends the listing with every row received or changed. *)
LEMMA LastPageComplete ==
  ASSUME TypeOK, PagesInv, ListSelect, LastPage, ~list.shifted, NEW t \in Listed
  PROVE  t \in list.got \cup Page \cup list.changed
<1> SUFFICES ASSUME t \notin list.changed PROVE t \in list.got \cup Page
  OBVIOUS
<1>1. Rank(t) \in Nat /\ Offset \in Int /\ t \in TaskIds /\ row[t] \in Row /\ list.pc = "select"
  BY ListedTypes, OffsetType DEF ListSelect
<1>2. CASE Rank(t) < Offset
  BY <1>1, <1>2 DEF PagesInv, Reached, Listing
<1>3. CASE Rank(t) >= Offset /\ Rank(t) < Offset + PageSize
  BY <1>3, PageIs
<1>4. CASE Rank(t) >= Offset + PageSize
  <2>1. Ahead(t) \in SUBSET (Listed \ {t})
    BY <1>1, RowOrder DEF Ahead, Before
  <2>2. IsFiniteSet(Listed \ {t}) /\ Cardinality(Listed \ {t}) = Cardinality(Listed) - 1
    BY ListedTypes, FS_RemoveElement
  <2>3. Rank(t) <= Cardinality(Listed) - 1
    BY <2>1, <2>2, FS_Subset DEF Rank
  <2>4. Cardinality(Listed) <= list.pages * PageSize /\ list.pages * PageSize <= Offset + PageSize
    BY <1>1, OffsetType DEF PagesInv, Fits, LastPage
  <2> QED
    BY <1>1, <1>4, <2>3, <2>4, ListedTypes, OffsetType, PageSizeAssumption
<1> QED
  BY <1>1, <1>2, <1>3, <1>4, PageSizeAssumption

(* Unless a statement shifts the listing, no row comes to the front of one *)
(* that it leaves alone.                                                   *)
LEMMA CommitPages ==
  ASSUME TypeOK, TypeOK', PagesInv, token' = token, NEW new, Commit(new)
  PROVE  PagesInv'
<1> DEFINE changed == {t \in TaskIds : new[t] # row[t]}
           shifts  == Shifts(new, changed)
<1>1. row' = new
  BY DEF Commit
<1>2. CASE ~Listing
  BY <1>2 DEF Commit, PagesInv, Reached, Fits, Listing
<1>3. CASE Listing
  <2>1. /\ list'.pc = list.pc /\ list'.page = list.page /\ list'.pages = list.pages
        /\ list'.got = list.got /\ list'.changed = list.changed \cup changed
        /\ (list'.shifted <=> list.shifted \/ shifts)
    <3>1. list' = [list EXCEPT !.changed = @ \cup changed, !.shifted = @ \/ shifts]
      BY <1>3 DEF Commit
    <3>2. list \in ListState
      BY DEF TypeOK
    <3> HIDE DEF changed, shifts
    <3> QED
      BY <3>1, <3>2 DEF ListState
  <2> SUFFICES ASSUME ~list.shifted, ~shifts PROVE PagesInv'
    BY <2>1 DEF PagesInv, Reached, Fits
  <2>2. ASSUME NEW t \in Listed' \ changed PROVE t \in Listed /\ Rank(t) <= Rank(t)'
    <3>1. t \in TaskIds /\ row'[t] = row[t] /\ t \in Listed
      BY <1>1, <2>2 DEF Listed, Passes
    <3>2. row[t] \in Row
      BY <3>1, ListedTypes
    <3>3. ASSUME NEW u \in Ahead(t) PROVE u \in Ahead(t)'
      <4>1. u \in TaskIds /\ Passes(row[u]) /\ Newer(u, t, row[u], row[t]) /\ row[u] \in Row
        BY ListedTypes DEF Ahead, Listed, Before
      <4>2. CASE u \notin changed
        <5>1. row'[u] = row[u]
          BY <1>1, <4>1, <4>2
        <5> QED
          BY <3>1, <4>1, <5>1 DEF Ahead, Listed, Before, Passes
      <4>3. CASE u \in changed
        <5>1. Passes(new[u]) /\ ~Newer(t, u, row[t], new[u])
          BY <2>2, <3>1, <4>1, <4>3 DEF Shifts
        <5>2. new[u] \in Row /\ u # t
          BY <1>1, <2>2, <4>1, <4>3, <5>1 DEF TypeOK, Passes
        <5>3. Newer(u, t, new[u], row[t])
          BY <3>1, <3>2, <4>1, <5>1, <5>2, RowOrder
        <5> QED
          BY <1>1, <3>1, <4>1, <5>1, <5>3 DEF Ahead, Listed, Before, Passes
      <4> QED
        BY <4>2, <4>3
    <3>4. Ahead(t) \in SUBSET Ahead(t)'
      BY <3>3
    <3>5. IsFiniteSet(Ahead(t)')
      <4>1. Ahead(t)' \in SUBSET TaskIds
        BY DEF Ahead, Listed
      <4> QED
        BY <4>1, TaskIdsAssumption, FS_Subset
    <3> QED
      BY <3>1, <3>4, <3>5, FS_Subset DEF Rank
  <2>3. Reached'
    <3> SUFFICES ASSUME NEW t \in Listed' \ list'.changed, Rank(t)' < Offset' PROVE t \in list'.got
      BY DEF Reached
    <3>1. t \in Listed \ list.changed /\ Rank(t) <= Rank(t)'
      BY <2>1, <2>2
    <3>2. Offset' = Offset /\ Offset \in Int /\ Rank(t) \in Nat
      BY <2>1, OffsetType, ListedTypes DEF Offset
    <3>3. Rank(t)' \in Nat
      <4>1. Ahead(t)' \in SUBSET TaskIds
        BY DEF Ahead, Listed
      <4> QED
        BY <4>1, TaskIdsAssumption, FS_Subset, FS_CardinalityType DEF Rank
    <3>4. Rank(t) < Offset
      BY <3>1, <3>2, <3>3
    <3> QED
      BY <1>3, <2>1, <3>1, <3>4 DEF PagesInv, Reached
  <2>4. Fits'
    <3> SUFFICES ASSUME list.pc = "select" PROVE Cardinality(Listed') <= list.pages * PageSize
      BY <2>1 DEF Fits
    <3>1. Listed' \in SUBSET Listed
      <4> SUFFICES ASSUME NEW t \in Listed' PROVE t \in Listed
        OBVIOUS
      <4>1. t \in TaskIds /\ Passes(new[t])
        BY <1>1 DEF Listed, Passes
      <4>2. CASE t \in changed
        BY <4>1, <4>2 DEF Shifts, Listed
      <4>3. CASE t \notin changed
        BY <4>1, <4>3 DEF Listed
      <4> QED
        BY <4>2, <4>3
    <3>2. Cardinality(Listed') <= Cardinality(Listed) /\ Cardinality(Listed') \in Nat
      BY <3>1, ListedTypes, FS_Subset, FS_CardinalityType
    <3> QED
      BY <3>2, ListedTypes, OffsetType DEF PagesInv, Fits
  <2> QED
    BY <2>3, <2>4 DEF PagesInv
<1> QED
  BY <1>2, <1>3

LEMMA ListPages ==
  ASSUME TypeOK, PagesInv, ListStart \/ List
  PROVE  PagesInv'
<1>1. row' = row /\ list \in ListState
  BY DEF ListStart, List, ListCount, ListSelect, ListFails, TypeOK
<1>2. CASE ListStart
  <2>1. /\ list'.pc = "count" /\ list'.page = 1 /\ token' = token
    BY <1>2 DEF ListStart, NoList
  <2>2. Offset' = 0 /\ Listed' = Listed /\ \A t : Rank(t)' = Rank(t)
    BY <1>1, <2>1, PageSizeAssumption DEF Offset, Listed, Passes, Rank, Ahead, Before
  <2> QED
    BY <2>1, <2>2, ListedTypes DEF PagesInv, Reached, Fits
<1>3. CASE ListFails \/ (ListSelect /\ LastPage)
  <2>1. list'.pc = "idle"
    BY <1>3 DEF ListFails, ListSelect, NoList
  <2> QED
    BY <2>1 DEF PagesInv, Reached, Fits, Listing
<1>4. CASE ListCount
  <2> DEFINE n == (Cardinality(Listed) + PageSize - 1) \div PageSize
  <2>1. list' = [list EXCEPT !.pc = "select", !.pages = n] /\ token' = token
    BY <1>4 DEF ListCount
  <2>2. /\ list'.page = list.page /\ list'.shifted = list.shifted /\ list'.pages = n
        /\ list'.got = list.got /\ list'.changed = list.changed
    <3> HIDE DEF n
    <3> QED
      BY <1>1, <2>1 DEF ListState
  <2>3. Offset' = Offset /\ Listed' = Listed /\ Listing /\ \A t : Rank(t)' = Rank(t)
    BY <1>1, <1>4, <2>1, <2>2 DEF Offset, Listed, Passes, Rank, Ahead, Before, Listing, ListCount
  <2>4. Cardinality(Listed) <= n * PageSize
    BY ListedTypes, PagesEnough
  <2> HIDE DEF n
  <2>5. Reached' /\ Fits'
    BY <2>2, <2>3, <2>4 DEF PagesInv, Reached, Fits
  <2> QED
    BY <2>5 DEF PagesInv
<1>5. CASE ListSelect /\ ~LastPage
  <2>1. list' = [list EXCEPT !.pc = "count", !.page = @ + 1, !.got = @ \cup Page] /\ token' = token
    BY <1>5 DEF ListSelect
  <2>2. /\ list'.pc = "count" /\ list'.page = list.page + 1 /\ list'.shifted = list.shifted
        /\ list'.got = list.got \cup Page /\ list'.changed = list.changed
    BY <1>1, <2>1 DEF ListState
  <2>3. Offset' = Offset + PageSize
    <3>1. list.page \in Nat
      BY <1>1 DEF ListState
    <3>2. Offset' = list.page * PageSize
      BY <2>2, <3>1 DEF Offset
    <3> QED
      BY <3>2, OffsetType
  <2>4. Listed' = Listed /\ Listing /\ \A t : Rank(t)' = Rank(t)
    BY <1>1, <1>5, <2>1 DEF Listed, Passes, Rank, Ahead, Before, Listing, ListSelect
  <2>5. Reached'
    <3> SUFFICES ASSUME ~list.shifted, NEW t \in Listed \ list.changed, Rank(t) < Offset + PageSize
                 PROVE  t \in list.got \cup Page
      BY <2>2, <2>3, <2>4 DEF Reached
    <3>1. Rank(t) \in Nat /\ Offset \in Int
      BY ListedTypes, OffsetType
    <3>2. CASE Rank(t) < Offset
      BY <2>4, <3>2 DEF PagesInv, Reached
    <3>3. CASE Rank(t) >= Offset
      BY <3>3, PageIs
    <3> QED
      BY <3>1, <3>2, <3>3
  <2> QED
    BY <2>2, <2>5 DEF PagesInv, Fits
<1> QED
  BY <1>2, <1>3, <1>4, <1>5 DEF List

(* Every step is one of the listing, a statement, or leaves both alone. *)
LEMMA StepKinds ==
  ASSUME [Next]_vars
  PROVE  \/ ListStart \/ List
         \/ token' = token /\ \E new : Commit(new)
         \/ UNCHANGED <<row, list, token>>
<1>1. CASE TabletWrites
  BY <1>1 DEF TabletWrites, UpsertScheduleGroup, DeleteScheduleGroup, CheckGroup, CheckBatch,
              UpsertScheduleTask, BatchUpdateTasks, DeleteScheduleTask
<1>2. CASE ClientWrites
  BY <1>2 DEF ClientWrites, PutCalendarObject, CompleteTask, CreateTask, UpdateTask, DeleteTask
<1>3. CASE UNCHANGED vars
  BY <1>3 DEF vars
<1> QED
  BY <1>1, <1>2, <1>3 DEF Next

LEMMA PagesStep == TypeOK /\ PagesInv /\ [Next]_vars /\ TypeOK' => PagesInv'
<1> SUFFICES ASSUME TypeOK, PagesInv, [Next]_vars, TypeOK' PROVE PagesInv'
  OBVIOUS
<1>1. CASE UNCHANGED <<row, list, token>>
  BY <1>1 DEF PagesInv, Reached, Fits, Listing, Listed, Passes, Rank, Ahead, Before, Offset
<1> QED
  BY <1>1, StepKinds, ListPages, CommitPages

LEMMA InitPages == Init => PagesInv
  BY DEF Init, PagesInv, Reached, Fits, Listing, NoList

(* PagesComplete: a listing that nothing shifts is complete, for any page  *)
(* size, any number of tasks and any token.                                *)
THEOREM ListingComplete == Spec => PagesComplete
<1>1. TypeOK /\ PagesInv =>
        [ListSelect /\ LastPage /\ ~list.shifted
           => Listed \subseteq list.got \cup Page \cup list.changed]_vars
  BY LastPageComplete
<1>2. Spec => []TypeOK
  BY Invariance, PTL DEF TasksInv
<1>3. Spec => []PagesInv
  BY <1>2, InitPages, PagesStep, PTL DEF Spec
<1> QED
  BY <1>1, <1>2, <1>3, PTL DEF PagesComplete
=============================================================================
