--------------------------- MODULE Digests_proofs ---------------------------
(***************************************************************************)
(* Theorems of Snowflake and Digests: ids are unique where the clock has   *)
(* not been stepped back, identifiers are where creates do not overlap,    *)
(* and a paged listing is complete, for any clock, sequence size, page     *)
(* size and number of requests.                                            *)
(***************************************************************************)
EXTENDS Digests, FiniteSetTheorems, TLAPS

-----------------------------------------------------------------------------
(* The id generator. *)

(* An id given out belongs to the past, to a millisecond that was come     *)
(* back to, or has a number the generator is past.                         *)
Spent(i) == \/ i.time \in revisited
            \/ i.time < clock
            \/ i.time = clock /\ lastTime = clock /\ i.seq <= sequence

AllSpent == \A i \in issued : Spent(i)

GeneratorInv == GeneratorTypeOK /\ AllSpent /\ RepeatedOnlyRevisited

LEMMA GeneratorInitInv == GeneratorInit => GeneratorInv
  BY SeqSizeAssumption, MaxTimeAssumption
     DEF GeneratorInit, GeneratorInv, GeneratorTypeOK, AllSpent, RepeatedOnlyRevisited, Millis

(* The id that comes next was given out before only in a millisecond that  *)
(* was come back to.                                                       *)
LEMMA NextIdNew ==
  ASSUME GeneratorInv, NextId \in issued
  PROVE  clock \in revisited
<1>1. Spent(NextId)
  BY DEF GeneratorInv, AllSpent
<1>2. NextId.time = clock /\ NextId.seq = Sequence
  BY DEF NextId
<1>3. clock \in Nat /\ sequence \in Nat
  BY SeqSizeAssumption DEF GeneratorInv, GeneratorTypeOK, Millis
<1>4. clock = lastTime => Sequence = sequence + 1
  BY DEF Sequence
<1> QED
  BY <1>1, <1>2, <1>3, <1>4 DEF Spent

LEMMA GenerateInv == GeneratorInv /\ Generate => GeneratorInv'
<1> SUFFICES ASSUME GeneratorInv, Generate PROVE GeneratorInv'
  OBVIOUS
<1>1. /\ clock \in Nat /\ clock \in Millis /\ sequence \in Nat
      /\ issued \in SUBSET Ids /\ repeated \in SUBSET Ids /\ revisited \in SUBSET Millis
  BY SeqSizeAssumption DEF GeneratorInv, GeneratorTypeOK, Millis
<1>2. Sequence \in 0 .. SeqSize - 1
  BY <1>1, SeqSizeAssumption DEF Generate, HasNumber, Sequence
<1>3. NextId \in Ids /\ NextId.time = clock /\ NextId.seq = Sequence
  BY <1>1, <1>2 DEF NextId, Ids
<1>4. GeneratorTypeOK'
  BY <1>1, <1>2, <1>3 DEF Generate, GeneratorTypeOK
<1>5. AllSpent'
  <2> SUFFICES ASSUME NEW i \in issued' PROVE Spent(i)'
    BY DEF AllSpent
  <2>1. clock' = clock /\ lastTime' = clock /\ sequence' = Sequence /\ revisited' = revisited
    BY DEF Generate
  <2>2. CASE i = NextId
    BY <1>2, <1>3, <2>1, <2>2 DEF Spent
  <2>3. CASE i \in issued
    <3>1. Spent(i) /\ i.seq \in Nat
      BY <1>1, <2>3, SeqSizeAssumption DEF GeneratorInv, AllSpent, Ids
    <3>2. clock = lastTime => Sequence = sequence + 1
      BY DEF Sequence
    <3> QED
      BY <1>1, <1>2, <2>1, <3>1, <3>2 DEF Spent
  <2> QED
    BY <2>2, <2>3 DEF Generate
<1>6. RepeatedOnlyRevisited'
  BY <1>3, NextIdNew DEF Generate, GeneratorInv, RepeatedOnlyRevisited
<1> QED
  BY <1>4, <1>5, <1>6 DEF GeneratorInv

LEMMA ClockInv == GeneratorInv /\ (NewGenerator \/ Tick \/ StepBack) => GeneratorInv'
<1> SUFFICES ASSUME GeneratorInv, NewGenerator \/ Tick \/ StepBack PROVE GeneratorInv'
  OBVIOUS
<1> USE SeqSizeAssumption, MaxTimeAssumption DEF Millis
<1>1. /\ clock \in 0 .. MaxTime /\ lastTime \in 0 .. MaxTime /\ sequence \in 0 .. SeqSize - 1
      /\ issued \in SUBSET Ids /\ repeated \in SUBSET Ids /\ revisited \in SUBSET Millis
  BY DEF GeneratorInv, GeneratorTypeOK
<1>2. GeneratorTypeOK'
  <2>1. CASE NewGenerator
    BY <1>1, <2>1 DEF GeneratorTypeOK, NewGenerator
  <2>2. CASE Tick
    BY <1>1, <2>2 DEF GeneratorTypeOK, Tick, generator
  <2>3. CASE StepBack
    BY <1>1, <2>3 DEF GeneratorTypeOK, StepBack, generator
  <2> QED
    BY <2>1, <2>2, <2>3
<1>3. \A i \in issued : Spent(i) /\ i.time \in 0 .. MaxTime
  BY <1>1 DEF GeneratorInv, AllSpent, Ids
<1>4. issued' = issued /\ repeated' = repeated /\ revisited \subseteq revisited'
  BY DEF NewGenerator, Tick, StepBack, generator
<1>5. AllSpent'
  <2> SUFFICES ASSUME NEW i \in issued PROVE Spent(i)'
    BY <1>4 DEF AllSpent
  <2>1. Spent(i) /\ i.time \in 0 .. MaxTime
    BY <1>3
  <2>2. CASE NewGenerator
    BY <1>1, <2>1, <2>2 DEF NewGenerator, Spent
  <2>3. CASE Tick
    BY <1>1, <2>1, <2>3 DEF Tick, Spent, generator
  <2>4. CASE StepBack
    BY <1>1, <2>1, <2>4 DEF StepBack, Spent, generator
  <2> QED
    BY <2>2, <2>3, <2>4
<1>6. RepeatedOnlyRevisited'
  BY <1>4 DEF GeneratorInv, RepeatedOnlyRevisited
<1> QED
  BY <1>2, <1>5, <1>6 DEF GeneratorInv

LEMMA GeneratorStep == GeneratorInv /\ [GeneratorNext]_snowflake => GeneratorInv'
<1> SUFFICES ASSUME GeneratorInv, UNCHANGED snowflake PROVE GeneratorInv'
  BY GenerateInv, ClockInv DEF GeneratorNext
<1> QED
  BY DEF snowflake, generator, GeneratorInv, GeneratorTypeOK, AllSpent, Spent, RepeatedOnlyRevisited

(* Handlers and restarts use the generator as it allows. *)
LEMMA StepOfGenerator == [Next]_vars => [GeneratorNext]_snowflake
<1> USE DEF GeneratorNext
<1> SUFFICES ASSUME [Next]_vars PROVE [GeneratorNext]_snowflake
  OBVIOUS
<1>1. ASSUME NEW r \in Requests, NEW d \in NewDigests, CreateSummary(r, d)
      PROVE  [GeneratorNext]_snowflake
  BY <1>1 DEF CreateSummary
<1>2. ASSUME NEW r \in Requests,
             \/ CheckUnique(r) \/ InsertSummary(r) \/ WriteUpdate(r)
             \/ \E row \in summaries : UpdateSummary(r, row)
      PROVE  UNCHANGED snowflake
  BY <1>2 DEF CheckUnique, InsertSummary, WriteUpdate, UpdateSummary
<1>3. ASSUME \/ \E row \in summaries : DeleteSummary(row)
             \/ \E filter \in Filters : ListStart(filter)
             \/ ListCount \/ ListSelect
      PROVE  UNCHANGED snowflake
  BY <1>3 DEF DeleteSummary, ListStart, ListCount, ListSelect
<1>4. CASE Restart
  BY <1>4 DEF Restart
<1>5. CASE Clock
  BY <1>5 DEF Clock
<1>6. CASE UNCHANGED vars
  BY <1>6 DEF vars
<1> QED
  BY <1>1, <1>2, <1>3, <1>4, <1>5, <1>6 DEF Next

(* The digests take their ids from a generator that behaves as Snowflake   *)
(* says: every behaviour of Digests is one of the generator.               *)
THEOREM UsesGenerator == Spec => GeneratorSpec
<1>1. Init => GeneratorInit
  BY DEF Init
<1> QED
  BY <1>1, StepOfGenerator, PTL DEF Spec, GeneratorSpec

LEMMA GeneratorAlways == GeneratorSpec => []GeneratorInv
  BY GeneratorInitInv, GeneratorStep, PTL DEF GeneratorSpec

LEMMA GeneratorInDigests == Spec => []GeneratorInv
  BY UsesGenerator, GeneratorAlways, PTL

(* RepeatedOnlyRevisited: ids are unique in every millisecond the clock    *)
(* was not stepped back to and no generator was started in.                *)
THEOREM IdsUnique == Spec => []RepeatedOnlyRevisited
<1>1. GeneratorInv => RepeatedOnlyRevisited
  BY DEF GeneratorInv
<1> QED
  BY <1>1, GeneratorInDigests, PTL

-----------------------------------------------------------------------------
(* Unique identifiers. *)

Finite == IsFiniteSet(summaries)

(* A create that is past its look-up and has company knows it. *)
RivalsMarked ==
  \A r \in Requests, row \in summaries :
    At(r, "insert") /\ req[r].digest.uid # NoUid /\ row.digest.uid = req[r].digest.uid
      => req[r].digest.raced

DigestInv == TypeOK /\ Finite /\ RivalsMarked /\ DuplicateOnlyByRace

LEMMA InitDigest == Init => DigestInv
<1> SUFFICES ASSUME Init PROVE DigestInv
  OBVIOUS
<1>1. GeneratorTypeOK
  BY GeneratorInitInv DEF Init, GeneratorInv
<1>2. NoDigest \in Digest /\ NoId \in Ids
  BY SeqSizeAssumption, MaxTimeAssumption DEF NoDigest, Digest, NoId, Ids, Millis
<1>3. TypeOK
  BY <1>1, <1>2, MaxWritesAssumption DEF Init, TypeOK, Request, NoRequest, ListState, NoList, Filters
<1> QED
  BY <1>3, FS_EmptySet DEF Init, DigestInv, Finite, RivalsMarked, DuplicateOnlyByRace

(* So many pages are a natural number, and enough for n rows. *)
LEMMA PagesEnough ==
  ASSUME NEW n \in Nat
  PROVE  /\ (n + PageSize - 1) \div PageSize \in Nat
         /\ n <= ((n + PageSize - 1) \div PageSize) * PageSize
  BY PageSizeAssumption, SMTT(30)

LEMMA ListedFinite ==
  ASSUME Finite
  PROVE  IsFiniteSet(Listed) /\ Cardinality(Listed) \in Nat
<1>1. Listed \in SUBSET summaries
  BY DEF Listed
<1> QED
  BY <1>1, FS_Subset, FS_CardinalityType DEF Finite

LEMMA ConstantTypes == /\ NoId \in Ids /\ NoDigest \in Digest
                       /\ NoRequest \in Request
                       /\ \A filter \in Filters : [NoList EXCEPT !.pc = "count", !.filter = filter] \in ListState
                       /\ NoList \in ListState
<1>1. NoId \in Ids
  BY SeqSizeAssumption, MaxTimeAssumption DEF NoId, Ids, Millis
<1>2. NoDigest \in Digest
  BY DEF NoDigest, Digest
<1>3. NoRequest \in Request
  BY <1>1, <1>2 DEF NoRequest, Request
<1>4. NoList \in ListState
  BY DEF NoList, ListState, Filters
<1>5. \A filter \in Filters : [NoList EXCEPT !.pc = "count", !.filter = filter] \in ListState
  BY DEF NoList, ListState
<1> QED
  BY <1>1, <1>2, <1>3, <1>4, <1>5

LEMMA RequestTypes ==
  ASSUME NEW q \in Request
  PROVE  /\ q.id \in Ids /\ q.digest \in Digest
         /\ [q EXCEPT !.pc = "insert"] \in Request
         /\ [q EXCEPT !.digest.raced = TRUE] \in Request
<1>1. q.id \in Ids /\ q.digest \in Digest /\ [q EXCEPT !.pc = "insert"] \in Request
  BY DEF Request
<1>2. [q.digest EXCEPT !.raced = TRUE] \in Digest
  BY <1>1 DEF Digest
<1>3. [q EXCEPT !.digest.raced = TRUE] \in Request
  BY <1>2 DEF Request
<1> QED
  BY <1>1, <1>3

LEMMA RowTypes ==
  ASSUME NEW row \in Row
  PROVE  /\ row.id \in Ids /\ row.digest \in Digest
         /\ [row EXCEPT !.digest.edited = TRUE] \in Row
<1>1. row.id \in Ids /\ row.digest \in Digest
  BY DEF Row
<1>2. [row.digest EXCEPT !.edited = TRUE] \in Digest
  BY <1>1 DEF Digest
<1>3. [row EXCEPT !.digest.edited = TRUE] \in Row
  BY <1>2 DEF Row
<1> QED
  BY <1>1, <1>3

LEMMA ListTypes ==
  ASSUME list \in ListState, NEW i \in Ids, NEW ids \in SUBSET Ids, NEW n \in Nat, NEW b \in BOOLEAN
  PROVE  /\ [list EXCEPT !.shifted = @ \/ b] \in ListState
         /\ [list EXCEPT !.new = @ \cup {i}, !.shifted = @ \/ b] \in ListState
         /\ [list EXCEPT !.pc = "select", !.pages = n] \in ListState
         /\ [list EXCEPT !.pc = "count", !.page = @ + 1, !.got = ids] \in ListState
<1>1. ASSUME NEW l \in ListState, NEW c \in BOOLEAN
      PROVE  [l EXCEPT !.shifted = c] \in ListState
  BY DEF ListState
<1>3. [list EXCEPT !.shifted = list.shifted \/ b] \in ListState
  <2> DEFINE c == list.shifted \/ b
  <2>1. c \in BOOLEAN
    OBVIOUS
  <2> HIDE DEF c
  <2> QED
    BY <1>1, <2>1
<1>4. [list EXCEPT !.new = @ \cup {i}, !.shifted = list.shifted \/ b] \in ListState
  <2> DEFINE c == list.shifted \/ b
  <2>1. c \in BOOLEAN
    OBVIOUS
  <2> HIDE DEF c
  <2>2. [list EXCEPT !.new = @ \cup {i}, !.shifted = c] \in ListState
    BY <2>1 DEF ListState
  <2> QED
    BY <2>2 DEF c
<1>5. [list EXCEPT !.pc = "select", !.pages = n] \in ListState
  BY DEF ListState
<1>6. [list EXCEPT !.pc = "count", !.page = @ + 1, !.got = ids] \in ListState
  <2>1. list.page + 1 \in Nat
    BY DEF ListState
  <2> QED
    BY <2>1 DEF ListState
<1> QED
  BY <1>3, <1>4, <1>5, <1>6

LEMMA TypeStep == TypeOK /\ Finite /\ [Next]_vars /\ GeneratorTypeOK' => TypeOK' /\ Finite'
<1> SUFFICES ASSUME TypeOK, Finite, [Next]_vars, GeneratorTypeOK' PROVE TypeOK' /\ Finite'
  OBVIOUS
<1>2. writes \in Nat /\ \A r \in Requests : req[r] \in Request
  BY DEF TypeOK
<1> USE DEF TypeOK, Finite
<1>3. ASSUME NEW r \in Requests, NEW d \in NewDigests, CreateSummary(r, d)
      PROVE  TypeOK' /\ Finite'
  <2>1. clock \in Millis /\ Sequence \in 0 .. SeqSize - 1
    BY <1>3, SeqSizeAssumption DEF CreateSummary, Generate, HasNumber, Sequence, GeneratorTypeOK
  <2>2. [pc |-> "unique", id |-> NextId, digest |-> d] \in Request
    BY <2>1 DEF NewDigests, NewGroups, NewItems, Fresh, NextId, Ids, Request
  <2>3. req' \in [Requests -> Request]
    BY <1>3, <2>2 DEF CreateSummary
  <2> QED
    BY <1>2, <1>3, <2>3, MaxWritesAssumption DEF CreateSummary
<1>4. ASSUME NEW r \in Requests, CheckUnique(r) PROVE TypeOK' /\ Finite'
  BY <1>2, <1>4, ConstantTypes, RequestTypes DEF CheckUnique, Done
<1>5. ASSUME NEW r \in Requests, InsertSummary(r) PROVE TypeOK' /\ Finite'
  <2> DEFINE row == [id |-> req[r].id, digest |-> req[r].digest]
  <2>1. row \in Row /\ row.id \in Ids
    BY <1>2, RequestTypes DEF Row
  <2>2. IsFiniteSet(summaries \cup {row})
    <3> HIDE DEF row
    <3> QED
      BY FS_AddElement
  <2>3. list' \in ListState
    <3> DEFINE b == list.pc = "select" /\ \E other \in Listed : Before(row.id, other.id)
    <3>1. [list EXCEPT !.new = @ \cup {row.id}, !.shifted = @ \/ b] \in ListState
      <4>1. b \in BOOLEAN
        OBVIOUS
      <4> HIDE DEF b, row
      <4> QED
        BY <2>1, <4>1, ListTypes
    <3> QED
      BY <1>5, <3>1 DEF InsertSummary, NoteInsert
  <2>4. req' \in [Requests -> Request]
    BY <1>2, <1>5, ConstantTypes, RequestTypes DEF InsertSummary, Done
  <2>5. summaries' \in SUBSET Row /\ IsFiniteSet(summaries')
    BY <1>5, <2>1, <2>2 DEF InsertSummary
  <2> QED
    BY <1>5, <2>3, <2>4, <2>5 DEF InsertSummary
<1>6. ASSUME NEW r \in Requests, NEW row \in summaries, UpdateSummary(r, row)
      PROVE  TypeOK' /\ Finite'
  <2>1. [pc |-> "update", id |-> row.id, digest |-> NoDigest] \in Request
    BY ConstantTypes, RowTypes DEF Request
  <2>2. req' \in [Requests -> Request]
    BY <1>6, <2>1 DEF UpdateSummary
  <2> QED
    BY <1>2, <1>6, <2>2, MaxWritesAssumption DEF UpdateSummary
<1>7. ASSUME NEW r \in Requests, WriteUpdate(r) PROVE TypeOK' /\ Finite'
  <2> DEFINE New(row) == IF row.id = req[r].id THEN [row EXCEPT !.digest.edited = TRUE] ELSE row
             f == [row \in summaries |-> New(row)]
  <2>1. \A row \in summaries : New(row) \in Row
    BY RowTypes
  <2>2. summaries' = {New(row) : row \in summaries}
    BY <1>7 DEF WriteUpdate
  <2>3. summaries' \in SUBSET Row
    <3> HIDE DEF New
    <3> QED
      BY <2>1, <2>2
  <2>4. IsFiniteSet(summaries')
    <3> HIDE DEF New
    <3>1. f \in Surjection(summaries, summaries')
      BY <2>2 DEF Surjection
    <3> QED
      BY <3>1, FS_Surjection
  <2> QED
    BY <1>2, <1>7, <2>3, <2>4, ConstantTypes DEF WriteUpdate, Done
<1>8. ASSUME NEW row \in summaries, DeleteSummary(row) PROVE TypeOK' /\ Finite'
  <2>1. IsFiniteSet(summaries \ {row})
    BY FS_RemoveElement
  <2>2. list' \in ListState
    BY <1>8, RowTypes, ListTypes DEF DeleteSummary, NoteDelete
  <2> QED
    BY <1>8, <2>1, <2>2 DEF DeleteSummary
<1>9. ASSUME NEW filter \in Filters, ListStart(filter) PROVE TypeOK' /\ Finite'
  BY <1>9, ConstantTypes DEF ListStart
<1>10. CASE ListCount
  <2>1. (Cardinality(Listed) + PageSize - 1) \div PageSize \in Nat
    BY ListedFinite, PagesEnough
  <2>2. list' \in ListState
    BY <1>10, <2>1, ListTypes, ConstantTypes DEF ListCount
  <2> QED
    BY <1>10, <2>2 DEF ListCount
<1>11. CASE ListSelect
  <2>1. Received \in SUBSET Ids
    BY RowTypes DEF Received, Page, Listed, ListState
  <2>2. list' \in ListState
    BY <1>11, <2>1, ListTypes, ConstantTypes DEF ListSelect
  <2> QED
    BY <1>11, <2>2 DEF ListSelect
<1>12. CASE Restart
  BY <1>12, ConstantTypes DEF Restart
<1>13. CASE Clock
  BY <1>13 DEF Clock
<1>14. CASE UNCHANGED vars
  BY <1>14 DEF vars
<1> QED
  BY <1>3, <1>4, <1>5, <1>6, <1>7, <1>8, <1>9, <1>10, <1>11, <1>12, <1>13, <1>14 DEF Next

(* What has no hand in identifiers: requests move on or end, rows go. *)
LEMMA RacesUntouched ==
  ASSUME RivalsMarked, DuplicateOnlyByRace, summaries' \subseteq summaries,
         \A r \in Requests : req'[r] = req[r] \/ req'[r].pc # "insert"
  PROVE  RivalsMarked' /\ DuplicateOnlyByRace'
  BY DEF RivalsMarked, DuplicateOnlyByRace, At

LEMMA RacesStep == TypeOK /\ RivalsMarked /\ DuplicateOnlyByRace /\ [Next]_vars
                     => RivalsMarked' /\ DuplicateOnlyByRace'
<1> SUFFICES ASSUME TypeOK, RivalsMarked, DuplicateOnlyByRace, [Next]_vars
             PROVE  RivalsMarked' /\ DuplicateOnlyByRace'
  OBVIOUS
<1>1. req \in [Requests -> Request] /\ summaries \in SUBSET Row
  BY DEF TypeOK
<1>2. NoRequest.pc = "idle"
  BY DEF NoRequest
<1>3. ASSUME NEW r \in Requests, NEW d \in NewDigests, CreateSummary(r, d)
      PROVE  RivalsMarked' /\ DuplicateOnlyByRace'
  BY <1>1, <1>3, RacesUntouched DEF CreateSummary
<1>4. ASSUME NEW r \in Requests, CheckUnique(r)
      PROVE  RivalsMarked' /\ DuplicateOnlyByRace'
  <2>1. CASE req[r].digest.uid # NoUid /\ \E row \in summaries : row.digest.uid = req[r].digest.uid
    BY <1>1, <1>2, <1>4, <2>1, RacesUntouched DEF CheckUnique, Done
  <2>2. CASE ~(req[r].digest.uid # NoUid /\ \E row \in summaries : row.digest.uid = req[r].digest.uid)
    <3>1. /\ req' = [req EXCEPT ![r].pc = "insert"] /\ summaries' = summaries
      BY <1>4, <2>2 DEF CheckUnique
    <3>2. \A q \in Requests : req'[q].digest = req[q].digest /\ (q # r => req'[q] = req[q])
      BY <1>1, <3>1 DEF Request
    <3>3. RivalsMarked'
      BY <2>2, <3>1, <3>2 DEF RivalsMarked, At
    <3> QED
      BY <3>1, <3>3 DEF DuplicateOnlyByRace
  <2> QED
    BY <2>1, <2>2
<1>5. ASSUME NEW r \in Requests, InsertSummary(r)
      PROVE  RivalsMarked' /\ DuplicateOnlyByRace'
  <2> DEFINE row == [id |-> req[r].id, digest |-> req[r].digest]
  <2>1. CASE HasId(row.id)
    BY <1>1, <1>2, <1>5, <2>1, RacesUntouched DEF InsertSummary, Done
  <2>2. CASE ~HasId(row.id)
    <3>1. summaries' = summaries \cup {row} /\ row.digest = req[r].digest
      BY <1>5, <2>2 DEF InsertSummary
    <3>2. req' = [q \in Requests |->
                    IF q = r THEN NoRequest
                    ELSE IF q \in Rivals(r) THEN [req[q] EXCEPT !.digest.raced = TRUE]
                    ELSE req[q]]
      BY <1>5, <2>2 DEF InsertSummary
    <3>3. \A q \in Requests \ {r} :
            /\ req'[q].pc = req[q].pc /\ req'[q].digest.uid = req[q].digest.uid
            /\ req[q].digest.raced => req'[q].digest.raced
            /\ q \in Rivals(r) => req'[q].digest.raced
      BY <1>1, <3>2 DEF Request, Digest
    <3>4. req'[r].pc # "insert"
      BY <1>2, <3>2
    <3>5. At(r, "insert")
      BY <1>5 DEF InsertSummary
    <3>6. RivalsMarked'
      <4> SUFFICES ASSUME NEW q \in Requests, NEW s \in summaries',
                          req'[q].pc = "insert", req'[q].digest.uid # NoUid,
                          s.digest.uid = req'[q].digest.uid
                   PROVE  req'[q].digest.raced
        BY DEF RivalsMarked, At
      <4>1. q # r /\ req[q].pc = "insert" /\ req[q].digest.uid = req'[q].digest.uid
        BY <3>3, <3>4
      <4>2. CASE s \in summaries
        BY <3>3, <4>1, <4>2 DEF RivalsMarked, At
      <4>3. CASE s = row
        BY <3>1, <3>3, <4>1, <4>3 DEF Rivals, At
      <4> QED
        BY <3>1, <4>2, <4>3
    <3>7. DuplicateOnlyByRace'
      BY <3>1, <3>5 DEF DuplicateOnlyByRace, RivalsMarked
    <3> QED
      BY <3>6, <3>7
  <2> QED
    BY <2>1, <2>2
<1>6. ASSUME NEW r \in Requests, NEW row \in summaries, UpdateSummary(r, row)
      PROVE  RivalsMarked' /\ DuplicateOnlyByRace'
  BY <1>1, <1>6, RacesUntouched DEF UpdateSummary
<1>7. ASSUME NEW r \in Requests, WriteUpdate(r)
      PROVE  RivalsMarked' /\ DuplicateOnlyByRace'
  <2> DEFINE New(row) == IF row.id = req[r].id THEN [row EXCEPT !.digest.edited = TRUE] ELSE row
  <2>1. summaries' = {New(row) : row \in summaries}
    BY <1>7 DEF WriteUpdate
  <2>2. \A row \in summaries : /\ New(row).digest.uid = row.digest.uid
                              /\ New(row).digest.raced = row.digest.raced
    BY <1>1 DEF Row, Digest
  <2>3. \A q \in Requests : req'[q] = req[q] \/ req'[q].pc # "insert"
    BY <1>1, <1>2, <1>7 DEF WriteUpdate, Done
  <2> HIDE DEF New
  <2>4. RivalsMarked'
    BY <2>1, <2>2, <2>3 DEF RivalsMarked, At
  <2>5. DuplicateOnlyByRace'
    BY <2>1, <2>2 DEF DuplicateOnlyByRace
  <2> QED
    BY <2>4, <2>5
<1>8. CASE Restart
  BY <1>1, <1>2, <1>8, RacesUntouched DEF Restart
<1>9. CASE UNCHANGED req /\ summaries' \subseteq summaries
  BY <1>9, RacesUntouched
<1>10. ASSUME \/ \E row \in summaries : DeleteSummary(row)
              \/ \E filter \in Filters : ListStart(filter)
              \/ ListCount \/ ListSelect \/ Clock \/ UNCHANGED vars
       PROVE  UNCHANGED req /\ summaries' \subseteq summaries
  BY <1>10 DEF DeleteSummary, ListStart, ListCount, ListSelect, Clock, vars
<1> QED
  BY <1>3, <1>4, <1>5, <1>6, <1>7, <1>8, <1>9, <1>10 DEF Next

LEMMA DigestStep == DigestInv /\ [Next]_vars /\ GeneratorTypeOK' => DigestInv'
  BY TypeStep, RacesStep DEF DigestInv

LEMMA DigestAlways == Spec => []DigestInv
<1>1. GeneratorInv => GeneratorTypeOK
  BY DEF GeneratorInv
<1> QED
  BY <1>1, InitDigest, DigestStep, GeneratorInDigests, PTL DEF Spec

(* TypeOK: the rows, the handlers and the listing keep their types. *)
THEOREM TypeCorrect == Spec => []TypeOK
<1>1. DigestInv => TypeOK
  BY DEF DigestInv
<1> QED
  BY <1>1, DigestAlways, PTL

(* DuplicateOnlyByRace: an identifier is there twice only when two creates *)
(* overlapped between look-up and insert.                                  *)
THEOREM IdentifiersUnique == Spec => []DuplicateOnlyByRace
<1>1. DigestInv => DuplicateOnlyByRace
  BY DEF DigestInv
<1> QED
  BY <1>1, DigestAlways, PTL

-----------------------------------------------------------------------------
(* Paged listings.  The ids of the listed rows, and an id's rank in them. *)

ListedIds == {row.id : row \in Listed}
Below(ids, i) == {j \in ids : Before(j, i)}
Rank(ids, i) == Cardinality(Below(ids, i))

LEMMA IdOrder ==
  /\ \A i \in Ids : ~Before(i, i)
  /\ \A i, j, k \in Ids : Before(i, j) /\ Before(j, k) => Before(i, k)
  /\ \A i, j \in Ids : i # j => Before(i, j) \/ Before(j, i)
<1> USE MaxTimeAssumption, SeqSizeAssumption
<1>1. \A i \in Ids : i.time \in Nat /\ i.seq \in Nat
  BY DEF Ids, Millis
<1>2. \A i, j \in Ids : i.time = j.time /\ i.seq = j.seq => i = j
  BY DEF Ids
<1>3. \A i, j \in Ids : i # j => Before(i, j) \/ Before(j, i)
  BY <1>1, <1>2 DEF Before
<1> QED
  BY <1>1, <1>3 DEF Before

LEMMA RankType ==
  ASSUME NEW ids, IsFiniteSet(ids), NEW i
  PROVE  IsFiniteSet(Below(ids, i)) /\ Rank(ids, i) \in Nat
<1>1. Below(ids, i) \in SUBSET ids
  BY DEF Below
<1> QED
  BY <1>1, FS_Subset, FS_CardinalityType DEF Rank

(* What enters never lowers a rank. *)
LEMMA RankGrows ==
  ASSUME NEW ids, NEW more, ids \subseteq more, IsFiniteSet(more), NEW i
  PROVE  Rank(ids, i) <= Rank(more, i)
<1>1. Below(ids, i) \in SUBSET Below(more, i)
  BY DEF Below
<1> QED
  BY <1>1, RankType, FS_Subset DEF Rank

LEMMA RankOrdered ==
  ASSUME NEW ids \in SUBSET Ids, IsFiniteSet(ids), NEW i \in ids, NEW j \in ids, Before(i, j)
  PROVE  Rank(ids, i) < Rank(ids, j)
<1>1. Below(ids, i) \in SUBSET (Below(ids, j) \ {i})
  BY IdOrder DEF Below
<1>2. i \in Below(ids, j)
  BY DEF Below
<1>3. /\ IsFiniteSet(Below(ids, j) \ {i})
      /\ Cardinality(Below(ids, j) \ {i}) = Rank(ids, j) - 1
  BY <1>2, RankType, FS_RemoveElement DEF Rank
<1>4. Rank(ids, i) <= Rank(ids, j) - 1
  BY <1>1, <1>3, FS_Subset DEF Rank
<1> QED
  BY <1>4, RankType

(* When an id at or behind the offset goes, nothing gets in front of it. *)
LEMMA RankAfterDelete ==
  ASSUME NEW ids \in SUBSET Ids, IsFiniteSet(ids), NEW d \in ids, NEW i \in ids \ {d},
         NEW n \in Int, Rank(ids, d) >= n, Rank(ids \ {d}, i) < n
  PROVE  Rank(ids, i) < n
<1>1. CASE Before(d, i)
  <2>1. Below(ids \ {d}, i) = Below(ids, i) \ {d} /\ d \in Below(ids, i)
    BY <1>1 DEF Below
  <2>2. Rank(ids \ {d}, i) = Rank(ids, i) - 1
    <3>1. IsFiniteSet(Below(ids, i))
      BY RankType
    <3>2. Cardinality(Below(ids, i) \ {d}) = Cardinality(Below(ids, i)) - 1
      BY <2>1, <3>1, FS_RemoveElement
    <3> QED
      BY <2>1, <3>2 DEF Rank
  <2>3. Rank(ids, d) < Rank(ids, i)
    BY <1>1, RankOrdered
  <2>4. Rank(ids, d) \in Nat /\ Rank(ids, i) \in Nat
    BY RankType
  <2> QED
    BY <2>2, <2>3, <2>4
<1>2. CASE ~Before(d, i)
  <2>1. Below(ids \ {d}, i) = Below(ids, i)
    BY <1>2 DEF Below
  <2> QED
    BY <2>1 DEF Rank
<1> QED
  BY <1>1, <1>2

UniqueIds == \A a, b \in summaries : a.id = b.id => a = b

(* Positions of rows are ranks of their ids, as no two rows have one id. *)
LEMMA PositionIsRank ==
  ASSUME Finite, UniqueIds, NEW row \in Listed
  PROVE  Position(row) = Rank(ListedIds, row.id)
<1> DEFINE S == {other \in Listed : Before(other.id, row.id)}
           T == Below(ListedIds, row.id)
           f == [other \in S |-> other.id]
<1>1. IsFiniteSet(S)
  BY ListedFinite, FS_Subset
<1>2. f \in Bijection(S, T)
  <2>1. f \in [S -> T]
    BY DEF Below, ListedIds
  <2>2. \A a, b \in S : f[a] = f[b] => a = b
    BY DEF UniqueIds, Listed
  <2>3. \A i \in T : \E a \in S : f[a] = i
    BY DEF Below, ListedIds
  <2> HIDE DEF f, S, T
  <2> QED
    BY <2>1, <2>2, <2>3 DEF Bijection, Injection, IsInjective, Surjection
<1>3. ExistsBijection(S, T)
  BY <1>2 DEF ExistsBijection
<1> QED
  BY <1>1, <1>3, FS_Bijection DEF Position, Rank

LEMMA ListedIdsFinite ==
  ASSUME Finite, TypeOK
  PROVE  /\ IsFiniteSet(ListedIds) /\ ListedIds \in SUBSET Ids
         /\ Cardinality(ListedIds) <= Cardinality(Listed) /\ Cardinality(ListedIds) \in Nat
<1> DEFINE f == [row \in Listed |-> row.id]
<1>1. f \in Surjection(Listed, ListedIds)
  BY DEF Surjection, ListedIds
<1>2. IsFiniteSet(ListedIds) /\ Cardinality(ListedIds) <= Cardinality(Listed)
  BY <1>1, ListedFinite, FS_Surjection
<1>3. ListedIds \in SUBSET Ids
  BY RowTypes DEF ListedIds, Listed, TypeOK
<1> QED
  BY <1>2, <1>3, FS_CardinalityType

(* The rows in front of the page to come have been received, or are new.   *)
Reached ==
  Listing /\ ~list.shifted =>
    \A i \in ListedIds : Rank(ListedIds, i) < Offset => i \in list.got \cup list.new

(* Between a COUNT and its SELECT: the ids that were counted fit on the    *)
(* pages, and every other one came later and stands behind them.           *)
Fits(counted) ==
  /\ IsFiniteSet(counted)
  /\ Cardinality(counted) <= list.pages * PageSize
  /\ \A i \in ListedIds \ counted :
       i \in list.new /\ \A j \in ListedIds \cap counted : Before(j, i)

Counted == list.pc = "select" /\ ~list.shifted => \E counted \in SUBSET Ids : Fits(counted)

PagesInv == UniqueIds /\ Reached /\ Counted

LEMMA InitPages == Init => PagesInv
  BY DEF Init, PagesInv, UniqueIds, Reached, Counted, Listing, NoList

LEMMA OffsetType ==
  ASSUME TypeOK
  PROVE  /\ Offset \in Int
         /\ list.page * PageSize = Offset + PageSize
         /\ list.page >= list.pages => list.page * PageSize >= list.pages * PageSize
         /\ list.pages * PageSize \in Nat
<1>1. list.page \in Nat /\ list.pages \in Nat /\ PageSize \in Nat
  BY PageSizeAssumption DEF TypeOK, ListState
<1> DEFINE p == list.page
           q == list.pages
<1> HIDE DEF p, q
<1>2. p \in Nat /\ q \in Nat
  BY <1>1 DEF p, q
<1>3. (p - 1) * PageSize \in Int /\ p * PageSize = (p - 1) * PageSize + PageSize
  BY <1>1, <1>2
<1>4. p >= q => p * PageSize >= q * PageSize
  BY <1>1, <1>2
<1>5. q * PageSize \in Nat
  BY <1>1, <1>2
<1> QED
  BY <1>3, <1>4, <1>5 DEF Offset, p, q

(* A row that is neither in front of the page nor on it is behind it. *)
LEMMA PageHolds ==
  ASSUME TypeOK, Finite, UniqueIds, NEW i \in ListedIds,
         Rank(ListedIds, i) >= Offset, Rank(ListedIds, i) < Offset + PageSize
  PROVE  i \in Received
<1>1. PICK row \in Listed : row.id = i
  BY DEF ListedIds
<1>2. Position(row) = Rank(ListedIds, i)
  BY <1>1, PositionIsRank
<1>3. row \in Page
  BY <1>2 DEF Page
<1> QED
  BY <1>1, <1>3 DEF Received

(* The last page ends the listing with every row received or new. *)
LEMMA LastPageComplete ==
  ASSUME TypeOK, Finite, PagesInv, ListSelect, LastPage, ~list.shifted, NEW row \in Listed
  PROVE  row.id \in Received \cup list.new
<1> DEFINE i == row.id
<1>1. i \in ListedIds /\ Listing /\ list.pc = "select"
  BY DEF ListedIds, Listing, ListSelect
<1>2. Rank(ListedIds, i) \in Nat /\ Offset \in Int /\ ListedIds \in SUBSET Ids
  BY ListedIdsFinite, RankType, OffsetType
<1>3. CASE Rank(ListedIds, i) < Offset
  BY <1>1, <1>3 DEF PagesInv, Reached, Received
<1>4. CASE Rank(ListedIds, i) >= Offset /\ Rank(ListedIds, i) < Offset + PageSize
  BY <1>1, <1>4, PageHolds DEF PagesInv
<1>5. CASE Rank(ListedIds, i) >= Offset + PageSize
  <2>1. PICK counted \in SUBSET Ids : Fits(counted)
    BY <1>1 DEF PagesInv, Counted
  <2> SUFFICES ASSUME i \in counted PROVE FALSE
    BY <1>1, <2>1 DEF Fits
  <2>2. Below(ListedIds, i) \in SUBSET (counted \ {i})
    <3> SUFFICES ASSUME NEW j \in ListedIds, Before(j, i) PROVE j \in counted /\ j # i
      BY DEF Below
    <3>1. j # i
      BY <1>2, IdOrder
    <3>2. j \in counted
      <4> SUFFICES ASSUME j \notin counted PROVE FALSE
        OBVIOUS
      <4>1. Before(i, j)
        BY <1>1, <2>1 DEF Fits
      <4> QED
        BY <1>1, <1>2, <4>1, IdOrder
    <3> QED
      BY <3>1, <3>2
  <2>3. /\ IsFiniteSet(counted \ {i}) /\ Cardinality(counted \ {i}) = Cardinality(counted) - 1
        /\ Cardinality(counted) \in Nat
    BY <2>1, FS_RemoveElement, FS_CardinalityType DEF Fits
  <2>4. Rank(ListedIds, i) <= Cardinality(counted) - 1
    BY <2>2, <2>3, FS_Subset DEF Rank
  <2>5. list.pages * PageSize <= Offset + PageSize
    BY OffsetType DEF LastPage
  <2>6. Cardinality(counted) <= list.pages * PageSize
    BY <2>1 DEF Fits
  <2> QED
    BY <1>2, <1>5, <2>3, <2>4, <2>5, <2>6, OffsetType, PageSizeAssumption
<1> QED
  BY <1>2, <1>3, <1>4, <1>5, PageSizeAssumption

(* What touches neither the listing nor the ids it goes by. *)
LEMMA PagesUntouched ==
  ASSUME PagesInv, UniqueIds', ListedIds' = ListedIds, list' = list
  PROVE  PagesInv'
  BY DEF PagesInv, Reached, Counted, Fits, Listing, Offset

LEMMA PagesAfterInsert ==
  ASSUME TypeOK, Finite, Finite', TypeOK', PagesInv, NEW r \in Requests, InsertSummary(r)
  PROVE  PagesInv'
<1> DEFINE row == [id |-> req[r].id, digest |-> req[r].digest]
           i == row.id
<1>1. i \in Ids
  BY RequestTypes DEF TypeOK
<1>2. CASE HasId(row.id)
  <2>1. summaries' = summaries /\ list' = list
    BY <1>2 DEF InsertSummary
  <2> QED
    BY <2>1, PagesUntouched DEF PagesInv, UniqueIds, ListedIds, Listed
<1>3. CASE ~HasId(row.id)
  <2>1. summaries' = summaries \cup {row} /\ NoteInsert(row)
    BY <1>3 DEF InsertSummary
  <2>2. UniqueIds'
    BY <1>3, <2>1 DEF PagesInv, UniqueIds, HasId
  <2>3. CASE ~(Listing /\ Matches(row, list.filter))
    <3>1. list' = list
      BY <2>1, <2>3 DEF NoteInsert
    <3>2. CASE ~Matches(row, list.filter)
      <4>1. ListedIds' = ListedIds
        BY <2>1, <3>1, <3>2 DEF ListedIds, Listed
      <4> QED
        BY <2>2, <3>1, <4>1, PagesUntouched
    <3>3. CASE ~Listing
      BY <2>2, <3>1, <3>3 DEF PagesInv, Reached, Counted, Listing
    <3> QED
      BY <2>3, <3>2, <3>3
  <2>4. CASE Listing /\ Matches(row, list.filter)
    <3> DEFINE b == list.pc = "select" /\ \E other \in Listed : Before(row.id, other.id)
    <3>1. list' = [list EXCEPT !.new = @ \cup {row.id}, !.shifted = @ \/ b]
      BY <2>1, <2>4 DEF NoteInsert
    <3>2. list \in ListState
      BY DEF TypeOK
    <3>3. /\ list'.pc = list.pc /\ list'.filter = list.filter /\ list'.page = list.page
          /\ list'.pages = list.pages /\ list'.got = list.got /\ list'.new = list.new \cup {i}
          /\ ~list'.shifted => ~list.shifted /\ ~b
      <4> HIDE DEF row, b
      <4> QED
        BY <3>1, <3>2 DEF ListState, i
    <3> HIDE DEF b
    <3>4. ListedIds' = ListedIds \cup {i}
      BY <2>1, <2>4, <3>3 DEF ListedIds, Listed
    <3>5. i \notin ListedIds
      BY <1>3 DEF ListedIds, Listed, HasId
    <3> HIDE DEF row, i
    <3>6. Reached'
      <4> SUFFICES ASSUME ~list'.shifted, NEW j \in ListedIds',
                          Rank(ListedIds', j) < Offset'
                   PROVE  j \in list'.got \cup list'.new
        BY DEF Reached
      <4>1. CASE j = i
        BY <3>3, <4>1
      <4>2. CASE j \in ListedIds
        <5>0. IsFiniteSet(ListedIds) /\ IsFiniteSet(ListedIds')
          BY <3>4, ListedIdsFinite, FS_AddElement
        <5>1. Rank(ListedIds, j) <= Rank(ListedIds', j)
          BY <3>4, <5>0, RankGrows
        <5>2. Rank(ListedIds, j) \in Nat /\ Rank(ListedIds', j) \in Nat /\ Offset \in Int
          BY <5>0, RankType, OffsetType
        <5>3. Offset' = Offset
          BY <3>3 DEF Offset
        <5>4. Rank(ListedIds, j) < Offset
          BY <5>1, <5>2, <5>3
        <5>5. j \in list.got \cup list.new
          BY <2>4, <3>3, <4>2, <5>4 DEF PagesInv, Reached
        <5> QED
          BY <3>3, <5>5
      <4> QED
        BY <3>4, <4>1, <4>2
    <3>7. Counted'
      <4> SUFFICES ASSUME list'.pc = "select", ~list'.shifted
                   PROVE  \E counted \in SUBSET Ids : Fits(counted)'
        BY DEF Counted
      <4>1. PICK counted \in SUBSET Ids : Fits(counted)
        BY <3>3 DEF PagesInv, Counted
      <4>2. \A j \in ListedIds : Before(j, i)
        <5> SUFFICES ASSUME NEW j \in ListedIds PROVE Before(j, i)
          OBVIOUS
        <5>1. ~Before(i, j)
          BY <3>3 DEF b, i, ListedIds
        <5>2. j # i /\ j \in Ids
          BY <3>5, ListedIdsFinite
        <5> QED
          BY <1>1, <5>1, <5>2, IdOrder
      <4>3. PICK kept \in SUBSET Ids : kept = counted \ {i}
        OBVIOUS
      <4>4. Fits(kept)'
        <5>1. /\ IsFiniteSet(kept) /\ Cardinality(kept) <= Cardinality(counted)
              /\ Cardinality(kept) \in Nat /\ Cardinality(counted) \in Nat
          BY <4>1, <4>3, FS_CardinalityType, FS_Subset DEF Fits
        <5>2. Cardinality(kept) <= list'.pages * PageSize
          BY <3>3, <4>1, <5>1, OffsetType DEF Fits
        <5>3. \A j \in ListedIds' \ kept :
                j \in list'.new /\ \A k \in ListedIds' \cap kept : Before(k, j)
          BY <3>3, <3>4, <4>1, <4>2, <4>3 DEF Fits
        <5> QED
          BY <5>1, <5>2, <5>3 DEF Fits
      <4> QED
        BY <4>4
    <3> QED
      BY <2>2, <3>6, <3>7 DEF PagesInv
  <2> QED
    BY <2>3, <2>4
<1> QED
  BY <1>2, <1>3

LEMMA PagesAfterDelete ==
  ASSUME TypeOK, Finite, PagesInv, NEW row \in summaries, DeleteSummary(row)
  PROVE  PagesInv'
<1>1. summaries' = summaries \ {row} /\ NoteDelete(row)
  BY DEF DeleteSummary
<1>2. UniqueIds'
  BY <1>1 DEF PagesInv, UniqueIds
<1>3. CASE ~(Listing /\ row \in Listed)
  <2>1. list' = list
    BY <1>1, <1>3 DEF NoteDelete
  <2>2. CASE row \notin Listed
    <3>1. ListedIds' = ListedIds
      BY <1>1, <2>1, <2>2 DEF ListedIds, Listed
    <3> QED
      BY <1>2, <2>1, <3>1, PagesUntouched
  <2>3. CASE ~Listing
    BY <1>2, <2>1, <2>3 DEF PagesInv, Reached, Counted, Listing
  <2> QED
    BY <1>3, <2>2, <2>3
<1>4. CASE Listing /\ row \in Listed
  <2> DEFINE d == row.id
             b == Position(row) < Offset
  <2>1. list' = [list EXCEPT !.shifted = @ \/ b]
    BY <1>1, <1>4 DEF NoteDelete
  <2>2. list \in ListState
    BY DEF TypeOK
  <2>3. /\ list'.pc = list.pc /\ list'.filter = list.filter /\ list'.page = list.page
        /\ list'.pages = list.pages /\ list'.got = list.got /\ list'.new = list.new
        /\ ~list'.shifted => ~list.shifted /\ ~b
    <3> HIDE DEF b
    <3> QED
      BY <2>1, <2>2 DEF ListState
  <2>4. d \in ListedIds /\ ListedIds' = ListedIds \ {d}
    BY <1>1, <1>4, <2>3 DEF ListedIds, Listed, PagesInv, UniqueIds
  <2>5. Position(row) = Rank(ListedIds, d)
    BY <1>4, PositionIsRank DEF PagesInv
  <2>6. IsFiniteSet(ListedIds) /\ ListedIds \in SUBSET Ids /\ Offset \in Int /\ Offset' = Offset
    BY <2>3, ListedIdsFinite, OffsetType DEF Offset
  <2>7. ~list'.shifted => Rank(ListedIds, d) >= Offset
    BY <2>3, <2>5, <2>6, RankType
  <2> HIDE DEF b, d
  <2>8. Reached'
    <3> SUFFICES ASSUME ~list'.shifted, NEW j \in ListedIds', Rank(ListedIds', j) < Offset
                 PROVE  j \in list'.got \cup list'.new
      BY <2>6 DEF Reached
    <3>1. j \in ListedIds \ {d} /\ Rank(ListedIds \ {d}, j) < Offset
      BY <2>4
    <3>2. Rank(ListedIds, j) < Offset
      BY <2>4, <2>6, <2>7, <3>1, RankAfterDelete
    <3> QED
      BY <1>4, <2>3, <3>1, <3>2 DEF PagesInv, Reached
  <2>9. Counted'
    <3> SUFFICES ASSUME list'.pc = "select", ~list'.shifted
                 PROVE  \E counted \in SUBSET Ids : Fits(counted)'
      BY DEF Counted
    <3>1. PICK counted \in SUBSET Ids : Fits(counted)
      BY <2>3 DEF PagesInv, Counted
    <3>2. Fits(counted)'
      BY <2>3, <2>4, <3>1 DEF Fits
    <3> QED
      BY <3>2
  <2> QED
    BY <1>2, <2>8, <2>9 DEF PagesInv
<1> QED
  BY <1>3, <1>4

LEMMA PagesAfterUpdate ==
  ASSUME TypeOK, PagesInv, NEW r \in Requests, WriteUpdate(r)
  PROVE  PagesInv'
<1> DEFINE New(row) == IF row.id = req[r].id THEN [row EXCEPT !.digest.edited = TRUE] ELSE row
<1>1. summaries' = {New(row) : row \in summaries} /\ list' = list
  BY DEF WriteUpdate
<1>2. \A row \in summaries : New(row).id = row.id /\ New(row).digest.group = row.digest.group
  BY DEF TypeOK, Row, Digest
<1> HIDE DEF New
<1>3. UniqueIds'
  BY <1>1, <1>2 DEF PagesInv, UniqueIds
<1>4. \A row \in summaries : Matches(New(row), list.filter) <=> Matches(row, list.filter)
  BY <1>2 DEF Matches
<1>5. ListedIds' = ListedIds
  <2>1. ListedIds' = {row.id : row \in {s \in summaries' : Matches(s, list.filter)}}
    BY <1>1 DEF ListedIds, Listed
  <2> QED
    BY <1>1, <1>2, <1>4, <2>1 DEF ListedIds, Listed
<1> QED
  BY <1>1, <1>3, <1>5, PagesUntouched

LEMMA PagesAfterList ==
  ASSUME TypeOK, Finite, PagesInv, ListCount \/ ListSelect \/ \E filter \in Filters : ListStart(filter)
  PROVE  PagesInv'
<1>1. summaries' = summaries /\ UniqueIds'
  BY DEF ListCount, ListSelect, ListStart, PagesInv, UniqueIds
<1>2. list \in ListState
  BY DEF TypeOK
<1>3. ASSUME NEW filter \in Filters, ListStart(filter) PROVE PagesInv'
  <2>1. list'.pc = "count" /\ list'.page = 1
    BY <1>3 DEF ListStart, NoList
  <2>2. Offset' = 0 /\ Finite'
    BY <1>1, <2>1, PageSizeAssumption DEF Offset, Finite
  <2>3. ListedIds' \in SUBSET {row.id : row \in summaries}
    BY <1>1 DEF ListedIds, Listed
  <2>4. IsFiniteSet(ListedIds')
    <3> DEFINE f == [row \in summaries |-> row.id]
               ids == {row.id : row \in summaries}
    <3>1. f \in Surjection(summaries, ids)
      BY DEF Surjection
    <3>2. IsFiniteSet(ids)
      BY <3>1, FS_Surjection DEF Finite
    <3> QED
      BY <2>3, <3>2, FS_Subset
  <2>5. \A i : Rank(ListedIds', i) >= 0
    BY <2>4, RankType
  <2> QED
    BY <1>1, <2>1, <2>2, <2>4, <2>5, RankType DEF PagesInv, Reached, Counted
<1>4. CASE ListCount
  <2> DEFINE n == (Cardinality(Listed) + PageSize - 1) \div PageSize
  <2>1. list' = [list EXCEPT !.pc = "select", !.pages = n]
    BY <1>4 DEF ListCount
  <2>2. /\ list'.filter = list.filter /\ list'.page = list.page /\ list'.shifted = list.shifted
        /\ list'.got = list.got /\ list'.new = list.new /\ list'.pages = n
    <3> HIDE DEF n
    <3> QED
      BY <1>2, <2>1 DEF ListState
  <2>3. ListedIds' = ListedIds /\ Offset' = Offset /\ Listing
    BY <1>1, <1>4, <2>2 DEF ListedIds, Listed, Offset, Listing, ListCount
  <2>4. Cardinality(ListedIds) <= n * PageSize
    <3>1. Cardinality(Listed) <= n * PageSize /\ n \in Nat
      BY ListedFinite, PagesEnough
    <3>2. n * PageSize \in Nat /\ Cardinality(Listed) \in Nat
      BY <3>1, ListedFinite, PageSizeAssumption
    <3> HIDE DEF n
    <3> QED
      BY <3>1, <3>2, ListedIdsFinite
  <2> HIDE DEF n
  <2>5. PICK counted \in SUBSET Ids : counted = ListedIds
    BY ListedIdsFinite
  <2>6. Fits(counted)'
    BY <2>2, <2>3, <2>4, <2>5, ListedIdsFinite DEF Fits
  <2>7. Counted'
    BY <2>6 DEF Counted
  <2>8. Reached'
    BY <2>2, <2>3 DEF PagesInv, Reached
  <2> QED
    BY <1>1, <2>7, <2>8 DEF PagesInv
<1>5. CASE ListSelect /\ LastPage
  <2>1. list'.pc = "idle"
    BY <1>5 DEF ListSelect, NoList
  <2> QED
    BY <1>1, <2>1 DEF PagesInv, Reached, Counted, Listing
<1>6. CASE ListSelect /\ ~LastPage
  <2>1. list' = [list EXCEPT !.pc = "count", !.page = @ + 1, !.got = Received]
    BY <1>6 DEF ListSelect
  <2>2. /\ list'.filter = list.filter /\ list'.page = list.page + 1 /\ list'.shifted = list.shifted
        /\ list'.got = Received /\ list'.new = list.new /\ list'.pc = "count"
    BY <1>2, <2>1 DEF ListState
  <2>3. ListedIds' = ListedIds /\ Listing
    BY <1>1, <1>6, <2>2 DEF ListedIds, Listed, Listing, ListSelect
  <2>4. Offset' = Offset + PageSize
    <3>1. list.page \in Nat
      BY <1>2 DEF ListState
    <3>2. Offset' = list.page * PageSize
      BY <2>2, <3>1 DEF Offset
    <3> QED
      BY <3>2, OffsetType
  <2>5. Reached'
    <3> SUFFICES ASSUME ~list.shifted, NEW i \in ListedIds, Rank(ListedIds, i) < Offset + PageSize
                 PROVE  i \in Received \cup list.new
      BY <2>2, <2>3, <2>4 DEF Reached
    <3>1. Rank(ListedIds, i) \in Nat /\ Offset \in Int
      BY ListedIdsFinite, RankType, OffsetType
    <3>2. CASE Rank(ListedIds, i) < Offset
      BY <2>3, <3>2 DEF PagesInv, Reached, Received
    <3>3. CASE Rank(ListedIds, i) >= Offset
      BY <3>3, PageHolds DEF PagesInv
    <3> QED
      BY <3>1, <3>2, <3>3
  <2> QED
    BY <1>1, <2>2, <2>5 DEF PagesInv, Counted
<1> QED
  BY <1>3, <1>4, <1>5, <1>6

LEMMA PagesStep == TypeOK /\ Finite /\ PagesInv /\ [Next]_vars /\ TypeOK' /\ Finite' => PagesInv'
<1> SUFFICES ASSUME TypeOK, Finite, PagesInv, [Next]_vars, TypeOK', Finite' PROVE PagesInv'
  OBVIOUS
<1>1. ASSUME NEW r \in Requests,
             \/ \E d \in NewDigests : CreateSummary(r, d)
             \/ CheckUnique(r) \/ \E row \in summaries : UpdateSummary(r, row)
      PROVE  UNCHANGED <<summaries, list>>
  BY <1>1 DEF CreateSummary, CheckUnique, UpdateSummary
<1>2. ASSUME UNCHANGED <<summaries, list>> PROVE PagesInv'
  BY <1>2, PagesUntouched DEF ListedIds, Listed, PagesInv, UniqueIds
<1>3. CASE Restart
  <2>1. CASE list.pc = "select"
    <3>1. list'.pc = "idle" /\ summaries' = summaries
      BY <1>3, <2>1 DEF Restart, NoList
    <3> QED
      BY <3>1 DEF PagesInv, UniqueIds, Reached, Counted, Listing
  <2> QED
    BY <1>2, <1>3, <2>1 DEF Restart
<1>4. CASE Clock \/ UNCHANGED vars
  BY <1>2, <1>4 DEF Clock, vars
<1> QED
  BY <1>1, <1>2, <1>3, <1>4, PagesAfterInsert, PagesAfterDelete, PagesAfterUpdate, PagesAfterList DEF Next

(* DigestPagesComplete: a listing that nothing shifts is complete, for any *)
(* page size and any number of tablets that write meanwhile.               *)
THEOREM ListingComplete == Spec => DigestPagesComplete
<1>1. DigestInv => TypeOK /\ Finite
  BY DEF DigestInv
<1>2. TypeOK /\ Finite /\ PagesInv =>
        [ListSelect /\ LastPage /\ ~list.shifted
           => \A row \in Listed : row.id \in Received \cup list.new]_vars
  BY LastPageComplete
<1>3. Spec => [](TypeOK /\ Finite)
  BY <1>1, DigestAlways, PTL
<1>4. Spec => []PagesInv
  BY <1>3, InitPages, PagesStep, PTL DEF Spec
<1> QED
  BY <1>2, <1>3, <1>4, PTL DEF DigestPagesComplete
=============================================================================
