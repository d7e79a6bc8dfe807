------------------------------ MODULE Snowflake ------------------------------
(***************************************************************************)
(* The id generator.  An id is the millisecond and a sequence number that  *)
(* tells apart the ids of one millisecond (41 and 12 bits, the constant    *)
(* worker number between them), so that ids are ordered by the millisecond *)
(* first.  Generate runs under a mutex and is one step.  The clock is the  *)
(* machine's: it may be stepped back; a restart begins a new generator.    *)
(***************************************************************************)
EXTENDS Naturals

CONSTANTS SeqSize,     \* sequence numbers of a millisecond, 2^12 in the code
          MaxTime      \* bound on the clock

ASSUME SeqSizeAssumption == SeqSize \in Nat \ {0}
ASSUME MaxTimeAssumption == MaxTime \in Nat

Millis == 0 .. MaxTime
Ids == [time : Millis, seq : 0 .. SeqSize - 1]

Before(i, j) == i.time < j.time \/ (i.time = j.time /\ i.seq < j.seq)

VARIABLES clock,       \* the machine's clock
          lastTime,    \* of the generator
          sequence,    \* of the generator
          issued,      \* ghost: the ids given out
          repeated,    \* ghost: the ids given out twice
          revisited    \* ghost: milliseconds the clock or a new generator came back to

generator == <<lastTime, sequence, issued, repeated>>
snowflake == <<clock, generator, revisited>>

(* The sequence starts again whenever the clock has moved, back included.  *)
Sequence == IF clock = lastTime THEN sequence + 1 ELSE 0

(* When a millisecond's numbers are used up, Generate waits, holding the   *)
(* mutex, until the clock shows another one.                               *)
HasNumber == Sequence < SeqSize

NextId == [time |-> clock, seq |-> Sequence]

(* Faulty variant: the last millisecond is not remembered. *)
Generate_Forgets == /\ HasNumber
                    /\ sequence' = Sequence
                    /\ issued' = issued \cup {NextId}
                    /\ repeated' = IF NextId \in issued THEN repeated \cup {NextId} ELSE repeated
                    /\ UNCHANGED <<clock, lastTime, revisited>>

Generate == /\ HasNumber
            /\ lastTime' = clock
            /\ sequence' = Sequence
            /\ issued' = issued \cup {NextId}
            /\ repeated' = IF NextId \in issued THEN repeated \cup {NextId} ELSE repeated
            /\ UNCHANGED <<clock, revisited>>

(* NewSnowflakeGenerator: the first id of the same millisecond has number 1. *)
NewGenerator == /\ lastTime' = clock
                /\ sequence' = 0
                /\ revisited' = revisited \cup {clock}
                /\ UNCHANGED <<clock, issued, repeated>>

Tick == /\ clock < MaxTime
        /\ clock' = clock + 1
        /\ UNCHANGED <<generator, revisited>>

StepBack == /\ \E t \in 0 .. clock - 1 :
                 /\ clock' = t
                 /\ revisited' = revisited \cup t .. clock
            /\ UNCHANGED generator

GeneratorInit == /\ clock = 0
                 /\ lastTime = 0
                 /\ sequence = 0
                 /\ issued = {}
                 /\ repeated = {}
                 /\ revisited = {}

GeneratorNext == Generate \/ NewGenerator \/ Tick \/ StepBack

GeneratorSpec == GeneratorInit /\ [][GeneratorNext]_snowflake
-----------------------------------------------------------------------------
GeneratorTypeOK ==
  /\ clock \in Millis
  /\ lastTime \in Millis
  /\ sequence \in 0 .. SeqSize - 1
  /\ issued \in SUBSET Ids
  /\ repeated \in SUBSET Ids
  /\ revisited \in SUBSET Millis

(* "Generate generates a new unique Snowflake ID": an id is given out a    *)
(* second time only in a millisecond to which the clock was stepped back,  *)
(* or in which the server was started again; whatever the clock does, the  *)
(* ids of all other milliseconds stay unique.                              *)
RepeatedOnlyRevisited == \A i \in repeated : i.time \in revisited
=============================================================================
