----------------------------- MODULE SyncLease -----------------------------
(***************************************************************************)
(* What the sync lock promises to the tablets, without saying how: a       *)
(* device that was let in owns the account until its grant runs out, and   *)
(* nobody else is let in meanwhile.  Instants are half seconds; Slack is   *)
(* how much of a grant's end the promise leaves open.                      *)
(***************************************************************************)
EXTENDS Integers

CONSTANTS Devices,   \* tablets of the account
          TTL,       \* length of a grant, in half seconds
          Slack,     \* the last instants of a grant that are not promised
          MaxTime    \* bound on the clock

VARIABLES grant,     \* grant[d]: the instant d's grant ends, 0 when it has none
          now        \* the clock

vars == <<grant, now>>

(* Nobody but d owns the account. *)
FreeFor(d) == \A e \in Devices \ {d} : grant[e] <= now + Slack

Init == /\ grant = [d \in Devices |-> 0]
        /\ now = 0

(* d is let in, or its grant is prolonged. *)
Grant(d) == /\ FreeFor(d)
            /\ grant' = [grant EXCEPT ![d] = now + TTL]
            /\ UNCHANGED now

GiveBack(d) == /\ grant' = [grant EXCEPT ![d] = 0]
               /\ UNCHANGED now

Tick == /\ now < MaxTime
        /\ now' = now + 1
        /\ UNCHANGED grant

Next == Tick \/ \E d \in Devices : Grant(d) \/ GiveBack(d)

Spec == Init /\ [][Next]_vars
=============================================================================
