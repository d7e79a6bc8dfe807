------------------------------ MODULE SyncLock ------------------------------
(***************************************************************************)
(* The sync lock of one account: the row of sync_locks, and the requests   *)
(* that read and write it.  Every statement (and the transaction of        *)
(* AcquireLock) is one step, since the database has a single connection.   *)
(* Rows of different accounts never meet, so one account is modelled.      *)
(*                                                                         *)
(* Instants are half seconds.  The code stores and compares instants as    *)
(* RFC3339Nano text, which drops a zero fraction: "...:07Z" is greater     *)
(* than "...:07.5Z" as text although it is earlier.                        *)
(***************************************************************************)
EXTENDS Integers

CONSTANTS Devices,   \* equipment numbers of the tablets of the account
          None,      \* no device
          TTL,       \* ten minutes, in half seconds
          MaxTime    \* bound on the clock

ASSUME NoneAssumption == None \notin Devices
ASSUME TTLAssumption == TTL \in Nat \ {0, 1}
ASSUME MaxTimeAssumption == MaxTime \in Nat

VARIABLES holder,    \* equipment_no of the row, None when there is no row
          expires,   \* expires_at of the row
          now,       \* the server's clock
          grant,     \* grant[d]: end of what the server has promised d, 0 for nothing
          lastSeen   \* lastSeen[d]: when d last made a request

vars == <<holder, expires, now, grant, lastSeen>>

-----------------------------------------------------------------------------
(* The place of instant t among formatted instants: within a second, the   *)
(* whole second sorts last.                                                *)
TextKey(t) == 2 * (t \div 2) + (1 - (t % 2))

(* Faulty variant: the operands of the comparison exchanged. *)
RowLive_Swapped == holder # None /\ TextKey(expires) < TextKey(now)

(* The SQL comparison expires_at > now. *)
RowLive == holder # None /\ TextKey(expires) > TextKey(now)

Seen(d) == lastSeen' = [lastSeen EXCEPT ![d] = now]

Init == /\ holder = None
        /\ expires = 0
        /\ now = 0
        /\ grant = [d \in Devices |-> 0]
        /\ lastSeen = [d \in Devices |-> 0]

(* Faulty variant: the expiry computed with the sign of the cutoff. *)
AcquireLock_Backdated(d) == /\ ~(RowLive /\ holder # d)
                            /\ holder' = d
                            /\ expires' = now - TTL
                            /\ grant' = [grant EXCEPT ![d] = now + TTL]
                            /\ Seen(d)
                            /\ UNCHANGED now

(* synchronous/start: no live row of another device, so the row is replaced. *)
AcquireLock(d) == /\ ~(RowLive /\ holder # d)
                  /\ holder' = d
                  /\ expires' = now + TTL
                  /\ grant' = [grant EXCEPT ![d] = now + TTL]
                  /\ Seen(d)
                  /\ UNCHANGED now

(* synchronous/start answered with ErrSyncLocked. *)
AcquireRefused(d) == /\ RowLive /\ holder # d
                     /\ Seen(d)
                     /\ UNCHANGED <<holder, expires, now, grant>>

(* Faulty variant: the row is deleted whoever holds it. *)
ReleaseLock_AnyDevice(d) == /\ holder' = None
                            /\ grant' = [grant EXCEPT ![d] = 0]
                            /\ Seen(d)
                            /\ UNCHANGED <<expires, now>>

(* synchronous/end: deletes the row only if it is d's; what d was promised *)
(* is over either way.                                                     *)
ReleaseLock(d) == /\ holder' = IF holder = d THEN None ELSE holder
                  /\ grant' = [grant EXCEPT ![d] = 0]
                  /\ Seen(d)
                  /\ UNCHANGED <<expires, now>>

(* Faulty variant: the row is rewritten for the device that refreshes it. *)
RefreshLock_TakesOver(d) == /\ holder # None
                            /\ holder' = d
                            /\ expires' = now + TTL
                            /\ grant' = IF holder = d THEN [grant EXCEPT ![d] = now + TTL] ELSE grant
                            /\ Seen(d)
                            /\ UNCHANGED now

(* Faulty variant: the TTL is added to what is left of the old one. *)
RefreshLock_Accumulates(d) == /\ holder # None
                              /\ expires' = expires + TTL
                              /\ grant' = IF holder = d THEN [grant EXCEPT ![d] = now + TTL] ELSE grant
                              /\ Seen(d)
                              /\ UNCHANGED <<holder, now>>

(* Upload finish, delete, move and copy end with RefreshLock, which takes  *)
(* the account and not the device: the row is prolonged whoever's it is    *)
(* and even when it has expired.  Nothing requires d to hold the lock.     *)
RefreshLock(d) == /\ holder # None
                  /\ expires' = now + TTL
                  /\ grant' = IF holder = d THEN [grant EXCEPT ![d] = now + TTL] ELSE grant
                  /\ Seen(d)
                  /\ UNCHANGED <<holder, now>>

Tick == /\ now < MaxTime
        /\ now' = now + 1
        /\ UNCHANGED <<holder, expires, grant, lastSeen>>

Next == \/ Tick
        \/ \E d \in Devices : \/ AcquireLock(d)
                              \/ AcquireRefused(d)
                              \/ ReleaseLock(d)
                              \/ RefreshLock(d)

Spec == Init /\ [][Next]_vars
-----------------------------------------------------------------------------
TypeOK == /\ holder \in Devices \cup {None}
          /\ expires \in Nat
          /\ now \in Nat
          /\ grant \in [Devices -> Nat]
          /\ lastSeen \in [Devices -> Nat]

(* A grant is in force: more than the half second by which the text        *)
(* comparison may err is left of it.                                       *)
InForce(d) == grant[d] > now + 1

(* Two tablets never sync at once.  AcquireLock checks the row, but        *)
(* prolonging, expiring and deleting the row are done by other requests,   *)
(* some of them from devices that do not hold it; none of this lets a      *)
(* second tablet in while the first one's ten minutes run.                 *)
MutualExclusion == \A d, e \in Devices : InForce(d) /\ InForce(e) => d = e

(* The row is never lost or taken while its grant is in force: a tablet in *)
(* its ten minutes is the one the row names, at least that long.           *)
RowBacksGrant == \A d \in Devices : InForce(d) => holder = d /\ expires >= grant[d]

(* No promise reaches further than one TTL ahead. *)
GrantBounded == \A d \in Devices : grant[d] <= now + TTL

(* MutualExclusion is not inductive: it needs the row behind each grant. *)
LockInv == TypeOK /\ RowBacksGrant /\ GrantBounded

(* An abandoned lock runs out: the row keeps other tablets out for at most *)
(* a TTL (and the half second of text comparison) after the last request   *)
(* of anyone.  Not of the holder: every tablet's uploads prolong the row,  *)
(* so a holder that has gone silent stays in as long as others upload.     *)
LockExpires == RowLive => \E d \in Devices : now <= lastSeen[d] + TTL + 1

(* LockExpires is not inductive: it needs the request behind the expiry.   *)
RequestBehindExpiry == /\ \A d \in Devices : lastSeen[d] <= now
                       /\ holder # None => \E d \in Devices : expires <= lastSeen[d] + TTL

(* The lock implements the promise: a row and its refreshes grant exactly  *)
(* what SyncLease allows, with one half second of slack.                   *)
Lease == INSTANCE SyncLease WITH Slack <- 1
LeaseSpec == Lease!Spec
=============================================================================
