-------------------------- MODULE SyncLock_proofs --------------------------
(***************************************************************************)
(* The sync lock excludes for any number of tablets and any TTL, and it    *)
(* implements the abstract lease.                                          *)
(***************************************************************************)
EXTENDS SyncLock, TLAPS

-----------------------------------------------------------------------------
(* The text order errs by at most half a second: an instant that is not    *)
(* greater as text is at most one half second later.                       *)
LEMMA TextKeyError ==
  ASSUME NEW a \in Nat, NEW b \in Nat, ~(TextKey(a) > TextKey(b))
  PROVE  a <= b + 1
  BY DEF TextKey

(* The clock and every instant stored in the row stay natural numbers, and *)
(* the row and the promises keep their types.                              *)
THEOREM TypeCorrect == Spec => []TypeOK
<1> USE NoneAssumption, TTLAssumption, MaxTimeAssumption DEF TypeOK
<1>1. Init => TypeOK
  BY DEF Init
<1>2. TypeOK /\ [Next]_vars => TypeOK'
  <2> SUFFICES ASSUME TypeOK, [Next]_vars PROVE TypeOK'
    OBVIOUS
  <2>1. CASE Tick
    BY <2>1 DEF Tick
  <2>2. ASSUME NEW d \in Devices, AcquireLock(d) PROVE TypeOK'
    BY <2>2 DEF AcquireLock, Seen
  <2>3. ASSUME NEW d \in Devices, AcquireRefused(d) PROVE TypeOK'
    BY <2>3 DEF AcquireRefused, Seen
  <2>4. ASSUME NEW d \in Devices, ReleaseLock(d) PROVE TypeOK'
    BY <2>4 DEF ReleaseLock, Seen
  <2>5. ASSUME NEW d \in Devices, RefreshLock(d) PROVE TypeOK'
    BY <2>5 DEF RefreshLock, Seen
  <2>6. CASE UNCHANGED vars
    BY <2>6 DEF vars
  <2>7. QED
    BY <2>1, <2>2, <2>3, <2>4, <2>5, <2>6 DEF Next
<1>3. QED
  BY <1>1, <1>2, PTL DEF Spec

-----------------------------------------------------------------------------
(* When AcquireLock(d) is allowed, no other tablet's grant is in force: a  *)
(* live row of another tablet would have refused it, and a dead one backs  *)
(* no grant.                                                               *)
LEMMA AcquireFindsNoGrant ==
  ASSUME LockInv, NEW d \in Devices, ~(RowLive /\ holder # d),
         NEW e \in Devices \ {d}
  PROVE  ~InForce(e)
<1> SUFFICES ASSUME InForce(e) PROVE FALSE
  OBVIOUS
<1>1. holder = e /\ expires >= grant[e]
  BY DEF LockInv, RowBacksGrant
<1>2. ~(TextKey(expires) > TextKey(now))
  BY <1>1, NoneAssumption DEF RowLive
<1>3. expires <= now + 1
  BY <1>2, TextKeyError DEF LockInv, TypeOK
<1>4. QED
  BY <1>1, <1>3 DEF InForce, LockInv, TypeOK

(* The invariant behind mutual exclusion: the row backs every grant that   *)
(* is in force, and no grant reaches beyond one TTL.                       *)
THEOREM RowInvariant == Spec => []LockInv
<1> USE NoneAssumption, TTLAssumption, MaxTimeAssumption
        DEF TypeOK, RowBacksGrant, GrantBounded, InForce
<1>1. Init => LockInv
  BY DEF Init, LockInv
<1>2. LockInv /\ TypeOK' /\ [Next]_vars => LockInv'
  <2> SUFFICES ASSUME LockInv, TypeOK', [Next]_vars
               PROVE  RowBacksGrant' /\ GrantBounded'
    BY DEF LockInv
  <2>1. CASE Tick
    BY <2>1 DEF Tick, LockInv
  <2>2. ASSUME NEW d \in Devices, AcquireLock(d)
        PROVE  RowBacksGrant' /\ GrantBounded'
    <3>1. \A e \in Devices \ {d} : ~InForce(e)
      BY <2>2, AcquireFindsNoGrant DEF AcquireLock
    <3>2. QED
      BY <2>2, <3>1 DEF AcquireLock, LockInv
  <2>3. ASSUME NEW d \in Devices, AcquireRefused(d)
        PROVE  RowBacksGrant' /\ GrantBounded'
    BY <2>3 DEF AcquireRefused, LockInv
  <2>4. ASSUME NEW d \in Devices, ReleaseLock(d)
        PROVE  RowBacksGrant' /\ GrantBounded'
    BY <2>4 DEF ReleaseLock, LockInv
  <2>5. ASSUME NEW d \in Devices, RefreshLock(d)
        PROVE  RowBacksGrant' /\ GrantBounded'
    BY <2>5 DEF RefreshLock, LockInv
  <2>6. CASE UNCHANGED vars
    BY <2>6 DEF vars, LockInv
  <2>7. QED
    BY <2>1, <2>2, <2>3, <2>4, <2>5, <2>6 DEF Next
<1>3. QED
  BY <1>1, <1>2, TypeCorrect, PTL DEF Spec

(* A grant in force has its row behind it. *)
THEOREM RowStandsBehindGrant == Spec => []RowBacksGrant
<1>1. LockInv => RowBacksGrant
  BY DEF LockInv
<1>2. QED
  BY <1>1, RowInvariant, PTL

(* Two tablets never hold grants in force at the same time, for any set of *)
(* tablets and any TTL of at least a second.                               *)
THEOREM Exclusion == Spec => []MutualExclusion
<1>1. LockInv => MutualExclusion
  BY DEF LockInv, RowBacksGrant, MutualExclusion
<1>2. QED
  BY <1>1, RowInvariant, PTL

-----------------------------------------------------------------------------
(* The text order errs by at most half a second in the other direction,    *)
(* too: an instant that is greater as text is at most one half second      *)
(* earlier.                                                                *)
LEMMA TextKeyErrorBelow ==
  ASSUME NEW a \in Nat, NEW b \in Nat, TextKey(a) > TextKey(b)
  PROVE  b <= a + 1
  BY DEF TextKey

(* The row's expiry is at most one TTL after some tablet's last request:   *)
(* acquiring and refreshing set both, and requests only come later.        *)
THEOREM ExpiryInvariant == Spec => []RequestBehindExpiry
<1> USE NoneAssumption, TTLAssumption, MaxTimeAssumption DEF TypeOK, RequestBehindExpiry
<1>1. Init => RequestBehindExpiry
  BY DEF Init
<1>2. TypeOK /\ RequestBehindExpiry /\ [Next]_vars => RequestBehindExpiry'
  <2> SUFFICES ASSUME TypeOK, RequestBehindExpiry, [Next]_vars PROVE RequestBehindExpiry'
    OBVIOUS
  <2>1. CASE Tick
    BY <2>1 DEF Tick
  <2>2. ASSUME NEW d \in Devices, AcquireLock(d) PROVE RequestBehindExpiry'
    BY <2>2 DEF AcquireLock, Seen
  <2>3. ASSUME NEW d \in Devices, AcquireRefused(d) PROVE RequestBehindExpiry'
    BY <2>3 DEF AcquireRefused, Seen
  <2>4. ASSUME NEW d \in Devices, ReleaseLock(d) PROVE RequestBehindExpiry'
    BY <2>4 DEF ReleaseLock, Seen
  <2>5. ASSUME NEW d \in Devices, RefreshLock(d) PROVE RequestBehindExpiry'
    BY <2>5 DEF RefreshLock, Seen
  <2>6. CASE UNCHANGED vars
    BY <2>6 DEF vars
  <2>7. QED
    BY <2>1, <2>2, <2>3, <2>4, <2>5, <2>6 DEF Next
<1>3. QED
  BY <1>1, <1>2, TypeCorrect, PTL DEF Spec

(* Nobody is kept out for longer than a TTL after the last request.        *)
THEOREM AbandonedLockExpires == Spec => []LockExpires
<1>1. TypeOK /\ RequestBehindExpiry => LockExpires
  <2> SUFFICES ASSUME TypeOK, RequestBehindExpiry, RowLive
               PROVE  \E d \in Devices : now <= lastSeen[d] + TTL + 1
    BY DEF LockExpires
  <2>1. PICK d \in Devices : expires <= lastSeen[d] + TTL
    BY DEF RequestBehindExpiry, RowLive
  <2>2. now <= expires + 1
    BY TextKeyErrorBelow DEF RowLive, TypeOK
  <2>3. QED
    BY <2>1, <2>2, TTLAssumption DEF TypeOK
<1>2. QED
  BY <1>1, TypeCorrect, ExpiryInvariant, PTL

-----------------------------------------------------------------------------
(* Every step of the lock is a step of the lease or leaves it unchanged:   *)
(* AcquireLock and the holder's RefreshLock are grants, and a refresh by   *)
(* another tablet, a refusal or a loss of the row is no step of it.        *)
THEOREM ImplementsLease == Spec => LeaseSpec
<1> USE NoneAssumption, TTLAssumption, MaxTimeAssumption
<1>1. Init => Lease!Init
  BY DEF Init, Lease!Init
<1>2. LockInv /\ [Next]_vars => [Lease!Next]_(Lease!vars)
  <2> SUFFICES ASSUME LockInv, [Next]_vars PROVE [Lease!Next]_(Lease!vars)
    OBVIOUS
  <2> USE DEF Lease!vars
  <2>1. CASE Tick
    BY <2>1 DEF Tick, Lease!Next, Lease!Tick
  <2>2. ASSUME NEW d \in Devices, AcquireLock(d)
        PROVE  [Lease!Next]_(Lease!vars)
    <3>1. \A e \in Devices \ {d} : ~InForce(e)
      BY <2>2, AcquireFindsNoGrant DEF AcquireLock
    <3>2. Lease!FreeFor(d)
      BY <3>1 DEF Lease!FreeFor, InForce, LockInv, TypeOK
    <3>3. QED
      BY <2>2, <3>2 DEF AcquireLock, Lease!Grant, Lease!Next
  <2>3. ASSUME NEW d \in Devices, AcquireRefused(d)
        PROVE  [Lease!Next]_(Lease!vars)
    BY <2>3 DEF AcquireRefused
  <2>4. ASSUME NEW d \in Devices, ReleaseLock(d)
        PROVE  [Lease!Next]_(Lease!vars)
    BY <2>4 DEF ReleaseLock, Lease!GiveBack, Lease!Next
  <2>5. ASSUME NEW d \in Devices, RefreshLock(d)
        PROVE  [Lease!Next]_(Lease!vars)
    <3>1. CASE holder = d
      <4>1. \A e \in Devices \ {d} : ~InForce(e)
        BY <3>1 DEF LockInv, RowBacksGrant
      <4>2. Lease!FreeFor(d)
        BY <4>1 DEF Lease!FreeFor, InForce, LockInv, TypeOK
      <4>3. QED
        BY <2>5, <3>1, <4>2 DEF RefreshLock, Lease!Grant, Lease!Next
    <3>2. CASE holder # d
      BY <2>5, <3>2 DEF RefreshLock
    <3>3. QED
      BY <3>1, <3>2
  <2>6. CASE UNCHANGED vars
    BY <2>6 DEF vars
  <2>7. QED
    BY <2>1, <2>2, <2>3, <2>4, <2>5, <2>6 DEF Next
<1>3. QED
  BY <1>1, <1>2, RowInvariant, PTL DEF Spec, LeaseSpec, Lease!Spec
=============================================================================
