--------------------------- MODULE Accounts_proofs ---------------------------
(***************************************************************************)
(* Theorems of the rate limiter and of Accounts: a block is served to its  *)
(* end, no stretch sees more than two windows, a challenge that was        *)
(* answered is refused, and an account at the error limit was locked, for  *)
(* any number of addresses, requests, codes and durations.                 *)
(***************************************************************************)
EXTENDS Accounts, TLAPS

-----------------------------------------------------------------------------
(* The rate limiter. *)

(* The block of an address is in its state as long as it lasts. *)
BlockKept ==
  \A ip \in Addresses : overAt[ip] # 0 => ipState[ip].until = overAt[ip] + Block \/ now >= overAt[ip] + Block

LimiterInv == LimiterTypeOK /\ BlockKept

LEMMA NoStateType == NoState \in State /\ NoState.until = 0
  BY MaxTimeAssumption DEF NoState, State

LEMMA LimiterInitInv == LimiterInit => LimiterInv
<1> SUFFICES ASSUME LimiterInit PROVE LimiterInv
  OBVIOUS
<1> USE DEF LimiterInit
<1>1. now \in Times /\ 0 \in 0 .. MaxTime
  BY MaxTimeAssumption DEF Times
<1>2. LimiterTypeOK
  BY <1>1, NoStateType DEF LimiterTypeOK
<1>3. BlockKept
  BY DEF BlockKept
<1> QED
  BY <1>2, <1>3 DEF LimiterInv

LEMMA CurrentSound ==
  ASSUME LimiterInv, NEW ip \in Addresses
  PROVE  Current(ip) \in State /\ (Current(ip).until = ipState[ip].until \/ now > ipState[ip].until)
<1>1. ipState[ip] \in State
  BY DEF LimiterInv, LimiterTypeOK
<1> QED
  BY <1>1, NoStateType DEF Current

(* An address that is let through is not blocked, and so has served. *)
LEMMA LetThrough ==
  ASSUME LimiterInv, NEW ip \in Addresses, ~Blocked(ip), overAt[ip] # 0
  PROVE  now >= overAt[ip] + Block
<1>1. now \in Nat /\ overAt[ip] \in Nat /\ ipState[ip].until \in Nat
  BY DEF LimiterInv, LimiterTypeOK, Times, State
<1> QED
  BY <1>1, DurationAssumption DEF LimiterInv, BlockKept, Blocked

LEMMA AdmitTypes ==
  ASSUME LimiterInv, NEW ip \in Addresses, Admit(ip)
  PROVE  /\ admitted' \in [Addresses -> [0 .. MaxTime -> Nat]] /\ UNCHANGED <<now, overAt>>
         /\ \A t \in 0 .. MaxTime :
              admitted'[ip][t] = IF now <= t THEN admitted[ip][t] + 1 ELSE admitted[ip][t]
<1>1. admitted \in [Addresses -> [0 .. MaxTime -> Nat]] /\ now \in Times
  BY DEF LimiterInv, LimiterTypeOK
<1> DEFINE f == [t \in 0 .. MaxTime |->
                   IF now <= t THEN admitted[ip][t] + 1 ELSE admitted[ip][t]]
<1>2. f \in [0 .. MaxTime -> Nat]
  <2>1. ASSUME NEW t \in 0 .. MaxTime
        PROVE  (IF now <= t THEN admitted[ip][t] + 1 ELSE admitted[ip][t]) \in Nat
    <3>1. admitted[ip][t] \in Nat
      BY <1>1
    <3> QED
      BY <3>1
  <2> QED
    BY <2>1
<1>3. admitted' = [admitted EXCEPT ![ip] = f]
  BY <1>1 DEF Admit
<1>4. \A t \in 0 .. MaxTime :
        f[t] = IF now <= t THEN admitted[ip][t] + 1 ELSE admitted[ip][t]
  OBVIOUS
<1> HIDE DEF f
<1> QED
  BY <1>1, <1>2, <1>3, <1>4 DEF Admit

LEMMA AllowInv ==
  ASSUME LimiterInv, NEW ip \in Addresses, Allow(ip)
  PROVE  /\ LimiterInv' /\ UNCHANGED <<now, overAt>>
         /\ overAt[ip] # 0 => now >= overAt[ip] + Block
         /\ \A q \in Addresses \ {ip} : admitted'[q] = admitted[q]
<1>1. LimiterTypeOK /\ Current(ip) \in State /\ now \in 0 .. MaxTime
  BY CurrentSound DEF LimiterInv, LimiterTypeOK, Times
<1>2. ~Blocked(ip) /\ Admit(ip)
  BY DEF Allow, AllowInWindow, AllowNewWindow
<1>3. PICK s \in State : ipState' = [ipState EXCEPT ![ip] = s]
  <2>1. CASE AllowInWindow(ip)
    <3> DEFINE n == Current(ip).attempts + 1
               s == [Current(ip) EXCEPT !.attempts = n]
    <3>1. n \in Nat
      BY <1>1 DEF State
    <3>2. ipState' = [ipState EXCEPT ![ip] = s]
      BY <2>1 DEF AllowInWindow
    <3> HIDE DEF n
    <3>3. s \in State
      BY <1>1, <3>1 DEF State
    <3> QED
      BY <3>2, <3>3
  <2>2. CASE AllowNewWindow(ip)
    <3>1. [attempts |-> 1, first |-> now, until |-> 0] \in State
      BY <1>1 DEF State
    <3> QED
      BY <2>2, <3>1 DEF AllowNewWindow
  <2> QED
    BY <2>1, <2>2 DEF Allow
<1>4. admitted' \in [Addresses -> [0 .. MaxTime -> Nat]] /\ UNCHANGED <<now, overAt>>
  BY <1>2, AdmitTypes
<1>5. LimiterTypeOK'
  BY <1>1, <1>3, <1>4 DEF LimiterTypeOK
<1>6. overAt[ip] # 0 => now >= overAt[ip] + Block
  BY <1>2, LetThrough
<1>7. BlockKept'
  BY <1>1, <1>3, <1>4, <1>6 DEF BlockKept, LimiterInv, LimiterTypeOK
<1>8. \A q \in Addresses \ {ip} : admitted'[q] = admitted[q]
  BY <1>1, <1>2 DEF Admit, LimiterTypeOK
<1> QED
  BY <1>4, <1>5, <1>6, <1>7, <1>8 DEF LimiterInv

LEMMA ExceedInv ==
  ASSUME LimiterInv, NEW ip \in Addresses, Exceed(ip)
  PROVE  LimiterInv' /\ UNCHANGED <<now, admitted>>
<1> DEFINE n == Current(ip).attempts + 1
           u == now + Block
           s == [Current(ip) EXCEPT !.attempts = n, !.until = u]
<1>1. LimiterTypeOK /\ Current(ip) \in State /\ now \in 0 .. MaxTime
  BY CurrentSound DEF LimiterInv, LimiterTypeOK, Times
<1>2. n \in Nat /\ u \in Nat
  BY <1>1, DurationAssumption DEF State
<1>3. /\ ipState' = [ipState EXCEPT ![ip] = s] /\ overAt' = [overAt EXCEPT ![ip] = now]
      /\ UNCHANGED <<now, admitted>>
  BY DEF Exceed
<1>4. u = now + Block
  OBVIOUS
<1> HIDE DEF n, u
<1>5. s \in State /\ s.until = u
  BY <1>1, <1>2 DEF State
<1> HIDE DEF s
<1>6. LimiterTypeOK'
  BY <1>1, <1>3, <1>5 DEF LimiterTypeOK
<1>7. BlockKept'
  BY <1>1, <1>3, <1>4, <1>5 DEF BlockKept, LimiterInv, LimiterTypeOK
<1> QED
  BY <1>3, <1>6, <1>7 DEF LimiterInv

LEMMA CleanupInv ==
  ASSUME LimiterInv, Cleanup
  PROVE  LimiterInv' /\ UNCHANGED <<now, admitted, overAt>>
<1>1. /\ ipState' = [ip \in Addresses |-> IF Stale(ip) THEN NoState ELSE ipState[ip]]
      /\ UNCHANGED <<now, admitted, overAt>>
  BY DEF Cleanup
<1>2. LimiterTypeOK'
  BY <1>1, NoStateType DEF LimiterInv, LimiterTypeOK
<1>3. ASSUME NEW ip \in Addresses, overAt[ip] # 0, Stale(ip) PROVE now >= overAt[ip] + Block
  <2>1. ~Blocked(ip)
    <3>1. now \in Nat /\ ipState[ip].until \in Nat
      BY DEF LimiterInv, LimiterTypeOK, Times, State
    <3> QED
      BY <1>3, <3>1 DEF Stale, Blocked
  <2> QED
    BY <1>3, <2>1, LetThrough
<1>4. BlockKept'
  BY <1>1, <1>3 DEF BlockKept, LimiterInv
<1> QED
  BY <1>1, <1>2, <1>4 DEF LimiterInv

LEMMA TickInv ==
  ASSUME LimiterInv, Tick
  PROVE  LimiterInv' /\ UNCHANGED limiter
<1>1. now \in Nat /\ now' \in Times /\ now' = now + 1 /\ UNCHANGED limiter
  BY MaxTimeAssumption DEF LimiterInv, LimiterTypeOK, Times, Tick
<1>2. LimiterTypeOK'
  BY <1>1 DEF LimiterInv, LimiterTypeOK, limiter
<1>3. BlockKept'
  BY <1>1, DurationAssumption DEF LimiterInv, LimiterTypeOK, BlockKept, limiter, Times
<1> QED
  BY <1>1, <1>2, <1>3 DEF LimiterInv

LEMMA LimiterUnchanged == LimiterInv /\ UNCHANGED limiterVars => LimiterInv'
  BY DEF LimiterInv, LimiterTypeOK, BlockKept, limiterVars, limiter

-----------------------------------------------------------------------------
(* What a request carries, by where it stands. *)

Winning == {"reset", "token", "spend"}

(* A challenge being made has a code nobody else has. *)
FreshCode(c) == /\ c \in Codes /\ c < nextCode
                /\ handed[c] = 0
                /\ \A t \in Times : challenge[t] # c

Sound(q) ==
  /\ q.pc \in Asking => FreshCode(q.code)
  /\ q.pc = "insert" => q.at \in Times
  /\ q.pc \in Verifying =>
       /\ q.at \in Times
       /\ q.code # 0 => handed[q.code] = q.at
       /\ q.replay => q.code = 0 \/ q.code \in answered
  /\ q.pc \in Winning => q.code # 0 /\ ~q.replay

AllSound == \A r \in Requests : Sound(req[r])

OneAsks == \A r, q \in Requests :
             req[r].pc \in Asking /\ req[q].pc \in Asking /\ req[r].code = req[q].code => r = q

(* A challenge's row has the timestamp it was handed out with, and the     *)
(* code of one that was answered is in no row any more.                    *)
RowsHanded == \A t \in Times : challenge[t] # 0 => handed[challenge[t]] = t
AnsweredGone == \A c \in answered : handed[c] # 0 /\ \A t \in Times : challenge[t] # c
NotDrawn == \A c \in Codes : c >= nextCode => handed[c] = 0 /\ \A t \in Times : challenge[t] # c

(* The limit is reached exactly when somebody is on the way to the lock. *)
Acting(q) == q.pc \in {"recheck", "lock"}
LimitActed == /\ limit = "below" <=> errors < MaxErrors
              /\ limit = "reached" => \E r \in Requests : Acting(req[r])

Secrets == AllSound /\ OneAsks /\ RowsHanded /\ AnsweredGone /\ NotDrawn

AccountsInv == LimiterInv /\ TypeOK /\ Secrets /\ LimitActed /\ ReplayRefused

LEMMA IdleType == NoRequest \in Request /\ NoRequest.pc = "idle"
  BY MaxTimeAssumption DEF NoRequest, Request

LEMMA PcFacts == /\ "idle" \notin Asking \cup Verifying
                 /\ "retrying" \notin Asking \cup Verifying
                 /\ Asking \cap Verifying = {} /\ Winning \subseteq Verifying
                 /\ {"user", "lookup", "count", "recheck", "lock"} \subseteq Verifying \ Winning
  BY DEF Asking, Verifying, Winning

LEMMA InitInv == Init => AccountsInv
<1> SUFFICES ASSUME Init PROVE AccountsInv
  OBVIOUS
<1> USE DEF Init
<1>1. LimiterInv /\ LimiterTypeOK
  BY LimiterInitInv DEF LimiterInv
<1>2. TypeOK
  BY <1>1, IdleType, MaxCodesAssumption, MaxTimeAssumption DEF TypeOK, Codes
<1>3. AllSound /\ OneAsks
  BY IdleType, PcFacts DEF AllSound, OneAsks, Sound
<1>4. RowsHanded /\ AnsweredGone /\ NotDrawn
  BY DEF RowsHanded, AnsweredGone, NotDrawn, Codes
<1>5. LimitActed /\ ReplayRefused
  BY MaxErrorsAssumption DEF LimitActed, ReplayRefused
<1> QED
  BY <1>1, <1>2, <1>3, <1>4, <1>5 DEF AccountsInv, Secrets

-----------------------------------------------------------------------------
(* Requests that move on and end. *)

LEMMA GotoMoves ==
  ASSUME TypeOK, NEW r \in Requests,
         NEW step \in {"idle", "retrying"} \cup Asking \cup Verifying, Goto(r, step)
  PROVE  /\ req' \in [Requests -> Request]
         /\ req'[r].pc = step /\ req'[r].at = req[r].at /\ req'[r].code = req[r].code
         /\ req'[r].replay = req[r].replay
         /\ \A s \in Requests \ {r} : req'[s] = req[s]
<1> DEFINE q == [req[r] EXCEPT !.pc = step]
<1>1. req \in [Requests -> Request] /\ req[r] \in Request
  BY DEF TypeOK
<1>2. /\ q \in Request
      /\ q.pc = step /\ q.at = req[r].at /\ q.code = req[r].code /\ q.replay = req[r].replay
  BY <1>1 DEF Request
<1>3. req' = [req EXCEPT ![r] = q]
  BY DEF Goto
<1> HIDE DEF q
<1> QED
  BY <1>1, <1>2, <1>3

LEMMA DoneMoves ==
  ASSUME TypeOK, NEW r \in Requests, Done(r)
  PROVE  /\ req' \in [Requests -> Request] /\ req'[r].pc = "idle"
         /\ \A s \in Requests \ {r} : req'[s] = req[s]
<1>1. req \in [Requests -> Request]
  BY DEF TypeOK
<1> QED
  BY <1>1, IdleType DEF Done

(* A request that moves on without touching the challenges. *)
LEMMA SecretsQuiet ==
  ASSUME Secrets, NEW r \in Requests, \A s \in Requests \ {r} : req'[s] = req[s],
         UNCHANGED <<challenge, nextCode, handed, answered>>, Sound(req[r])',
         req'[r].pc \in Asking => req[r].pc \in Asking /\ req'[r].code = req[r].code
  PROVE  Secrets'
<1>1. ASSUME NEW s \in Requests \ {r} PROVE Sound(req[s])'
  <2>1. Sound(req[s]) /\ req'[s] = req[s]
    BY DEF Secrets, AllSound
  <2> QED
    BY <2>1 DEF Sound, FreshCode
<1>2. AllSound'
  BY <1>1 DEF AllSound
<1>3. OneAsks'
  BY DEF Secrets, OneAsks
<1>4. RowsHanded' /\ AnsweredGone' /\ NotDrawn'
  BY DEF Secrets, RowsHanded, AnsweredGone, NotDrawn
<1> QED
  BY <1>2, <1>3, <1>4 DEF Secrets

(* A request that is not about to lock moves on below the error limit. *)
LEMMA LimitQuiet ==
  ASSUME LimitActed, NEW r \in Requests, \A s \in Requests \ {r} : req'[s] = req[s],
         ~Acting(req[r]), UNCHANGED <<errors, limit>>
  PROVE  LimitActed'
  BY DEF LimitActed, Acting
(* Steps of a request that write neither challenges nor error counts. *)
LEMMA MoveInv ==
  ASSUME AccountsInv, LimiterInv', NEW r \in Requests, req' \in [Requests -> Request],
         \A s \in Requests \ {r} : req'[s] = req[s], UNCHANGED <<accounts, ghosts>>,
         Sound(req[r])', ~Acting(req[r]),
         req'[r].pc \in Asking => req[r].pc \in Asking /\ req'[r].code = req[r].code
  PROVE  AccountsInv'
<1>1. TypeOK'
  BY DEF AccountsInv, TypeOK, LimiterInv, accounts, ghosts
<1>2. Secrets'
  BY SecretsQuiet DEF AccountsInv, accounts, ghosts
<1>3. LimitActed' /\ ReplayRefused'
  BY LimitQuiet DEF AccountsInv, ReplayRefused, accounts, ghosts
<1> QED
  BY <1>1, <1>2, <1>3 DEF AccountsInv

LEMMA IdleSound ==
  ASSUME NEW r \in Requests, req'[r].pc \in {"idle", "retrying"}
  PROVE  Sound(req[r])' /\ req'[r].pc \notin Asking
  BY PcFacts DEF Sound, Asking, Winning

-----------------------------------------------------------------------------
(* Challenges. *)

LEMMA AskInv ==
  ASSUME AccountsInv, NEW r \in Requests, NEW ip \in Addresses, ChallengeStart(r, ip)
  PROVE  AccountsInv'
<1> DEFINE q == [pc |-> "purge", at |-> 0, code |-> nextCode, until |-> 0, replay |-> FALSE]
<1>1. TypeOK /\ Secrets /\ LimiterInv'
  BY AllowInv DEF AccountsInv, ChallengeStart
<1>2. /\ req[r].pc = "idle" /\ nextCode \in Codes /\ req' = [req EXCEPT ![r] = q]
      /\ nextCode' = nextCode + 1
      /\ UNCHANGED <<challenge, errors, lockedUntil, tokens, ghosts>>
  BY DEF ChallengeStart
<1>3. q \in Request /\ q.pc = "purge" /\ q.code = nextCode
  <2>1. "purge" \in Asking /\ 0 \in 0 .. MaxTime
    BY MaxTimeAssumption DEF Asking
  <2> QED
    BY <1>2, <2>1 DEF Request
<1> HIDE DEF q
<1>4. /\ req' \in [Requests -> Request] /\ req'[r] = q
      /\ \A s \in Requests \ {r} : req'[s] = req[s]
  BY <1>1, <1>2, <1>3 DEF TypeOK
<1>5. nextCode \in Nat /\ nextCode' \in 1 .. MaxCodes + 1
  BY <1>2, MaxCodesAssumption DEF Codes
<1>6. TypeOK'
  BY <1>1, <1>2, <1>4, <1>5 DEF TypeOK, LimiterInv, ghosts
<1>7. AllSound'
  <2>1. Sound(req[r])'
    <3>1. FreshCode(req[r].code)'
      BY <1>2, <1>3, <1>4, <1>5, <1>1 DEF FreshCode, Secrets, NotDrawn, ghosts
    <3> QED
      BY <1>3, <1>4, <3>1 DEF Sound, Asking, Verifying, Winning
  <2>2. ASSUME NEW s \in Requests \ {r} PROVE Sound(req[s])'
    <3>1. Sound(req[s]) /\ req'[s] = req[s]
      BY <1>1, <1>4 DEF Secrets, AllSound
    <3> QED
      BY <1>2, <1>5, <3>1 DEF Sound, FreshCode, ghosts, Codes
  <2> QED
    BY <2>1, <2>2 DEF AllSound
<1>8. OneAsks'
  <2>1. \A s \in Requests \ {r} : req[s].pc \in Asking => req[s].code # nextCode
    BY <1>1, <1>5 DEF Secrets, AllSound, Sound, FreshCode
  <2> QED
    BY <1>1, <1>3, <1>4, <2>1 DEF Secrets, OneAsks
<1>9. RowsHanded' /\ AnsweredGone' /\ NotDrawn'
  BY <1>1, <1>2, <1>5 DEF Secrets, RowsHanded, AnsweredGone, NotDrawn, ghosts, Codes
<1>10. LimitActed' /\ ReplayRefused'
  BY <1>2, <1>4, LimitQuiet DEF AccountsInv, ReplayRefused, Acting, ghosts
<1> QED
  BY <1>1, <1>6, <1>7, <1>8, <1>9, <1>10 DEF AccountsInv, Secrets

LEMMA PurgeInv ==
  ASSUME AccountsInv, NEW r \in Requests, DeleteChallenge(r)
  PROVE  AccountsInv'
<1> DEFINE q == [req[r] EXCEPT !.pc = "insert", !.at = now]
<1>1. TypeOK /\ Secrets /\ LimiterInv
  BY DEF AccountsInv
<1>2. /\ req[r].pc = "purge" /\ challenge' = [challenge EXCEPT ![now] = 0]
      /\ req' = [req EXCEPT ![r] = q]
      /\ UNCHANGED <<limiterVars, nextCode, errors, lockedUntil, tokens, ghosts>>
  BY DEF DeleteChallenge, At
<1>3. now \in Times /\ req[r] \in Request /\ req[r].pc \in Asking
  BY <1>1, <1>2 DEF TypeOK, LimiterTypeOK, Asking
<1>4. q \in Request /\ q.pc = "insert" /\ q.at = now /\ q.code = req[r].code
  <2>1. "insert" \in Asking /\ now \in 0 .. MaxTime
    BY <1>3 DEF Asking, Times
  <2> QED
    BY <1>3, <2>1 DEF Request
<1> HIDE DEF q
<1>5. /\ req' \in [Requests -> Request] /\ req'[r] = q
      /\ \A s \in Requests \ {r} : req'[s] = req[s]
  BY <1>1, <1>2, <1>4 DEF TypeOK
<1>6. \A t \in Times : challenge'[t] = challenge[t] \/ challenge'[t] = 0
  BY <1>1, <1>2 DEF TypeOK
<1>7. LimiterInv'
  BY <1>1, <1>2, LimiterUnchanged
<1>8. TypeOK'
  BY <1>1, <1>2, <1>5, <1>7 DEF TypeOK, LimiterInv, ghosts
<1>9. AllSound'
  <2>1. FreshCode(req[r].code)
    BY <1>1, <1>3 DEF Secrets, AllSound, Sound
  <2>2. Sound(req[r])'
    BY <1>2, <1>3, <1>4, <1>5, <1>6, <2>1 DEF Sound, FreshCode, Verifying, Winning, Codes, ghosts
  <2>3. ASSUME NEW s \in Requests \ {r} PROVE Sound(req[s])'
    <3>1. Sound(req[s]) /\ req'[s] = req[s]
      BY <1>1, <1>5 DEF Secrets, AllSound
    <3> QED
      BY <1>2, <1>6, <3>1 DEF Sound, FreshCode, ghosts, Codes
  <2> QED
    BY <2>2, <2>3 DEF AllSound
<1>10. OneAsks'
  BY <1>1, <1>3, <1>4, <1>5 DEF Secrets, OneAsks
<1>11. RowsHanded' /\ AnsweredGone' /\ NotDrawn'
  BY <1>1, <1>2, <1>6 DEF Secrets, RowsHanded, AnsweredGone, NotDrawn, ghosts, Codes, TypeOK
<1>12. LimitActed' /\ ReplayRefused'
  BY <1>2, <1>5, LimitQuiet DEF AccountsInv, ReplayRefused, Acting, ghosts
<1> QED
  BY <1>7, <1>8, <1>9, <1>10, <1>11, <1>12 DEF AccountsInv, Secrets

LEMMA CreateInv ==
  ASSUME AccountsInv, NEW r \in Requests, CreateChallenge(r)
  PROVE  AccountsInv'
<1>1. TypeOK /\ Secrets /\ LimiterInv /\ req[r].pc = "insert"
  BY DEF AccountsInv, CreateChallenge, At
<1>2. /\ UNCHANGED <<limiterVars, nextCode, errors, lockedUntil, tokens, answered, limit>>
      /\ LimiterInv'
  BY <1>1, LimiterUnchanged DEF CreateChallenge
<1>3. FreshCode(req[r].code) /\ req[r].at \in Times /\ req[r].pc \in Asking
  BY <1>1 DEF Secrets, AllSound, Sound, Asking
<1>4. CASE Goto(r, "purge") /\ UNCHANGED <<challenge, handed>>
  <2>1. /\ req' \in [Requests -> Request]
        /\ req'[r].pc = "purge" /\ req'[r].code = req[r].code
        /\ \A s \in Requests \ {r} : req'[s] = req[s]
    BY <1>1, <1>4, GotoMoves DEF Asking
  <2>2. Sound(req[r])'
    BY <1>2, <1>3, <1>4, <2>1 DEF Sound, FreshCode, Verifying, Winning
  <2>3. ~Acting(req[r])
    BY <1>1 DEF Acting
  <2> QED
    BY <1>2, <1>3, <1>4, <2>1, <2>2, <2>3, MoveInv DEF accounts, ghosts
<1>5. CASE /\ challenge[req[r].at] = 0
           /\ challenge' = [challenge EXCEPT ![req[r].at] = req[r].code]
           /\ handed' = [handed EXCEPT ![req[r].code] = req[r].at]
           /\ Done(r)
  <2> DEFINE c == req[r].code
             t == req[r].at
  <2>1. /\ req' \in [Requests -> Request] /\ req'[r].pc = "idle"
        /\ \A s \in Requests \ {r} : req'[s] = req[s]
    BY <1>1, <1>5, DoneMoves
  <2>2. FreshCode(c) /\ t \in Times /\ t # 0 /\ t \in 0 .. MaxTime
    BY <1>3 DEF Times
  <2>3. challenge' = [challenge EXCEPT ![t] = c] /\ handed' = [handed EXCEPT ![c] = t]
    BY <1>5
  <2>4. \A s \in Requests \ {r} : req[s].pc \in Asking => req[s].code # c
    BY <1>1, <1>3 DEF Secrets, OneAsks
  <2> HIDE DEF c, t
  <2>5. TypeOK'
    BY <1>1, <1>2, <2>1, <2>2, <2>3 DEF TypeOK, FreshCode, LimiterInv
  <2>6. AllSound'
    <3>1. ASSUME NEW s \in Requests \ {r} PROVE Sound(req[s])'
      <4>1. Sound(req[s]) /\ req'[s] = req[s]
        BY <1>1, <2>1 DEF Secrets, AllSound
      <4>2. req[s].pc \in Asking => FreshCode(req[s].code)'
        BY <1>1, <1>2, <2>2, <2>3, <2>4, <4>1 DEF Sound, FreshCode, TypeOK
      <4>3. req[s].pc \in Verifying /\ req[s].code # 0 => handed'[req[s].code] = req[s].at
        <5>1. req[s] \in Request
          BY <1>1 DEF TypeOK
        <5>2. req[s].pc \in Verifying /\ req[s].code # 0 => req[s].code # c
          BY <2>2, <4>1 DEF Sound, FreshCode, Times
        <5> QED
          BY <1>1, <2>3, <4>1, <5>1, <5>2 DEF Sound, Request, TypeOK
      <4> QED
        BY <1>2, <4>1, <4>2, <4>3 DEF Sound
    <3>2. Sound(req[r])'
      BY <2>1, IdleSound
    <3> QED
      BY <3>1, <3>2 DEF AllSound
  <2>7. OneAsks'
    BY <1>1, <2>1, PcFacts DEF Secrets, OneAsks
  <2>8. RowsHanded'
    BY <1>1, <2>2, <2>3 DEF Secrets, RowsHanded, FreshCode, TypeOK
  <2>9. AnsweredGone'
    BY <1>1, <1>2, <2>2, <2>3 DEF Secrets, AnsweredGone, FreshCode, TypeOK
  <2>10. NotDrawn'
    BY <1>1, <1>2, <2>2, <2>3 DEF Secrets, NotDrawn, FreshCode, TypeOK, Codes
  <2>11. LimitActed' /\ ReplayRefused'
    BY <1>1, <1>2, <2>1, LimitQuiet DEF AccountsInv, ReplayRefused, Acting
  <2> QED
    BY <1>2, <2>5, <2>6, <2>7, <2>8, <2>9, <2>10, <2>11 DEF AccountsInv, Secrets
<1> QED
  BY <1>4, <1>5 DEF CreateChallenge

LEMMA AskCancelledInv ==
  ASSUME AccountsInv, NEW r \in Requests, AskCancelled(r)
  PROVE  AccountsInv'
<1>1. /\ TypeOK /\ LimiterInv' /\ Goto(r, "retrying") /\ UNCHANGED <<accounts, ghosts>>
      /\ ~Acting(req[r])
  BY LimiterUnchanged DEF AccountsInv, AskCancelled, Acting, Asking
<1>2. /\ req' \in [Requests -> Request] /\ req'[r].pc = "retrying"
      /\ \A s \in Requests \ {r} : req'[s] = req[s]
  BY <1>1, GotoMoves
<1>3. Sound(req[r])' /\ req'[r].pc \notin Asking
  BY <1>2, IdleSound
<1> QED
  BY <1>1, <1>2, <1>3, MoveInv

-----------------------------------------------------------------------------
(* Logins. *)

LEMMA LoginStartInv ==
  ASSUME AccountsInv, NEW r \in Requests, NEW ip \in Addresses, NEW c \in Codes, LoginStart(r, ip, c)
  PROVE  AccountsInv'
<1>1. TypeOK /\ LimiterInv' /\ req[r].pc = "idle" /\ handed[c] # 0 /\ UNCHANGED <<accounts, ghosts>>
  BY AllowInv DEF AccountsInv, LoginStart
<1> DEFINE again == c \in answered
<1>2. PICK a \in {c, 0} :
        req' = [req EXCEPT ![r] = [pc |-> "user", at |-> handed[c], code |-> a,
                                   until |-> 0, replay |-> again]]
  BY DEF LoginStart
<1>3. again \in BOOLEAN /\ (again <=> c \in answered)
  OBVIOUS
<1> DEFINE q == [pc |-> "user", at |-> handed[c], code |-> a, until |-> 0, replay |-> again]
<1> HIDE DEF again
<1>4. "user" \in Verifying /\ handed[c] \in 0 .. MaxTime /\ a \in Codes \cup {0}
  BY <1>1 DEF Verifying, TypeOK
<1>5. /\ q \in Request
      /\ q.pc = "user" /\ q.at = handed[c] /\ q.code = a /\ (q.replay <=> c \in answered)
  BY <1>3, <1>4 DEF Request
<1> HIDE DEF q
<1>6. req' = [req EXCEPT ![r] = q]
  BY <1>2 DEF q
<1>7. /\ req' \in [Requests -> Request] /\ req'[r] = q
      /\ \A s \in Requests \ {r} : req'[s] = req[s]
  BY <1>1, <1>5, <1>6 DEF TypeOK
<1>8. Sound(req[r])'
  BY <1>1, <1>4, <1>5, <1>7 DEF Sound, Asking, Winning, Times, accounts, ghosts
<1>9. ~Acting(req[r]) /\ req'[r].pc \notin Asking
  BY <1>1, <1>5, <1>7 DEF Acting, Asking
<1> QED
  BY <1>1, <1>7, <1>8, <1>9, MoveInv

(* A login that ends for any reason but an answer. *)
LEMMA EndInv ==
  ASSUME AccountsInv, NEW r \in Requests, Done(r), ~Acting(req[r]),
         UNCHANGED <<limiterVars, accounts, ghosts>>
  PROVE  AccountsInv'
<1>1. TypeOK /\ LimiterInv'
  BY LimiterUnchanged DEF AccountsInv
<1>2. /\ req' \in [Requests -> Request] /\ req'[r].pc = "idle"
      /\ \A s \in Requests \ {r} : req'[s] = req[s]
  BY <1>1, DoneMoves
<1>3. Sound(req[r])' /\ req'[r].pc \notin Asking
  BY <1>2, IdleSound
<1> QED
  BY <1>1, <1>2, <1>3, MoveInv

(* A login that goes on, and is not about to win or has shown its code. *)
LEMMA OnInv ==
  ASSUME AccountsInv, NEW r \in Requests, req[r].pc \in Verifying, ~Acting(req[r]),
         NEW step \in Verifying, Goto(r, step),
         step \in Winning => req[r].code # 0 /\ ~req[r].replay,
         UNCHANGED <<limiterVars, accounts, ghosts>>
  PROVE  AccountsInv'
<1>1. TypeOK /\ LimiterInv' /\ Sound(req[r])
  BY LimiterUnchanged DEF AccountsInv, Secrets, AllSound
<1>2. /\ req' \in [Requests -> Request]
      /\ req'[r].pc = step /\ req'[r].at = req[r].at /\ req'[r].code = req[r].code
      /\ req'[r].replay = req[r].replay
      /\ \A s \in Requests \ {r} : req'[s] = req[s]
  BY <1>1, GotoMoves
<1>3. step \notin Asking /\ step # "insert"
  BY PcFacts DEF Asking
<1>4. Sound(req[r])'
  BY <1>1, <1>2, <1>3 DEF Sound, accounts, ghosts
<1> QED
  BY <1>1, <1>2, <1>3, <1>4, MoveInv

LEMMA CheckLockedInv ==
  ASSUME AccountsInv, NEW r \in Requests, CheckLocked(r)
  PROVE  AccountsInv'
<1>1. /\ req[r].pc = "user" /\ (Done(r) \/ Goto(r, "lookup"))
      /\ UNCHANGED <<limiterVars, accounts, ghosts>>
  BY DEF CheckLocked, At
<1>2. req[r].pc \in Verifying /\ ~Acting(req[r]) /\ "lookup" \in Verifying \ Winning
  BY <1>1, PcFacts DEF Acting
<1>3. CASE Done(r)
  BY <1>1, <1>2, <1>3, EndInv
<1>4. CASE Goto(r, "lookup")
  BY <1>1, <1>2, <1>4, OnInv
<1> QED
  BY <1>1, <1>3, <1>4

LEMMA GetChallengeInv ==
  ASSUME AccountsInv, NEW r \in Requests, GetChallenge(r)
  PROVE  AccountsInv'
<1> DEFINE code == challenge[req[r].at]
<1>1. req[r].pc = "lookup" /\ UNCHANGED <<limiterVars, accounts, ghosts>>
  BY DEF GetChallenge, At
<1>2. req[r].pc \in Verifying /\ ~Acting(req[r]) /\ "count" \in Verifying \ Winning
  BY <1>1, PcFacts DEF Acting
<1>3. \/ Done(r)
      \/ Goto(r, "count")
      \/ code # 0 /\ code = req[r].code /\ Goto(r, "reset")
  BY DEF GetChallenge
<1>4. CASE Done(r)
  BY <1>1, <1>2, <1>4, EndInv
<1>5. CASE Goto(r, "count")
  BY <1>1, <1>2, <1>5, OnInv
<1>6. CASE code # 0 /\ code = req[r].code /\ Goto(r, "reset")
  <2>1. Sound(req[r]) /\ AnsweredGone
    BY DEF AccountsInv, Secrets, AllSound
  <2>2. req[r].at \in Times /\ req[r].code # 0
    BY <1>2, <1>6, <2>1 DEF Sound
  <2>3. ~req[r].replay
    BY <1>2, <1>6, <2>1, <2>2 DEF Sound, AnsweredGone
  <2>4. "reset" \in Verifying
    BY DEF Verifying
  <2> QED
    BY <1>1, <1>2, <1>6, <2>2, <2>3, <2>4, OnInv
<1> QED
  BY <1>3, <1>4, <1>5, <1>6

(* Steps of a login that write the error count or the lock. *)
LEMMA CountsInv ==
  ASSUME AccountsInv, NEW r \in Requests, req' \in [Requests -> Request],
         \A s \in Requests \ {r} : req'[s] = req[s], Sound(req[r])', req'[r].pc \notin Asking,
         UNCHANGED <<limiterVars, challenge, nextCode, tokens, handed, answered>>,
         errors' \in Nat, lockedUntil' \in Nat, limit' \in {"below", "reached", "locked", "cut"},
         LimitActed'
  PROVE  AccountsInv'
<1>1. LimiterInv'
  BY LimiterUnchanged DEF AccountsInv
<1>2. TypeOK'
  BY <1>1 DEF AccountsInv, TypeOK, LimiterInv
<1>3. Secrets'
  BY SecretsQuiet DEF AccountsInv
<1> QED
  BY <1>1, <1>2, <1>3 DEF AccountsInv, ReplayRefused

LEMMA IncrementInv ==
  ASSUME AccountsInv, NEW r \in Requests, IncrementErrorCount(r)
  PROVE  AccountsInv'
<1>1. TypeOK /\ LimitActed /\ Sound(req[r]) /\ req[r].pc = "count"
  BY DEF AccountsInv, Secrets, AllSound, IncrementErrorCount, At
<1>2. /\ errors' = errors + 1 /\ limit' = (IF errors + 1 = MaxErrors THEN "reached" ELSE limit)
      /\ Goto(r, "recheck")
      /\ UNCHANGED <<limiterVars, challenge, nextCode, lockedUntil, tokens, handed, answered>>
  BY DEF IncrementErrorCount
<1>3. "recheck" \in Verifying \ Winning /\ "recheck" \notin Asking /\ req[r].pc \in Verifying
  BY <1>1, PcFacts
<1>4. /\ req' \in [Requests -> Request]
      /\ req'[r].pc = "recheck" /\ req'[r].at = req[r].at /\ req'[r].code = req[r].code
      /\ req'[r].replay = req[r].replay
      /\ \A s \in Requests \ {r} : req'[s] = req[s]
  BY <1>1, <1>2, <1>3, GotoMoves
<1>5. Sound(req[r])'
  BY <1>1, <1>2, <1>3, <1>4 DEF Sound
<1>6. errors \in Nat /\ errors' \in Nat /\ lockedUntil' \in Nat
      /\ limit' \in {"below", "reached", "locked", "cut"}
  BY <1>1, <1>2 DEF TypeOK
<1>7. LimitActed'
  <2>1. limit' = "below" <=> errors' < MaxErrors
    BY <1>1, <1>2, <1>6, MaxErrorsAssumption DEF LimitActed
  <2>2. Acting(req[r])'
    BY <1>4 DEF Acting
  <2> QED
    BY <2>1, <2>2 DEF LimitActed
<1> QED
  BY <1>2, <1>3, <1>4, <1>5, <1>6, <1>7, CountsInv

LEMMA CheckErrorsInv ==
  ASSUME AccountsInv, NEW r \in Requests, CheckErrors(r)
  PROVE  AccountsInv'
<1>1. /\ TypeOK /\ LimitActed /\ Sound(req[r]) /\ req[r].pc = "recheck" /\ req[r] \in Request
      /\ UNCHANGED <<limiterVars, accounts, ghosts>>
  BY DEF AccountsInv, Secrets, AllSound, CheckErrors, At, TypeOK
<1>2. /\ errors' \in Nat /\ lockedUntil' \in Nat /\ limit' \in {"below", "reached", "locked", "cut"}
      /\ UNCHANGED <<errors, limit>>
  BY <1>1 DEF TypeOK, accounts, ghosts
<1>3. CASE errors >= MaxErrors
  <2> DEFINE u == now + LockTime
             q == [req[r] EXCEPT !.pc = "lock", !.until = u]
  <2>1. u \in Nat /\ "lock" \in Verifying \ Winning /\ "lock" \notin Asking /\ req[r].pc \in Verifying
    <3>1. now \in Nat
      BY <1>1 DEF TypeOK, LimiterTypeOK, Times
    <3> QED
      BY <1>1, <3>1, TtlAssumption, PcFacts
  <2>2. req' = [req EXCEPT ![r] = q]
    BY <1>3 DEF CheckErrors
  <2> HIDE DEF u
  <2>3. /\ q \in Request
        /\ q.pc = "lock" /\ q.at = req[r].at /\ q.code = req[r].code /\ q.replay = req[r].replay
    BY <1>1, <2>1 DEF Request
  <2> HIDE DEF q
  <2>4. /\ req' \in [Requests -> Request] /\ req'[r] = q
        /\ \A s \in Requests \ {r} : req'[s] = req[s]
    BY <1>1, <2>2, <2>3 DEF TypeOK
  <2>5. Sound(req[r])'
    BY <1>1, <2>1, <2>3, <2>4 DEF Sound, accounts, ghosts
  <2>6. LimitActed'
    <3>1. Acting(req[r])'
      BY <2>3, <2>4 DEF Acting
    <3> QED
      BY <1>1, <1>2, <3>1 DEF LimitActed
  <2> QED
    BY <1>1, <1>2, <2>1, <2>3, <2>4, <2>5, <2>6, CountsInv DEF accounts, ghosts
<1>4. CASE ~(errors >= MaxErrors)
  <2>1. Done(r)
    BY <1>4 DEF CheckErrors
  <2>2. /\ req' \in [Requests -> Request] /\ req'[r].pc = "idle"
        /\ \A s \in Requests \ {r} : req'[s] = req[s]
    BY <1>1, <2>1, DoneMoves
  <2>3. Sound(req[r])' /\ req'[r].pc \notin Asking
    BY <2>2, IdleSound
  <2>4. limit = "below"
    BY <1>1, <1>4, MaxErrorsAssumption DEF LimitActed, TypeOK
  <2>5. LimitActed'
    BY <1>1, <1>2, <2>4 DEF LimitActed
  <2> QED
    BY <1>1, <1>2, <2>2, <2>3, <2>5, CountsInv DEF accounts, ghosts
<1> QED
  BY <1>3, <1>4

LEMMA LockInv ==
  ASSUME AccountsInv, NEW r \in Requests, LockUser(r)
  PROVE  AccountsInv'
<1>1. /\ TypeOK /\ LimitActed /\ req[r] \in Request /\ Done(r) /\ lockedUntil' = req[r].until
      /\ limit' = (IF limit = "below" THEN limit ELSE "locked")
      /\ UNCHANGED <<limiterVars, challenge, nextCode, errors, tokens, handed, answered>>
  BY DEF AccountsInv, LockUser, TypeOK
<1>2. /\ req' \in [Requests -> Request] /\ req'[r].pc = "idle"
      /\ \A s \in Requests \ {r} : req'[s] = req[s]
  BY <1>1, DoneMoves
<1>3. Sound(req[r])' /\ req'[r].pc \notin Asking
  BY <1>2, IdleSound
<1>4. errors' \in Nat /\ lockedUntil' \in Nat /\ limit' \in {"below", "reached", "locked", "cut"}
  BY <1>1 DEF TypeOK, Request
<1>5. LimitActed'
  BY <1>1 DEF LimitActed
<1> QED
  BY <1>1, <1>2, <1>3, <1>4, <1>5, CountsInv

LEMMA ResetInv ==
  ASSUME AccountsInv, NEW r \in Requests, ResetErrorCount(r)
  PROVE  AccountsInv'
<1>1. /\ TypeOK /\ Sound(req[r]) /\ req[r].pc = "reset" /\ errors' = 0 /\ limit' = "below"
      /\ Goto(r, "token")
      /\ UNCHANGED <<limiterVars, challenge, nextCode, lockedUntil, tokens, handed, answered>>
  BY DEF AccountsInv, Secrets, AllSound, ResetErrorCount, At
<1>2. /\ "token" \in Verifying /\ "token" \notin Asking
      /\ req[r].pc \in Verifying /\ req[r].pc \in Winning
  BY <1>1 DEF Verifying, Asking, Winning
<1>3. /\ req' \in [Requests -> Request]
      /\ req'[r].pc = "token" /\ req'[r].at = req[r].at /\ req'[r].code = req[r].code
      /\ req'[r].replay = req[r].replay
      /\ \A s \in Requests \ {r} : req'[s] = req[s]
  BY <1>1, <1>2, GotoMoves
<1>4. Sound(req[r])'
  BY <1>1, <1>2, <1>3 DEF Sound
<1>5. errors' \in Nat /\ lockedUntil' \in Nat /\ limit' \in {"below", "reached", "locked", "cut"}
  BY <1>1 DEF TypeOK
<1>6. LimitActed'
  BY <1>1, MaxErrorsAssumption DEF LimitActed
<1> QED
  BY <1>1, <1>2, <1>3, <1>4, <1>5, <1>6, CountsInv

LEMMA TokenInv ==
  ASSUME AccountsInv, NEW r \in Requests, StoreToken(r)
  PROVE  AccountsInv'
<1> DEFINE k == [code |-> req[r].code, replay |-> req[r].replay]
<1>1. /\ TypeOK /\ Secrets /\ Sound(req[r]) /\ req[r].pc = "token" /\ req[r] \in Request
      /\ tokens' = tokens \cup {k} /\ Goto(r, "spend")
      /\ UNCHANGED <<limiterVars, challenge, nextCode, errors, lockedUntil, ghosts>>
  BY DEF AccountsInv, Secrets, AllSound, StoreToken, At, TypeOK
<1>2. /\ "spend" \in Verifying /\ "spend" \notin Asking
      /\ req[r].pc \in Verifying /\ req[r].pc \in Winning /\ ~Acting(req[r])
  BY <1>1 DEF Verifying, Asking, Winning, Acting
<1>3. /\ req' \in [Requests -> Request]
      /\ req'[r].pc = "spend" /\ req'[r].at = req[r].at /\ req'[r].code = req[r].code
      /\ req'[r].replay = req[r].replay
      /\ \A s \in Requests \ {r} : req'[s] = req[s]
  BY <1>1, <1>2, GotoMoves
<1>4. Sound(req[r])'
  BY <1>1, <1>2, <1>3 DEF Sound, ghosts
<1>5. req[r].code \in Codes /\ req[r].replay = FALSE
  BY <1>1, <1>2 DEF Sound, Request
<1>6. k \in [code : Codes, replay : BOOLEAN] /\ ~k.replay
  BY <1>5
<1> HIDE DEF k
<1>7. LimiterInv'
  BY <1>1, LimiterUnchanged DEF AccountsInv
<1>8. TypeOK'
  BY <1>1, <1>3, <1>6, <1>7 DEF TypeOK, LimiterInv, ghosts
<1>9. Secrets'
  BY <1>1, <1>2, <1>3, <1>4, SecretsQuiet DEF ghosts
<1>10. ReplayRefused'
  BY <1>1, <1>6 DEF AccountsInv, ReplayRefused
<1>11. LimitActed'
  BY <1>1, <1>2, <1>3, LimitQuiet DEF AccountsInv, ghosts
<1> QED
  BY <1>7, <1>8, <1>9, <1>10, <1>11 DEF AccountsInv

LEMMA SpendInv ==
  ASSUME AccountsInv, NEW r \in Requests, SpendChallenge(r)
  PROVE  AccountsInv'
<1> DEFINE c == req[r].code
           t == req[r].at
<1>1. /\ TypeOK /\ Secrets /\ Sound(req[r]) /\ req[r].pc = "spend" /\ req[r] \in Request
      /\ challenge' = [challenge EXCEPT ![t] = 0] /\ answered' = answered \cup {c} /\ Done(r)
      /\ UNCHANGED <<limiterVars, nextCode, errors, lockedUntil, tokens, handed, limit>>
  BY DEF AccountsInv, Secrets, AllSound, SpendChallenge, At, TypeOK
<1>2. req[r].pc \in Verifying /\ req[r].pc \in Winning /\ ~Acting(req[r])
  BY <1>1 DEF Verifying, Winning, Acting
<1>3. c \in Codes /\ t \in Times /\ handed[c] = t /\ t # 0 /\ c # 0
  BY <1>1, <1>2 DEF Sound, Request, Times, Codes
<1>4. /\ req' \in [Requests -> Request] /\ req'[r].pc = "idle"
      /\ \A s \in Requests \ {r} : req'[s] = req[s]
  BY <1>1, DoneMoves
<1> HIDE DEF c, t
<1>5. LimiterInv'
  BY <1>1, LimiterUnchanged DEF AccountsInv
<1>6. TypeOK'
  BY <1>1, <1>3, <1>4, <1>5 DEF TypeOK, LimiterInv
<1>7. \A u \in Times : challenge'[u] = challenge[u] \/ challenge'[u] = 0
  BY <1>1, <1>3 DEF TypeOK
<1>8. \A u \in Times : challenge'[u] # c
  BY <1>1, <1>3 DEF Secrets, RowsHanded, TypeOK
<1>9. AllSound'
  <2>1. ASSUME NEW s \in Requests \ {r} PROVE Sound(req[s])'
    <3>1. Sound(req[s]) /\ req'[s] = req[s]
      BY <1>1, <1>4 DEF Secrets, AllSound
    <3>2. req[s].pc \in Asking => FreshCode(req[s].code)'
      BY <1>1, <1>7, <3>1 DEF Sound, FreshCode, Codes
    <3> QED
      BY <1>1, <3>1, <3>2 DEF Sound
  <2>2. Sound(req[r])'
    BY <1>4, IdleSound
  <2> QED
    BY <2>1, <2>2 DEF AllSound
<1>10. OneAsks'
  BY <1>1, <1>4, PcFacts DEF Secrets, OneAsks
<1>11. RowsHanded' /\ NotDrawn'
  BY <1>1, <1>7 DEF Secrets, RowsHanded, NotDrawn, Codes, TypeOK
<1>12. AnsweredGone'
  BY <1>1, <1>3, <1>7, <1>8 DEF Secrets, AnsweredGone, Codes, TypeOK
<1>13. LimitActed' /\ ReplayRefused'
  BY <1>1, <1>2, <1>4, LimitQuiet DEF AccountsInv, ReplayRefused
<1> QED
  BY <1>5, <1>6, <1>9, <1>10, <1>11, <1>12, <1>13 DEF AccountsInv, Secrets

LEMMA LoginCancelledInv ==
  ASSUME AccountsInv, NEW r \in Requests, LoginCancelled(r)
  PROVE  AccountsInv'
<1>1. /\ TypeOK /\ LimitActed /\ Done(r)
      /\ limit' = IF Acting(req[r]) /\ limit = "reached" THEN "cut" ELSE limit
      /\ UNCHANGED <<limiterVars, accounts, handed, answered>>
  BY DEF AccountsInv, LoginCancelled, Acting
<1>2. /\ req' \in [Requests -> Request] /\ req'[r].pc = "idle"
      /\ \A s \in Requests \ {r} : req'[s] = req[s]
  BY <1>1, DoneMoves
<1>3. Sound(req[r])' /\ req'[r].pc \notin Asking
  BY <1>2, IdleSound
<1>4. errors' \in Nat /\ lockedUntil' \in Nat /\ limit' \in {"below", "reached", "locked", "cut"}
  BY <1>1 DEF TypeOK, accounts
<1>5. LimitActed'
  BY <1>1, <1>2 DEF LimitActed, accounts
<1> QED
  BY <1>1, <1>2, <1>3, <1>4, <1>5, CountsInv DEF accounts

-----------------------------------------------------------------------------
LEMMA LimiterStepInv ==
  ASSUME AccountsInv, Limiter
  PROVE  AccountsInv' /\ UNCHANGED admitted
<1>1. LimiterInv /\ UNCHANGED <<accounts, req, ghosts>>
  BY DEF AccountsInv, Limiter
<1>2. LimiterInv' /\ UNCHANGED admitted
  <2>1. ASSUME NEW ip \in Addresses, Exceed(ip) PROVE LimiterInv' /\ UNCHANGED admitted
    BY <1>1, <2>1, ExceedInv
  <2>2. ASSUME NEW ip \in Addresses, Refuse(ip) PROVE LimiterInv' /\ UNCHANGED admitted
    BY <1>1, <2>2, LimiterUnchanged DEF Refuse, limiterVars, limiter
  <2>3. CASE Cleanup
    BY <1>1, <2>3, CleanupInv
  <2>4. CASE Tick
    BY <1>1, <2>4, TickInv DEF limiter
  <2> QED
    BY <2>1, <2>2, <2>3, <2>4 DEF Limiter
<1>3. TypeOK'
  BY <1>1, <1>2 DEF AccountsInv, TypeOK, LimiterInv, accounts, ghosts
<1>4. Secrets' /\ LimitActed' /\ ReplayRefused'
  BY <1>1 DEF AccountsInv, Secrets, AllSound, Sound, FreshCode, OneAsks, RowsHanded, AnsweredGone,
              NotDrawn, LimitActed, Acting, ReplayRefused, accounts, ghosts
<1> QED
  BY <1>2, <1>3, <1>4 DEF AccountsInv

LEMMA HandleInv ==
  ASSUME AccountsInv, NEW r \in Requests, Handle(r) \/ HangUp(r)
  PROVE  AccountsInv' /\ UNCHANGED limiterVars
<1>1. CASE DeleteChallenge(r)
  BY <1>1, PurgeInv DEF DeleteChallenge
<1>2. CASE CreateChallenge(r)
  BY <1>2, CreateInv DEF CreateChallenge
<1>3. CASE CheckLocked(r)
  BY <1>3, CheckLockedInv DEF CheckLocked
<1>4. CASE GetChallenge(r)
  BY <1>4, GetChallengeInv DEF GetChallenge
<1>5. CASE IncrementErrorCount(r)
  BY <1>5, IncrementInv DEF IncrementErrorCount
<1>6. CASE CheckErrors(r)
  BY <1>6, CheckErrorsInv DEF CheckErrors
<1>7. CASE LockUser(r)
  BY <1>7, LockInv DEF LockUser
<1>8. CASE ResetErrorCount(r)
  BY <1>8, ResetInv DEF ResetErrorCount
<1>9. CASE StoreToken(r)
  BY <1>9, TokenInv DEF StoreToken
<1>10. CASE SpendChallenge(r)
  BY <1>10, SpendInv DEF SpendChallenge
<1>11. CASE AskCancelled(r)
  BY <1>11, AskCancelledInv DEF AskCancelled
<1>12. CASE LoginCancelled(r)
  BY <1>12, LoginCancelledInv DEF LoginCancelled
<1> QED
  BY <1>1, <1>2, <1>3, <1>4, <1>5, <1>6, <1>7, <1>8, <1>9, <1>10, <1>11, <1>12 DEF Handle, HangUp

LEMMA StepInv == AccountsInv /\ [Next]_vars => AccountsInv'
<1> SUFFICES ASSUME AccountsInv, [Next]_vars PROVE AccountsInv'
  OBVIOUS
<1>1. CASE UNCHANGED vars
  <2>1. LimiterInv'
    BY <1>1, LimiterUnchanged DEF vars, AccountsInv
  <2>2. TypeOK'
    BY <1>1, <2>1 DEF vars, AccountsInv, TypeOK, LimiterInv, accounts, ghosts
  <2>3. Secrets' /\ LimitActed' /\ ReplayRefused'
    BY <1>1 DEF vars, AccountsInv, Secrets, AllSound, Sound, FreshCode, OneAsks, RowsHanded,
                AnsweredGone, NotDrawn, LimitActed, Acting, ReplayRefused, accounts, ghosts
  <2> QED
    BY <2>1, <2>2, <2>3 DEF AccountsInv
<1>2. CASE Limiter
  BY <1>2, LimiterStepInv
<1>3. ASSUME NEW r \in Requests, NEW ip \in Addresses, ChallengeStart(r, ip) PROVE AccountsInv'
  BY <1>3, AskInv
<1>4. ASSUME NEW r \in Requests, NEW ip \in Addresses, NEW c \in Codes, LoginStart(r, ip, c)
      PROVE  AccountsInv'
  BY <1>4, LoginStartInv
<1>5. ASSUME NEW r \in Requests, Handle(r) \/ HangUp(r) PROVE AccountsInv'
  BY <1>5, HandleInv
<1> QED
  BY <1>1, <1>2, <1>3, <1>4, <1>5 DEF Next

LEMMA Invariance == Spec => []AccountsInv
  BY InitInv, StepInv, PTL DEF Spec

(* The limiter, the tables and the requests keep their types, for any      *)
(* number of addresses, requests and challenges.                           *)
THEOREM TypeCorrect == Spec => []TypeOK
  BY Invariance, PTL DEF AccountsInv

(* A login that starts after the answer to a challenge finds its code in   *)
(* no row: codes are not drawn twice, and an answered one is deleted under *)
(* the timestamp it was handed out with.                                   *)
THEOREM AnsweredOnce == Spec => []ReplayRefused
  BY Invariance, PTL DEF AccountsInv

(* An error count at its limit, with nobody on the way to the lock, was    *)
(* locked on, or the client hung up just then.                             *)
THEOREM ErrorsLock == Spec => []LimitLocks
<1>1. AccountsInv => LimitLocks
  <2> SUFFICES ASSUME AccountsInv, errors >= MaxErrors,
                      \A r \in Requests : req[r].pc \notin {"recheck", "lock"}
               PROVE  limit \in {"locked", "cut"}
    BY DEF LimitLocks
  <2>1. LimitActed /\ errors \in Nat /\ limit \in {"below", "reached", "locked", "cut"}
    BY DEF AccountsInv, TypeOK
  <2> QED
    BY <2>1, MaxErrorsAssumption DEF LimitActed, Acting
<1> QED
  BY <1>1, Invariance, PTL

(* Only an admission changes what was admitted. *)
LEMMA AdmissionServed ==
  ASSUME AccountsInv, [Next]_vars, NEW ip \in Addresses, admitted'[ip] # admitted[ip], overAt[ip] # 0
  PROVE  now >= overAt[ip] + Block
<1>1. ASSUME NEW q \in Addresses, Allow(q) PROVE now >= overAt[ip] + Block
  BY <1>1, AllowInv DEF AccountsInv
<1>2. ~UNCHANGED admitted
  OBVIOUS
<1>3. ~UNCHANGED vars /\ ~Limiter
  BY <1>2, LimiterStepInv DEF vars, limiterVars, limiter
<1>4. ~\E r \in Requests : Handle(r) \/ HangUp(r)
  BY <1>2, HandleInv DEF limiterVars, limiter
<1>5. \E q \in Addresses : Allow(q)
  BY <1>3, <1>4 DEF Next, ChallengeStart, LoginStart
<1> QED
  BY <1>1, <1>5

(* An address that exceeded the limit is let through again only when its   *)
(* block is over: neither a new window nor the cleanup forgets it before.  *)
THEOREM BlocksServed == Spec => BlockServed
<1>1. AccountsInv /\ [Next]_vars
        => [\A ip \in Addresses :
              admitted'[ip] # admitted[ip] /\ overAt[ip] # 0 => now >= overAt[ip] + Block]_limiterVars
  BY AdmissionServed
<1> QED
  BY <1>1, Invariance, PTL DEF Spec, BlockServed

-----------------------------------------------------------------------------
(* Two windows to a stretch.  A counts what an address was let through up  *)
(* to each instant, n is now and s its state: what a window lets through   *)
(* lies between its start and its end, a stretch that ends before the      *)
(* window meets at most one window before it, and a forgotten window is    *)
(* one nobody in reach of a stretch that is still open was let through in  *)
(* after its end.                                                          *)
Counting == [0 .. MaxTime -> Nat]

Grown(A, n) == /\ \A t, u \in 0 .. MaxTime : t <= u => A[t] <= A[u]
               /\ \A t \in n .. MaxTime : A[t] = A[n]

OpenWindow(A, n, s) ==
  LET f == s.first IN
  /\ f \in 1 .. n
  /\ s.until # 0 => f + Window <= s.until
  /\ A[n] - A[f - 1] <= s.attempts
  /\ A[n] - A[f - 1] <= Limit
  /\ \A a \in 1 .. f : f < a + Window => A[f - 1] - A[a - 1] <= Limit
  /\ f + Window <= n => A[n] = A[f + Window - 1]

NoWindow(A, n, s) ==
  /\ s.until = 0
  /\ A[n] = A[n - 1]
  /\ \A a \in 1 .. n : n < a + Window => A[n] - A[a - 1] <= Limit

Stretches(A) == \A t \in Times : t + Window - 1 <= MaxTime => A[t + Window - 1] - A[t - 1] <= 2 * Limit

Counts(A, n, s) == /\ Grown(A, n) /\ Stretches(A)
                   /\ IF s.first # 0 THEN OpenWindow(A, n, s) ELSE NoWindow(A, n, s)

(* One more at n. *)
OneMore(A, B, n) == \A t \in 0 .. MaxTime : B[t] = IF n <= t THEN A[t] + 1 ELSE A[t]

LEMMA OneMoreGrown ==
  ASSUME NEW A \in Counting, NEW B \in Counting, NEW n \in Times, OneMore(A, B, n), Grown(A, n)
  PROVE  Grown(B, n)
<1> USE MaxTimeAssumption DEF Counting, OneMore, Grown, Times
<1>1. ASSUME NEW t \in 0 .. MaxTime, NEW u \in 0 .. MaxTime, t <= u PROVE B[t] <= B[u]
  BY <1>1
<1>2. ASSUME NEW t \in n .. MaxTime PROVE B[t] = B[n]
  BY <1>2
<1> QED
  BY <1>1, <1>2

(* A stretch stays within two windows when what n ends does. *)
LEMMA OneMoreStretches ==
  ASSUME NEW A \in Counting, NEW B \in Counting, NEW n \in Times, OneMore(A, B, n), Grown(A, n),
         Stretches(A),
         \A a \in 1 .. n : n < a + Window => B[n] - B[a - 1] <= 2 * Limit
  PROVE  Stretches(B)
<1> USE MaxTimeAssumption, DurationAssumption, LimitAssumption DEF Counting, OneMore, Times
<1> SUFFICES ASSUME NEW t \in Times, t + Window - 1 <= MaxTime
             PROVE  B[t + Window - 1] - B[t - 1] <= 2 * Limit
  BY DEF Stretches
<1> DEFINE e == t + Window - 1
<1>1. e \in Times /\ t <= e /\ t - 1 \in 0 .. MaxTime /\ n \in 0 .. MaxTime
  OBVIOUS
<1>2. A[e] - A[t - 1] <= 2 * Limit
  BY DEF Stretches
<1>3. CASE e < n \/ n < t
  <2>1. A[e] \in Nat /\ A[t - 1] \in Nat
    BY <1>1
  <2>2. CASE e < n
    <3>1. B[e] = A[e] /\ B[t - 1] = A[t - 1]
      BY <1>1, <2>2
    <3> QED
      BY <1>2, <3>1
  <2>3. CASE n < t
    <3>1. B[e] = A[e] + 1 /\ B[t - 1] = A[t - 1] + 1
      BY <1>1, <2>3
    <3> QED
      BY <1>2, <2>1, <3>1
  <2> QED
    BY <1>3, <2>2, <2>3
<1>4. CASE t <= n /\ n <= e
  <2>1. B[e] = B[n]
    BY <1>1, <1>4 DEF Grown
  <2>2. B[n] - B[t - 1] <= 2 * Limit
    BY <1>4
  <2> QED
    BY <2>1, <2>2
<1> QED
  BY <1>1, <1>3, <1>4

LEMMA InWindowCounts ==
  ASSUME NEW A \in Counting, NEW B \in Counting, NEW n \in Times, OneMore(A, B, n),
         NEW s \in State, NEW u \in State, Counts(A, n, s),
         s.first # 0, n < s.first + Window, s.attempts < Limit,
         u.first = s.first, u.until = s.until, u.attempts = s.attempts + 1
  PROVE  Counts(B, n, u)
<1> USE MaxTimeAssumption, DurationAssumption, LimitAssumption
<1> DEFINE f == s.first
<1>1. Grown(A, n) /\ Stretches(A) /\ OpenWindow(A, n, s) /\ s.attempts \in Nat
  BY DEF Counts, State
<1>2. f \in 1 .. n /\ n \in 1 .. MaxTime /\ f - 1 \in 0 .. n - 1
  BY <1>1 DEF OpenWindow, Times
<1>3. B[n] = A[n] + 1 /\ B[f - 1] = A[f - 1] /\ A[n] \in Nat /\ A[f - 1] \in Nat
  <2>1. f - 1 \in 0 .. MaxTime /\ ~(n <= f - 1) /\ n \in 0 .. MaxTime /\ n <= n
    BY <1>2
  <2> QED
    BY <2>1 DEF OneMore, Counting
<1>4. \A a \in 1 .. n : B[a - 1] = A[a - 1] /\ A[a - 1] \in Nat
  <2> SUFFICES ASSUME NEW a \in 1 .. n PROVE B[a - 1] = A[a - 1] /\ A[a - 1] \in Nat
    OBVIOUS
  <2>1. a - 1 \in 0 .. MaxTime /\ ~(n <= a - 1)
    BY <1>2
  <2> QED
    BY <2>1 DEF OneMore, Counting
<1>5. A[n] - A[f - 1] <= s.attempts
  BY <1>1 DEF OpenWindow
<1>6. OpenWindow(B, n, u)
  <2>1. \A a \in 1 .. f : f < a + Window => B[f - 1] - B[a - 1] <= Limit
    <3> SUFFICES ASSUME NEW a \in 1 .. f, f < a + Window PROVE B[f - 1] - B[a - 1] <= Limit
      OBVIOUS
    <3>1. A[f - 1] - A[a - 1] <= Limit
      BY <1>1 DEF OpenWindow
    <3>2. a \in 1 .. n
      BY <1>2
    <3> QED
      BY <1>3, <1>4, <3>1, <3>2
  <2>2. B[n] - B[f - 1] <= s.attempts + 1 /\ B[n] - B[f - 1] <= Limit
    BY <1>1, <1>3, <1>5
  <2>3. u.until # 0 => f + Window <= u.until
    BY <1>1 DEF OpenWindow
  <2>4. ~(f + Window <= n)
    BY <1>2
  <2> QED
    BY <1>2, <2>1, <2>2, <2>3, <2>4 DEF OpenWindow
<1>7. \A a \in 1 .. n : n < a + Window => B[n] - B[a - 1] <= 2 * Limit
  <2> SUFFICES ASSUME NEW a \in 1 .. n, n < a + Window PROVE B[n] - B[a - 1] <= 2 * Limit
    OBVIOUS
  <2>1. CASE f <= a
    <3>1. A[f - 1] <= A[a - 1]
      BY <1>1, <1>2, <2>1 DEF Grown
    <3> QED
      BY <1>1, <1>3, <1>4, <1>5, <3>1
  <2>2. CASE a < f
    <3>1. f < a + Window /\ a \in 1 .. f
      BY <1>2, <2>2
    <3>2. A[f - 1] - A[a - 1] <= Limit
      BY <1>1, <3>1 DEF OpenWindow
    <3> QED
      BY <1>1, <1>3, <1>4, <1>5, <3>2
  <2> QED
    BY <1>2, <2>1, <2>2
<1> QED
  BY <1>1, <1>6, <1>7, OneMoreGrown, OneMoreStretches DEF Counts

LEMMA NewWindowCounts ==
  ASSUME NEW A \in Counting, NEW B \in Counting, NEW n \in Times, OneMore(A, B, n),
         NEW s \in State, NEW u \in State, Counts(A, n, s),
         s.first = 0 \/ s.first + Window <= n,
         u.first = n, u.until = 0, u.attempts = 1
  PROVE  Counts(B, n, u)
<1> USE MaxTimeAssumption, DurationAssumption, LimitAssumption
<1>1. Grown(A, n) /\ Stretches(A) /\ n \in 1 .. MaxTime /\ s.first \in Nat
  BY DEF Counts, State, Times
<1>2. B[n] = A[n] + 1 /\ B[n - 1] = A[n - 1] /\ A[n] \in Nat /\ A[n - 1] \in Nat
  BY <1>1 DEF OneMore, Counting
<1>3. \A a \in 1 .. n : B[a - 1] = A[a - 1] /\ A[a - 1] \in Nat
  BY <1>1 DEF OneMore, Counting
<1>4. A[n] = A[n - 1] /\ \A a \in 1 .. n : n < a + Window => A[n] - A[a - 1] <= Limit
  <2>1. CASE s.first = 0
    BY <2>1 DEF Counts, NoWindow
  <2>2. CASE s.first # 0 /\ s.first + Window <= n
    <3> DEFINE f == s.first
    <3>1. OpenWindow(A, n, s) /\ f \in 1 .. n /\ f + Window - 1 \in 0 .. n - 1
      BY <1>1, <2>2 DEF Counts, OpenWindow
    <3>2. A[n] = A[f + Window - 1] /\ A[n] - A[f - 1] <= Limit
      BY <2>2, <3>1 DEF OpenWindow
    <3>3. A[f + Window - 1] <= A[n - 1] /\ A[n - 1] <= A[n]
      BY <1>1, <3>1 DEF Grown
    <3>4. A[n] = A[n - 1]
      BY <1>2, <3>2, <3>3
    <3>5. ASSUME NEW a \in 1 .. n, n < a + Window PROVE A[n] - A[a - 1] <= Limit
      <4>1. f - 1 <= a - 1 /\ f - 1 \in 0 .. MaxTime /\ a - 1 \in 0 .. MaxTime
        BY <1>1, <2>2, <3>1, <3>5
      <4>2. A[f - 1] <= A[a - 1] /\ A[f - 1] \in Nat
        BY <1>1, <4>1 DEF Grown, Counting
      <4> QED
        BY <1>2, <1>3, <3>2, <4>2
    <3> QED
      BY <3>4, <3>5
  <2> QED
    BY <2>1, <2>2
<1>5. OpenWindow(B, n, u)
  <2>1. \A a \in 1 .. n : n < a + Window => B[n - 1] - B[a - 1] <= Limit
    BY <1>2, <1>3, <1>4
  <2>2. B[n] - B[n - 1] <= 1 /\ 1 <= Limit
    BY <1>2, <1>4
  <2> QED
    BY <1>1, <1>2, <2>1, <2>2 DEF OpenWindow
<1>6. \A a \in 1 .. n : n < a + Window => B[n] - B[a - 1] <= 2 * Limit
  BY <1>2, <1>3, <1>4
<1> QED
  BY <1>1, <1>5, <1>6, OneMoreGrown, OneMoreStretches DEF Counts

LEMMA ExceedCounts ==
  ASSUME NEW A \in Counting, NEW n \in Times, NEW s \in State, NEW u \in State, Counts(A, n, s),
         s.first # 0, u.first = s.first, u.until = n + Block, u.attempts = s.attempts + 1
  PROVE  Counts(A, n, u)
<1>1. Grown(A, n) /\ Stretches(A) /\ OpenWindow(A, n, s) /\ s.attempts \in Nat
  BY DEF Counts, State
<1>2. s.first \in 1 .. n /\ n \in Nat /\ A[n] \in Nat /\ A[s.first - 1] \in Nat
  BY <1>1, MaxTimeAssumption DEF OpenWindow, Times, Counting
<1>3. s.first + Window <= n + Block /\ A[n] - A[s.first - 1] <= s.attempts + 1
  BY <1>1, <1>2, DurationAssumption, BlockAssumption DEF OpenWindow
<1> QED
  BY <1>1, <1>3 DEF Counts, OpenWindow

LEMMA ForgottenCounts ==
  ASSUME NEW A \in Counting, NEW n \in Times, NEW s \in State, Counts(A, n, s),
         s.first # 0, s.first + Window < n
  PROVE  Counts(A, n, NoState)
<1> USE MaxTimeAssumption, DurationAssumption, LimitAssumption
<1> DEFINE f == s.first
<1>1. Grown(A, n) /\ Stretches(A) /\ OpenWindow(A, n, s) /\ n \in 1 .. MaxTime
  BY DEF Counts, Times
<1>2. f \in 1 .. n /\ f + Window - 1 \in 0 .. n - 1 /\ f - 1 \in 0 .. MaxTime
      /\ f + Window - 1 \in 0 .. MaxTime /\ n - 1 \in 0 .. MaxTime /\ n \in 0 .. MaxTime
  BY <1>1 DEF OpenWindow
<1>3. A[n] = A[f + Window - 1] /\ A[n] - A[f - 1] <= Limit /\ A[n] \in Nat /\ A[f - 1] \in Nat
  <2>1. A[n] = A[f + Window - 1] /\ A[n] - A[f - 1] <= Limit
    BY <1>1 DEF OpenWindow
  <2>2. A[n] \in Nat /\ A[f - 1] \in Nat
    BY <1>2 DEF Counting
  <2> QED
    BY <2>1, <2>2
<1>4. A[f + Window - 1] <= A[n - 1] /\ A[n - 1] <= A[n] /\ A[n - 1] \in Nat
  <2>1. f + Window - 1 <= n - 1 /\ n - 1 <= n
    BY <1>1, <1>2
  <2>2. A[f + Window - 1] <= A[n - 1] /\ A[n - 1] <= A[n]
    BY <1>1, <1>2, <2>1 DEF Grown
  <2> QED
    BY <1>2, <2>2 DEF Counting
<1>5. ASSUME NEW a \in 1 .. n, n < a + Window PROVE A[n] - A[a - 1] <= Limit
  <2>1. f - 1 <= a - 1 /\ a - 1 \in 0 .. MaxTime
    BY <1>1, <1>2, <1>5
  <2>2. A[f - 1] <= A[a - 1] /\ A[a - 1] \in Nat
    BY <1>1, <1>2, <2>1 DEF Grown, Counting
  <2> QED
    BY <1>3, <2>2
<1> QED
  BY <1>1, <1>3, <1>4, <1>5 DEF Counts, NoWindow, NoState

LEMMA TickCounts ==
  ASSUME NEW A \in Counting, NEW n \in Times, n + 1 \in Times, NEW s \in State, Counts(A, n, s)
  PROVE  Counts(A, n + 1, s)
<1> USE MaxTimeAssumption, DurationAssumption, LimitAssumption
<1>1. Grown(A, n) /\ Stretches(A) /\ n \in 1 .. MaxTime /\ n + 1 \in 1 .. MaxTime
  BY DEF Counts, Times
<1>2. A[n + 1] = A[n] /\ Grown(A, n + 1)
  BY <1>1 DEF Grown
<1>3. CASE s.first # 0
  <2>1. OpenWindow(A, n, s) /\ s.first \in 1 .. n /\ s.first \in 1 .. n + 1
    BY <1>1, <1>3 DEF Counts, OpenWindow
  <2>2. s.first + Window <= n + 1 => A[n + 1] = A[s.first + Window - 1]
    <3>1. CASE s.first + Window <= n
      BY <1>2, <2>1, <3>1 DEF OpenWindow
    <3>2. CASE s.first + Window = n + 1
      <4>1. s.first + Window - 1 = n
        BY <1>1, <2>1, <3>2
      <4> QED
        BY <1>2, <4>1
    <3> QED
      BY <1>1, <2>1, <3>1, <3>2
  <2> QED
    BY <1>1, <1>2, <1>3, <2>1, <2>2 DEF Counts, OpenWindow
<1>4. CASE s.first = 0
  <2>1. NoWindow(A, n, s)
    BY <1>4 DEF Counts
  <2>2. A[n + 1] = A[n + 1 - 1]
    BY <1>1, <1>2
  <2>3. ASSUME NEW a \in 1 .. n + 1, n + 1 < a + Window PROVE A[n + 1] - A[a - 1] <= Limit
    <3>1. CASE a \in 1 .. n
      BY <1>1, <1>2, <2>1, <2>3, <3>1 DEF NoWindow
    <3>2. CASE a = n + 1
      BY <1>1, <1>2, <3>2 DEF Counting
    <3> QED
      BY <1>1, <2>3, <3>1, <3>2
  <2> QED
    BY <1>1, <1>2, <1>4, <2>1, <2>2, <2>3 DEF Counts, NoWindow
<1> QED
  BY <1>3, <1>4

(* The same of every address, step by step. *)
WindowsCounted == \A ip \in Addresses : Counts(admitted[ip], now, ipState[ip])

LEMMA CountingTypes ==
  ASSUME LimiterInv, NEW ip \in Addresses
  PROVE  admitted[ip] \in Counting /\ ipState[ip] \in State /\ now \in Times
  BY DEF LimiterInv, LimiterTypeOK, Counting

LEMMA WindowsStart == LimiterInit => WindowsCounted
<1> SUFFICES ASSUME LimiterInit, NEW ip \in Addresses
             PROVE  Counts(admitted[ip], now, ipState[ip])
  BY DEF WindowsCounted
<1>1. now = 1 /\ ipState[ip] = NoState
  BY DEF LimiterInit
<1>2. \A t \in 0 .. MaxTime : admitted[ip][t] = 0
  BY DEF LimiterInit
<1> DEFINE A == admitted[ip]
<1> HIDE DEF A
<1> USE MaxTimeAssumption, DurationAssumption, LimitAssumption
<1>3. Grown(A, 1)
  BY <1>2 DEF Grown, A
<1>4. Stretches(A)
  BY <1>2 DEF Stretches, A, Times
<1>5. NoWindow(A, 1, NoState)
  BY <1>2 DEF NoWindow, NoState, A
<1> QED
  BY <1>1, <1>3, <1>4, <1>5 DEF Counts, NoState, A

(* A state that is reset is one whose window is over. *)
LEMMA ResetOver ==
  ASSUME LimiterInv, NEW ip \in Addresses, Counts(admitted[ip], now, ipState[ip])
  PROVE  \/ Current(ip) = ipState[ip]
         \/ Current(ip) = NoState /\ ipState[ip].first + Window <= now
<1>1. ipState[ip] \in State /\ now \in Nat
  BY CountingTypes DEF Times
<1>2. ASSUME ipState[ip].until # 0 PROVE ipState[ip].first + Window <= ipState[ip].until
  BY <1>2 DEF Counts, OpenWindow, NoWindow
<1> QED
  BY <1>1, <1>2, DurationAssumption DEF Current, State

LEMMA AllowCounts ==
  ASSUME LimiterInv, WindowsCounted, NEW ip \in Addresses, Allow(ip)
  PROVE  WindowsCounted'
<1> SUFFICES ASSUME NEW q \in Addresses PROVE Counts(admitted'[q], now', ipState'[q])
  BY DEF WindowsCounted
<1>0. LimiterInv' /\ now' = now /\ Admit(ip)
  BY AllowInv DEF Allow, AllowInWindow, AllowNewWindow
<1>1. /\ admitted[q] \in Counting /\ ipState[q] \in State /\ now \in Times
      /\ admitted'[q] \in Counting /\ ipState'[q] \in State
  BY <1>0, CountingTypes DEF LimiterInv, LimiterTypeOK, Counting
<1>2. Counts(admitted[q], now, ipState[q])
  BY DEF WindowsCounted
<1>3. CASE q # ip
  <2>1. admitted'[q] = admitted[q] /\ ipState'[q] = ipState[q]
    BY <1>3, AllowInv DEF Allow, AllowInWindow, AllowNewWindow, LimiterInv, LimiterTypeOK
  <2> QED
    BY <1>0, <1>2, <2>1
<1>4. CASE q = ip
  <2>1. OneMore(admitted[q], admitted'[q], now)
    BY <1>0, <1>4, AdmitTypes DEF OneMore
  <2>2. CASE AllowInWindow(ip)
    <3>1. InWindow(Current(ip)) /\ Current(ip).attempts < Limit
          /\ ipState' = [ipState EXCEPT ![ip] = [Current(ip) EXCEPT !.attempts = @ + 1]]
      BY <2>2 DEF AllowInWindow
    <3>2. Current(ip) = ipState[ip]
      BY <1>2, <1>4, <3>1, ResetOver DEF InWindow, NoState
    <3>3. /\ ipState[ip].first # 0 /\ now < ipState[ip].first + Window
          /\ ipState[ip].attempts < Limit
      BY <3>1, <3>2 DEF InWindow
    <3>4. /\ ipState'[ip].first = ipState[ip].first /\ ipState'[ip].until = ipState[ip].until
          /\ ipState'[ip].attempts = ipState[ip].attempts + 1
      BY <1>1, <1>4, <3>1, <3>2 DEF LimiterInv, LimiterTypeOK, State
    <3> QED
      BY <1>0, <1>1, <1>2, <1>4, <2>1, <3>3, <3>4, InWindowCounts
  <2>3. CASE AllowNewWindow(ip)
    <3>1. ~InWindow(Current(ip))
          /\ ipState' = [ipState EXCEPT ![ip] = [attempts |-> 1, first |-> now, until |-> 0]]
      BY <2>3 DEF AllowNewWindow
    <3>2. ipState[ip].first = 0 \/ ipState[ip].first + Window <= now
      <4>1. ipState[ip].first \in Nat /\ now \in Nat
        BY <1>1, <1>4, MaxTimeAssumption DEF State, Times
      <4>2. CASE Current(ip) = ipState[ip]
        BY <3>1, <4>1, <4>2, DurationAssumption DEF InWindow
      <4> QED
        BY <1>2, <1>4, <4>2, ResetOver
    <3>3. ipState'[ip].first = now /\ ipState'[ip].until = 0 /\ ipState'[ip].attempts = 1
      BY <3>1 DEF LimiterInv, LimiterTypeOK
    <3> QED
      BY <1>0, <1>1, <1>2, <1>4, <2>1, <3>2, <3>3, NewWindowCounts
  <2> QED
    BY <2>2, <2>3 DEF Allow
<1> QED
  BY <1>3, <1>4

LEMMA OtherCounts ==
  ASSUME LimiterInv, WindowsCounted,
         (\E ip \in Addresses : Exceed(ip)) \/ Cleanup \/ Tick \/ UNCHANGED limiterVars
  PROVE  WindowsCounted'
<1> SUFFICES ASSUME NEW q \in Addresses PROVE Counts(admitted'[q], now', ipState'[q])
  BY DEF WindowsCounted
<1>1. admitted[q] \in Counting /\ ipState[q] \in State /\ now \in Times
  BY CountingTypes
<1>2. Counts(admitted[q], now, ipState[q])
  BY DEF WindowsCounted
<1>3. ASSUME NEW ip \in Addresses, Exceed(ip) PROVE Counts(admitted'[q], now', ipState'[q])
  <2>1. UNCHANGED <<now, admitted>> /\ LimiterInv'
    BY <1>3, ExceedInv
  <2>2. CASE q # ip
    <3>1. ipState'[q] = ipState[q]
      BY <1>3, <2>2 DEF Exceed, LimiterInv, LimiterTypeOK
    <3> QED
      BY <1>2, <2>1, <3>1
  <2>3. CASE q = ip
    <3>1. /\ InWindow(Current(ip))
          /\ ipState' = [ipState EXCEPT ![ip] =
                           [Current(ip) EXCEPT !.attempts = @ + 1, !.until = now + Block]]
      BY <1>3 DEF Exceed
    <3>2. Current(ip) = ipState[ip] /\ ipState[ip].first # 0
      BY <1>2, <2>3, <3>1, ResetOver DEF InWindow, NoState
    <3>3. /\ ipState'[ip].first = ipState[ip].first /\ ipState'[ip].until = now + Block
          /\ ipState'[ip].attempts = ipState[ip].attempts + 1
      BY <1>1, <2>3, <3>1, <3>2 DEF LimiterInv, LimiterTypeOK, State
    <3>4. ipState'[ip] \in State
      BY <2>1 DEF LimiterInv, LimiterTypeOK
    <3> QED
      BY <1>1, <1>2, <2>1, <2>3, <3>2, <3>3, <3>4, ExceedCounts
  <2> QED
    BY <2>2, <2>3
<1>4. CASE Cleanup
  <2>1. /\ UNCHANGED <<now, admitted>>
        /\ ipState'[q] = IF Stale(q) THEN NoState ELSE ipState[q]
    BY <1>4 DEF Cleanup
  <2>2. CASE Stale(q)
    <3>1. ipState[q].first # 0 /\ ipState[q].first + Window < now
      BY <1>1, <2>2, MaxTimeAssumption, DurationAssumption DEF Stale, State, Times
    <3> QED
      BY <1>1, <1>2, <2>1, <2>2, <3>1, ForgottenCounts
  <2> QED
    BY <1>2, <2>1, <2>2
<1>5. CASE Tick
  <2>1. now' = now + 1 /\ now + 1 \in Times /\ UNCHANGED <<admitted, ipState>>
    BY <1>1, <1>5, MaxTimeAssumption DEF Tick, limiter, Times
  <2> QED
    BY <1>1, <1>2, <2>1, TickCounts
<1>6. CASE UNCHANGED limiterVars
  BY <1>2, <1>6 DEF limiterVars, limiter
<1> QED
  BY <1>3, <1>4, <1>5, <1>6

(* No stretch of a window's length sees more than two windows, so at most  *)
(* twice the limit, for any limit and durations with a block no shorter    *)
(* than a window.                                                          *)
THEOREM TwoWindows == Spec => []AdmittedPerWindow
<1>1. Init => WindowsCounted
  BY WindowsStart DEF Init
<1>2. AccountsInv /\ WindowsCounted /\ [Next]_vars => WindowsCounted'
  <2> SUFFICES ASSUME AccountsInv, WindowsCounted, [Next]_vars PROVE WindowsCounted'
    OBVIOUS
  <2>1. LimiterInv
    BY DEF AccountsInv
  <2>2. CASE UNCHANGED limiterVars
    BY <2>1, <2>2, OtherCounts
  <2>3. CASE Limiter
    BY <2>1, <2>2, <2>3, OtherCounts DEF Limiter, Refuse
  <2>4. ASSUME NEW ip \in Addresses, Allow(ip) PROVE WindowsCounted'
    BY <2>1, <2>4, AllowCounts
  <2> QED
    BY <2>2, <2>3, <2>4, HandleInv DEF Next, ChallengeStart, LoginStart, vars
<1>3. WindowsCounted => AdmittedPerWindow
  BY DEF WindowsCounted, Counts, Stretches, AdmittedPerWindow, AdmittedIn
<1> QED
  BY <1>1, <1>2, <1>3, Invariance, PTL DEF Spec
=============================================================================
