---------------------------- MODULE RateLimiter ----------------------------
(***************************************************************************)
(* The per-address rate limiter in front of the two login endpoints: one   *)
(* state per address behind a mutex, so that every call of Allow and every *)
(* run of the cleanup worker is one step.  A window opens with the first   *)
(* admitted request; the request that exceeds the limit starts a block.    *)
(***************************************************************************)
EXTENDS Naturals

CONSTANTS Addresses,   \* client addresses
          Limit,       \* requestsPerWindow
          Window,      \* windowDuration, in clock units
          Block,       \* blockDuration, in clock units
          MaxTime      \* bound on the clock

ASSUME LimitAssumption == Limit \in Nat \ {0}
ASSUME DurationAssumption == Window \in Nat \ {0} /\ Block \in Nat \ {0}
ASSUME BlockAssumption == Window <= Block    \* both are fifteen minutes
ASSUME MaxTimeAssumption == MaxTime \in Nat \ {0}

Times == 1 .. MaxTime

VARIABLES now,         \* the clock; 0 stands for the zero time
          ipState,     \* ipState[ip]: attempts, firstAttempt, blockedUntil; all 0 when absent
          admitted,    \* ghost: admitted[ip][t] requests were let through up to t
          overAt       \* ghost: when ip last exceeded the limit, 0 if never

limiter == <<ipState, admitted, overAt>>
limiterVars == <<now, limiter>>

State == [attempts : Nat, first : 0 .. MaxTime, until : Nat]
NoState == [attempts |-> 0, first |-> 0, until |-> 0]

Blocked(ip) == now < ipState[ip].until

(* Allow resets the state when a block has run out, strictly. *)
Current(ip) == IF ipState[ip].until # 0 /\ now > ipState[ip].until THEN NoState ELSE ipState[ip]

InWindow(s) == s.first # 0 /\ now < s.first + Window

Admit(ip) == /\ admitted' = [admitted EXCEPT ![ip] =
                    [t \in 0 .. MaxTime |-> IF now <= t THEN @[t] + 1 ELSE @[t]]]
             /\ UNCHANGED <<now, overAt>>

(* Faulty variant: the window slides with every request. *)
AllowInWindow_Slides(ip) ==
  LET s == Current(ip)
  IN  /\ ~Blocked(ip) /\ InWindow(s)
      /\ s.attempts < Limit
      /\ ipState' = [ipState EXCEPT ![ip] = [s EXCEPT !.attempts = 1, !.first = now]]
      /\ Admit(ip)

AllowInWindow(ip) ==
  LET s == Current(ip)
  IN  /\ ~Blocked(ip) /\ InWindow(s)
      /\ s.attempts < Limit
      /\ ipState' = [ipState EXCEPT ![ip] = [s EXCEPT !.attempts = @ + 1]]
      /\ Admit(ip)

AllowNewWindow(ip) ==
  /\ ~Blocked(ip) /\ ~InWindow(Current(ip))
  /\ ipState' = [ipState EXCEPT ![ip] = [attempts |-> 1, first |-> now, until |-> 0]]
  /\ Admit(ip)

Allow(ip) == AllowInWindow(ip) \/ AllowNewWindow(ip)

(* One request too many: the block starts. *)
Exceed(ip) ==
  LET s == Current(ip)
  IN  /\ ~Blocked(ip) /\ InWindow(s)
      /\ s.attempts >= Limit
      /\ ipState' = [ipState EXCEPT ![ip] = [s EXCEPT !.attempts = @ + 1, !.until = now + Block]]
      /\ overAt' = [overAt EXCEPT ![ip] = now]
      /\ UNCHANGED <<now, admitted>>

Refuse(ip) == Blocked(ip) /\ UNCHANGED limiterVars

(* Faulty variant: only the window is looked at. *)
Stale_WindowOnly(ip) == ipState[ip].first # 0 /\ now > ipState[ip].first + Window

(* Not blocked, or no longer, and the window is over. *)
Stale(ip) == /\ ipState[ip].until = 0 \/ now > ipState[ip].until
             /\ ipState[ip].first # 0 /\ now > ipState[ip].first + Window

Cleanup == /\ ipState' = [ip \in Addresses |-> IF Stale(ip) THEN NoState ELSE ipState[ip]]
           /\ UNCHANGED <<now, admitted, overAt>>

Tick == /\ now < MaxTime
        /\ now' = now + 1
        /\ UNCHANGED limiter

LimiterInit == /\ now = 1
               /\ ipState = [ip \in Addresses |-> NoState]
               /\ admitted = [ip \in Addresses |-> [t \in 0 .. MaxTime |-> 0]]
               /\ overAt = [ip \in Addresses |-> 0]

LimiterNext == \/ \E ip \in Addresses : Allow(ip) \/ Exceed(ip) \/ Refuse(ip)
               \/ Cleanup
               \/ Tick

LimiterSpec == LimiterInit /\ [][LimiterNext]_limiterVars
-----------------------------------------------------------------------------
LimiterTypeOK ==
  /\ now \in Times
  /\ ipState \in [Addresses -> State]
  /\ admitted \in [Addresses -> [0 .. MaxTime -> Nat]]
  /\ overAt \in [Addresses -> 0 .. MaxTime]

AdmittedIn(ip, a, b) == admitted[ip][b] - admitted[ip][a - 1]

(* NewRateLimiter, "20 requests per 15 minutes per IP": windows follow one *)
(* another, so any stretch of one window's length meets at most two of     *)
(* them and sees at most twice the limit, whatever blocks and cleanups     *)
(* come in between.                                                        *)
AdmittedPerWindow ==
  \A ip \in Addresses, t \in Times :
    t + Window - 1 <= MaxTime => AdmittedIn(ip, t, t + Window - 1) <= 2 * Limit

(* "15-minute block duration when limit exceeded": an address that went    *)
(* over the limit is let through again only when the whole block has       *)
(* passed, the cleanup worker forgetting states in between.                *)
BlockServed ==
  [][\A ip \in Addresses :
       admitted'[ip] # admitted[ip] /\ overAt[ip] # 0 => now >= overAt[ip] + Block]_limiterVars
=============================================================================
