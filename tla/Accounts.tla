------------------------------ MODULE Accounts ------------------------------
(***************************************************************************)
(* Logging in: challenges, the error count with its lockout, and tokens.   *)
(* The server has one user (EnsureUser at boot).  A request passes the     *)
(* rate limiter and then runs one statement after the other, other         *)
(* requests in between.  A client may hang up at any time: the context of  *)
(* its request is cancelled and its next statement fails.                  *)
(***************************************************************************)
EXTENDS RateLimiter

CONSTANTS Requests,      \* requests in progress at the same time
          MaxCodes,      \* bound on the codes ever drawn
          MaxErrors,     \* errors that lock the account
          ChallengeTtl,  \* age at which a challenge is still accepted
          LockTime       \* duration of the lock

ASSUME MaxErrorsAssumption == MaxErrors \in Nat \ {0}
ASSUME TtlAssumption == ChallengeTtl \in Nat /\ LockTime \in Nat
ASSUME MaxCodesAssumption == MaxCodes \in Nat

Codes == 1 .. MaxCodes

VARIABLES challenge,     \* challenge[t]: the code of the row with timestamp t, 0 when there is none
          nextCode,      \* codes are random: the next one drawn
          errors,        \* users.error_count
          lockedUntil,   \* users.locked_until, 0 for NULL
          tokens,        \* auth_tokens, each with the code it was given for
          req            \* req[r]: where request r stands
VARIABLES handed,        \* handed[c]: the timestamp code c was sent to a device with, 0 before
          answered,      \* ghost: codes some login was answered with a token for
          limit          \* ghost: what became of the last time the error limit was reached

accounts == <<challenge, nextCode, errors, lockedUntil, tokens>>
ghosts == <<handed, answered, limit>>
vars == <<limiterVars, accounts, req, ghosts>>

Asking == {"purge", "insert"}
Verifying == {"user", "lookup", "count", "recheck", "lock", "reset", "token", "spend"}

Request == [pc : {"idle", "retrying"} \cup Asking \cup Verifying, at : 0 .. MaxTime,
            code : Codes \cup {0}, until : Nat, replay : BOOLEAN]
NoRequest == [pc |-> "idle", at |-> 0, code |-> 0, until |-> 0, replay |-> FALSE]

Goto(r, step) == req' = [req EXCEPT ![r].pc = step]
Done(r) == req' = [req EXCEPT ![r] = NoRequest]
At(r, step) == req[r].pc = step
-----------------------------------------------------------------------------
(* GenerateChallenge: a random code is drawn; the timestamp is the second, *)
(* and whatever challenge has it already is deleted first.                 *)

ChallengeStart(r, ip) ==
  /\ req[r].pc = "idle"
  /\ nextCode \in Codes
  /\ Allow(ip)
  /\ req' = [req EXCEPT ![r] = [pc |-> "purge", at |-> 0, code |-> nextCode,
                                until |-> 0, replay |-> FALSE]]
  /\ nextCode' = nextCode + 1
  /\ UNCHANGED <<challenge, errors, lockedUntil, tokens, ghosts>>

DeleteChallenge(r) ==
  /\ At(r, "purge")
  /\ challenge' = [challenge EXCEPT ![now] = 0]
  /\ req' = [req EXCEPT ![r].pc = "insert", ![r].at = now]
  /\ UNCHANGED <<limiterVars, nextCode, errors, lockedUntil, tokens, ghosts>>

(* The insert fails when another request has inserted the same second      *)
(* since the delete; the loop then starts over.                            *)
CreateChallenge(r) ==
  /\ At(r, "insert")
  /\ \/ /\ challenge[req[r].at] = 0
        /\ challenge' = [challenge EXCEPT ![req[r].at] = req[r].code]
        /\ handed' = [handed EXCEPT ![req[r].code] = req[r].at]
        /\ Done(r)
     \/ /\ challenge[req[r].at] # 0
        /\ Goto(r, "purge")
        /\ UNCHANGED <<challenge, handed>>
  /\ UNCHANGED <<limiterVars, nextCode, errors, lockedUntil, tokens, answered, limit>>

(* Under a cancelled context both statements fail, and the loop retries    *)
(* after every error: it goes round for ever and changes nothing.          *)
AskCancelled(r) ==
  /\ req[r].pc \in Asking
  /\ Goto(r, "retrying")
  /\ UNCHANGED <<limiterVars, accounts, ghosts>>
-----------------------------------------------------------------------------
(* VerifyLogin. *)

(* An answer to challenge c, with the password (code c) or not (code 0). *)
LoginStart(r, ip, c) ==
  /\ req[r].pc = "idle"
  /\ handed[c] # 0
  /\ Allow(ip)
  /\ \E answer \in {c, 0} :
       req' = [req EXCEPT ![r] = [pc |-> "user", at |-> handed[c], code |-> answer,
                                  until |-> 0, replay |-> c \in answered]]
  /\ UNCHANGED <<accounts, ghosts>>

CheckLocked(r) ==
  /\ At(r, "user")
  /\ IF now < lockedUntil THEN Done(r) ELSE Goto(r, "lookup")
  /\ UNCHANGED <<limiterVars, accounts, ghosts>>

(* A missing or old challenge refuses the login; then the answer is        *)
(* compared with the code the row has now.                                 *)
GetChallenge(r) ==
  /\ At(r, "lookup")
  /\ LET row == challenge[req[r].at]
     IN  IF row = 0 \/ now > req[r].at + ChallengeTtl THEN Done(r)
         ELSE Goto(r, IF row = req[r].code THEN "reset" ELSE "count")
  /\ UNCHANGED <<limiterVars, accounts, ghosts>>

IncrementErrorCount(r) ==
  /\ At(r, "count")
  /\ errors' = errors + 1
  /\ limit' = IF errors + 1 = MaxErrors THEN "reached" ELSE limit
  /\ Goto(r, "recheck")
  /\ UNCHANGED <<limiterVars, challenge, nextCode, lockedUntil, tokens, handed, answered>>

(* Faulty variant: only the error that reaches the limit exactly locks. *)
CheckErrors_Equal(r) ==
  /\ At(r, "recheck")
  /\ IF errors = MaxErrors
     THEN req' = [req EXCEPT ![r].pc = "lock", ![r].until = now + LockTime]
     ELSE Done(r)
  /\ UNCHANGED <<limiterVars, accounts, ghosts>>

CheckErrors(r) ==
  /\ At(r, "recheck")
  /\ IF errors >= MaxErrors
     THEN req' = [req EXCEPT ![r].pc = "lock", ![r].until = now + LockTime]
     ELSE Done(r)
  /\ UNCHANGED <<limiterVars, accounts, ghosts>>

LockUser(r) ==
  /\ At(r, "lock")
  /\ lockedUntil' = req[r].until
  /\ limit' = IF limit = "below" THEN limit ELSE "locked"
  /\ Done(r)
  /\ UNCHANGED <<limiterVars, challenge, nextCode, errors, tokens, handed, answered>>

ResetErrorCount(r) ==
  /\ At(r, "reset")
  /\ errors' = 0
  /\ limit' = "below"
  /\ Goto(r, "token")
  /\ UNCHANGED <<limiterVars, challenge, nextCode, lockedUntil, tokens, handed, answered>>

StoreToken(r) ==
  /\ At(r, "token")
  /\ tokens' = tokens \cup {[code |-> req[r].code, replay |-> req[r].replay]}
  /\ Goto(r, "spend")
  /\ UNCHANGED <<limiterVars, challenge, nextCode, errors, lockedUntil, ghosts>>

(* Faulty variant: the challenge is left to its age. *)
SpendChallenge_Kept(r) ==
  /\ At(r, "spend")
  /\ answered' = answered \cup {req[r].code}
  /\ Done(r)
  /\ UNCHANGED <<limiterVars, accounts, handed, limit>>

(* The challenge is deleted by its timestamp, and the token is sent. *)
SpendChallenge(r) ==
  /\ At(r, "spend")
  /\ challenge' = [challenge EXCEPT ![req[r].at] = 0]
  /\ answered' = answered \cup {req[r].code}
  /\ Done(r)
  /\ UNCHANGED <<limiterVars, nextCode, errors, lockedUntil, tokens, handed, limit>>

(* A login whose context is cancelled ends at its next statement. *)
LoginCancelled(r) ==
  /\ req[r].pc \in Verifying
  /\ limit' = IF req[r].pc \in {"recheck", "lock"} /\ limit = "reached" THEN "cut" ELSE limit
  /\ Done(r)
  /\ UNCHANGED <<limiterVars, accounts, handed, answered>>
-----------------------------------------------------------------------------
HangUp(r) == AskCancelled(r) \/ LoginCancelled(r)

Limiter == /\ \/ \E ip \in Addresses : Exceed(ip) \/ Refuse(ip)
              \/ Cleanup
              \/ Tick
           /\ UNCHANGED <<accounts, req, ghosts>>

Handle(r) == \/ DeleteChallenge(r) \/ CreateChallenge(r)
             \/ CheckLocked(r) \/ GetChallenge(r)
             \/ IncrementErrorCount(r) \/ CheckErrors(r) \/ LockUser(r)
             \/ ResetErrorCount(r) \/ StoreToken(r) \/ SpendChallenge(r)

Init == /\ LimiterInit
        /\ challenge = [t \in Times |-> 0]
        /\ nextCode = 1
        /\ errors = 0
        /\ lockedUntil = 0
        /\ tokens = {}
        /\ req = [r \in Requests |-> NoRequest]
        /\ handed = [c \in Codes |-> 0]
        /\ answered = {}
        /\ limit = "below"

Next == \/ Limiter
        \/ \E r \in Requests, ip \in Addresses : ChallengeStart(r, ip)
        \/ \E r \in Requests, ip \in Addresses, c \in Codes : LoginStart(r, ip, c)
        \/ \E r \in Requests : Handle(r) \/ HangUp(r)

Spec == Init /\ [][Next]_vars

(* Every handler's goroutine is scheduled. *)
LiveSpec == Spec /\ \A r \in Requests : WF_vars(Handle(r))
-----------------------------------------------------------------------------
TypeOK ==
  /\ LimiterTypeOK
  /\ challenge \in [Times -> Codes \cup {0}]
  /\ nextCode \in 1 .. MaxCodes + 1
  /\ errors \in Nat
  /\ lockedUntil \in Nat
  /\ tokens \in SUBSET [code : Codes, replay : BOOLEAN]
  /\ req \in [Requests -> Request]
  /\ handed \in [Codes -> 0 .. MaxTime]
  /\ answered \in SUBSET Codes
  /\ limit \in {"below", "reached", "locked", "cut"}

(* "Delete challenge (single-use)": once a login has been answered with a  *)
(* token, a login that starts later never gets one for the same challenge, *)
(* requests that hung up half way and challenges of the same second        *)
(* notwithstanding.  (Two that run side by side may both get one.)         *)
ReplayRefused == \A t \in tokens : ~t.replay

(* However wrong and right answers overlap, when the error count stands at *)
(* the limit and nobody is about to act on it, the account has been locked *)
(* since it got there, or the client hung up between the two statements.   *)
LimitLocks ==
  errors >= MaxErrors /\ (\A r \in Requests : req[r].pc \notin {"recheck", "lock"})
    => limit \in {"locked", "cut"}

(* auth.go:52, "If duplicate key, sleep 1ms and retry": GenerateChallenge  *)
(* retries after a duplicate key and so returns.                           *)
ChallengeReturns == \A r \in Requests : req[r].pc \in Asking ~> req[r].pc = "idle"
=============================================================================
