----------------------------- MODULE OneTimeCode -----------------------------
(***************************************************************************)
(* Proving an e-mail address with a six-digit code: StartSignup and        *)
(* VerifySignupOTP of auth.Service, for one address (every key it uses     *)
(* carries the address).                                                   *)
(*                                                                         *)
(* Each command is a round trip to Redis of its own, so requests           *)
(* interleave between them: a code is read, the attempt is counted, and    *)
(* the code is compared with what was read at first.  The cooldown and the *)
(* hourly count of StartSignup are kept by three commands that are taken as *)
(* one step here.  A DEL or a PEXPIRE may fail and the code goes on; a      *)
(* request may end anywhere.                                               *)
(***************************************************************************)
EXTENDS RedisKeys, FiniteSets

CONSTANTS
  Requests,                  \* HTTP requests that can be in progress at once
  MaxAttempts, MaxSends,     \* signupOTPMaxAttempts, signupMaxSendsPerHr
  OTPTTL, Cooldown, Hour,    \* SignupOTPTTL, SignupResendCooldown, one hour
  MaxCodes, MaxTime          \* bounds on the codes issued and on the clock

VARIABLES
  now,      \* the clock Redis counts down by
  redis,    \* the keys of this address
  known,    \* a user with this address exists
  issued,   \* how many codes have been generated: a code is its number
  request,  \* requests in progress: the next command, and the code read
  guesses   \* how often each code was compared with somebody's guess (history)

vars == <<now, redis, known, issued, request, guesses>>

MaxCount == MaxAttempts + 1   \* a bound: one more tells nothing from this many
Keys == {"otp", "attempts", "cooldown", "sends"}
Idle == [at |-> "idle", code |-> 0]
At(r, step) == request[r].at = step
Goto(r, step) == request' = [request EXCEPT ![r].at = step]
End(r) == request' = [request EXCEPT ![r] = Idle]

Init ==
  /\ now = 0
  /\ redis = EmptyStore(Keys)
  /\ known = FALSE
  /\ issued = 0
  /\ request = [r \in Requests |-> Idle]
  /\ guesses = [c \in 1..MaxCodes |-> 0]

(* INCR, and PEXPIRE for the first one, which may not get there. *)
Counted(store, k, ttl, expires) ==
  LET counted == Incr(store, k) IN
  IF Get(counted, k) = 1 /\ expires THEN Expire(counted, k, Deadline(now, ttl)) ELSE counted
-----------------------------------------------------------------------------
(* StartSignup: cooldown and hourly count ... *)
StartSignup(r, expires) ==
  LET counted == Counted(SetNX(redis, "cooldown", 1, Deadline(now, Cooldown)), "sends", Hour, expires)
  IN
  /\ At(r, "idle")
  /\ ~Exists(redis, "cooldown")
  /\ redis' = counted
  /\ IF Get(counted, "sends") <= MaxSends THEN Goto(r, "issue") ELSE UNCHANGED request
  /\ UNCHANGED <<now, known, issued, guesses>>

(* ... nothing for an address that has an account, else a new code ... *)
IssueCode(r) ==
  /\ At(r, "issue")
  /\ ~known /\ issued < MaxCodes
  /\ issued' = issued + 1
  /\ redis' = Set(redis, "otp", issued + 1, Deadline(now, OTPTTL))
  /\ Goto(r, "reset")
  /\ UNCHANGED <<now, known, guesses>>

(* ... and only then are the attempts at the last one forgotten. *)
ForgetAttempts(r, deleted) ==
  /\ At(r, "reset")
  /\ redis' = IF deleted THEN Del(redis, {"attempts"}) ELSE redis
  /\ End(r)
  /\ UNCHANGED <<now, known, issued, guesses>>

(* VerifySignupOTP: the stored code is read ... *)
ReadCode(r) ==
  /\ At(r, "idle")
  /\ Exists(redis, "otp")
  /\ request' = [request EXCEPT ![r] = [at |-> "count", code |-> Get(redis, "otp")]]
  /\ UNCHANGED <<now, redis, known, issued, guesses>>

(* A plausible mistake: an attempt is counted when the guess was wrong, and *)
(* after it was compared.                                                  *)
CompareThenCount(r, expires, right) ==
  LET counted == Counted(redis, "attempts", OTPTTL, expires) IN
  /\ At(r, "count")
  /\ redis' = IF right THEN redis ELSE counted
  /\ guesses' = [guesses EXCEPT ![request[r].code] = @ + 1]
  /\ IF right THEN Goto(r, "spend")
     ELSE IF Get(counted, "attempts") > MaxAttempts THEN Goto(r, "destroy") ELSE End(r)
  /\ UNCHANGED <<now, known, issued>>

(* ... the attempt is counted, and one too many destroys what is stored by *)
(* then; else the guess is compared with what was read.                    *)
CountAttempt(r, expires, right) ==
  LET counted == Counted(redis, "attempts", OTPTTL, expires) IN
  /\ At(r, "count")
  /\ Get(redis, "attempts") <= MaxCount
  /\ redis' = counted
  /\ IF Get(counted, "attempts") > MaxAttempts
     THEN Goto(r, "destroy") /\ UNCHANGED guesses
     ELSE /\ guesses' = [guesses EXCEPT ![request[r].code] = @ + 1]
          /\ IF right THEN Goto(r, "spend") ELSE End(r)
  /\ UNCHANGED <<now, known, issued>>

(* Both ends delete the code and its attempts; after a right guess a signup *)
(* token is stored next (module Accounts).                                  *)
DeleteCode(r, deleted) ==
  /\ At(r, "destroy") \/ At(r, "spend")
  /\ redis' = IF deleted THEN Del(redis, {"otp", "attempts"}) ELSE redis
  /\ End(r)
  /\ UNCHANGED <<now, known, issued, guesses>>

(* The address gets an account, here or by way of Google. *)
BecomesKnown ==
  /\ ~known
  /\ known' = TRUE
  /\ UNCHANGED <<now, redis, issued, request, guesses>>

(* A refusal, an unreachable Redis, a client that is gone. *)
Fail(r) ==
  /\ ~At(r, "idle")
  /\ End(r)
  /\ UNCHANGED <<now, redis, known, issued, guesses>>

Tick ==
  /\ now < MaxTime
  /\ now' = now + 1
  /\ redis' = Sweep(redis, now + 1)
  /\ UNCHANGED <<known, issued, request, guesses>>

Next ==
  \/ \E r \in Requests :
       \/ \E ok \in BOOLEAN :
            \/ StartSignup(r, ok) \/ ForgetAttempts(r, ok) \/ DeleteCode(r, ok)
            \/ \E right \in BOOLEAN : CountAttempt(r, ok, right)
       \/ IssueCode(r) \/ ReadCode(r) \/ Fail(r)
  \/ BecomesKnown
  \/ Tick

Spec == Init /\ [][Next]_vars
-----------------------------------------------------------------------------
(* "After signupOTPMaxAttempts wrong guesses the OTP is destroyed"          *)
(* (signup.go:105-107).  The attempts have a key of their own, and while a   *)
(* code stands they start again when that key, older than the code, expires, *)
(* and whenever a request that was about to forget them gets there: the      *)
(* code's own, or a late one of an earlier code, each once.  Whoever has     *)
(* read the code by the time it goes has one guess more.                    *)
GuessesBounded ==
  \A c \in 1..issued :
    guesses[c] <= MaxAttempts * (Cardinality(Requests) + 2) + Cardinality(Requests)
=============================================================================
