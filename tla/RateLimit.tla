----------------------------- MODULE RateLimit -----------------------------
(***************************************************************************)
(* The fixed-window limiter of ratelimit.Limiter behind the RateLimit      *)
(* middleware, for one key.  The INCR that counts a request and the        *)
(* EXPIRE that ends the window are two commands, and the second may be     *)
(* late, fail unnoticed or never be sent.                                  *)
(***************************************************************************)
EXTENDS RedisKeys, FiniteSets

CONSTANTS Requests, Limit, Window, MaxTime, MaxAllowed   \* the last two are bounds

VARIABLES
  now,
  redis,    \* the one key, "count"
  request,  \* requests between INCR and EXPIRE
  allowed   \* when requests were let through on Redis's word: times, numbered (history)

vars == <<now, redis, request, allowed>>

Init ==
  /\ now = 0
  /\ redis = EmptyStore({"count"})
  /\ request = [r \in Requests |-> "idle"]
  /\ allowed = << >>

Times == DOMAIN allowed
Pass == allowed' = [i \in 1..(Cardinality(Times) + 1) |-> IF i \in Times THEN allowed[i] ELSE now]

(* A plausible mistake: one more than the limit. *)
OneTooMany(count) == count <= Limit + 1
WithinLimit(count) == count <= Limit

(* Allow: count, decide; the first one starts the window's end ... *)
Allow(r) ==
  LET counted == Incr(redis, "count")  count == Get(counted, "count") IN
  /\ request[r] = "idle"
  /\ Cardinality(Times) < MaxAllowed /\ count <= Limit + 2
  /\ redis' = counted
  /\ IF WithinLimit(count) THEN Pass ELSE UNCHANGED allowed
  /\ request' = [request EXCEPT ![r] = IF count = 1 THEN "expire" ELSE "idle"]
  /\ UNCHANGED now

(* ... whose error is ignored. *)
SetWindow(r, done) ==
  /\ request[r] = "expire"
  /\ redis' = IF done THEN Expire(redis, "count", Deadline(now, Window)) ELSE redis
  /\ request' = [request EXCEPT ![r] = "idle"]
  /\ UNCHANGED <<now, allowed>>

Tick ==
  /\ now < MaxTime
  /\ now' = now + 1
  /\ redis' = Sweep(redis, now + 1)
  /\ UNCHANGED <<request, allowed>>

Next ==
  \/ \E r \in Requests : Allow(r) \/ \E done \in BOOLEAN : SetWindow(r, done)
  \/ Tick

Spec == Init /\ [][Next]_vars
-----------------------------------------------------------------------------
(* A window is never shorter than it should be, whenever its EXPIRE comes:  *)
(* any stretch of time as long as one meets two windows at most, so no more *)
(* than twice the limit pass in it.  A late EXPIRE of a request that counted *)
(* in one window must not cut the next one short.                           *)
TwoWindowsAtMost ==
  \A t \in 0..now : Cardinality({i \in Times : allowed[i] >= t /\ allowed[i] < t + Window}) <= 2 * Limit
=============================================================================
