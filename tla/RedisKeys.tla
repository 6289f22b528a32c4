------------------------------ MODULE RedisKeys ------------------------------
(***************************************************************************)
(* The Redis commands of rediscli.Client that keep a key with a deadline.  *)
(* A store maps each key to its value and to the moment it goes away, 0    *)
(* when it has none: Set sends PX only for a ttl above zero, and INCR      *)
(* leaves the deadline of a key as it is.                                  *)
(***************************************************************************)
EXTENDS Integers

NoKey == [there |-> FALSE, value |-> 0, until |-> 0]
EmptyStore(keys) == [k \in keys |-> NoKey]

Deadline(now, ttl) == IF ttl > 0 THEN now + ttl ELSE 0

Exists(store, k) == store[k].there
Get(store, k) == store[k].value

Set(store, k, v, until) == [store EXCEPT ![k] = [there |-> TRUE, value |-> v, until |-> until]]
SetNX(store, k, v, until) == IF Exists(store, k) THEN store ELSE Set(store, k, v, until)
Del(store, ks) == [k \in DOMAIN store |-> IF k \in ks THEN NoKey ELSE store[k]]
Incr(store, k) == [store EXCEPT ![k].there = TRUE, ![k].value = @ + 1]
Expire(store, k, until) == IF Exists(store, k) THEN [store EXCEPT ![k].until = until] ELSE store

(* What Redis has dropped by the time `now'. *)
Sweep(store, now) ==
  [k \in DOMAIN store |-> IF store[k].until # 0 /\ store[k].until <= now THEN NoKey ELSE store[k]]
=============================================================================
