----------------------------- MODULE Watermarks -----------------------------
(***************************************************************************)
(* An event's watermark layers (internal/watermark): saving them deletes   *)
(* the event's rows and inserts the new ones in one READ COMMITTED         *)
(* transaction.  The DELETE sees the rows that were committed when it      *)
(* began, waits for a transaction that is deleting one of them, and then   *)
(* deletes those that are still there: the rows the other one put in their *)
(* place it has not seen and leaves alone, so that two saves at once may   *)
(* leave the layers of both.                                               *)
(***************************************************************************)
EXTENDS Naturals, FiniteSets

CONSTANTS
  Ids,            \* of layers, some of which a client sends back to keep
  Requests,
  MaxWatermarks,  \* layers in one request
  MaxSaves        \* bound on the saves

VARIABLES
  layers,    \* the rows: <<id, the save that wrote it>>
  request,   \* saves in progress: number, layers, the rows seen and those deleted
  saves,     \* saves so far
  wrote,     \* the ids each save wrote (history)
  finished,  \* the saves that have committed (history)
  preceding  \* those that had when the DELETE of each began (history)

vars == <<layers, request, saves, wrote, finished, preceding>>

NoRequest == [at |-> "idle", save |-> 0, ids |-> {}, sees |-> {}, deleted |-> {}]

Init ==
  /\ layers = {}
  /\ request = [r \in Requests |-> NoRequest]
  /\ saves = 0
  /\ wrote = [s \in 1..MaxSaves |-> {}]
  /\ finished = {} /\ preceding = [s \in 1..MaxSaves |-> {}]

At(r, step) == request[r].at = step
Answer(r) == request' = [request EXCEPT ![r] = NoRequest]
Keys(rows) == {l[1] : l \in rows}
-----------------------------------------------------------------------------
(* validateItem, checkStorage: at most so many, every image stored. *)
BeginReplace(r, ids) ==
  /\ At(r, "idle") /\ saves < MaxSaves
  /\ Cardinality(ids) <= MaxWatermarks
  /\ saves' = saves + 1
  /\ request' = [request EXCEPT ![r] =
       [at |-> "delete", save |-> saves + 1, ids |-> ids, sees |-> {}, deleted |-> {}]]
  /\ UNCHANGED <<layers, wrote, finished, preceding>>

BeginDelete(r) ==
  /\ At(r, "delete")
  /\ request' = [request EXCEPT ![r].at = "deleting", ![r].sees = layers]
  /\ preceding' = [preceding EXCEPT ![request[r].save] = finished]
  /\ UNCHANGED <<layers, saves, wrote, finished>>

(* A plausible mistake: only layers the client sends back are deleted. *)
DeleteSent(r) ==
  LET left == {l \in request[r].sees \intersect layers : l[1] \in request[r].ids}
  IN /\ At(r, "deleting")
     /\ \A q \in Requests \ {r} : request[q].deleted \intersect left = {}
     /\ request' = [request EXCEPT ![r].at = "insert", ![r].deleted = left]
     /\ UNCHANGED <<layers, saves, wrote, finished, preceding>>

DeleteAll(r) ==
  LET left == request[r].sees \intersect layers
  IN /\ At(r, "deleting")
     /\ \A q \in Requests \ {r} : request[q].deleted \intersect left = {}
     /\ request' = [request EXCEPT ![r].at = "insert", ![r].deleted = left]
     /\ UNCHANGED <<layers, saves, wrote, finished, preceding>>

Commit(r, rows) ==
  /\ layers' = (layers \ request[r].deleted) \union rows
  /\ wrote' = [wrote EXCEPT ![request[r].save] = request[r].ids]
  /\ finished' = finished \union {request[r].save}
  /\ Answer(r)
  /\ UNCHANGED <<saves, preceding>>

(* A plausible mistake: each row is inserted in a transaction of its own, and *)
(* one of them fails.                                                      *)
InsertOneByOne(r) ==
  /\ At(r, "insert")
  /\ \E ids \in SUBSET request[r].ids : Commit(r, {<<i, request[r].save>> : i \in ids})

(* An id that somebody else's save has just inserted is a duplicate key. *)
Insert(r) ==
  /\ At(r, "insert")
  /\ Keys(layers \ request[r].deleted) \intersect request[r].ids = {}
  /\ Commit(r, {<<i, request[r].save>> : i \in request[r].ids})

Rollback(r) ==
  /\ ~At(r, "idle")
  /\ Answer(r)
  /\ UNCHANGED <<layers, saves, wrote, finished, preceding>>

Next == \E r \in Requests :
  \/ \E ids \in SUBSET Ids : BeginReplace(r, ids)
  \/ BeginDelete(r) \/ DeleteAll(r) \/ Insert(r) \/ Rollback(r)

Spec == Init /\ [][Next]_vars
-----------------------------------------------------------------------------
(* Properties                                                              *)

(* The layers of a save are all there or all gone, whoever overlaps: a       *)
(* thumbnail never gets half of a design.                                  *)
SavesAreWhole ==
  \A s \in 1..MaxSaves :
    LET left == {l[1] : l \in {x \in layers : x[2] = s}} IN left # {} => left = wrote[s]

(* A save replaces what was there: layers of two saves are there together    *)
(* only if neither had committed when the DELETE of the other began.        *)
OnlyOverlappingMix == \A x, y \in layers : x[2] \notin preceding[y[2]]
=============================================================================
