----------------------------- MODULE Templates ------------------------------
(***************************************************************************)
(* An event's document templates (generator.Service) of one kind.          *)
(*                                                                         *)
(* Editing a template reads its row, turns off whichever other template    *)
(* holds the scope it wants, and writes the whole row back, at READ        *)
(* COMMITTED: what was read may have changed.  That a scope has one active *)
(* template is in the end a unique index.                                  *)
(***************************************************************************)
EXTENDS Naturals, FiniteSets

CONSTANTS
  Ids,         \* of templates
  Scopes,      \* "event", and the event's races
  Requests,
  MaxVersion,  \* bound on the designs of a template
  None

VARIABLES
  template,  \* generator_templates: scope, is_active, version; None: no such row
  request    \* edits in progress

vars == <<template, request>>

NoRequest == [at |-> "idle", id |-> None, new |-> FALSE, row |-> None, freed |-> {}]

Init ==
  /\ template = [t \in Ids |-> None]
  /\ request = [r \in Requests |-> NoRequest]

There == {t \in Ids : template[t] # None}
At(r, step) == request[r].at = step
Answer(r) == request' = [request EXCEPT ![r] = NoRequest]
-----------------------------------------------------------------------------
Row(scope, active, version) == [scope |-> scope, active |-> active, version |-> version]

(* An id nobody has, nor is about to insert. *)
Create(r, t, scope, active) ==
  /\ At(r, "idle")
  /\ t \notin There /\ \A q \in Requests : request[q].id # t
  /\ request' = [request EXCEPT ![r] =
       [at |-> "free", id |-> t, new |-> TRUE, row |-> Row(scope, active, 1), freed |-> {}]]
  /\ UNCHANGED template

(* The row is read and changed: another scope, active or not, a new design.  *)
Update(r, t, scope, active, redesign) ==
  /\ At(r, "idle")
  /\ t \in There
  /\ redesign => template[t].version < MaxVersion
  /\ request' = [request EXCEPT ![r] =
       [at |-> "free", id |-> t, new |-> FALSE, freed |-> {},
        row |-> Row(scope, active, template[t].version + (IF redesign THEN 1 ELSE 0))]]
  /\ UNCHANGED template

ActiveIn(scope) == {t \in There : template[t].active /\ template[t].scope = scope}

(* Rows turned off by a transaction that is open: who wants one waits. *)
Locked(r) == UNION {request[q].freed : q \in Requests \ {r}}

(* Taking a scope turns off whoever holds it, as far as it can be seen. *)
Deactivate(r) ==
  LET holders == IF request[r].row.active THEN ActiveIn(request[r].row.scope) \ {request[r].id} ELSE {}
  IN /\ At(r, "free")
     /\ holders \intersect Locked(r) = {}
     /\ request' = [request EXCEPT ![r].at = "write", ![r].freed = holders]
     /\ UNCHANGED template

(* A plausible mistake: the index on race_id itself, in which the NULLs of two *)
(* templates for the whole event are different.                            *)
ScopeTakenIgnoresNull(r) ==
  /\ request[r].row.active
  /\ request[r].row.scope # "event"
  /\ ActiveIn(request[r].row.scope) \ ({request[r].id} \union request[r].freed) # {}

(* generator_templates_scope_uk. *)
scopeTaken(r) ==
  /\ request[r].row.active
  /\ ActiveIn(request[r].row.scope) \ ({request[r].id} \union request[r].freed) # {}

(* The whole row is written, though it may have been changed since. *)
Write(r) ==
  LET t == request[r].id
  IN /\ At(r, "write")
     /\ request[r].new \/ t \in There
     /\ t \notin Locked(r)
     /\ ~scopeTaken(r)
     /\ template' = [q \in Ids |->
          IF q = t THEN request[r].row
          ELSE IF q \in request[r].freed THEN [template[q] EXCEPT !.active = FALSE]
          ELSE template[q]]
     /\ Answer(r)

(* A scope taken, a row gone, two edits each waiting for the other. *)
Rollback(r) ==
  /\ ~At(r, "idle")
  /\ Answer(r)
  /\ UNCHANGED template

Delete(t) ==
  /\ t \in There
  /\ \A r \in Requests : t \notin request[r].freed
  /\ template' = [template EXCEPT ![t] = None]
  /\ UNCHANGED request
-----------------------------------------------------------------------------
Next ==
  \/ \E r \in Requests, t \in Ids, s \in Scopes, a \in BOOLEAN :
       Create(r, t, s, a) \/ \E redesign \in BOOLEAN : Update(r, t, s, a, redesign)
  \/ \E r \in Requests : Deactivate(r) \/ Write(r) \/ Rollback(r)
  \/ \E t \in Ids : Delete(t)

Spec == Init /\ [][Next]_vars
-----------------------------------------------------------------------------
(* "At most one active template per (event, kind, scope)" (Template.IsActive), *)
(* whatever edits overlap: each turns off only the holders it can see.     *)
OneActivePerScope == \A s \in Scopes : Cardinality(ActiveIn(s)) <= 1
=============================================================================
