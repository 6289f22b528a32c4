------------------------------ MODULE Listing ------------------------------
(***************************************************************************)
(* Keyset pagination (platform/pagination) and the lists that use it: a    *)
(* client walks a list page by page while rows come, go and change.        *)
(*                                                                         *)
(* Most lists go from new to old.  A row is created with a time taken      *)
(* before its transaction commits, so it may appear with a time that is    *)
(* past by then; its id is random.  Participants go by BIB and teams by    *)
(* name, and both can be edited while somebody walks the list.             *)
(***************************************************************************)
EXTENDS Naturals, FiniteSets

CONSTANTS
  Ids,                               \* numbers, compared like UUIDs
  Tenants, Events, Statuses,         \* what rows are told apart by
  Filters,                           \* statuses to ask for; NoFilter: all
  Names,                             \* BIBs and names of teams, in their order
  DefaultPageLimit, MaxPageLimit,
  MaxTime,                           \* a bound on the clock
  NoFilter

VARIABLES
  now,
  table,   \* the rows: id, created_at (or BIB, or name), tenant, event, status
  list,    \* the list walked, and the arguments it is asked with
  cursor,  \* next_cursor: where the walk is
  seen,    \* how often the walk returned each id (history)
  steady,  \* ids on the list ever since the walk began (history)
  moved    \* ids that were given another BIB or name since it began (history)

vars == <<now, table, list, cursor, seen, steady, moved>>

Rows == [id : Ids, at : 0..MaxTime \union Names, tenant : Tenants, event : Events, status : Statuses]

Of(q) == {x \in table : x.tenant = q.tenant}
OfEvent(q) == {x \in Of(q) : x.event = q.event}
Filtered(S, q) == {x \in S : q.status \in {NoFilter, x.status}}

(* The WHERE clause of each list, but for the cursor. *)
ListActiveMembersWithUser(q) == {x \in Of(q) : x.status = "active"}
ListInvitations(q) == Of(q)
ListClients(q) == Of(q)
ListObjects(q) == Of(q)
ListEvents(q) == Of(q)
ListAssignments(q) == OfEvent(q)
ListEventInvitations(q) == OfEvent(q)
ListJobs(q) == Filtered(Of(q), q)
ListPhotos(q) == Filtered(OfEvent(q), q)
ListParticipants(q) == Filtered(OfEvent(q), q)
ListTeams(q) == Filtered(OfEvent(q), q)

Lists == {"members", "invitations", "clients", "objects", "events",
          "assignments", "event invitations", "jobs", "photos", "participants", "teams"}
ByName == {"participants", "teams"}
Listed(q) ==
  CASE q.name = "members" -> ListActiveMembersWithUser(q)
    [] q.name = "invitations" -> ListInvitations(q)
    [] q.name = "clients" -> ListClients(q)
    [] q.name = "objects" -> ListObjects(q)
    [] q.name = "events" -> ListEvents(q)
    [] q.name = "assignments" -> ListAssignments(q)
    [] q.name = "event invitations" -> ListEventInvitations(q)
    [] q.name = "jobs" -> ListJobs(q)
    [] q.name = "photos" -> ListPhotos(q)
    [] q.name = "participants" -> ListParticipants(q)
    [] q.name = "teams" -> ListTeams(q)

(* Some take a filter: a status stands for all one can filter by. *)
Queries ==
  {q \in [name : Lists, tenant : Tenants, event : Events, status : Filters] :
     q.status # NoFilter => q.name \in {"jobs", "photos"} \union ByName}
ListedIds(q) == {x.id : x \in Listed(q)}
-----------------------------------------------------------------------------
NormalizeLimit(limit) ==
  IF limit = 0 THEN DefaultPageLimit ELSE IF limit > MaxPageLimit THEN MaxPageLimit ELSE limit

(* ORDER BY created_at DESC, id DESC; bib_number ASC, which is unique within an *)
(* event; name ASC, id ASC.                                                *)
Follows(q, x, y) ==
  CASE q.name = "participants" -> y.at < x.at
    [] q.name = "teams" -> y.at < x.at \/ (y.at = x.at /\ y.id < x.id)
    [] q.name \notin ByName -> x.at < y.at \/ (x.at = y.at /\ x.id < y.id)
FirstRows(q, S, n) == {x \in S : Cardinality({y \in S : Follows(q, x, y)}) < n}
LastRow(q, S) == CHOOSE x \in S : \A y \in S : ~Follows(q, y, x)

(* No cursor asks for the first page; an empty next_cursor ends a walk.      *)
Start == [at |-> 0, id |-> 0]
End == [at |-> 1, id |-> 0]
(* The position is all a cursor holds; a malformed one starts over. *)
EncodeCursor(x) == [at |-> x.at, id |-> x.id]
ToCome(q, c, x) == c # End /\ (c = Start \/ Follows(q, x, c))

(* A plausible mistake: an OFFSET. *)
AfterOffset(S) == S \ FirstRows(list, S, Cardinality({i \in Ids : seen[i] > 0}))
After(S) == {x \in S : ToCome(list, cursor, x)}

Init ==
  /\ now = 0 /\ table = {}
  /\ list \in Queries
  /\ cursor = Start
  /\ seen = [i \in Ids |-> 0] /\ steady = {} /\ moved = {}

(* One page: LIMIT n + 1 tells whether there is another. *)
NextPage(limit) ==
  LET rest == After(Listed(list))
      n == NormalizeLimit(limit)
      page == FirstRows(list, rest, n) IN
  /\ cursor # End
  /\ cursor' = IF Cardinality(rest) > n THEN EncodeCursor(LastRow(list, page)) ELSE End
  /\ seen' = [i \in Ids |-> IF i \in {x.id : x \in page} THEN seen[i] + 1 ELSE seen[i]]
  /\ steady' = IF cursor = Start THEN ListedIds(list) ELSE steady
  /\ moved' = IF cursor = Start THEN {} ELSE moved
  /\ UNCHANGED <<now, table, list>>

Changed(t) ==
  /\ table' = t
  /\ UNCHANGED <<now, list, cursor, seen>>
  /\ steady' = steady \intersect ListedIds(list)'

(* UNIQUE (event_id, bib_number). *)
NameFree(x) ==
  list.name = "participants" =>
    \A y \in table : y.id # x.id /\ y.event = x.event => y.at # x.at

(* A row commits that was stamped a while ago, or has any BIB or name. *)
Insert(x) ==
  /\ IF list.name \in ByName THEN x.at \in Names /\ NameFree(x) ELSE x.at <= now
  /\ x.id \notin {y.id : y \in table} /\ seen[x.id] = 0
  /\ Changed(table \union {x})
  /\ UNCHANGED moved

Update(x, status) ==
  /\ Changed((table \ {x}) \union {[x EXCEPT !.status = status]})
  /\ UNCHANGED moved

(* A participant's BIB or a team's name is edited. *)
Rename(x, name) ==
  LET y == [x EXCEPT !.at = name] IN
  /\ list.name \in ByName /\ NameFree(y)
  /\ Changed((table \ {x}) \union {y})
  /\ moved' = moved \union {x.id}

Delete(x) == Changed(table \ {x}) /\ UNCHANGED moved

Tick ==
  /\ now < MaxTime /\ list.name \notin ByName   \* they have no use for a clock
  /\ now' = now + 1
  /\ UNCHANGED <<table, list, cursor, seen, steady, moved>>

Next ==
  \/ \E limit \in 0..(MaxPageLimit + 1) : NextPage(limit)
  \/ \E x \in Rows : Insert(x)
  \/ \E x \in table :
       \/ Delete(x)
       \/ \E status \in Statuses \ {x.status} : Update(x, status)
       \/ \E name \in Names \ {x.at} : Rename(x, name)
  \/ Tick

Spec == Init /\ [][Next]_vars
-----------------------------------------------------------------------------
(* "stable under concurrent inserts" (pagination.go:20-35): a walk returns  *)
(* no row twice, and in the end each one that was on the list throughout,   *)
(* whatever page sizes it asked for and whatever came, went, changed or     *)
(* shared a timestamp meanwhile.  But not those whose BIB or name was edited *)
(* during the walk: they jump over the cursor, and are missed or come twice. *)
WalkIsWhole ==
  /\ \A i \in Ids \ moved : seen[i] <= 1
  /\ cursor = End => \A i \in steady \ moved : seen[i] = 1
=============================================================================
