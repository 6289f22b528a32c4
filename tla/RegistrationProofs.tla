------------------------- MODULE RegistrationProofs -------------------------
(***************************************************************************)
(* Proofs about Registration, for any races, teams, people, formats and    *)
(* requests: a team of one's own race, a deletion for good, members who    *)
(* survive the deletion of their team and, for one request at a time, the  *)
(* rules of format, team size and gender category.                         *)
(*                                                                         *)
(* TeamOfSameRace is not inductive: what a request is going to write was   *)
(* checked against rows that may have changed.  What saves it is that a    *)
(* team never changes race and an id is never reused, so a checked row     *)
(* names a team of its own race or one that is gone; the foreign key       *)
(* refuses the latter.  SoundRequests says so of every request in          *)
(* progress, and Apart that no two of them create or lock the same row.    *)
(*                                                                         *)
(* The rules do not survive two requests at once.  Of one at a time,       *)
(* RulesInv says that what it has checked still holds when it writes.      *)
(***************************************************************************)
EXTENDS Registration, TLAPS, FiniteSetTheorems

OwnOrGone(row) ==
  row.team # NoTeam =>
    life[row.team] # "unborn" /\ (life[row.team] = "live" => teamRace[row.team] = row.race)

SoundRequests ==
  {x \in RequestType :
     /\ x.kind # "detach" => x.people = {}
     /\ x.kind = "race" => x.race \in Races /\ x.format \in Formats
     /\ x.kind = "newTeam" =>
          x.team \in Teams /\ x.race \in Races /\ x.category \in Categories /\ life[x.team] = "unborn"
     /\ x.kind = "team" => x.team \in Teams /\ x.category \in Categories
     /\ x.kind \in {"new", "edit"} => x.id \in People /\ x.row.race \in Races /\ OwnOrGone(x.row)
     /\ x.kind = "new" => life[x.id] = "unborn"
     /\ x.kind = "detach" => x.team \in Teams /\ \A p \in x.people : life[p] = "live"}

Apart ==
  \A q, o \in Requests : q # o =>
    /\ request[q].kind = "new" => request[o].id # request[q].id
    /\ request[q].kind = "newTeam" => request[o].team # request[q].team
    /\ request[q].people \intersect request[o].people = {}

IInv ==
  /\ TypeOK
  /\ TeamOfSameRace
  /\ request \in [Requests -> SoundRequests]
  /\ Apart

USE RegistrationAssumption

-----------------------------------------------------------------------------
(* The rows of a request are sound as long as life only moves forward, teams *)
(* keep their race, and the rows it creates or has locked are left alone.    *)
LEMMA StillSound ==
  ASSUME TypeOK,
         NEW x \in SoundRequests,
         \A t \in Teams : life[t] # "unborn" =>
           /\ life'[t] # "unborn"
           /\ life'[t] = "live" => life[t] = "live" /\ teamRace'[t] = teamRace[t],
         x.kind = "newTeam" => life'[x.team] = "unborn",
         x.kind = "new" => life'[x.id] = "unborn",
         x.kind = "detach" => \A p \in x.people : life'[p] = "live"
  PROVE  x \in SoundRequests'
<1>1. x \in RequestType
  BY DEF SoundRequests
<1>2. x.row \in PersonType
  BY <1>1 DEF RequestType
<1>3. x.row.team \in Teams \union {NoTeam}
  BY <1>2 DEF PersonType
<1>4. x.kind \in {"new", "edit"} => OwnOrGone(x.row)'
  BY <1>3 DEF SoundRequests, OwnOrGone
<1> QED
  BY <1>1, <1>4 DEF SoundRequests

(* The same of all requests, when one of them, q, becomes y. *)
LEMMA AllStillSound ==
  ASSUME IInv,
         NEW q \in Requests, NEW y \in SoundRequests',
         request' = [request EXCEPT ![q] = y],
         \A o \in Requests \ {q} : request[o] \in SoundRequests',
         \A o \in Requests \ {q} :
           /\ y.kind = "new" => request[o].id # y.id
           /\ request[o].kind = "new" => request[o].id # y.id
           /\ y.kind = "newTeam" => request[o].team # y.team
           /\ request[o].kind = "newTeam" => request[o].team # y.team
           /\ request[o].people \intersect y.people = {}
  PROVE  request' \in [Requests -> SoundRequests'] /\ Apart'
<1>1. request \in [Requests -> SoundRequests]
  BY DEF IInv
<1>2. \A o \in Requests : request'[o] = IF o = q THEN y ELSE request[o]
  BY <1>1
<1>3. request' \in [Requests -> SoundRequests']
  BY <1>1, <1>2
<1>4. Apart'
  BY <1>2 DEF IInv, Apart
<1> QED
  BY <1>3, <1>4

(* A request that ends stands in nobody's way. *)
LEMMA NoRequestSound ==
  /\ NoRequest \in SoundRequests'
  /\ NoRequest.id = NoPerson /\ NoRequest.team = NoTeam /\ NoRequest.kind = "none"
  /\ NoRequest.people = {}
<1>1. NoRow \in PersonType
  BY DEF NoRow, PersonType
<1>2. NoRequest \in RequestType
  BY <1>1 DEF NoRequest, RequestType
<1> QED
  BY <1>2 DEF NoRequest, SoundRequests

(* Nor does one that creates no row and locks none. *)
LEMMA BeginSound ==
  ASSUME IInv, NEW q \in Requests, NEW y \in SoundRequests',
         request' = [request EXCEPT ![q] = y],
         y.kind \in {"none", "race", "team", "edit"}, y.people = {},
         y.id = NoPerson \/ \A o \in Requests : request[o].kind = "new" => request[o].id # y.id,
         y.team = NoTeam \/ \A o \in Requests : request[o].kind = "newTeam" => request[o].team # y.team,
         \A o \in Requests \ {q} : request[o] \in SoundRequests'
  PROVE  request' \in [Requests -> SoundRequests'] /\ Apart'
<1>1. \A o \in Requests : request[o] \in SoundRequests
  BY DEF IInv
<1>2. NoPerson \notin People /\ NoTeam \notin Teams
  OBVIOUS
<1>3. \A o \in Requests :
        /\ request[o].kind = "new" => request[o].id # y.id
        /\ request[o].kind = "newTeam" => request[o].team # y.team
  BY <1>1, <1>2 DEF SoundRequests
<1>4. \A o \in Requests \ {q} : request[o].people \intersect y.people = {}
  OBVIOUS
<1>5. y.kind # "new" /\ y.kind # "newTeam"
  OBVIOUS
<1> QED
  BY <1>3, <1>4, <1>5, AllStillSound

(* A read leaves the rows alone. *)
LEMMA ReadKeeps ==
  ASSUME IInv, request' \in [Requests -> SoundRequests'],
         UNCHANGED <<life, format, teamRace, category, person>>
  PROVE  TypeOK' /\ TeamOfSameRace'
<1>1. request' \in [Requests -> RequestType]
  BY DEF SoundRequests
<1>2. TypeOK'
  BY <1>1 DEF IInv, TypeOK
<1>3. TeamOfSameRace'
  BY DEF IInv, TeamOfSameRace, Live
<1> QED
  BY <1>2, <1>3

LEMMA EndSound ==
  ASSUME IInv, NEW q \in Requests, End(q),
         \A o \in Requests \ {q} : request[o] \in SoundRequests'
  PROVE  request' \in [Requests -> SoundRequests'] /\ Apart'
<1>1. \A o \in Requests : request[o] \in SoundRequests
  BY DEF IInv
<1>2. \A o \in Requests :
        /\ request[o].kind = "new" => request[o].id \in People
        /\ request[o].kind = "newTeam" => request[o].team \in Teams
  BY <1>1 DEF SoundRequests
<1> DEFINE y == NoRequest
<1>3. /\ y \in SoundRequests' /\ y.id = NoPerson /\ y.team = NoTeam /\ y.kind = "none" /\ y.people = {}
      /\ request' = [request EXCEPT ![q] = y]
  BY NoRequestSound DEF End
<1> HIDE DEF y
<1>4. \A o \in Requests :
        /\ y.kind = "new" => request[o].id # y.id
        /\ request[o].kind = "new" => request[o].id # y.id
        /\ y.kind = "newTeam" => request[o].team # y.team
        /\ request[o].kind = "newTeam" => request[o].team # y.team
        /\ request[o].people \intersect y.people = {}
  BY <1>2, <1>3
<1> QED
  BY <1>3, <1>4, AllStillSound

LEMMA InitIInv == Init => IInv
<1> SUFFICES ASSUME Init PROVE IInv
  OBVIOUS
<1>1. NoRow \in PersonType /\ NoRow.race = NoRace /\ NoRow.team = NoTeam
  BY DEF NoRow, PersonType
<1>2. NoRequest \in SoundRequests /\ NoRequest.kind = "none" /\ NoRequest.people = {}
  BY <1>1 DEF NoRequest, RequestType, SoundRequests
<1>3. request \in [Requests -> SoundRequests]
  BY <1>2 DEF Init
<1>4. NoFormat \notin Formats
  BY DEF NoFormat, Formats
<1>5. TypeOK
  <2>1. request \in [Requests -> RequestType]
    BY <1>3 DEF SoundRequests
  <2> QED
    BY <2>1, <1>1, <1>4 DEF Init, TypeOK, Rows
<1>6. TeamOfSameRace
  BY <1>1 DEF Init, TeamOfSameRace
<1>7. Apart
  BY <1>2 DEF Init, Apart
<1> QED
  BY <1>3, <1>5, <1>6, <1>7 DEF IInv

-----------------------------------------------------------------------------
(* Races. *)

LEMMA FormatsNormalized ==
  ASSUME NEW f \in RaceFormats PROVE Normalized(f) \in Formats /\ NoFormat \notin Formats
<1>1. f \in Formats
  OBVIOUS
<1> QED
  BY <1>1 DEF Normalized, Formats, NoFormat

(* What a step of the races and teams alone leaves of the requests. *)
LEMMA SoundKept ==
  ASSUME IInv, NEW q \in Requests, UNCHANGED <<life, teamRace>>
  PROVE  request[q] \in SoundRequests'
<1>1. request[q] \in SoundRequests
  BY DEF IInv
<1> QED
  BY <1>1 DEF SoundRequests, OwnOrGone

LEMMA RaceActions ==
  ASSUME IInv, NEW r \in Races, NEW f \in RaceFormats,
         CreateRace(r, f) \/ \E q \in Requests : ReadUpdateRace(q, r, f)
  PROVE  IInv'
<1>1. CASE CreateRace(r, f)
  <2> USE <1>1 DEF CreateRace
  <2>1. TypeOK'
    BY FormatsNormalized DEF IInv, TypeOK, Rows
  <2>2. TeamOfSameRace'
    BY DEF IInv, TypeOK, TeamOfSameRace, Live, PersonType, Rows
  <2>3. \A q \in Requests : request[q] \in SoundRequests'
    <3> TAKE q \in Requests
    <3>1. request[q] \in SoundRequests
      BY DEF IInv
    <3>2. \A x \in Teams \union People : life'[x] = life[x]
      BY DEF IInv, TypeOK, Rows
    <3>3. request[q] \in RequestType
      BY <3>1 DEF SoundRequests
    <3> QED
      BY <3>1, <3>2, <3>3, StillSound DEF IInv, SoundRequests, RequestType
  <2>4. request' \in [Requests -> SoundRequests'] /\ Apart'
    BY <2>3 DEF IInv, Apart
  <2> QED
    BY <2>1, <2>2, <2>4 DEF IInv
<1>2. ASSUME NEW q \in Requests, ReadUpdateRace(q, r, f) PROVE IInv'
  <2> USE <1>2 DEF ReadUpdateRace, Begin
  <2> DEFINE y == [NoRequest EXCEPT !.kind = "race", !.race = r, !.format = Normalized(f)]
  <2>1. y \in SoundRequests'
    <3>1. NoRow \in PersonType
      BY DEF NoRow, PersonType
    <3> QED
      BY <3>1, FormatsNormalized DEF NoRequest, RequestType, SoundRequests
  <2>2. y.kind = "race" /\ y.id = NoPerson /\ y.team = NoTeam /\ y.people = {}
    BY DEF NoRequest
  <2>3. request' = [request EXCEPT ![q] = y]
    OBVIOUS
  <2>a. \A o \in Requests : request[o] \in SoundRequests'
    BY SoundKept
  <2> HIDE DEF y, ReadUpdateRace, Begin
  <2>5. request' \in [Requests -> SoundRequests'] /\ Apart'
    BY <2>1, <2>2, <2>3, <2>a, BeginSound
  <2>6. TypeOK' /\ TeamOfSameRace'
    BY <1>2, <2>5, ReadKeeps DEF ReadUpdateRace
  <2> QED
    BY <2>5, <2>6 DEF IInv
<1> QED
  BY <1>1, <1>2

LEMMA RaceWrite ==
  ASSUME IInv, NEW q \in Requests, WriteUpdateRace(q)
  PROVE  IInv'
<1> USE DEF WriteUpdateRace
<1>1. request[q] \in SoundRequests
  BY DEF IInv
<1>2. request' \in [Requests -> SoundRequests'] /\ Apart'
  BY SoundKept, EndSound
<1>3. request[q].race \in Races /\ request[q].format \in Formats
  BY <1>1 DEF SoundRequests
<1>4. request' \in [Requests -> RequestType]
  BY <1>2 DEF SoundRequests
<1>5. TypeOK'
  BY <1>3, <1>4 DEF IInv, TypeOK, Live
<1>6. TeamOfSameRace'
  BY DEF IInv, TeamOfSameRace, Live
<1> QED
  BY <1>2, <1>5, <1>6 DEF IInv

-----------------------------------------------------------------------------
(* Deletions. *)

LEMMA RecordFacts ==
  ASSUME NEW row \in PersonType
  PROVE  [row EXCEPT !.team = NoTeam, !.leg = 0] =
           [race |-> row.race, team |-> NoTeam, leg |-> 0, gender |-> row.gender]
<1> DEFINE alone == [row EXCEPT !.team = NoTeam, !.leg = 0]
<1>1. alone \in [race : {row.race}, team : {NoTeam}, leg : {0}, gender : {row.gender}]
  BY DEF PersonType
<1> HIDE DEF alone
<1>2. alone = [race |-> row.race, team |-> NoTeam, leg |-> 0, gender |-> row.gender]
  BY <1>1
<1> QED
  BY <1>2 DEF alone

LEMMA RowFacts ==
  /\ NoRow \in PersonType /\ NoRow.race = NoRace /\ NoRow.team = NoTeam
  /\ \A row \in PersonType :
       LET alone == [row EXCEPT !.team = NoTeam, !.leg = 0]
       IN alone \in PersonType /\ alone.race = row.race /\ alone.team = NoTeam
<1>1. NoRow \in PersonType /\ NoRow.race = NoRace /\ NoRow.team = NoTeam
  BY DEF NoRow, PersonType
<1>2. ASSUME NEW row \in PersonType
      PROVE  LET alone == [row EXCEPT !.team = NoTeam, !.leg = 0]
             IN alone \in PersonType /\ alone.race = row.race /\ alone.team = NoTeam
  <2>1. 0 \in 0..MaxLeg
    OBVIOUS
  <2>2. [row EXCEPT !.team = NoTeam, !.leg = 0] =
          [race |-> row.race, team |-> NoTeam, leg |-> 0, gender |-> row.gender]
    BY RecordFacts
  <2>3. row.race \in Races \union {NoRace} /\ row.gender \in Genders \union {"none"}
    BY DEF PersonType
  <2> QED
    BY <2>1, <2>2, <2>3 DEF PersonType
<1> QED
  BY <1>1, <1>2

(* A cascade takes live rows only, and with a race or a team it takes every *)
(* participant who has it.                                                 *)
LEMMA CascadeTakes ==
  ASSUME IInv, NEW x \in Races \union Teams, Live(x)
  PROVE  /\ Cascade(x) \subseteq Rows
         /\ \A y \in Cascade(x) : Live(y)
         /\ \A p \in People : person[p].team \in Cascade(x) => p \in Cascade(x)
         /\ \A p \in People : person[p].race \in Cascade(x) => p \in Cascade(x)
         /\ \A t \in Teams : teamRace[t] \in Cascade(x) => t \in Cascade(x)
<1>1. \A t \in Teams : teamRace[t] = x => Live(t)
  BY DEF IInv, TypeOK, Live
<1>2. \A p \in People : person[p] # NoRow => Live(p)
  BY DEF IInv, TypeOK, Live
<1>3. NoRow.race = NoRace /\ NoRow.team = NoTeam
  BY DEF NoRow
<1>4. \A p \in People : person[p].race = x => Live(p)
  BY <1>2, <1>3 DEF IInv, TypeOK
<1>5. \A p \in People : person[p].team \in Teams => Live(p)
  BY <1>2, <1>3
<1>6. \A p \in People : person[p].race \in Races \union {NoRace} /\ person[p].team \in Teams \union {NoTeam}
  BY DEF IInv, TypeOK, PersonType
<1>7. \A t \in Teams : teamRace[t] \in Races \union {NoRace}
  BY DEF IInv, TypeOK
<1>8. \A p \in People : person[p].team # NoTeam => teamRace[person[p].team] = person[p].race
  BY DEF IInv, TeamOfSameRace
<1> DEFINE teams == {t \in Teams : t = x \/ teamRace[t] = x}
<1>9. Cascade(x) = {x} \union teams
                     \union {p \in People : person[p].race = x \/ person[p].team \in teams}
  BY DEF Cascade
<1>10. \A p \in People : person[p].race \in Cascade(x) => person[p].race = x
  BY <1>6, <1>9
<1>11. \A t \in Teams : teamRace[t] \in Cascade(x) => teamRace[t] = x
  BY <1>7, <1>9
<1>12. \A p \in People : person[p].team \in Cascade(x) => person[p].team \in teams
  <2> SUFFICES ASSUME NEW p \in People, person[p].team \in Cascade(x) PROVE person[p].team \in teams
    OBVIOUS
  <2>1. CASE person[p].team = NoTeam
    <3>1. NoTeam \notin Races \union Teams \union People
      BY DEF IInv
    <3> QED
      BY <2>1, <3>1, <1>9
  <2>2. CASE person[p].team \in Teams
    BY <2>2, <1>9
  <2> QED
    BY <2>1, <2>2, <1>6
<1>13. Cascade(x) \subseteq Rows
  BY <1>9 DEF Rows
<1>14. \A y \in Cascade(x) : Live(y)
  BY <1>1, <1>4, <1>5, <1>9
<1> QED
  BY <1>9, <1>10, <1>11, <1>12, <1>13, <1>14

(* Removing live rows that no request has locked, with every member of a     *)
(* removed team and every participant of a removed race removed or detached. *)
LEMMA RemoveKeeps ==
  ASSUME IInv, NEW doomed \in SUBSET Rows, NEW detached \in SUBSET People,
         \A x \in doomed : Live(x),
         \A p \in detached : Live(p),
         doomed \intersect detached = {},
         Remove(doomed),
         person' = [p \in People |->
           IF p \in doomed THEN NoRow
           ELSE IF p \in detached THEN [person[p] EXCEPT !.team = NoTeam, !.leg = 0]
           ELSE person[p]],
         \A p \in People : person[p].team \in doomed => p \in doomed \union detached,
         request' \in [Requests -> RequestType]
  PROVE  /\ TypeOK' /\ TeamOfSameRace'
         /\ \A q \in Requests :
              request[q].people \intersect doomed = {} => request[q] \in SoundRequests'
<1>1. NoRow \in PersonType /\ NoRow.race = NoRace /\ NoRow.team = NoTeam
  BY RowFacts
<1>2. NoFormat \notin Formats
  BY DEF NoFormat, Formats
<1>3. \A x \in Rows : life'[x] = IF x \in doomed THEN "gone" ELSE life[x]
  BY DEF Remove
<1>4. person \in [People -> PersonType]
  BY DEF IInv, TypeOK
<1>5. person' \in [People -> PersonType]
  <2>1. \A p \in People : [person[p] EXCEPT !.team = NoTeam, !.leg = 0] \in PersonType
    BY <1>4, RowFacts
  <2> QED
    BY <2>1, <1>1, <1>4
<1>6. \A p \in detached : person'[p].race = person[p].race /\ person'[p].team = NoTeam
  <2>1. \A p \in detached : person'[p] = [person[p] EXCEPT !.team = NoTeam, !.leg = 0]
    OBVIOUS
  <2> QED
    BY <2>1, <1>4, RowFacts
<1>7. \A p \in People : IF life'[p] = "live" THEN person'[p].race \in Races ELSE person'[p] = NoRow
  BY <1>3, <1>6 DEF IInv, TypeOK, Rows, Live
<1>8. /\ \A r \in Races : format'[r] \in Formats <=> life'[r] = "live"
      /\ \A t \in Teams : teamRace'[t] \in Races <=> life'[t] = "live"
  <2>1. Races \subseteq Rows /\ Teams \subseteq Rows
    BY DEF Rows
  <2>2. \A r \in Races : format'[r] = IF r \in doomed THEN NoFormat ELSE format[r]
    BY DEF Remove
  <2>3. \A t \in Teams : teamRace'[t] = IF t \in doomed THEN NoRace ELSE teamRace[t]
    BY DEF Remove
  <2>4. /\ \A r \in Races : format[r] \in Formats <=> life[r] = "live"
        /\ \A t \in Teams : teamRace[t] \in Races <=> life[t] = "live"
    BY DEF IInv, TypeOK
  <2>5. \A x \in Rows : x \in doomed => life'[x] = "gone"
    BY <1>3
  <2>6. \A x \in Rows : x \notin doomed => life'[x] = life[x]
    BY <1>3
  <2>7. ASSUME NEW r \in Races PROVE format'[r] \in Formats <=> life'[r] = "live"
    BY <1>2, <2>1, <2>2, <2>4, <2>5, <2>6
  <2>8. ASSUME NEW t \in Teams PROVE teamRace'[t] \in Races <=> life'[t] = "live"
    BY <2>1, <2>3, <2>4, <2>5, <2>6
  <2> QED
    BY <2>7, <2>8
<1>9. /\ life' \in [Rows -> {"unborn", "live", "gone"}]
      /\ format' \in [Races -> Formats \union {NoFormat}]
      /\ teamRace' \in [Teams -> Races \union {NoRace}]
      /\ category' \in [Teams -> Categories \union {"none"}]
  BY DEF IInv, TypeOK, Remove
<1>10. TypeOK'
  BY <1>5, <1>7, <1>8, <1>9 DEF TypeOK
<1>11. TeamOfSameRace'
  <2> SUFFICES ASSUME NEW p \in People, person'[p].team # NoTeam
               PROVE  life'[person'[p].team] = "live" /\ teamRace'[person'[p].team] = person'[p].race
    BY DEF TeamOfSameRace, Live
  <2>1. p \notin doomed /\ p \notin detached
    BY <1>1, <1>6
  <2>2. person'[p] = person[p]
    BY <2>1
  <2>3. person[p].team \in Teams /\ person[p].team \notin doomed
    BY <2>1, <2>2, <1>4 DEF PersonType
  <2> QED
    BY <2>2, <2>3, <1>3 DEF Remove, Rows, IInv, TeamOfSameRace, Live
<1>12. ASSUME NEW q \in Requests, request[q].people \intersect doomed = {}
       PROVE  request[q] \in SoundRequests'
  <2>1. request[q] \in SoundRequests /\ request[q] \in RequestType
    BY DEF IInv, SoundRequests
  <2>2. \A t \in Teams : life[t] # "unborn" =>
          /\ life'[t] # "unborn"
          /\ life'[t] = "live" => life[t] = "live" /\ teamRace'[t] = teamRace[t]
    BY <1>3 DEF Rows, Remove
  <2>3. \A x \in Rows : life[x] = "unborn" => life'[x] = "unborn"
    BY <1>3 DEF Live
  <2>4. request[q].kind = "detach" => \A p \in request[q].people : life'[p] = "live"
    BY <2>1, <1>3, <1>12 DEF SoundRequests, RequestType, Rows
  <2>5. /\ request[q].kind = "newTeam" => life'[request[q].team] = "unborn"
        /\ request[q].kind = "new" => life'[request[q].id] = "unborn"
    BY <2>1, <2>3 DEF SoundRequests, Rows
  <2>6. TypeOK
    BY DEF IInv
  <2> QED
    BY <2>1, <2>2, <2>4, <2>5, <2>6, StillSound
<1> QED
  BY <1>10, <1>11, <1>12

(* A deletion outside a request: of a race, a team with its members, people. *)
LEMMA DeletionKeeps ==
  ASSUME IInv, NEW doomed \in SUBSET Rows,
         \A x \in doomed : Live(x),
         doomed \intersect Locked = {},
         Remove(doomed),
         person' = [p \in People |-> IF p \in doomed THEN NoRow ELSE person[p]],
         \A p \in People : person[p].team \in doomed => p \in doomed,
         UNCHANGED request
  PROVE  IInv'
<1>1. person' = [p \in People |->
         IF p \in doomed THEN NoRow
         ELSE IF p \in {} THEN [person[p] EXCEPT !.team = NoTeam, !.leg = 0]
         ELSE person[p]]
  OBVIOUS
<1>2. request' \in [Requests -> RequestType]
  BY DEF IInv, TypeOK
<1>3. \A q \in Requests : request[q].people \intersect doomed = {}
  BY DEF Locked
<1>4. \A p \in People : person[p].team \in doomed => p \in doomed \union {}
  OBVIOUS
<1>5. /\ TypeOK' /\ TeamOfSameRace'
      /\ \A q \in Requests : request[q] \in SoundRequests'
  <2>1. {} \in SUBSET People /\ doomed \intersect {} = {}
    OBVIOUS
  <2> QED
    BY <1>1, <1>2, <1>3, <1>4, <2>1, RemoveKeeps
<1>6. request' \in [Requests -> SoundRequests']
  BY <1>5 DEF IInv
<1>7. Apart'
  BY DEF IInv, Apart
<1> QED
  BY <1>5, <1>6, <1>7 DEF IInv

LEMMA Deletions ==
  ASSUME IInv,
         \/ \E r \in Races : DeleteRace(r)
         \/ \E t \in Teams : DeleteTeamAndMembers(t)
         \/ \E selection \in SUBSET People : DeleteParticipants(selection)
  PROVE  IInv'
<1>1. ASSUME NEW r \in Races, DeleteRace(r) PROVE IInv'
  <2> USE <1>1 DEF DeleteRace
  <2>1. Cascade(r) \in SUBSET Rows
    BY CascadeTakes
  <2>2. /\ \A x \in Cascade(r) : Live(x)
        /\ \A p \in People : person[p].team \in Cascade(r) => p \in Cascade(r)
    BY CascadeTakes
  <2> QED
    BY <2>1, <2>2, DeletionKeeps
<1>2. ASSUME NEW t \in Teams, DeleteTeamAndMembers(t) PROVE IInv'
  <2> USE <1>2 DEF DeleteTeamAndMembers
  <2>1. Cascade(t) \in SUBSET Rows
    BY CascadeTakes
  <2>2. /\ \A x \in Cascade(t) : Live(x)
        /\ \A p \in People : person[p].team \in Cascade(t) => p \in Cascade(t)
    BY CascadeTakes
  <2> QED
    BY <2>1, <2>2, DeletionKeeps
<1>3. ASSUME NEW selection \in SUBSET People, DeleteParticipants(selection) PROVE IInv'
  <2> USE <1>3 DEF DeleteParticipants
  <2>1. selection \in SUBSET Rows
    BY DEF Rows
  <2>2. \A p \in People : person[p].team \notin selection
    BY DEF IInv, TypeOK, PersonType
  <2> QED
    BY <2>1, <2>2, DeletionKeeps
<1> QED
  BY <1>1, <1>2, <1>3

(* The people a deletion of their team has detached, and every other row. *)
LEMMA Dropping ==
  ASSUME IInv, NEW q \in Requests, DropTeam(q)
  PROVE  /\ IInv'
         /\ \A p \in request[q].people : life'[p] = "live" /\ person'[p].race = person[p].race
<1> DEFINE t == request[q].team
           detached == request[q].people
           doomed == Cascade(t) \ detached
<1> USE DEF DropTeam, NobodyDetached
<1>1. request[q] \in SoundRequests /\ request[q] \in RequestType
  BY DEF IInv, SoundRequests
<1>2. t \in Teams /\ detached \in SUBSET People /\ \A p \in detached : Live(p)
  BY <1>1 DEF SoundRequests, RequestType, Live
<1>a. doomed \intersect (Locked \ detached) = {}
  OBVIOUS
<1>3. \A o \in Requests \ {q} : request[o].people \intersect doomed = {}
  <2>1. \A o \in Requests \ {q} : request[o].people \intersect detached = {}
    BY DEF IInv, Apart
  <2>2. \A o \in Requests : request[o].people \subseteq Locked
    BY DEF Locked
  <2> HIDE DEF doomed, detached
  <2> QED
    BY <2>1, <2>2, <1>a
<1>4. End(q)
  OBVIOUS
<1>5. CASE ~Live(t)
  <2>1. UNCHANGED <<life, format, teamRace, category, person>>
    BY <1>5
  <2>2. request' \in [Requests -> SoundRequests'] /\ Apart'
    BY <2>1, <1>4, SoundKept, EndSound
  <2>3. TypeOK' /\ TeamOfSameRace'
    BY <2>1, <2>2, ReadKeeps
  <2> QED
    BY <2>1, <2>2, <2>3, <1>2 DEF IInv, Live
<1>6. CASE Live(t)
  <2>1. /\ Cascade(t) \subseteq Rows
        /\ \A x \in Cascade(t) : Live(x)
        /\ \A p \in People : person[p].team \in Cascade(t) => p \in Cascade(t)
    BY <1>2, <1>6, CascadeTakes
  <2>2. doomed \in SUBSET Rows /\ (\A x \in doomed : Live(x)) /\ doomed \intersect detached = {}
    BY <2>1
  <2>3. \A p \in People : person[p].team \in doomed => p \in doomed \union detached
    BY <2>1
  <2>4. Remove(doomed)
    BY <1>6
  <2>5. person' = [p \in People |->
          IF p \in doomed THEN NoRow
          ELSE IF p \in detached THEN [person[p] EXCEPT !.team = NoTeam, !.leg = 0]
          ELSE person[p]]
    BY <1>6
  <2>6. request' \in [Requests -> RequestType]
    <3>1. NoRequest \in RequestType
      BY NoRequestSound DEF SoundRequests
    <3>2. request' = [request EXCEPT ![q] = NoRequest]
      BY <1>4 DEF End
    <3> QED
      BY <3>1, <3>2 DEF IInv, TypeOK
  <2> HIDE DEF doomed, detached, t
  <2>7. /\ TypeOK' /\ TeamOfSameRace'
        /\ \A o \in Requests : request[o].people \intersect doomed = {} => request[o] \in SoundRequests'
    BY <1>2, <2>2, <2>3, <2>4, <2>5, <2>6, RemoveKeeps
  <2>8. request' \in [Requests -> SoundRequests'] /\ Apart'
    BY <2>7, <1>3, <1>4, EndSound
  <2>9. \A p \in detached : life'[p] = "live"
    BY <1>2, <2>2, <2>4 DEF Remove, Rows, Live
  <2>10. \A p \in detached : person'[p].race = person[p].race
    <3>1. \A p \in detached : person'[p] = [person[p] EXCEPT !.team = NoTeam, !.leg = 0]
      BY <1>2, <2>2, <2>5
    <3> QED
      BY <3>1, <1>2, RowFacts DEF IInv, TypeOK
  <2> QED
    BY <2>7, <2>8, <2>9, <2>10 DEF IInv, detached
<1> QED
  BY <1>5, <1>6

-----------------------------------------------------------------------------
(* Teams. *)

(* The reads that create nothing and lock nothing. *)
LEMMA TeamReads ==
  ASSUME IInv, NEW q \in Requests, NEW t \in Teams, NEW c \in Categories,
         \/ ReadUpdateTeam(q, t, c)
         \/ \E r \in Races : ReadCreateTeam(q, t, r, c)
         \/ DetachTeamMembers(q, t)
  PROVE  IInv'
<1>1. NoRow \in PersonType
  BY RowFacts
<1>2. \A o \in Requests : request[o] \in SoundRequests /\ request[o] \in RequestType
  BY DEF IInv, SoundRequests
<1>3. CASE ReadUpdateTeam(q, t, c)
  <2> DEFINE y == [NoRequest EXCEPT !.kind = "team", !.team = t, !.category = c]
  <2>1. y \in SoundRequests'
    BY <1>1 DEF NoRequest, RequestType, SoundRequests
  <2>2. y.kind = "team" /\ y.id = NoPerson /\ y.team = t /\ y.people = {}
    BY DEF NoRequest
  <2>3. request' = [request EXCEPT ![q] = y] /\ Live(t)
    BY <1>3 DEF ReadUpdateTeam, Begin
  <2>4. UNCHANGED <<life, format, teamRace, category, person>>
    BY <1>3 DEF ReadUpdateTeam
  <2>5. \A o \in Requests : request[o] \in SoundRequests'
    BY <2>4, SoundKept
  <2>6. \A o \in Requests : request[o].kind = "newTeam" => request[o].team # t
    BY <1>2, <2>3 DEF SoundRequests, Live
  <2> HIDE DEF y
  <2>7. request' \in [Requests -> SoundRequests'] /\ Apart'
    BY <2>1, <2>2, <2>3, <2>5, <2>6, BeginSound
  <2> QED
    BY <2>4, <2>7, ReadKeeps DEF IInv
<1>4. ASSUME NEW r \in Races, ReadCreateTeam(q, t, r, c) PROVE IInv'
  <2> DEFINE y == [NoRequest EXCEPT !.kind = "newTeam", !.team = t, !.race = r, !.category = c]
  <2>1. UNCHANGED <<life, format, teamRace, category, person>> /\ life[t] = "unborn"
    BY <1>4 DEF ReadCreateTeam
  <2>2. y \in SoundRequests'
    BY <1>1, <2>1 DEF NoRequest, RequestType, SoundRequests
  <2>3. y.kind = "newTeam" /\ y.id = NoPerson /\ y.team = t /\ y.people = {}
    BY DEF NoRequest
  <2>4. request' = [request EXCEPT ![q] = y] /\ \A o \in Requests : request[o].team # t
    BY <1>4 DEF ReadCreateTeam, Begin
  <2>5. \A o \in Requests : request[o] \in SoundRequests'
    BY <2>1, SoundKept
  <2>6. \A o \in Requests : request[o].kind = "new" => request[o].id # NoPerson
    BY <1>2 DEF SoundRequests
  <2> HIDE DEF y
  <2>7. request' \in [Requests -> SoundRequests'] /\ Apart'
    <3>1. \A o \in Requests :
            /\ y.kind = "new" => request[o].id # y.id
            /\ request[o].kind = "new" => request[o].id # y.id
            /\ y.kind = "newTeam" => request[o].team # y.team
            /\ request[o].kind = "newTeam" => request[o].team # y.team
            /\ request[o].people \intersect y.people = {}
      BY <2>3, <2>4, <2>6
    <3> QED
      BY <2>2, <2>4, <2>5, <3>1, AllStillSound
  <2> QED
    BY <2>1, <2>7, ReadKeeps DEF IInv
<1>5. CASE DetachTeamMembers(q, t)
  <2> DEFINE y == [NoRequest EXCEPT !.kind = "detach", !.team = t, !.people = Members(t)]
  <2>1. /\ UNCHANGED <<life, format, teamRace, category, person>>
        /\ Live(t) /\ Members(t) \intersect Locked = {}
    BY <1>5 DEF DetachTeamMembers
  <2>2. Members(t) \subseteq People
    BY DEF Members
  <2>3. \A p \in Members(t) : life[p] = "live"
    BY RowFacts DEF Members, IInv, TypeOK
  <2>4. y \in SoundRequests'
    BY <1>1, <2>1, <2>2, <2>3 DEF NoRequest, RequestType, SoundRequests
  <2>5. y.kind = "detach" /\ y.id = NoPerson /\ y.team = t /\ y.people = Members(t)
    BY DEF NoRequest
  <2>6. request' = [request EXCEPT ![q] = y]
    BY <1>5 DEF DetachTeamMembers, Begin
  <2>7. \A o \in Requests : request[o] \in SoundRequests'
    BY <2>1, SoundKept
  <2>8. \A o \in Requests :
          /\ request[o].kind = "new" => request[o].id # NoPerson
          /\ request[o].kind = "newTeam" => request[o].team # t
    BY <1>2, <2>1 DEF SoundRequests, Live
  <2>9. \A o \in Requests : request[o].people \intersect Members(t) = {}
    BY <2>1 DEF Locked
  <2> HIDE DEF y
  <2>10. request' \in [Requests -> SoundRequests'] /\ Apart'
    BY <2>4, <2>5, <2>6, <2>7, <2>8, <2>9, AllStillSound
  <2> QED
    BY <2>1, <2>10, ReadKeeps DEF IInv
<1> QED
  BY <1>3, <1>4, <1>5

LEMMA TeamWrites ==
  ASSUME IInv, NEW q \in Requests, WriteCreateTeam(q) \/ WriteUpdateTeam(q)
  PROVE  IInv'
<1>1. request[q] \in SoundRequests
  BY DEF IInv
<1>2. CASE WriteUpdateTeam(q)
  <2> USE <1>2 DEF WriteUpdateTeam
  <2>1. request' \in [Requests -> SoundRequests'] /\ Apart'
    BY SoundKept, EndSound
  <2>2. request' \in [Requests -> RequestType]
    BY <2>1 DEF SoundRequests
  <2>3. request[q].category \in Categories
    BY <1>1 DEF SoundRequests
  <2>4. TypeOK'
    BY <2>2, <2>3 DEF IInv, TypeOK
  <2>5. TeamOfSameRace'
    BY DEF IInv, TeamOfSameRace, Live
  <2> QED
    BY <2>1, <2>4, <2>5 DEF IInv
<1>3. CASE WriteCreateTeam(q)
  <2> DEFINE t == request[q].team  r == request[q].race
  <2> USE <1>3 DEF WriteCreateTeam
  <2>1. t \in Teams /\ r \in Races /\ request[q].category \in Categories /\ life[t] = "unborn"
    BY <1>1 DEF SoundRequests
  <2>2. End(q) /\ UNCHANGED <<format, person>>
    OBVIOUS
  <2>3. CASE ~Live(r)
    <3>1. UNCHANGED <<life, teamRace, category>>
      BY <2>3
    <3>2. request' \in [Requests -> SoundRequests'] /\ Apart'
      BY <3>1, <2>2, SoundKept, EndSound
    <3> QED
      BY <3>1, <3>2, <2>2, ReadKeeps DEF IInv
  <2>4. CASE Live(r)
    <3>1. /\ life' = [life EXCEPT ![t] = "live"]
          /\ teamRace' = [teamRace EXCEPT ![t] = r]
          /\ category' = [category EXCEPT ![t] = request[q].category]
      BY <2>4
    <3> HIDE <1>3 DEF t, r, WriteCreateTeam
    <3>2. ASSUME NEW o \in Requests \ {q} PROVE request[o] \in SoundRequests'
      <4>1. request[o] \in SoundRequests /\ request[o] \in RequestType
        BY DEF IInv, SoundRequests
      <4>2. request[o].kind = "newTeam" => request[o].team # t
        BY <1>1, <1>3, <3>2 DEF IInv, Apart, t, WriteCreateTeam
      <4>3. \A x \in Rows : x # t => life'[x] = life[x]
        BY <3>1 DEF IInv, TypeOK
      <4>4. \A x \in Teams : life[x] # "unborn" =>
              /\ life'[x] # "unborn"
              /\ life'[x] = "live" => life[x] = "live" /\ teamRace'[x] = teamRace[x]
        BY <2>1, <3>1, <4>3 DEF IInv, TypeOK, Rows
      <4>5. /\ request[o].kind = "newTeam" => life'[request[o].team] = "unborn"
            /\ request[o].kind = "new" => life'[request[o].id] = "unborn"
            /\ request[o].kind = "detach" => \A p \in request[o].people : life'[p] = "live"
        BY <2>1, <4>1, <4>2, <4>3 DEF SoundRequests, RequestType, Rows
      <4> QED
        BY <4>1, <4>4, <4>5, StillSound DEF IInv
    <3>3. request' \in [Requests -> SoundRequests'] /\ Apart'
      BY <2>2, <3>2, EndSound
    <3>4. request' \in [Requests -> RequestType]
      BY <3>3 DEF SoundRequests
    <3>5. TypeOK'
      BY <2>1, <2>2, <3>1, <3>4 DEF IInv, TypeOK, Rows
    <3>6. TeamOfSameRace'
      BY <2>1, <2>2, <3>1 DEF IInv, TypeOK, PersonType, TeamOfSameRace, Live, Rows
    <3> QED
      BY <3>3, <3>5, <3>6 DEF IInv
  <2> QED
    BY <2>3, <2>4
<1> QED
  BY <1>2, <1>3

-----------------------------------------------------------------------------
(* Participants. *)

(* What the rules have admitted names a team of the row's own race. *)
LEMMA JoinedOwnTeam ==
  ASSUME IInv, NEW row \in PersonType, NEW p \in People, JoinAllowed(row, p)
  PROVE  OwnOrGone(row)
BY DEF JoinAllowed, OwnTeam, OwnOrGone, Live

LEMMA MergedType ==
  ASSUME IInv, NEW p \in People, Live(p),
         NEW race \in Races \union {Keep}, NEW team \in Teams \union {NoTeam, Keep},
         NEW leg \in (0..MaxLeg) \union {Keep}, NEW gender \in Genders \union {Keep}
  PROVE  /\ Merged(person[p], race, team, leg, gender) \in PersonType
         /\ Merged(person[p], race, team, leg, gender).race \in Races
<1>1. person[p] \in PersonType /\ person[p].race \in Races
  BY DEF IInv, TypeOK, Live
<1>2. /\ Sent(race, person[p].race) \in Races
      /\ Sent(team, NoTeam) \in Teams \union {NoTeam}
      /\ Sent(team, person[p].team) \in Teams \union {NoTeam}
      /\ Sent(gender, person[p].gender) \in Genders \union {"none"}
  BY <1>1 DEF Sent, PersonType
<1>3. /\ Sent(leg, 0) \in 0..MaxLeg
      /\ Sent(leg, person[p].leg) \in 0..MaxLeg
  <2>1. 0 \in 0..MaxLeg
    OBVIOUS
  <2> QED
    BY <1>1, <2>1 DEF Sent, PersonType
<1> QED
  BY <1>2, <1>3 DEF Merged, PersonType

LEMMA ParticipantReads ==
  ASSUME IInv, NEW q \in Requests, NEW p \in People,
         \/ \E row \in [race : Races, team : Teams \union {NoTeam}, leg : 0..MaxLeg, gender : Genders] :
              ReadCreateParticipant(q, p, row)
         \/ \E race \in Races \union {Keep}, team \in Teams \union {NoTeam, Keep},
               leg \in (0..MaxLeg) \union {Keep}, gender \in Genders \union {Keep} :
              ReadUpdateParticipant(q, p, race, team, leg, gender)
  PROVE  IInv'
<1>1. \A o \in Requests : request[o] \in SoundRequests /\ request[o] \in RequestType
  BY DEF IInv, SoundRequests
<1>2. ASSUME NEW row \in PersonType, row.race \in Races, OwnOrGone(row),
             NEW k \in {"new", "edit"}, k = "new" => life[p] = "unborn",
             \A o \in Requests : k = "new" => request[o].id # p,
             \A o \in Requests : request[o].kind = "new" => request[o].id # p,
             request' = [request EXCEPT ![q] = [NoRequest EXCEPT !.kind = k, !.id = p, !.row = row]],
             UNCHANGED <<life, format, teamRace, category, person>>
      PROVE  IInv'
  <2> DEFINE y == [NoRequest EXCEPT !.kind = k, !.id = p, !.row = row]
  <2>1. y \in RequestType
    BY DEF NoRequest, RequestType
  <2>2. y.kind = k /\ y.id = p /\ y.team = NoTeam /\ y.people = {} /\ y.row = row
    BY DEF NoRequest
  <2> HIDE DEF y
  <2>3. y \in SoundRequests'
    BY <1>2, <2>1, <2>2 DEF SoundRequests, OwnOrGone
  <2>4. request' = [request EXCEPT ![q] = y]
    BY <1>2 DEF y
  <2>5. \A o \in Requests : request[o] \in SoundRequests'
    BY <1>2, SoundKept
  <2>6. \A o \in Requests : request[o].kind = "newTeam" => request[o].team # NoTeam
    BY <1>1 DEF SoundRequests
  <2>7. \A o \in Requests \ {q} :
          /\ y.kind = "new" => request[o].id # y.id
          /\ request[o].kind = "new" => request[o].id # y.id
          /\ y.kind = "newTeam" => request[o].team # y.team
          /\ request[o].kind = "newTeam" => request[o].team # y.team
          /\ request[o].people \intersect y.people = {}
    <3>1. y.kind # "newTeam"
      BY <1>2, <2>2
    <3>2. \A o \in Requests : request[o].people \intersect y.people = {}
      BY <2>2
    <3>3. \A o \in Requests : (y.kind = "new" => request[o].id # y.id)
                             /\ (request[o].kind = "new" => request[o].id # y.id)
      BY <1>2, <2>2
    <3> QED
      BY <2>2, <2>6, <3>1, <3>2, <3>3
  <2>8. request' \in [Requests -> SoundRequests'] /\ Apart'
    BY <2>3, <2>4, <2>5, <2>7, AllStillSound
  <2> QED
    BY <1>2, <2>8, ReadKeeps DEF IInv
<1>3. ASSUME NEW row \in [race : Races, team : Teams \union {NoTeam}, leg : 0..MaxLeg, gender : Genders],
             ReadCreateParticipant(q, p, row)
      PROVE  IInv'
  <2>1. row \in PersonType /\ row.race \in Races
    BY DEF PersonType
  <2>2. OwnOrGone(row)
    BY <1>3, <2>1, JoinedOwnTeam DEF ReadCreateParticipant
  <2>3. /\ life[p] = "unborn"
        /\ \A o \in Requests : request[o].id # p
        /\ request' = [request EXCEPT ![q] = [NoRequest EXCEPT !.kind = "new", !.id = p, !.row = row]]
        /\ UNCHANGED <<life, format, teamRace, category, person>>
    BY <1>3 DEF ReadCreateParticipant, Begin
  <2> QED
    BY <1>2, <2>1, <2>2, <2>3
<1>4. ASSUME NEW race \in Races \union {Keep}, NEW team \in Teams \union {NoTeam, Keep},
             NEW leg \in (0..MaxLeg) \union {Keep}, NEW gender \in Genders \union {Keep},
             ReadUpdateParticipant(q, p, race, team, leg, gender)
      PROVE  IInv'
  <2> DEFINE row == Merged(person[p], race, team, leg, gender)
  <2>1. Live(p)
    BY <1>4 DEF ReadUpdateParticipant
  <2>2. row \in PersonType /\ row.race \in Races
    BY <2>1, MergedType
  <2>3. JoinAllowed(row, p)
    BY <1>4 DEF ReadUpdateParticipant
  <2>4. /\ request' = [request EXCEPT ![q] = [NoRequest EXCEPT !.kind = "edit", !.id = p, !.row = row]]
        /\ UNCHANGED <<life, format, teamRace, category, person>>
    BY <1>4 DEF ReadUpdateParticipant, Begin
  <2> HIDE DEF row
  <2>5. OwnOrGone(row)
    BY <2>2, <2>3, JoinedOwnTeam
  <2>6. \A o \in Requests : request[o].kind = "new" => request[o].id # p
    BY <1>1, <2>1 DEF SoundRequests, Live
  <2> QED
    BY <1>2, <2>2, <2>4, <2>5, <2>6
<1> QED
  BY <1>3, <1>4

(* A write that the foreign keys let through puts the row of a live p there. *)
LEMMA ParticipantWrites ==
  ASSUME IInv, NEW q \in Requests,
         WriteCreateParticipant(q) \/ WriteUpdateParticipant(q)
  PROVE  /\ IInv'
         /\ \A x \in Rows : life[x] = "gone" =>
              life'[x] = "gone" /\ (x \in People => person'[x] = person[x])
<1> DEFINE p == request[q].id  row == request[q].row
<1>1. request[q] \in SoundRequests /\ request[q] \in RequestType
  BY DEF IInv, SoundRequests
<1>2. request[q].kind \in {"new", "edit"} /\ UNCHANGED <<format, teamRace, category>> /\ End(q)
  BY DEF WriteCreateParticipant, WriteUpdateParticipant
<1>3. p \in People /\ row \in PersonType /\ row.race \in Races /\ OwnOrGone(row)
  BY <1>1, <1>2 DEF SoundRequests, RequestType
<1>4. CASE UNCHANGED <<life, person>>
  <2>1. request' \in [Requests -> SoundRequests'] /\ Apart'
    BY <1>2, <1>4, SoundKept, EndSound
  <2>2. IInv'
    BY <1>2, <1>4, <2>1, ReadKeeps DEF IInv
  <2> QED
    BY <1>4, <2>2
<1>5. ASSUME Accepted(row, p), life[p] # "gone",
             life' = [life EXCEPT ![p] = "live"], person' = [person EXCEPT ![p] = row],
             life[p] = "unborn" => request[q].kind = "new"
      PROVE  /\ IInv'
             /\ \A x \in Rows : life[x] = "gone" =>
                  life'[x] = "gone" /\ (x \in People => person'[x] = person[x])
  <2> HIDE DEF p, row
  <2>1. \A x \in Rows : x # p => life'[x] = life[x]
    BY <1>5 DEF IInv, TypeOK
  <2>2. ASSUME NEW o \in Requests \ {q} PROVE request[o] \in SoundRequests'
    <3>1. request[o] \in SoundRequests /\ request[o] \in RequestType
      BY DEF IInv, SoundRequests
    <3>2. request[o].kind = "new" => request[o].id # p
      <4>1. life[p] = "unborn" => request[o].id # p
        BY <1>5, <2>2 DEF IInv, Apart, p
      <4> QED
        BY <3>1, <4>1 DEF SoundRequests
    <3>3. \A x \in Teams : life'[x] = life[x] /\ teamRace'[x] = teamRace[x]
      BY <1>2, <1>3, <2>1 DEF Rows
    <3>4. /\ request[o].kind = "newTeam" => life'[request[o].team] = "unborn"
          /\ request[o].kind = "new" => life'[request[o].id] = "unborn"
      BY <3>1, <3>2, <3>3, <2>1 DEF SoundRequests, Rows
    <3>5. request[o].kind = "detach" => \A x \in request[o].people : life'[x] = "live"
      BY <1>3, <1>5, <3>1, <2>1 DEF SoundRequests, RequestType, Rows, IInv, TypeOK
    <3> QED
      BY <3>1, <3>3, <3>4, <3>5, StillSound DEF IInv
  <2>3. request' \in [Requests -> SoundRequests'] /\ Apart'
    BY <1>2, <2>2, EndSound
  <2>4. request' \in [Requests -> RequestType]
    BY <2>3 DEF SoundRequests
  <2>5. life' \in [Rows -> {"unborn", "live", "gone"}] /\ person' \in [People -> PersonType]
    BY <1>3, <1>5 DEF IInv, TypeOK
  <2>6. /\ \A r \in Races : format'[r] \in Formats <=> life'[r] = "live"
        /\ \A t \in Teams : teamRace'[t] \in Races <=> life'[t] = "live"
    BY <1>2, <1>3, <2>1 DEF IInv, TypeOK, Rows
  <2>7. \A x \in People : IF life'[x] = "live" THEN person'[x].race \in Races ELSE person'[x] = NoRow
    BY <1>3, <1>5, <2>1 DEF IInv, TypeOK, Rows
  <2>8. TypeOK'
    BY <1>2, <2>4, <2>5, <2>6, <2>7 DEF IInv, TypeOK
  <2>9. TeamOfSameRace'
    <3> SUFFICES ASSUME NEW x \in People, person'[x].team # NoTeam
                 PROVE  life'[person'[x].team] = "live" /\ teamRace'[person'[x].team] = person'[x].race
      BY DEF TeamOfSameRace, Live
    <3>1. \A t \in Teams : life'[t] = life[t] /\ teamRace'[t] = teamRace[t]
      BY <1>2, <1>3, <2>1 DEF Rows
    <3>2. CASE x = p
      <4>1. person'[x] = row
        BY <1>3, <1>5, <3>2 DEF IInv, TypeOK
      <4>2. row.team \in Teams /\ life[row.team] = "live"
        BY <1>3, <1>5, <4>1 DEF Accepted, Live, PersonType
      <4> QED
        BY <1>3, <3>1, <4>1, <4>2 DEF OwnOrGone
    <3>3. CASE x # p
      <4>1. person'[x] = person[x] /\ person[x].team \in Teams
        BY <1>5, <3>3 DEF IInv, TypeOK, PersonType
      <4> QED
        BY <3>1, <4>1 DEF IInv, TeamOfSameRace, Live
    <3> QED
      BY <3>2, <3>3
  <2>10. \A x \in Rows : life[x] = "gone" =>
           life'[x] = "gone" /\ (x \in People => person'[x] = person[x])
    BY <1>5, <2>1 DEF IInv, TypeOK
  <2> QED
    BY <2>3, <2>8, <2>9, <2>10 DEF IInv
<1>6. CASE WriteCreateParticipant(q)
  <2>1. request[q].kind = "new" /\ life[p] = "unborn"
    BY <1>1, <1>6 DEF SoundRequests, WriteCreateParticipant
  <2>2. CASE Accepted(row, p)
    <3>1. life' = [life EXCEPT ![p] = "live"] /\ person' = [person EXCEPT ![p] = row]
      BY <1>6, <2>2 DEF WriteCreateParticipant
    <3> QED
      BY <1>5, <2>1, <2>2, <3>1
  <2>3. CASE ~Accepted(row, p)
    BY <1>4, <1>6, <2>3 DEF WriteCreateParticipant
  <2> QED
    BY <2>2, <2>3
<1>7. CASE WriteUpdateParticipant(q)
  <2>1. UNCHANGED life
    BY <1>7 DEF WriteUpdateParticipant
  <2>2. CASE Live(p) /\ Accepted(row, p)
    <3>1. person' = [person EXCEPT ![p] = row]
      BY <1>7, <2>2 DEF WriteUpdateParticipant
    <3>2. life' = [life EXCEPT ![p] = "live"]
      BY <1>3, <2>1, <2>2 DEF Live, IInv, TypeOK, Rows
    <3> QED
      BY <1>5, <2>2, <3>1, <3>2 DEF Live
  <2>3. CASE ~(Live(p) /\ Accepted(row, p))
    BY <1>4, <1>7, <2>1, <2>3 DEF WriteUpdateParticipant
  <2> QED
    BY <2>2, <2>3
<1> QED
  BY <1>6, <1>7

-----------------------------------------------------------------------------
(* Every step. *)

LEMMA NextIInv == IInv /\ [Next]_vars => IInv'
<1> SUFFICES ASSUME IInv, [Next]_vars PROVE IInv'
  OBVIOUS
<1>1. CASE UNCHANGED vars
  BY <1>1 DEF IInv, TypeOK, TeamOfSameRace, Apart, SoundRequests, OwnOrGone, Live, vars
<1>2. CASE Next
  <2>1. ASSUME NEW r \in Races,
               \/ \E f \in RaceFormats : CreateRace(r, f) \/ \E q \in Requests : ReadUpdateRace(q, r, f)
               \/ DeleteRace(r)
        PROVE  IInv'
    BY <2>1, RaceActions, Deletions
  <2>2. ASSUME NEW t \in Teams,
               \/ \E q \in Requests :
                    \/ \E c \in Categories :
                         (\E r \in Races : ReadCreateTeam(q, t, r, c)) \/ ReadUpdateTeam(q, t, c)
                    \/ DetachTeamMembers(q, t)
               \/ DeleteTeamAndMembers(t)
        PROVE  IInv'
    <3>1. "male" \in Categories
      BY DEF Categories, Genders
    <3> QED
      BY <2>2, <3>1, TeamReads, Deletions
  <2>3. ASSUME NEW q \in Requests, NEW p \in People,
               \/ \E row \in [race : Races, team : Teams \union {NoTeam}, leg : 0..MaxLeg, gender : Genders] :
                    ReadCreateParticipant(q, p, row)
               \/ \E race \in Races \union {Keep}, team \in Teams \union {NoTeam, Keep},
                     leg \in (0..MaxLeg) \union {Keep}, gender \in Genders \union {Keep} :
                    ReadUpdateParticipant(q, p, race, team, leg, gender)
        PROVE  IInv'
    BY <2>3, ParticipantReads
  <2>4. ASSUME NEW q \in Requests,
               \/ WriteUpdateRace(q) \/ WriteCreateTeam(q) \/ WriteUpdateTeam(q) \/ DropTeam(q)
               \/ WriteCreateParticipant(q) \/ WriteUpdateParticipant(q)
        PROVE  IInv'
    BY <2>4, RaceWrite, TeamWrites, Dropping, ParticipantWrites
  <2>5. ASSUME NEW q \in Requests, Rollback(q) PROVE IInv'
    <3>1. UNCHANGED <<life, format, teamRace, category, person>> /\ End(q)
      BY <2>5 DEF Rollback
    <3>2. request' \in [Requests -> SoundRequests'] /\ Apart'
      BY <3>1, SoundKept, EndSound
    <3> QED
      BY <3>1, <3>2, ReadKeeps DEF IInv
  <2>6. ASSUME NEW selection \in SUBSET People, DeleteParticipants(selection) PROVE IInv'
    BY <2>6, Deletions
  <2> QED
    BY <1>2, <2>1, <2>2, <2>3, <2>4, <2>5, <2>6 DEF Next
<1> QED
  BY <1>1, <1>2

(* A participant's team exists and is a team of the participant's own race, *)
(* however the requests on races, teams and participants interleave.        *)
THEOREM RegistrationSafety == Spec => [](TypeOK /\ TeamOfSameRace)
<1>1. IInv => TypeOK /\ TeamOfSameRace
  BY DEF IInv
<1> QED
  BY <1>1, InitIInv, NextIInv, PTL DEF Spec

(* Only its own DropTeam or Rollback ends a deletion under way. *)
LEMMA DetachingEnds ==
  ASSUME IInv, Next, NEW q \in Requests, request[q].kind = "detach", request'[q] # request[q]
  PROVE  DropTeam(q) \/ Rollback(q)
<1>1. request \in [Requests -> SoundRequests]
  BY DEF IInv
<1>2. ASSUME NEW o \in Requests, NEW y, Idle(o), Begin(o, y) PROVE FALSE
  BY <1>1, <1>2 DEF Begin, Idle
<1>3. \A r \in Races, f \in RaceFormats, o \in Requests : ~ReadUpdateRace(o, r, f)
  BY <1>2 DEF ReadUpdateRace
<1>4. \A o \in Requests, t \in Teams, c \in Categories :
        /\ \A r \in Races : ~ReadCreateTeam(o, t, r, c)
        /\ ~ReadUpdateTeam(o, t, c)
  BY <1>2 DEF ReadCreateTeam, ReadUpdateTeam
<1>5. \A o \in Requests, t \in Teams : ~DetachTeamMembers(o, t)
  BY <1>2 DEF DetachTeamMembers
<1>6. \A o \in Requests, p \in People : \A row : ~ReadCreateParticipant(o, p, row)
  BY <1>2 DEF ReadCreateParticipant
<1>7. \A o \in Requests, p \in People : \A race, team, leg, gender :
        ~ReadUpdateParticipant(o, p, race, team, leg, gender)
  BY <1>2 DEF ReadUpdateParticipant
<1>8. \A r \in Races, f \in RaceFormats : ~CreateRace(r, f)
  BY DEF CreateRace
<1>9. /\ \A r \in Races : ~DeleteRace(r)
      /\ \A t \in Teams : ~DeleteTeamAndMembers(t)
      /\ \A selection \in SUBSET People : ~DeleteParticipants(selection)
  BY DEF DeleteRace, DeleteTeamAndMembers, DeleteParticipants
<1>10. \A o \in Requests : End(o) => o = q
  BY <1>1 DEF End
<1>11. \A o \in Requests : WriteUpdateRace(o) \/ WriteCreateTeam(o) \/ WriteUpdateTeam(o)
                        \/ WriteCreateParticipant(o) \/ WriteUpdateParticipant(o) => FALSE
  BY <1>10 DEF WriteUpdateRace, WriteCreateTeam, WriteUpdateTeam, WriteCreateParticipant,
               WriteUpdateParticipant
<1>12. \A o \in Requests : DropTeam(o) \/ Rollback(o) => o = q
  BY <1>10 DEF DropTeam, Rollback
<1>13. ~\E r \in Races :
          \/ \E f \in RaceFormats : CreateRace(r, f) \/ \E o \in Requests : ReadUpdateRace(o, r, f)
          \/ DeleteRace(r)
  BY <1>3, <1>8, <1>9
<1>14. ~\E t \in Teams :
          \/ \E o \in Requests :
               \/ \E c \in Categories :
                    (\E r \in Races : ReadCreateTeam(o, t, r, c)) \/ ReadUpdateTeam(o, t, c)
               \/ DetachTeamMembers(o, t)
          \/ DeleteTeamAndMembers(t)
  <2>1. \A t \in Teams, o \in Requests, c \in Categories :
          ~(\E r \in Races : ReadCreateTeam(o, t, r, c)) /\ ~ReadUpdateTeam(o, t, c)
    BY <1>4
  <2> QED
    BY <1>5, <1>9, <2>1
<1>15. ~\E o \in Requests, p \in People :
          \/ \E row \in [race : Races, team : Teams \union {NoTeam}, leg : 0..MaxLeg, gender : Genders] :
               ReadCreateParticipant(o, p, row)
          \/ \E race \in Races \union {Keep}, team \in Teams \union {NoTeam, Keep},
                leg \in (0..MaxLeg) \union {Keep}, gender \in Genders \union {Keep} :
               ReadUpdateParticipant(o, p, race, team, leg, gender)
  BY <1>6, <1>7
<1>16. \E o \in Requests :
          \/ WriteUpdateRace(o) \/ WriteCreateTeam(o) \/ WriteUpdateTeam(o) \/ DropTeam(o)
          \/ WriteCreateParticipant(o) \/ WriteUpdateParticipant(o) \/ Rollback(o)
  <2>1. ~\E selection \in SUBSET People : DeleteParticipants(selection)
    BY <1>9
  <2> QED
    BY <1>13, <1>14, <1>15, <2>1 DEF Next
<1> QED
  BY <1>11, <1>12, <1>16

(* Deleting a team "keep members" never costs a member of the team the       *)
(* registration that DetachTeamMembers has seen: DropTeam's cascade passes   *)
(* the rows its own transaction has detached, and others wait for its locks. *)
THEOREM DetachingKeepsMembers == Spec => DetachedStayRegistered
<1> DEFINE A == \A q \in Requests :
                  request[q].kind = "detach" /\ request'[q] # request[q] =>
                    \A p \in request[q].people :
                      life'[p] = "live" /\ person'[p].race = person[p].race
<1>1. IInv /\ [Next]_vars => A
  <2> SUFFICES ASSUME IInv, [Next]_vars, NEW q \in Requests, request[q].kind = "detach",
                      request'[q] # request[q]
               PROVE  \A p \in request[q].people :
                        life'[p] = "live" /\ person'[p].race = person[p].race
    OBVIOUS
  <2>1. Next
    BY DEF vars
  <2>2. DropTeam(q) \/ Rollback(q)
    BY <2>1, DetachingEnds
  <2>3. \A p \in request[q].people : life[p] = "live"
    BY DEF IInv, SoundRequests
  <2>4. CASE Rollback(q)
    BY <2>3, <2>4 DEF Rollback
  <2> QED
    BY <2>2, <2>4, Dropping
<1> HIDE DEF A
<1>2. IInv /\ [Next]_vars => [A]_vars
  BY <1>1
<1>3. Spec => [][A]_vars
  BY <1>2, InitIInv, NextIInv, PTL DEF Spec
<1> QED
  BY <1>3 DEF A, DetachedStayRegistered

(* Deleting leaves what is gone as it is. *)
LEMMA RemovalForGood ==
  ASSUME IInv, NEW doomed, Remove(doomed), NEW kept,
         person' = [p \in People |-> IF p \in doomed THEN NoRow ELSE kept[p]],
         \A p \in People : life[p] = "gone" => kept[p] = person[p]
  PROVE  \A x \in Rows : life[x] = "gone" =>
           life'[x] = "gone" /\ (x \in People => person'[x] = person[x])
BY DEF Remove, IInv, TypeOK

(* No request in progress, and no cascade, brings a deleted race, team or   *)
(* participant back or writes to it: a stale update finds no row, and the   *)
(* rows that requests create have ids of their own.                         *)
THEOREM DeletionIsForGood == Spec => DeletedForGood
<1> DEFINE A == \A x \in Rows : life[x] = "gone" =>
                  life'[x] = "gone" /\ (x \in People => person'[x] = person[x])
<1>1. ASSUME IInv, [Next]_vars PROVE A
  <2>1. CASE UNCHANGED <<life, person>>
    BY <2>1
  <2>2. ASSUME NEW r \in Races, NEW f \in RaceFormats, CreateRace(r, f) PROVE A
    BY <1>1, <2>2 DEF CreateRace, IInv, TypeOK, Rows
  <2>3. ASSUME NEW r \in Races, DeleteRace(r) PROVE A
    <3>1. Remove(Cascade(r)) /\ person' = [p \in People |-> IF p \in Cascade(r) THEN NoRow ELSE person[p]]
      BY <2>3 DEF DeleteRace
    <3> QED
      BY <1>1, <3>1, RemovalForGood
  <2>4. ASSUME NEW t \in Teams, DeleteTeamAndMembers(t) PROVE A
    <3>1. Remove(Cascade(t)) /\ person' = [p \in People |-> IF p \in Cascade(t) THEN NoRow ELSE person[p]]
      BY <2>4 DEF DeleteTeamAndMembers
    <3> QED
      BY <1>1, <3>1, RemovalForGood
  <2>5. ASSUME NEW selection \in SUBSET People, DeleteParticipants(selection) PROVE A
    <3>1. Remove(selection) /\ person' = [p \in People |-> IF p \in selection THEN NoRow ELSE person[p]]
      BY <2>5 DEF DeleteParticipants
    <3> QED
      BY <1>1, <3>1, RemovalForGood
  <2>6. ASSUME NEW q \in Requests, WriteCreateTeam(q) PROVE A
    <3>1. life[request[q].team] = "unborn"
      BY <1>1, <2>6 DEF WriteCreateTeam, IInv, SoundRequests
    <3> QED
      BY <1>1, <2>6, <3>1 DEF WriteCreateTeam, IInv, TypeOK, Rows
  <2>7. ASSUME NEW q \in Requests, DropTeam(q) PROVE A
    <3>1. \A p \in request[q].people : life[p] = "live"
      BY <1>1, <2>7 DEF DropTeam, IInv, SoundRequests
    <3>2. CASE Live(request[q].team)
      <4> DEFINE doomed == NobodyDetached(q)
                 kept == [p \in People |-> IF p \in request[q].people
                            THEN [person[p] EXCEPT !.team = NoTeam, !.leg = 0] ELSE person[p]]
      <4>1. Remove(doomed) /\ person' = [p \in People |-> IF p \in doomed THEN NoRow ELSE kept[p]]
        BY <2>7, <3>2 DEF DropTeam
      <4>2. \A p \in People : life[p] = "gone" => kept[p] = person[p]
        BY <3>1
      <4> HIDE DEF doomed, kept
      <4> QED
        BY <1>1, <4>1, <4>2, RemovalForGood
    <3> QED
      BY <2>1, <2>7, <3>2 DEF DropTeam
  <2>8. ASSUME NEW q \in Requests, WriteCreateParticipant(q) \/ WriteUpdateParticipant(q) PROVE A
    BY <1>1, <2>8, ParticipantWrites
  <2>9. ASSUME NEW q \in Requests, WriteUpdateRace(q) \/ WriteUpdateTeam(q) \/ Rollback(q) PROVE A
    BY <2>1, <2>9 DEF WriteUpdateRace, WriteUpdateTeam, Rollback
  <2>10. ASSUME NEW q \in Requests, NEW r \in Races, NEW f \in RaceFormats, ReadUpdateRace(q, r, f) PROVE A
    BY <2>1, <2>10 DEF ReadUpdateRace
  <2>11. ASSUME NEW q \in Requests, NEW t \in Teams,
                \/ \E c \in Categories : (\E r \in Races : ReadCreateTeam(q, t, r, c)) \/ ReadUpdateTeam(q, t, c)
                \/ DetachTeamMembers(q, t)
         PROVE  A
    BY <2>1, <2>11 DEF ReadCreateTeam, ReadUpdateTeam, DetachTeamMembers
  <2>12. ASSUME NEW q \in Requests, NEW p \in People,
                \/ \E row \in [race : Races, team : Teams \union {NoTeam}, leg : 0..MaxLeg, gender : Genders] :
                     ReadCreateParticipant(q, p, row)
                \/ \E race \in Races \union {Keep}, team \in Teams \union {NoTeam, Keep},
                      leg \in (0..MaxLeg) \union {Keep}, gender \in Genders \union {Keep} :
                     ReadUpdateParticipant(q, p, race, team, leg, gender)
         PROVE  A
    <3>1. \A row : ReadCreateParticipant(q, p, row) => UNCHANGED <<life, person>>
      BY DEF ReadCreateParticipant
    <3>2. \A race, team, leg, gender :
            ReadUpdateParticipant(q, p, race, team, leg, gender) => UNCHANGED <<life, person>>
      BY DEF ReadUpdateParticipant
    <3>3. UNCHANGED <<life, person>>
      BY <2>12, <3>1, <3>2
    <3> QED
      BY <2>1, <3>3
  <2>13. CASE UNCHANGED vars
    BY <2>1, <2>13 DEF vars
  <2> HIDE DEF A
  <2> QED
    BY <1>1, <2>2, <2>3, <2>4, <2>5, <2>6, <2>7, <2>8, <2>9, <2>10, <2>11, <2>12, <2>13 DEF Next
<1> HIDE DEF A
<1>2. IInv /\ [Next]_vars => [A]_vars
  BY <1>1
<1>3. Spec => [][A]_vars
  BY <1>2, InitIInv, NextIInv, PTL DEF Spec
<1> QED
  BY <1>3 DEF A, DeletedForGood
-----------------------------------------------------------------------------
(* One request at a time.  What a request has checked still holds when it     *)
(* writes: only deletions of races, teams and participants and new races      *)
(* come between, and a team that fits its rules fits them with fewer members.  *)

(* A team of category c and size n may have the members S with these genders. *)
Suits(c, n, S, genders) ==
  /\ IsFiniteSet(S)
  /\ S # {} => /\ Cardinality(S) <= n
               /\ ~BadComposition(c, n, {genders[m] : m \in S}, Cardinality(S))

GenderOf == [p \in People |-> person[p].gender]
SizeOf(t) == format[teamRace[t]].size

RostersSuit == \A t \in Teams : Live(t) => Suits(category[t], SizeOf(t), Members(t), GenderOf)

FitsRace(row) ==
  \/ InvalidField(format[row.race], row.team, row.leg) = "none"
  \/ IsTeam(format[row.race]) /\ row.team = NoTeam

FitsTeam(row, p) ==
  row.team # NoTeam /\ Live(row.team) =>
    Suits(category[row.team], SizeOf(row.team), Members(row.team) \union {p},
          [GenderOf EXCEPT ![p] = row.gender])

RelayOfTeams(f) == IsRelay(f) => IsTeam(f)

Checked(x) ==
  /\ x.kind = "race" =>
       /\ life[x.race] # "unborn" /\ RelayOfTeams(x.format)
       /\ Live(x.race) => x.format = format[x.race] \/ ~RaceHasParticipants(x.race)
  /\ x.kind = "team" =>
       /\ life[x.team] # "unborn"
       /\ Live(x.team) => Suits(x.category, SizeOf(x.team), Members(x.team), GenderOf)
  /\ x.kind \in {"new", "edit"} =>
       /\ life[x.row.race] # "unborn"
       /\ Live(x.row.race) => FitsRace(x.row) /\ FitsTeam(x.row, x.id)

RowsHaveRaces ==
  /\ \A t \in Teams : Live(t) => Live(teamRace[t])
  /\ \A p \in People : Live(p) => Live(person[p].race)

RelaysOfTeams == \A r \in Races : Live(r) => RelayOfTeams(format[r])

RowsKept == FormatKept /\ RostersSuit /\ RowsHaveRaces /\ RelaysOfTeams
RulesInv == RowsKept /\ \A q \in Requests : Checked(request[q])

OneAtATime == \A q, o \in Requests : q = o

(* Rows of races, teams and participants that go, and members who leave. *)
RacesThinned ==
  \A r \in Races :
    IF life[r] = "unborn"
    THEN life'[r] = "live" => RelayOfTeams(format'[r])
    ELSE life'[r] # "unborn" /\ (life'[r] = "live" => Live(r) /\ format'[r] = format[r])
TeamsThinned ==
  \A t \in Teams :
    /\ life[t] # "unborn" => life'[t] # "unborn"
    /\ life'[t] = "live" => /\ Live(t) /\ life'[teamRace[t]] = "live"
                            /\ teamRace'[t] = teamRace[t] /\ category'[t] = category[t]
PeopleThinned ==
  \A p \in People : life'[p] = "live" =>
    /\ Live(p) /\ life'[person[p].race] = "live"
    /\ person'[p].race = person[p].race /\ person'[p].gender = person[p].gender
    /\ \/ person'[p].team = person[p].team /\ person'[p].leg = person[p].leg
       \/ person'[p].team = NoTeam /\ person'[p].leg = 0
Thinned == RacesThinned /\ TeamsThinned /\ PeopleThinned

LEMMA FewerSuit ==
  ASSUME NEW c, NEW n \in Nat, NEW S, NEW genders, Suits(c, n, S, genders),
         NEW T \in SUBSET S, NEW others, \A m \in T : others[m] = genders[m]
  PROVE  Suits(c, n, T, others)
<1>1. /\ IsFiniteSet(S) /\ IsFiniteSet(T)
      /\ Cardinality(S) \in Nat /\ Cardinality(T) \in Nat /\ Cardinality(T) <= Cardinality(S)
      /\ Cardinality(T) = Cardinality(S) => T = S
  BY FS_Subset, FS_CardinalityType DEF Suits
<1> SUFFICES ASSUME T # {}
             PROVE  /\ Cardinality(T) <= n
                    /\ ~BadComposition(c, n, {others[m] : m \in T}, Cardinality(T))
  BY <1>1 DEF Suits
<1>2. Cardinality(S) <= n /\ ~BadComposition(c, n, {genders[m] : m \in S}, Cardinality(S))
  BY DEF Suits
<1>3. {others[m] : m \in T} = {genders[m] : m \in T}
  OBVIOUS
<1>4. CASE c = "mixed"
  <2>1. Cardinality(T) >= n => T = S
    BY <1>1, <1>2
  <2> QED
    BY <1>1, <1>2, <1>3, <1>4, <2>1 DEF BadComposition
<1>5. CASE c # "mixed"
  <2>1. {genders[m] : m \in T} \subseteq {genders[m] : m \in S}
    OBVIOUS
  <2> QED
    BY <1>1, <1>2, <1>3, <1>5, <2>1 DEF BadComposition
<1> QED
  BY <1>4, <1>5

LEMMA NobodySuits == \A c, n, genders : Suits(c, n, {}, genders)
  BY FS_EmptySet DEF Suits

LEMMA SizesAreNumbers ==
  ASSUME TypeOK, NEW t \in Teams, Live(t)
  PROVE  teamRace[t] \in Races /\ SizeOf(t) \in Nat
<1>1. teamRace[t] \in Races
  BY DEF TypeOK, Live
<1>2. format[teamRace[t]] \in Formats \union {NoFormat}
  BY <1>1 DEF TypeOK
<1> QED
  BY <1>1, <1>2 DEF SizeOf, Formats, NoFormat

(* Members are in a race, and a team that is gone or not there yet has none. *)
LEMMA MembersThere ==
  ASSUME TypeOK, TeamOfSameRace
  PROVE  /\ \A p \in People : person[p].team # NoTeam => Live(p)
         /\ \A t \in Teams : ~Live(t) => Members(t) = {}
         /\ \A t \in Teams : \A p \in Members(t) : person[p].race = teamRace[t] /\ p \in People
<1>1. \A t \in Teams : t # NoTeam
  OBVIOUS
<1>2. \A p \in People : person[p].team # NoTeam => Live(p)
  BY DEF TypeOK, Live, NoRow
<1> QED
  BY <1>1, <1>2 DEF Members, TeamOfSameRace

LEMMA ThinnedMembers ==
  ASSUME TypeOK, TypeOK', TeamOfSameRace, TeamOfSameRace', Thinned, NEW t \in Teams
  PROVE  /\ Members(t)' \subseteq Members(t)
         /\ \A p \in Members(t)' : GenderOf'[p] = GenderOf[p]
<1>1. ASSUME NEW p \in People, person'[p].team = t
      PROVE  person[p].team = t /\ person'[p].gender = person[p].gender
  <2>1. life'[p] = "live"
    <3>1. NoRow.team = NoTeam /\ t # NoTeam
      BY DEF NoRow
    <3> QED
      BY <1>1, <3>1 DEF TypeOK
  <2> QED
    BY <1>1, <2>1 DEF Thinned, RacesThinned, TeamsThinned, PeopleThinned
<1> QED
  BY <1>1 DEF Members, GenderOf

LEMMA ThinnedSuits ==
  ASSUME TypeOK, TypeOK', TeamOfSameRace, TeamOfSameRace', Thinned, RowsKept,
         NEW t \in Teams, life'[t] = "live"
  PROVE  /\ Live(t) /\ SizeOf(t)' = SizeOf(t) /\ SizeOf(t) \in Nat
         /\ \A c : Suits(c, SizeOf(t), Members(t), GenderOf) => Suits(c, SizeOf(t)', Members(t)', GenderOf')
<1>1. /\ Live(t) /\ life'[teamRace[t]] = "live" /\ teamRace'[t] = teamRace[t]
      /\ teamRace[t] \in Races /\ SizeOf(t) \in Nat
  BY SizesAreNumbers DEF Thinned, RacesThinned, TeamsThinned, PeopleThinned
<1>2. Live(teamRace[t])
  BY <1>1 DEF RowsKept, RowsHaveRaces
<1>3. format'[teamRace[t]] = format[teamRace[t]]
  BY <1>1, <1>2 DEF Thinned, RacesThinned, TeamsThinned, PeopleThinned, Live
<1>4. SizeOf(t)' = SizeOf(t)
  BY <1>1, <1>3 DEF SizeOf
<1> QED
  BY <1>1, <1>4, ThinnedMembers, FewerSuit

LEMMA ThinnedRows ==
  ASSUME TypeOK, TypeOK', TeamOfSameRace, TeamOfSameRace', Thinned, RowsKept
  PROVE  RowsKept'
<1>1. FormatKept'
  <2> SUFFICES ASSUME NEW p \in People, life'[p] = "live"
               PROVE  LET f == format'[person'[p].race] IN
                      \/ InvalidField(f, person'[p].team, person'[p].leg) = "none"
                      \/ IsTeam(f) /\ person'[p].team = NoTeam
    BY DEF FormatKept, Live
  <2>1. /\ Live(p) /\ life'[person[p].race] = "live" /\ person'[p].race = person[p].race
        /\ \/ person'[p].team = person[p].team /\ person'[p].leg = person[p].leg
           \/ person'[p].team = NoTeam /\ person'[p].leg = 0
    BY DEF Thinned, PeopleThinned
  <2>2. person[p].race \in Races /\ Live(person[p].race)
    BY <2>1 DEF TypeOK, Live, RowsKept, RowsHaveRaces
  <2>3. format'[person[p].race] = format[person[p].race]
    BY <2>1, <2>2 DEF Thinned, RacesThinned, TeamsThinned, PeopleThinned, Live
  <2>4. LET f == format[person[p].race] IN
        \/ InvalidField(f, person[p].team, person[p].leg) = "none"
        \/ IsTeam(f) /\ person[p].team = NoTeam
    BY <2>1 DEF RowsKept, FormatKept
  <2>5. RelayOfTeams(format[person[p].race])
    BY <2>2 DEF RowsKept, RelaysOfTeams
  <2>6. CASE person'[p].team = person[p].team /\ person'[p].leg = person[p].leg
    BY <2>1, <2>3, <2>4, <2>6
  <2>7. CASE person'[p].team = NoTeam /\ person'[p].leg = 0
    <3>1. \A f : RelayOfTeams(f) => InvalidField(f, NoTeam, 0) = "none" \/ IsTeam(f)
      BY DEF RelayOfTeams, InvalidField, IsTeam, IsRelay
    <3>2. person'[p].race = person[p].race /\ format'[person'[p].race] = format[person[p].race]
      BY <2>1, <2>3
    <3> QED
      BY <2>5, <2>7, <3>1, <3>2
  <2> QED
    BY <2>1, <2>6, <2>7
<1>2. RostersSuit'
  <2> SUFFICES ASSUME NEW t \in Teams, life'[t] = "live"
               PROVE  Suits(category'[t], SizeOf(t)', Members(t)', GenderOf')
    BY DEF RostersSuit, Live
  <2>1. Live(t) /\ category'[t] = category[t]
    BY DEF Thinned, RacesThinned, TeamsThinned, PeopleThinned
  <2> QED
    BY <2>1, ThinnedSuits DEF RowsKept, RostersSuit
<1>3. RowsHaveRaces'
  BY DEF RowsHaveRaces, Thinned, TeamsThinned, PeopleThinned, Live
<1>4. RelaysOfTeams'
  BY DEF RelaysOfTeams, RowsKept, Thinned, RacesThinned, Live
<1> QED
  BY <1>1, <1>2, <1>3, <1>4 DEF RowsKept

LEMMA ThinnedChecked ==
  ASSUME TypeOK, TypeOK', TeamOfSameRace, TeamOfSameRace', Thinned, RowsKept,
         NEW x \in RequestType, x.kind = "race" => x.race \in Races,
         x.kind = "team" => x.team \in Teams,
         x.kind \in {"new", "edit"} => x.id \in People /\ x.row.race \in Races, Checked(x)
  PROVE  Checked(x)'
<1>1. ASSUME x.kind = "race"
      PROVE  /\ life'[x.race] # "unborn" /\ RelayOfTeams(x.format)
             /\ life'[x.race] = "live" => x.format = format'[x.race] \/ \A p \in People : person'[p].race # x.race
  <2>1. /\ life[x.race] # "unborn" /\ RelayOfTeams(x.format)
        /\ Live(x.race) => x.format = format[x.race] \/ \A p \in People : person[p].race # x.race
    BY <1>1 DEF Checked, RaceHasParticipants
  <2>2. life'[x.race] # "unborn" /\ (life'[x.race] = "live" => Live(x.race) /\ format'[x.race] = format[x.race])
    BY <1>1, <2>1 DEF Thinned, RacesThinned, TeamsThinned, PeopleThinned
  <2>3. ASSUME NEW p \in People, person'[p].race = x.race PROVE person[p].race = x.race
    <3>1. life'[p] = "live"
      BY <1>1, <2>3 DEF TypeOK, NoRow
    <3> QED
      BY <2>3, <3>1 DEF Thinned, RacesThinned, TeamsThinned, PeopleThinned
  <2> QED
    BY <2>1, <2>2, <2>3
<1>2. ASSUME x.kind = "team"
      PROVE  /\ life'[x.team] # "unborn"
             /\ life'[x.team] = "live" => Suits(x.category, SizeOf(x.team)', Members(x.team)', GenderOf')
  <2>1. life'[x.team] # "unborn"
    BY <1>2 DEF Checked, Thinned, RacesThinned, TeamsThinned
  <2> QED
    BY <1>2, <2>1, ThinnedSuits DEF Checked
<1>3. ASSUME x.kind \in {"new", "edit"}, life'[x.row.race] = "live"
      PROVE  FitsRace(x.row)' /\ FitsTeam(x.row, x.id)'
  <2> DEFINE row == x.row  p == x.id  t == x.row.team
  <2>1. /\ row \in PersonType /\ row.race \in Races /\ p \in People /\ t \in Teams \union {NoTeam}
        /\ life[row.race] # "unborn"
    BY <1>3 DEF RequestType, PersonType, Checked
  <2>2. Live(row.race) /\ format'[row.race] = format[row.race]
    BY <1>3, <2>1 DEF Thinned, RacesThinned, TeamsThinned, PeopleThinned
  <2>3. FitsRace(row) /\ FitsTeam(row, p)
    BY <1>3, <2>2 DEF Checked
  <2>4. FitsRace(row)'
    BY <2>2, <2>3 DEF FitsRace
  <2>5. ASSUME t # NoTeam, life'[t] = "live"
        PROVE  Suits(category'[t], SizeOf(t)', Members(t)' \union {p}, [GenderOf' EXCEPT ![p] = row.gender])
    <3>1. t \in Teams /\ Live(t) /\ SizeOf(t)' = SizeOf(t) /\ SizeOf(t) \in Nat /\ category'[t] = category[t]
      BY <2>1, <2>5, ThinnedSuits DEF Thinned, RacesThinned, TeamsThinned, PeopleThinned
    <3>2. Suits(category[t], SizeOf(t), Members(t) \union {p}, [GenderOf EXCEPT ![p] = row.gender])
      BY <2>3, <2>5, <3>1 DEF FitsTeam
    <3>3. /\ Members(t)' \union {p} \subseteq Members(t) \union {p}
          /\ \A m \in Members(t)' \union {p} :
               [GenderOf' EXCEPT ![p] = row.gender][m] = [GenderOf EXCEPT ![p] = row.gender][m]
      <4>1. /\ Members(t)' \subseteq Members(t) /\ Members(t) \subseteq People
            /\ \A m \in Members(t)' : GenderOf'[m] = GenderOf[m]
        BY <3>1, ThinnedMembers DEF Members
      <4>2. DOMAIN GenderOf = People /\ DOMAIN GenderOf' = People
        BY DEF GenderOf
      <4> QED
        BY <2>1, <4>1, <4>2
    <3> DEFINE before == [GenderOf EXCEPT ![p] = row.gender]
               after == [GenderOf' EXCEPT ![p] = row.gender]
               S == Members(t) \union {p}
               T == Members(t)' \union {p}
    <3> HIDE DEF before, after, S, T
    <3>4. Suits(category[t], SizeOf(t), S, before) /\ T \in SUBSET S /\ \A m \in T : after[m] = before[m]
      BY <3>2, <3>3 DEF before, after, S, T
    <3>5. Suits(category[t], SizeOf(t), T, after)
      BY <3>1, <3>4, FewerSuit
    <3> QED
      BY <3>1, <3>5 DEF after, T
  <2> QED
    BY <2>4, <2>5 DEF FitsTeam, Live
<1>4. x.kind \in {"new", "edit"} => life'[x.row.race] # "unborn"
  BY DEF Checked, Thinned, RacesThinned, TeamsThinned
<1> QED
  BY <1>1, <1>2, <1>3, <1>4 DEF Checked, Live, RaceHasParticipants

(* What a request names exists, so long as it is sound. *)
LEMMA SoundChecked ==
  ASSUME IInv, IInv', Thinned, RulesInv, NEW x \in SoundRequests, Checked(x)
  PROVE  Checked(x)'
<1>1. /\ x \in RequestType
      /\ x.kind = "race" => x.race \in Races
      /\ x.kind = "team" => x.team \in Teams
      /\ x.kind \in {"new", "edit"} => x.id \in People /\ x.row.race \in Races
  BY DEF SoundRequests
<1>2. TypeOK /\ TypeOK' /\ TeamOfSameRace /\ TeamOfSameRace' /\ RowsKept
  BY DEF IInv, RulesInv
<1> QED
  BY <1>1, <1>2, ThinnedChecked

LEMMA ThinnedRules ==
  ASSUME IInv, IInv', Thinned, RulesInv,
         \A q \in Requests : request'[q] \in SoundRequests /\ Checked(request'[q])
  PROVE  RulesInv'
<1>1. RowsKept'
  BY ThinnedRows DEF IInv, RulesInv
<1>2. \A x \in SoundRequests : Checked(x) => Checked(x)'
  BY SoundChecked
<1>3. \A q \in Requests : Checked(request[q])'
  <2> SUFFICES ASSUME NEW q \in Requests PROVE Checked(request[q])'
    OBVIOUS
  <2> DEFINE x == request'[q]
  <2>1. x \in SoundRequests /\ Checked(x)
    OBVIOUS
  <2> QED
    BY <1>2, <2>1
<1> QED
  BY <1>1, <1>3 DEF RulesInv

LEMMA RemovalThins ==
  ASSUME TypeOK, RowsHaveRaces, NEW doomed \in SUBSET Rows, Remove(doomed),
         \A t \in Teams : teamRace[t] \in doomed => t \in doomed,
         \A p \in People : person[p].race \in doomed => p \in doomed,
         \A p \in People \ doomed :
           \/ person'[p] = person[p]
           \/ person'[p] = [person[p] EXCEPT !.team = NoTeam, !.leg = 0]
  PROVE  Thinned
<1>1. /\ \A x \in Rows : life'[x] = IF x \in doomed THEN "gone" ELSE life[x]
      /\ \A r \in Races : r \notin doomed => format'[r] = format[r]
      /\ \A t \in Teams : t \notin doomed => teamRace'[t] = teamRace[t] /\ category'[t] = category[t]
  BY DEF Remove
<1>2. RacesThinned
  BY <1>1 DEF RacesThinned, Live, Rows
<1>3. TeamsThinned
  <2> SUFFICES ASSUME NEW t \in Teams
               PROVE  /\ life[t] # "unborn" => life'[t] # "unborn"
                      /\ life'[t] = "live" => /\ Live(t) /\ life'[teamRace[t]] = "live"
                                              /\ teamRace'[t] = teamRace[t] /\ category'[t] = category[t]
    BY DEF TeamsThinned
  <2>1. life'[t] = IF t \in doomed THEN "gone" ELSE life[t]
    BY <1>1 DEF Rows
  <2>2. ASSUME life'[t] = "live" PROVE life'[teamRace[t]] = "live"
    <3>1. t \notin doomed /\ Live(t)
      BY <2>1, <2>2 DEF Live
    <3>2. teamRace[t] \in Races /\ teamRace[t] \notin doomed /\ Live(teamRace[t])
      BY <3>1 DEF TypeOK, Live, RowsHaveRaces
    <3> QED
      BY <1>1, <3>2 DEF Rows, Live
  <2> QED
    BY <1>1, <2>1, <2>2 DEF Live
<1>4. PeopleThinned
  <2> SUFFICES ASSUME NEW p \in People, life'[p] = "live"
               PROVE  /\ Live(p) /\ life'[person[p].race] = "live"
                      /\ person'[p].race = person[p].race /\ person'[p].gender = person[p].gender
                      /\ \/ person'[p].team = person[p].team /\ person'[p].leg = person[p].leg
                         \/ person'[p].team = NoTeam /\ person'[p].leg = 0
    BY DEF PeopleThinned
  <2>1. p \notin doomed /\ Live(p)
    BY <1>1 DEF Rows, Live
  <2>2. person[p].race \in Races /\ person[p].race \notin doomed /\ Live(person[p].race)
    BY <2>1 DEF TypeOK, Live, RowsHaveRaces
  <2>3. life'[person[p].race] = "live"
    BY <1>1, <2>2 DEF Rows, Live
  <2>4. CASE person'[p] = person[p]
    BY <2>1, <2>3, <2>4
  <2>5. CASE person'[p] = [person[p] EXCEPT !.team = NoTeam, !.leg = 0]
    <3>1. person'[p] = [race |-> person[p].race, team |-> NoTeam, leg |-> 0, gender |-> person[p].gender]
      BY <2>5, RecordFacts DEF TypeOK
    <3> QED
      BY <2>1, <2>3, <2>5, <3>1
  <2> QED
    BY <2>1, <2>4, <2>5
<1> QED
  BY <1>2, <1>3, <1>4 DEF Thinned

LEMMA RestThins ==
  ASSUME RowsHaveRaces, UNCHANGED <<life, format, teamRace, category, person>>
  PROVE  Thinned
BY DEF RowsHaveRaces, Thinned, RacesThinned, TeamsThinned, PeopleThinned, Live

LEMMA NewRaceThins ==
  ASSUME TypeOK, RowsHaveRaces, NEW r \in Races, NEW f \in RaceFormats, CreateRace(r, f)
  PROVE  Thinned
<1>1. /\ life[r] = "unborn" /\ \A x \in Rows : life'[x] = IF x = r THEN "live" ELSE life[x]
      /\ \A x \in Races : x # r => format'[x] = format[x]
      /\ UNCHANGED <<teamRace, category, person>> /\ format'[r] = Normalized(f) /\ ValidFormat(Normalized(f))
  BY DEF CreateRace, TypeOK
<1>2. RacesThinned
  BY <1>1 DEF RacesThinned, Rows, Live, RelayOfTeams, ValidFormat
<1>3. TeamsThinned
  <2>1. \A t \in Teams : life'[t] = life[t]
    BY <1>1 DEF Rows
  <2>2. \A t \in Teams : Live(t) => teamRace[t] \in Races /\ Live(teamRace[t])
    BY DEF RowsHaveRaces, TypeOK, Live
  <2> QED
    BY <1>1, <2>1, <2>2 DEF TeamsThinned, Rows, Live
<1>4. PeopleThinned
  <2>1. \A p \in People : life'[p] = life[p]
    BY <1>1 DEF Rows
  <2>2. \A p \in People : Live(p) => person[p].race \in Races /\ Live(person[p].race)
    BY DEF RowsHaveRaces, TypeOK, Live
  <2> QED
    BY <1>1, <2>1, <2>2 DEF PeopleThinned, Rows, Live
<1> QED
  BY <1>2, <1>3, <1>4 DEF Thinned

LEMMA DeletionsThin ==
  ASSUME IInv, RowsHaveRaces,
         \/ \E r \in Races : DeleteRace(r)
         \/ \E t \in Teams : DeleteTeamAndMembers(t)
         \/ \E selection \in SUBSET People : DeleteParticipants(selection)
  PROVE  Thinned /\ request' = request
<1>1. ASSUME NEW x \in Races \union Teams, Live(x), Remove(Cascade(x)),
             person' = [p \in People |-> IF p \in Cascade(x) THEN NoRow ELSE person[p]]
      PROVE  Thinned
  <2>1. /\ Cascade(x) \in SUBSET Rows
        /\ \A t \in Teams : teamRace[t] \in Cascade(x) => t \in Cascade(x)
        /\ \A p \in People : person[p].race \in Cascade(x) => p \in Cascade(x)
    BY <1>1, CascadeTakes
  <2>2. \A p \in People \ Cascade(x) : person'[p] = person[p]
    BY <1>1
  <2> QED
    BY <1>1, <2>1, <2>2, RemovalThins DEF IInv
<1>2. ASSUME NEW selection \in SUBSET People, DeleteParticipants(selection) PROVE Thinned
  <2>1. /\ Remove(selection) /\ selection \in SUBSET Rows
        /\ \A p \in People \ selection : person'[p] = person[p]
    BY <1>2 DEF DeleteParticipants, Rows
  <2>2. /\ \A t \in Teams : teamRace[t] \notin selection
        /\ \A p \in People : person[p].race \notin selection
    BY DEF IInv, TypeOK, PersonType
  <2> QED
    BY <2>1, <2>2, RemovalThins DEF IInv
<1> QED
  BY <1>1, <1>2 DEF DeleteRace, DeleteTeamAndMembers, DeleteParticipants

LEMMA DroppingThins ==
  ASSUME IInv, RowsHaveRaces, NEW q \in Requests, DropTeam(q)
  PROVE  Thinned
<1> DEFINE t == request[q].team
           detached == request[q].people
           doomed == Cascade(t) \ detached
<1>1. request[q] \in SoundRequests /\ request[q] \in RequestType
  BY DEF IInv, SoundRequests
<1>2. t \in Teams /\ detached \in SUBSET People
  BY <1>1 DEF DropTeam, SoundRequests, RequestType
<1>3. CASE ~Live(t)
  BY <1>3, RestThins DEF DropTeam
<1>4. CASE Live(t)
  <2>1. /\ Remove(doomed)
        /\ person' = [p \in People |->
             IF p \in doomed THEN NoRow
             ELSE IF p \in detached THEN [person[p] EXCEPT !.team = NoTeam, !.leg = 0]
             ELSE person[p]]
    BY <1>4 DEF DropTeam, NobodyDetached
  <2>2. Cascade(t) \subseteq Teams \union People
    BY <1>2 DEF Cascade
  <2> HIDE DEF doomed
  <2>3. doomed \subseteq Teams \union People /\ doomed \in SUBSET Rows
    BY <2>2 DEF doomed, Rows
  <2>4. /\ \A x \in Teams : teamRace[x] \notin doomed
        /\ \A p \in People : person[p].race \notin doomed
    BY <2>3 DEF IInv, TypeOK, PersonType
  <2>5. \A p \in People \ doomed :
          \/ person'[p] = person[p]
          \/ person'[p] = [person[p] EXCEPT !.team = NoTeam, !.leg = 0]
    BY <2>1
  <2> QED
    BY <2>1, <2>3, <2>4, <2>5, RemovalThins DEF IInv
<1> QED
  BY <1>3, <1>4

(* A request that has read leaves the rows alone, and what it read it checked. *)
LEMMA ReadRules ==
  ASSUME IInv, IInv', RulesInv, NEW q \in Requests, NEW y, Begin(q, y), Checked(y),
         UNCHANGED <<life, format, teamRace, category, person>>
  PROVE  RulesInv'
<1>1. Thinned
  BY RestThins DEF RulesInv, RowsKept
<1>2. \A o \in Requests : request'[o] \in SoundRequests'
  BY DEF IInv
<1>3. \A o \in Requests : request'[o] \in SoundRequests
  BY <1>2 DEF SoundRequests, OwnOrGone
<1>4. \A o \in Requests : request'[o] = y \/ request'[o] = request[o]
  BY DEF Begin, IInv, TypeOK
<1>5. \A o \in Requests : Checked(request'[o])
  BY <1>4 DEF RulesInv
<1> QED
  BY <1>1, <1>3, <1>5, ThinnedRules

LEMMA RaceReadChecks ==
  ASSUME IInv, IInv', RulesInv, NEW q \in Requests, NEW r \in Races, NEW f \in RaceFormats,
         ReadUpdateRace(q, r, f)
  PROVE  RulesInv'
<1> DEFINE y == [NoRequest EXCEPT !.kind = "race", !.race = r, !.format = Normalized(f)]
<1>1. y.kind = "race" /\ y.race = r /\ y.format = Normalized(f)
  BY DEF NoRequest
<1>2. Begin(q, y) /\ UNCHANGED <<life, format, teamRace, category, person>>
  BY DEF ReadUpdateRace
<1> HIDE DEF y
<1>3. Checked(y)
  BY <1>1 DEF ReadUpdateRace, Checked, RelayOfTeams, ValidFormat, WithoutParticipants, Live
<1> QED
  BY <1>2, <1>3, ReadRules

LEMMA TeamReadsCheck ==
  ASSUME IInv, IInv', RulesInv, NEW q \in Requests, NEW t \in Teams, NEW c \in Categories,
         \/ ReadUpdateTeam(q, t, c)
         \/ \E r \in Races : ReadCreateTeam(q, t, r, c)
         \/ DetachTeamMembers(q, t)
  PROVE  RulesInv'
<1>1. CASE ReadUpdateTeam(q, t, c)
  <2> DEFINE y == [NoRequest EXCEPT !.kind = "team", !.team = t, !.category = c]
  <2>1. y.kind = "team" /\ y.team = t /\ y.category = c
    BY DEF NoRequest
  <2>2. /\ Begin(q, y) /\ UNCHANGED <<life, format, teamRace, category, person>>
        /\ Live(t) /\ (c # category[t] => MembersInCategory(t, c))
    BY <1>1 DEF ReadUpdateTeam
  <2> HIDE DEF y
  <2>3. Suits(category[t], SizeOf(t), Members(t), GenderOf)
    BY <2>2 DEF RulesInv, RowsKept, RostersSuit
  <2>4. {person[m].gender : m \in Members(t)} = {GenderOf[m] : m \in Members(t)}
    BY DEF Members, GenderOf
  <2>5. Suits(c, SizeOf(t), Members(t), GenderOf)
    BY <2>2, <2>3, <2>4 DEF Suits, MembersInCategory, SizeOf
  <2>6. Checked(y)
    BY <2>1, <2>2, <2>5 DEF Checked, Live
  <2> QED
    BY <2>2, <2>6, ReadRules
<1>2. ASSUME NEW r \in Races, ReadCreateTeam(q, t, r, c) PROVE RulesInv'
  <2> DEFINE y == [NoRequest EXCEPT !.kind = "newTeam", !.team = t, !.race = r, !.category = c]
  <2>1. y.kind = "newTeam"
    BY DEF NoRequest
  <2>2. Begin(q, y) /\ UNCHANGED <<life, format, teamRace, category, person>>
    BY <1>2 DEF ReadCreateTeam
  <2> HIDE DEF y
  <2>3. Checked(y)
    BY <2>1 DEF Checked
  <2> QED
    BY <2>2, <2>3, ReadRules
<1>3. CASE DetachTeamMembers(q, t)
  <2> DEFINE y == [NoRequest EXCEPT !.kind = "detach", !.team = t, !.people = Members(t)]
  <2>1. y.kind = "detach"
    BY DEF NoRequest
  <2>2. Begin(q, y) /\ UNCHANGED <<life, format, teamRace, category, person>>
    BY <1>3 DEF DetachTeamMembers
  <2> HIDE DEF y
  <2>3. Checked(y)
    BY <2>1 DEF Checked
  <2> QED
    BY <2>2, <2>3, ReadRules
<1> QED
  BY <1>1, <1>2, <1>3

(* checkTeamJoin counts the others and the newcomer. *)
LEMMA JoinFits ==
  ASSUME RowsKept, NEW row \in PersonType, NEW p \in People, JoinAllowed(row, p)
  PROVE  FitsTeam(row, p)
<1> SUFFICES ASSUME row.team # NoTeam, Live(row.team)
             PROVE  Suits(category[row.team], SizeOf(row.team), Members(row.team) \union {p},
                          [GenderOf EXCEPT ![p] = row.gender])
  BY DEF FitsTeam
<1> DEFINE t == row.team
           others == Members(t) \ {p}
           genders == [GenderOf EXCEPT ![p] = row.gender]
           roster == Members(t) \union {p}
<1>1. t \in Teams
  BY DEF PersonType
<1>2. /\ teamRace[t] = row.race
      /\ HasRoom(others, format[row.race].size)
      /\ ~BadComposition(category[t], format[row.race].size,
            {person[m].gender : m \in others} \union {row.gender}, Cardinality(others) + 1)
  BY DEF JoinAllowed, OwnTeam
<1>3. IsFiniteSet(Members(t))
  BY <1>1 DEF RowsKept, RostersSuit, Suits
<1>4. IsFiniteSet(others) /\ p \notin others /\ roster = others \union {p}
  BY <1>3, FS_Subset
<1>5. IsFiniteSet(roster) /\ Cardinality(roster) = Cardinality(others) + 1
  BY <1>4, FS_AddElement
<1>6. \A m \in others : genders[m] = person[m].gender
  BY DEF GenderOf, Members
<1>7. genders[p] = row.gender
  BY DEF GenderOf
<1>8. {genders[m] : m \in roster} = {person[m].gender : m \in others} \union {row.gender}
  BY <1>4, <1>6, <1>7
<1>9. SizeOf(t) = format[row.race].size
  BY <1>2 DEF SizeOf
<1> HIDE DEF others, genders, roster, t
<1>10. Suits(category[t], SizeOf(t), roster, genders)
  BY <1>2, <1>5, <1>8, <1>9 DEF Suits, HasRoom
<1> QED
  BY <1>10 DEF t, roster, genders

LEMMA ParticipantReadsCheck ==
  ASSUME IInv, IInv', RulesInv, NEW q \in Requests, NEW p \in People,
         \/ \E row \in [race : Races, team : Teams \union {NoTeam}, leg : 0..MaxLeg, gender : Genders] :
              ReadCreateParticipant(q, p, row)
         \/ \E race \in Races \union {Keep}, team \in Teams \union {NoTeam, Keep},
               leg \in (0..MaxLeg) \union {Keep}, gender \in Genders \union {Keep} :
              ReadUpdateParticipant(q, p, race, team, leg, gender)
  PROVE  RulesInv'
<1>1. ASSUME NEW row \in PersonType, NEW kind \in {"new", "edit"}, Live(row.race), FitsRace(row),
             JoinAllowed(row, p), Begin(q, [NoRequest EXCEPT !.kind = kind, !.id = p, !.row = row]),
             UNCHANGED <<life, format, teamRace, category, person>>
      PROVE  RulesInv'
  <2> DEFINE y == [NoRequest EXCEPT !.kind = kind, !.id = p, !.row = row]
  <2>1. y.kind = kind /\ y.id = p /\ y.row = row
    BY DEF NoRequest
  <2>2. Begin(q, y)
    BY <1>1
  <2> HIDE DEF y
  <2>3. FitsTeam(row, p)
    BY <1>1, JoinFits DEF RulesInv
  <2>4. Checked(y)
    BY <1>1, <2>1, <2>3 DEF Checked, Live
  <2> QED
    BY <1>1, <2>2, <2>4, ReadRules
<1>2. ASSUME NEW row \in [race : Races, team : Teams \union {NoTeam}, leg : 0..MaxLeg, gender : Genders],
             ReadCreateParticipant(q, p, row)
      PROVE  RulesInv'
  <2>1. row \in PersonType
    BY DEF PersonType
  <2> QED
    BY <1>1, <1>2, <2>1 DEF ReadCreateParticipant, FitsRace
<1>3. ASSUME NEW race \in Races \union {Keep}, NEW team \in Teams \union {NoTeam, Keep},
             NEW leg \in (0..MaxLeg) \union {Keep}, NEW gender \in Genders \union {Keep},
             ReadUpdateParticipant(q, p, race, team, leg, gender)
      PROVE  RulesInv'
  <2> DEFINE row == Merged(person[p], race, team, leg, gender)
  <2>1. row \in PersonType
    BY <1>3, MergedType DEF ReadUpdateParticipant
  <2>2. /\ Live(row.race) /\ JoinAllowed(row, p)
        /\ Begin(q, [NoRequest EXCEPT !.kind = "edit", !.id = p, !.row = row])
        /\ UNCHANGED <<life, format, teamRace, category, person>>
        /\ \/ InvalidField(format[row.race], row.team, row.leg) = "none"
           \/ IsTeam(format[row.race]) /\ row.team = NoTeam
    BY <1>3 DEF ReadUpdateParticipant
  <2> HIDE DEF row
  <2>3. FitsRace(row)
    BY <2>2 DEF FitsRace
  <2> QED
    BY <1>1, <2>1, <2>2, <2>3
<1> QED
  BY <1>2, <1>3

-----------------------------------------------------------------------------
(* The only request in progress ends, and what it wrote keeps the rules. *)
LEMMA EndRules ==
  ASSUME IInv, OneAtATime, NEW q \in Requests, End(q), RowsKept'
  PROVE  RulesInv'
<1>1. \A o \in Requests : request'[o].kind = "none"
  BY DEF OneAtATime, End, IInv, TypeOK, NoRequest
<1> QED
  BY <1>1 DEF RulesInv, Checked

LEMMA RestRules ==
  ASSUME IInv, IInv', RowsKept, UNCHANGED <<life, format, teamRace, category, person>>
  PROVE  RowsKept'
<1>1. Thinned
  BY RestThins DEF RowsKept
<1> QED
  BY <1>1, ThinnedRows DEF IInv

LEMMA RaceWriteRules ==
  ASSUME IInv, IInv', RulesInv, NEW q \in Requests, WriteUpdateRace(q)
  PROVE  RowsKept'
<1> DEFINE r == request[q].race  f == request[q].format
<1>1. CASE ~Live(r) \/ f = format[r]
  <2>1. format' = format
    BY <1>1 DEF WriteUpdateRace, IInv, TypeOK
  <2> QED
    BY <2>1, RestRules DEF WriteUpdateRace, RulesInv
<1>2. CASE Live(r) /\ f # format[r]
  <2>1. /\ request[q].kind = "race" /\ r \in Races
        /\ format' = [format EXCEPT ![r] = f] /\ UNCHANGED <<life, teamRace, category, person>>
    BY <1>2 DEF WriteUpdateRace, IInv, SoundRequests
  <2>2. RelayOfTeams(f) /\ ~RaceHasParticipants(r)
    BY <1>2, <2>1 DEF RulesInv, Checked
  <2> HIDE DEF r, f
  <2>3. /\ format'[r] = f
        /\ \A x \in Races : x # r => format'[x] = format[x]
    BY <2>1 DEF IInv, TypeOK
  <2>4. FormatKept'
    <3> SUFFICES ASSUME NEW p \in People, Live(p)
                 PROVE  LET g == format'[person[p].race] IN
                        \/ InvalidField(g, person[p].team, person[p].leg) = "none"
                        \/ IsTeam(g) /\ person[p].team = NoTeam
      BY <2>1 DEF FormatKept, Live
    <3>1. person[p].race \in Races /\ person[p].race # r
      BY <2>2 DEF RaceHasParticipants, IInv, TypeOK, Live
    <3>2. format'[person[p].race] = format[person[p].race]
      BY <2>3, <3>1
    <3> QED
      BY <3>2 DEF RulesInv, RowsKept, FormatKept
  <2>5. GenderOf' = GenderOf /\ \A t \in Teams : Members(t)' = Members(t)
    BY <2>1 DEF GenderOf, Members
  <2>6. RostersSuit'
    <3> SUFFICES ASSUME NEW t \in Teams, Live(t)
                 PROVE  Suits(category[t], SizeOf(t)', Members(t), GenderOf)
      BY <2>1, <2>5 DEF RostersSuit, Live
    <3>1. CASE teamRace[t] = r
      <4>1. Members(t) = {}
        BY <2>2, <3>1, MembersThere DEF IInv, RaceHasParticipants, Members
      <4> QED
        BY <4>1, NobodySuits
    <3>2. CASE teamRace[t] # r
      <4>1. SizeOf(t)' = SizeOf(t)
        BY <2>1, <2>3, <3>2, SizesAreNumbers DEF SizeOf, IInv
      <4> QED
        BY <4>1 DEF RulesInv, RowsKept, RostersSuit
    <3> QED
      BY <3>1, <3>2
  <2>7. RowsHaveRaces'
    BY <2>1 DEF RulesInv, RowsKept, RowsHaveRaces, Live
  <2>8. RelaysOfTeams'
    BY <2>1, <2>2, <2>3 DEF RulesInv, RowsKept, RelaysOfTeams, Live
  <2> QED
    BY <2>4, <2>6, <2>7, <2>8 DEF RowsKept
<1> QED
  BY <1>1, <1>2

LEMMA TeamWritesRules ==
  ASSUME IInv, IInv', RulesInv, NEW q \in Requests, WriteCreateTeam(q) \/ WriteUpdateTeam(q)
  PROVE  RowsKept'
<1> DEFINE t == request[q].team
<1>1. UNCHANGED <<format, person>> /\ GenderOf' = GenderOf /\ \A x \in Teams : Members(x)' = Members(x)
  BY DEF WriteCreateTeam, WriteUpdateTeam, GenderOf, Members
<1>2. t \in Teams
  BY DEF IInv, SoundRequests, WriteCreateTeam, WriteUpdateTeam
<1>3. CASE WriteUpdateTeam(q)
  <2>1. /\ UNCHANGED <<life, teamRace>> /\ request[q].kind = "team"
        /\ category' = IF Live(t) THEN [category EXCEPT ![t] = request[q].category] ELSE category
    BY <1>3 DEF WriteUpdateTeam
  <2>2. RostersSuit'
    <3> SUFFICES ASSUME NEW x \in Teams, Live(x)
                 PROVE  Suits(category'[x], SizeOf(x), Members(x), GenderOf)
      BY <1>1, <2>1 DEF RostersSuit, Live, SizeOf
    <3>1. CASE x = t
      <4>1. Suits(request[q].category, SizeOf(t), Members(t), GenderOf)
        BY <2>1, <3>1 DEF RulesInv, Checked
      <4>2. category'[t] = request[q].category
        BY <1>2, <2>1, <3>1 DEF IInv, TypeOK
      <4> QED
        BY <3>1, <4>1, <4>2
    <3>2. CASE x # t
      <4>1. category'[x] = category[x]
        BY <2>1, <3>2 DEF IInv, TypeOK
      <4> QED
        BY <4>1 DEF RulesInv, RowsKept, RostersSuit
    <3> QED
      BY <3>1, <3>2
  <2> QED
    BY <1>1, <2>1, <2>2 DEF RulesInv, RowsKept, FormatKept, RowsHaveRaces, RelaysOfTeams, Live
<1>4. CASE WriteCreateTeam(q) /\ ~Live(request[q].race)
  BY <1>4, RestRules DEF WriteCreateTeam, RulesInv
<1>5. CASE WriteCreateTeam(q) /\ Live(request[q].race)
  <2> DEFINE r == request[q].race
  <2>1. /\ life' = [life EXCEPT ![t] = "live"] /\ teamRace' = [teamRace EXCEPT ![t] = r]
        /\ category' = [category EXCEPT ![t] = request[q].category]
        /\ request[q].kind = "newTeam" /\ life[t] = "unborn" /\ r \in Races /\ Live(r)
    BY <1>5 DEF WriteCreateTeam, IInv, SoundRequests
  <2> HIDE DEF t, r
  <2>2. /\ \A x \in Races \union People : life'[x] = life[x]
        /\ \A x \in Teams : x # t => life'[x] = life[x] /\ teamRace'[x] = teamRace[x] /\ category'[x] = category[x]
        /\ teamRace'[t] = r
    BY <1>2, <2>1 DEF IInv, TypeOK, Rows
  <2>3. Members(t) = {}
    BY <1>2, <2>1, MembersThere DEF IInv, Live
  <2>4. RostersSuit'
    <3> SUFFICES ASSUME NEW x \in Teams, life'[x] = "live"
                 PROVE  Suits(category'[x], SizeOf(x)', Members(x), GenderOf)
      BY <1>1 DEF RostersSuit, Live
    <3>1. CASE x = t
      BY <2>3, <3>1, NobodySuits
    <3>2. CASE x # t
      <4>1. Live(x) /\ category'[x] = category[x] /\ SizeOf(x)' = SizeOf(x)
        BY <1>1, <2>2, <3>2 DEF Live, SizeOf
      <4> QED
        BY <4>1 DEF RulesInv, RowsKept, RostersSuit
    <3> QED
      BY <3>1, <3>2
  <2>5. FormatKept'
    BY <1>1, <2>2 DEF RulesInv, RowsKept, FormatKept, Live
  <2>6. RowsHaveRaces'
    <3>1. ASSUME NEW x \in Teams, life'[x] = "live" PROVE life'[teamRace'[x]] = "live"
      <4>1. CASE x = t
        BY <2>1, <2>2, <4>1 DEF Live
      <4>2. CASE x # t
        <5>1. Live(x) /\ teamRace'[x] = teamRace[x] /\ teamRace[x] \in Races
          BY <2>2, <3>1, <4>2, SizesAreNumbers DEF Live, IInv
        <5> QED
          BY <2>2, <5>1 DEF RulesInv, RowsKept, RowsHaveRaces, Live
      <4> QED
        BY <4>1, <4>2
    <3>2. ASSUME NEW p \in People, life'[p] = "live" PROVE life'[person[p].race] = "live"
      <4>1. Live(p) /\ person[p].race \in Races
        BY <2>2, <3>2 DEF Live, IInv, TypeOK
      <4> QED
        BY <2>2, <4>1 DEF RulesInv, RowsKept, RowsHaveRaces, Live
    <3> QED
      BY <1>1, <3>1, <3>2 DEF RowsHaveRaces, Live
  <2>7. RelaysOfTeams'
    BY <1>1, <2>2 DEF RulesInv, RowsKept, RelaysOfTeams, Live
  <2> QED
    BY <2>4, <2>5, <2>6, <2>7 DEF RowsKept
<1> QED
  BY <1>3, <1>4, <1>5

(* Whoever is written fits the race and the team that are there by then. *)
LEMMA WrittenRules ==
  ASSUME IInv, IInv', RowsKept, NEW p \in People, NEW row \in PersonType,
         row.race \in Races, Accepted(row, p), FitsRace(row), FitsTeam(row, p),
         life' = [life EXCEPT ![p] = "live"], person' = [person EXCEPT ![p] = row],
         UNCHANGED <<format, teamRace, category>>
  PROVE  RowsKept'
<1>1. /\ \A x \in Races \union Teams : life'[x] = life[x]
      /\ \A m \in People : m # p => life'[m] = life[m] /\ person'[m] = person[m]
      /\ person'[p] = row /\ life'[p] = "live"
  BY DEF IInv, TypeOK, Rows
<1>2. FormatKept'
  <2> SUFFICES ASSUME NEW m \in People, life'[m] = "live"
               PROVE  LET f == format[person'[m].race] IN
                      \/ InvalidField(f, person'[m].team, person'[m].leg) = "none"
                      \/ IsTeam(f) /\ person'[m].team = NoTeam
    BY DEF FormatKept, Live
  <2>1. CASE m = p
    BY <1>1, <2>1 DEF FitsRace
  <2>2. CASE m # p
    BY <1>1, <2>2 DEF RowsKept, FormatKept, Live
  <2> QED
    BY <2>1, <2>2
<1>3. RostersSuit'
  <2> SUFFICES ASSUME NEW t \in Teams, Live(t)
               PROVE  Suits(category[t], SizeOf(t), Members(t)', GenderOf')
    BY <1>1 DEF RostersSuit, Live, SizeOf
  <2>1. GenderOf' = [GenderOf EXCEPT ![p] = row.gender]
    <3>1. \A m \in People : person'[m].gender = IF m = p THEN row.gender ELSE person[m].gender
      BY <1>1
    <3> QED
      BY <3>1 DEF GenderOf
  <2>2. CASE row.team = t
    <3>1. Members(t)' = Members(t) \union {p}
      BY <1>1, <2>2 DEF Members
    <3>2. row.team # NoTeam
      BY <2>2
    <3> QED
      BY <2>1, <2>2, <3>1, <3>2 DEF FitsTeam
  <2>3. CASE row.team # t
    <3>1. Members(t)' = Members(t) \ {p}
      BY <1>1, <2>3 DEF Members
    <3>2. \A m \in Members(t)' : GenderOf'[m] = GenderOf[m]
      BY <1>1, <3>1 DEF GenderOf, Members
    <3>3. Suits(category[t], SizeOf(t), Members(t), GenderOf) /\ SizeOf(t) \in Nat
      BY SizesAreNumbers DEF IInv, RowsKept, RostersSuit
    <3> QED
      BY <3>1, <3>2, <3>3, FewerSuit
  <2> QED
    BY <2>2, <2>3
<1>4. RowsHaveRaces'
  <2>1. ASSUME NEW t \in Teams, Live(t) PROVE life'[teamRace[t]] = "live"
    BY <1>1, <2>1, SizesAreNumbers DEF IInv, RowsKept, RowsHaveRaces, Live
  <2>2. ASSUME NEW m \in People, life'[m] = "live" PROVE life'[person'[m].race] = "live"
    <3>1. CASE m = p
      BY <1>1, <3>1 DEF Accepted, Live
    <3>2. CASE m # p
      BY <1>1, <2>2, <3>2 DEF IInv, TypeOK, RowsKept, RowsHaveRaces, Live
    <3> QED
      BY <3>1, <3>2
  <2> QED
    BY <1>1, <2>1, <2>2 DEF RowsHaveRaces, Live
<1>5. RelaysOfTeams'
  BY <1>1 DEF RowsKept, RelaysOfTeams, Live
<1> QED
  BY <1>2, <1>3, <1>4, <1>5 DEF RowsKept

LEMMA ParticipantWritesRules ==
  ASSUME IInv, IInv', RulesInv, NEW q \in Requests,
         WriteCreateParticipant(q) \/ WriteUpdateParticipant(q)
  PROVE  RowsKept'
<1> DEFINE p == request[q].id  row == request[q].row
<1>1. /\ request[q].kind \in {"new", "edit"}
      /\ p \in People /\ row \in PersonType /\ row.race \in Races
      /\ UNCHANGED <<format, teamRace, category>>
  BY DEF WriteCreateParticipant, WriteUpdateParticipant, IInv, SoundRequests, RequestType
<1>2. \/ UNCHANGED <<life, person>>
      \/ /\ life' = [life EXCEPT ![p] = "live"] /\ person' = [person EXCEPT ![p] = row]
         /\ Accepted(row, p)
  <2>1. Live(p) => life = [life EXCEPT ![p] = "live"]
    BY DEF Live, IInv, TypeOK
  <2> QED
    BY <2>1 DEF WriteCreateParticipant, WriteUpdateParticipant
<1>3. CASE UNCHANGED <<life, person>>
  BY <1>1, <1>3, RestRules DEF RulesInv
<1>4. CASE /\ life' = [life EXCEPT ![p] = "live"] /\ person' = [person EXCEPT ![p] = row]
           /\ Accepted(row, p)
  <2>1. FitsRace(row) /\ FitsTeam(row, p)
    BY <1>1, <1>4 DEF RulesInv, Checked, Accepted
  <2> HIDE DEF p, row
  <2> QED
    BY <1>1, <1>4, <2>1, WrittenRules DEF RulesInv
<1> QED
  BY <1>2, <1>3, <1>4

LEMMA InitRules == Init => RulesInv
<1> SUFFICES ASSUME Init PROVE RulesInv
  OBVIOUS
<1>1. \A x \in Rows : ~Live(x)
  BY DEF Init, Live
<1>2. \A q \in Requests : request[q].kind = "none"
  BY DEF Init, NoRequest
<1> QED
  BY <1>1, <1>2 DEF RulesInv, RowsKept, FormatKept, RostersSuit, RowsHaveRaces, RelaysOfTeams, Checked, Rows

LEMMA NextRules ==
  ASSUME OneAtATime, IInv, IInv', RulesInv, [Next]_vars
  PROVE  RulesInv'
<1>1. ASSUME UNCHANGED <<life, format, teamRace, category, person>>,
             request' = request \/ \E q \in Requests : End(q)
      PROVE  RulesInv'
  <2>1. Thinned
    BY <1>1, RestThins DEF RulesInv, RowsKept
  <2>2. CASE request' = request
    <3>1. \A o \in Requests : request'[o] \in SoundRequests /\ Checked(request'[o])
      BY <2>2 DEF IInv, RulesInv
    <3> QED
      BY <2>1, <3>1, ThinnedRules
  <2>3. ASSUME NEW q \in Requests, End(q) PROVE RulesInv'
    BY <1>1, <2>3, RestRules, EndRules DEF RulesInv
  <2> QED
    BY <1>1, <2>2, <2>3
<1>2. ASSUME Thinned, request' = request PROVE RulesInv'
  <2>1. \A o \in Requests : request'[o] \in SoundRequests /\ Checked(request'[o])
    BY <1>2 DEF IInv, RulesInv
  <2> QED
    BY <1>2, <2>1, ThinnedRules
<1>3. CASE UNCHANGED vars
  BY <1>1, <1>3 DEF vars
<1>4. ASSUME NEW r \in Races, NEW f \in RaceFormats, CreateRace(r, f) PROVE RulesInv'
  <2>1. Thinned
    BY <1>4, NewRaceThins DEF IInv, RulesInv, RowsKept
  <2> QED
    BY <1>2, <1>4, <2>1 DEF CreateRace
<1>5. ASSUME \/ \E r \in Races : DeleteRace(r)
             \/ \E t \in Teams : DeleteTeamAndMembers(t)
             \/ \E selection \in SUBSET People : DeleteParticipants(selection)
      PROVE  RulesInv'
  BY <1>2, <1>5, DeletionsThin DEF RulesInv, RowsKept
<1>6. ASSUME NEW q \in Requests, DropTeam(q) PROVE RulesInv'
  <2>1. Thinned /\ End(q)
    BY <1>6, DroppingThins DEF DropTeam, RulesInv, RowsKept
  <2>2. RowsKept'
    BY <2>1, ThinnedRows DEF IInv, RulesInv
  <2> QED
    BY <2>1, <2>2, EndRules
<1>7. ASSUME NEW q \in Requests, NEW r \in Races, NEW f \in RaceFormats, ReadUpdateRace(q, r, f)
      PROVE  RulesInv'
  BY <1>7, RaceReadChecks
<1>8. ASSUME NEW q \in Requests, NEW t \in Teams,
             \/ \E c \in Categories : (\E r \in Races : ReadCreateTeam(q, t, r, c)) \/ ReadUpdateTeam(q, t, c)
             \/ DetachTeamMembers(q, t)
      PROVE  RulesInv'
  <2>1. Categories # {}
    BY DEF Categories
  <2> QED
    BY <1>8, <2>1, TeamReadsCheck
<1>9. ASSUME NEW q \in Requests, NEW p \in People,
             \/ \E row \in [race : Races, team : Teams \union {NoTeam}, leg : 0..MaxLeg, gender : Genders] :
                  ReadCreateParticipant(q, p, row)
             \/ \E race \in Races \union {Keep}, team \in Teams \union {NoTeam, Keep},
                   leg \in (0..MaxLeg) \union {Keep}, gender \in Genders \union {Keep} :
                  ReadUpdateParticipant(q, p, race, team, leg, gender)
      PROVE  RulesInv'
  BY <1>9, ParticipantReadsCheck
<1>10. ASSUME NEW q \in Requests, WriteUpdateRace(q) PROVE RulesInv'
  BY <1>10, RaceWriteRules, EndRules DEF WriteUpdateRace
<1>11. ASSUME NEW q \in Requests, WriteCreateTeam(q) \/ WriteUpdateTeam(q) PROVE RulesInv'
  BY <1>11, TeamWritesRules, EndRules DEF WriteCreateTeam, WriteUpdateTeam
<1>12. ASSUME NEW q \in Requests, WriteCreateParticipant(q) \/ WriteUpdateParticipant(q) PROVE RulesInv'
  BY <1>12, ParticipantWritesRules, EndRules DEF WriteCreateParticipant, WriteUpdateParticipant
<1>13. ASSUME NEW q \in Requests, Rollback(q) PROVE RulesInv'
  BY <1>1, <1>13 DEF Rollback
<1> QED
  BY <1>3, <1>4, <1>5, <1>6, <1>7, <1>8, <1>9, <1>10, <1>11, <1>12, <1>13 DEF Next

LEMMA RulesFollow ==
  ASSUME IInv, RulesInv
  PROVE  RulesKept
<1>1. ASSUME NEW t \in Teams, Live(t), Members(t) # {}
      PROVE  /\ Cardinality(Members(t)) <= format[teamRace[t]].size
             /\ ~BadComposition(category[t], format[teamRace[t]].size,
                  {person[m].gender : m \in Members(t)}, Cardinality(Members(t)))
  <2>1. Suits(category[t], SizeOf(t), Members(t), GenderOf)
    BY <1>1 DEF RulesInv, RowsKept, RostersSuit
  <2>2. {GenderOf[m] : m \in Members(t)} = {person[m].gender : m \in Members(t)}
    BY DEF GenderOf, Members
  <2> QED
    BY <1>1, <2>1, <2>2 DEF Suits, SizeOf
<1>2. FormatKept
  BY DEF RulesInv, RowsKept
<1> QED
  BY <1>1, <1>2 DEF RulesKept, TeamsWithinSize, CategoryKept

(* While requests follow one another, whatever their order, everybody stored  *)
(* fits the format of the race they are in, no team is over its size and      *)
(* every team keeps to its gender category: what each operation of            *)
(* participant.Service and event.Service checks is what the others rely on.   *)
THEOREM RulesOneAtATime ==
  ASSUME OneAtATime
  PROVE  Spec => []RulesKept
<1>1. IInv /\ RulesInv /\ [Next]_vars => RulesInv' /\ IInv'
  BY NextIInv, NextRules
<1>2. IInv /\ RulesInv => RulesKept
  BY RulesFollow
<1> QED
  BY <1>1, <1>2, InitIInv, InitRules, PTL DEF Spec
=============================================================================
