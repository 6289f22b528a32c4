--------------------------- MODULE Registration ---------------------------
(***************************************************************************)
(* The races, teams and participants of one event, edited one at a time:   *)
(* participant.Service and the race half of event.Service.                 *)
(*                                                                         *)
(* Every request is one transaction at READ COMMITTED that reads what its  *)
(* rules need, checks them, and then writes; nothing it has read is        *)
(* locked.  So a request is a Read action, which leaves in `request' what  *)
(* it is going to write, and a Write action, which the database refuses    *)
(* when a foreign key or the unique index on (team_id, leg_order) is not   *)
(* satisfied.  Requests that check nothing before they write are one       *)
(* action.  Deleting a team and keeping its members writes twice: the      *)
(* members it detaches stay locked until it commits.                       *)
(*                                                                         *)
(* A row is "unborn", then "live", then "gone": its id is never reused.    *)
(* BIBs, ref_ids, names and statuses are left out.                         *)
(***************************************************************************)
EXTENDS RaceRules

CONSTANTS
  Races, Teams, People, \* the ids that races, teams and participants can get
  Requests,             \* HTTP requests that can be in progress at once
  RaceFormats,          \* the formats a race can be asked to have
  MaxLeg,               \* the highest leg anyone asks for
  NoRace, NoPerson,
  Keep                  \* a field the patch does not carry

ASSUME RegistrationAssumption ==
  /\ RaceFormats \subseteq Formats
  /\ MaxLeg \in Nat
  /\ {NoRace, NoTeam, NoPerson} \intersect (Races \union Teams \union People) = {}
  /\ Races \intersect Teams = {} /\ Races \intersect People = {} /\ Teams \intersect People = {}
  /\ Keep \notin Races \union Teams \union {NoTeam} /\ Keep \notin 0..MaxLeg /\ Keep \notin Genders

VARIABLES
  life,      \* of each row: "unborn", "live" or "gone"
  format,    \* races: entry_type, course_type, team_size
  teamRace,  \* teams.race_id
  category,  \* teams.gender_category
  person,    \* participants: race_id, team_id, leg_order, gender
  request    \* the requests in progress

vars == <<life, format, teamRace, category, person, request>>

Rows == Races \union Teams \union People
NoFormat == [entry |-> "none", course |-> "none", size |-> 0]
NoRow == [race |-> NoRace, team |-> NoTeam, leg |-> 0, gender |-> "none"]

PersonType ==
  [race : Races \union {NoRace}, team : Teams \union {NoTeam}, leg : 0..MaxLeg,
   gender : Genders \union {"none"}]

(* What a request that has done its reads will write: "race" and "team" an   *)
(* update, "newTeam" and "new" an insert, "edit" an update of a participant, *)
(* "detach" the deletion of a team whose members `people' are detached.      *)
RequestType ==
  [kind : {"none", "race", "newTeam", "team", "new", "edit", "detach"},
   race : Races \union {NoRace}, format : Formats \union {NoFormat},
   team : Teams \union {NoTeam}, category : Categories \union {"none"},
   id : People \union {NoPerson}, row : PersonType, people : SUBSET People]
NoRequest ==
  [kind |-> "none", race |-> NoRace, format |-> NoFormat, team |-> NoTeam,
   category |-> "none", id |-> NoPerson, row |-> NoRow, people |-> {}]

(* One type invariant.  A row that is not live has lost its columns. *)
TypeOK ==
  /\ life \in [Rows -> {"unborn", "live", "gone"}]
  /\ format \in [Races -> Formats \union {NoFormat}]
  /\ teamRace \in [Teams -> Races \union {NoRace}]
  /\ category \in [Teams -> Categories \union {"none"}]
  /\ person \in [People -> PersonType]
  /\ request \in [Requests -> RequestType]
  /\ \A r \in Races : format[r] \in Formats <=> life[r] = "live"
  /\ \A t \in Teams : teamRace[t] \in Races <=> life[t] = "live"
  /\ \A p \in People : IF life[p] = "live" THEN person[p].race \in Races
                                           ELSE person[p] = NoRow

Init ==
  /\ life = [x \in Rows |-> "unborn"]
  /\ format = [r \in Races |-> NoFormat]
  /\ teamRace = [t \in Teams |-> NoRace]
  /\ category = [t \in Teams |-> "none"]
  /\ person = [p \in People |-> NoRow]
  /\ request = [q \in Requests |-> NoRequest]

Live(x) == life[x] = "live"
Idle(q) == request[q].kind = "none"
Members(t) == {p \in People : person[p].team = t}
RaceHasParticipants(r) == \E p \in People : person[p].race = r

Begin(q, read) == request' = [request EXCEPT ![q] = read]
End(q) == request' = [request EXCEPT ![q] = NoRequest]

(* The rows a transaction that has not committed has written. *)
Locked == UNION {request[q].people : q \in Requests}
-----------------------------------------------------------------------------
(* The rules that need other rows. *)

(* A plausible mistake: the team's race is not compared. *)
TeamExists(row) == Live(row.team)
OwnTeam(row) == Live(row.team) /\ teamRace[row.team] = row.race

(* A plausible mistake: the newcomer is not counted. *)
NotYetOver(others, size) == Cardinality(others) <= size
HasRoom(others, size) == Cardinality(others) + 1 <= size

(* checkTeamJoin, of a participant `self' that is to have the columns `row'. *)
JoinAllowed(row, self) ==
  LET others == Members(row.team) \ {self}
      size == format[row.race].size
  IN row.team # NoTeam =>
       /\ OwnTeam(row)
       /\ row.leg # 0 => \A m \in others : person[m].leg # row.leg
       /\ HasRoom(others, size)
       /\ ~BadComposition(category[row.team], size,
            {person[m].gender : m \in others} \union {row.gender}, Cardinality(others) + 1)

(* What the database asks of the row it is given: the two foreign keys and *)
(* participants_team_leg_uk.                                               *)
Accepted(row, self) ==
  /\ Live(row.race)
  /\ row.team # NoTeam =>
       /\ Live(row.team)
       /\ row.leg # 0 => \A m \in Members(row.team) \ {self} : person[m].leg # row.leg

(* ON DELETE CASCADE of participants.race_id, participants.team_id, teams.race_id. *)
Cascade(x) ==
  LET teams == {t \in Teams : t = x \/ teamRace[t] = x}
  IN {x} \union teams \union {p \in People : person[p].race = x \/ person[p].team \in teams}

Remove(doomed) ==
  /\ life' = [x \in Rows |-> IF x \in doomed THEN "gone" ELSE life[x]]
  /\ format' = [r \in Races |-> IF r \in doomed THEN NoFormat ELSE format[r]]
  /\ teamRace' = [t \in Teams |-> IF t \in doomed THEN NoRace ELSE teamRace[t]]
  /\ category' = [t \in Teams |-> IF t \in doomed THEN "none" ELSE category[t]]
-----------------------------------------------------------------------------
(* Races. *)

CreateRace(r, f) ==
  /\ life[r] = "unborn"
  /\ ValidFormat(Normalized(f))
  /\ life' = [life EXCEPT ![r] = "live"]
  /\ format' = [format EXCEPT ![r] = Normalized(f)]
  /\ UNCHANGED <<teamRace, category, person, request>>

WithoutParticipants(r) == ~RaceHasParticipants(r)

(* A patch of the name alone leaves the format it has read in f. *)
ReadUpdateRace(q, r, f) ==
  /\ Idle(q)
  /\ Live(r)
  /\ ValidFormat(Normalized(f))
  /\ Normalized(f) # format[r] => WithoutParticipants(r)
  /\ Begin(q, [NoRequest EXCEPT !.kind = "race", !.race = r, !.format = Normalized(f)])
  /\ UNCHANGED <<life, format, teamRace, category, person>>

WriteUpdateRace(q) ==
  /\ request[q].kind = "race"
  /\ format' = IF Live(request[q].race)
               THEN [format EXCEPT ![request[q].race] = request[q].format] ELSE format
  /\ End(q)
  /\ UNCHANGED <<life, teamRace, category, person>>

DeleteRace(r) ==
  /\ Live(r)
  /\ Cascade(r) \intersect Locked = {}
  /\ Remove(Cascade(r))
  /\ person' = [p \in People |-> IF p \in Cascade(r) THEN NoRow ELSE person[p]]
  /\ UNCHANGED request
-----------------------------------------------------------------------------
(* Teams. *)

ReadCreateTeam(q, t, r, c) ==
  /\ Idle(q)
  /\ life[t] = "unborn" /\ \A o \in Requests : request[o].team # t
  /\ Live(r) /\ IsTeam(format[r])
  /\ Begin(q, [NoRequest EXCEPT !.kind = "newTeam", !.team = t, !.race = r, !.category = c])
  /\ UNCHANGED <<life, format, teamRace, category, person>>

WriteCreateTeam(q) ==
  LET t == request[q].team  r == request[q].race IN
  /\ request[q].kind = "newTeam"
  /\ IF Live(r)
     THEN /\ life' = [life EXCEPT ![t] = "live"]
          /\ teamRace' = [teamRace EXCEPT ![t] = r]
          /\ category' = [category EXCEPT ![t] = request[q].category]
     ELSE UNCHANGED <<life, teamRace, category>>
  /\ End(q)
  /\ UNCHANGED <<format, person>>

MembersInCategory(t, c) ==
  ~BadComposition(c, format[teamRace[t]].size,
     {person[m].gender : m \in Members(t)}, Cardinality(Members(t)))

(* A patch of the name alone leaves the category it has read in c, unchecked. *)
ReadUpdateTeam(q, t, c) ==
  /\ Idle(q)
  /\ Live(t) /\ IsTeam(format[teamRace[t]])
  /\ c # category[t] => MembersInCategory(t, c)
  /\ Begin(q, [NoRequest EXCEPT !.kind = "team", !.team = t, !.category = c])
  /\ UNCHANGED <<life, format, teamRace, category, person>>

WriteUpdateTeam(q) ==
  /\ request[q].kind = "team"
  /\ category' = IF Live(request[q].team)
                 THEN [category EXCEPT ![request[q].team] = request[q].category] ELSE category
  /\ End(q)
  /\ UNCHANGED <<life, format, teamRace, person>>

DeleteTeamAndMembers(t) ==
  /\ Live(t)
  /\ Cascade(t) \intersect Locked = {}
  /\ Remove(Cascade(t))
  /\ person' = [p \in People |-> IF p \in Cascade(t) THEN NoRow ELSE person[p]]
  /\ UNCHANGED request

(* DeleteTeam without its members: GetTeam and DetachTeamMembers ... *)
DetachTeamMembers(q, t) ==
  /\ Idle(q)
  /\ Live(t)
  /\ Members(t) \intersect Locked = {}
  /\ Begin(q, [NoRequest EXCEPT !.kind = "detach", !.team = t, !.people = Members(t)])
  /\ UNCHANGED <<life, format, teamRace, category, person>>

(* A plausible mistake: the row goes first, and takes its members along. *)
EverybodyIn(q) == Cascade(request[q].team)
NobodyDetached(q) == Cascade(request[q].team) \ request[q].people

(* ... then the row, with whoever is still in the team, and the commit. *)
DropTeam(q) ==
  LET t == request[q].team
      detached == request[q].people
      doomed == NobodyDetached(q)
  IN
  /\ request[q].kind = "detach"
  /\ doomed \intersect (Locked \ detached) = {}
  /\ IF Live(t)
     THEN /\ Remove(doomed)
          /\ person' = [p \in People |->
               IF p \in doomed THEN NoRow
               ELSE IF p \in detached THEN [person[p] EXCEPT !.team = NoTeam, !.leg = 0]
               ELSE person[p]]
     ELSE UNCHANGED <<life, format, teamRace, category, person>>
  /\ End(q)
-----------------------------------------------------------------------------
(* Participants. *)

ReadCreateParticipant(q, p, row) ==
  /\ Idle(q)
  /\ life[p] = "unborn" /\ \A o \in Requests : request[o].id # p
  /\ Live(row.race)
  /\ InvalidField(format[row.race], row.team, row.leg) = "none"
  /\ JoinAllowed(row, p)
  /\ Begin(q, [NoRequest EXCEPT !.kind = "new", !.id = p, !.row = row])
  /\ UNCHANGED <<life, format, teamRace, category, person>>

WriteCreateParticipant(q) ==
  LET p == request[q].id  row == request[q].row IN
  /\ request[q].kind = "new"
  /\ IF Accepted(row, p)
     THEN life' = [life EXCEPT ![p] = "live"] /\ person' = [person EXCEPT ![p] = row]
     ELSE UNCHANGED <<life, person>>
  /\ End(q)
  /\ UNCHANGED <<format, teamRace, category>>

(* The stored row with the patch merged onto it; a new race drops the team. *)
Sent(field, stored) == IF field = Keep THEN stored ELSE field
Merged(stored, race, team, leg, gender) ==
  LET moves == Sent(race, stored.race) # stored.race IN
  [race |-> Sent(race, stored.race),
   team |-> Sent(team, IF moves THEN NoTeam ELSE stored.team),
   leg |-> Sent(leg, IF moves THEN 0 ELSE stored.leg),
   gender |-> Sent(gender, stored.gender)]

ReadUpdateParticipant(q, p, race, team, leg, gender) ==
  LET row == Merged(person[p], race, team, leg, gender)
      invalid == InvalidField(format[row.race], row.team, row.leg)
      lenient == IsTeam(format[row.race]) /\ row.team = NoTeam /\ person[p].team = NoTeam
  IN
  /\ Idle(q) /\ Live(p)
  /\ Live(row.race)
  /\ invalid = "none" \/ (lenient /\ invalid = "team_id")
  /\ JoinAllowed(row, p)
  /\ Begin(q, [NoRequest EXCEPT !.kind = "edit", !.id = p, !.row = row])
  /\ UNCHANGED <<life, format, teamRace, category, person>>

(* UPDATE writes every column the request has merged. *)
WriteUpdateParticipant(q) ==
  LET p == request[q].id  row == request[q].row IN
  /\ request[q].kind = "edit"
  /\ p \notin Locked
  /\ person' = IF Live(p) /\ Accepted(row, p) THEN [person EXCEPT ![p] = row] ELSE person
  /\ End(q)
  /\ UNCHANGED <<life, format, teamRace, category>>

DeleteParticipants(selection) ==
  /\ selection # {} /\ \A p \in selection : Live(p)
  /\ selection \intersect Locked = {}
  /\ Remove(selection)
  /\ person' = [p \in People |-> IF p \in selection THEN NoRow ELSE person[p]]
  /\ UNCHANGED request
-----------------------------------------------------------------------------
(* A request can fail between its statements, and what it wrote is undone. *)
Rollback(q) ==
  /\ ~Idle(q)
  /\ End(q)
  /\ UNCHANGED <<life, format, teamRace, category, person>>

Next ==
  \/ \E r \in Races :
       \/ \E f \in RaceFormats : CreateRace(r, f) \/ \E q \in Requests : ReadUpdateRace(q, r, f)
       \/ DeleteRace(r)
  \/ \E t \in Teams :
       \/ \E q \in Requests :
            \/ \E c \in Categories :
                 (\E r \in Races : ReadCreateTeam(q, t, r, c)) \/ ReadUpdateTeam(q, t, c)
            \/ DetachTeamMembers(q, t)
       \/ DeleteTeamAndMembers(t)
  \/ \E q \in Requests, p \in People :
       \/ \E row \in [race : Races, team : Teams \union {NoTeam}, leg : 0..MaxLeg, gender : Genders] :
            ReadCreateParticipant(q, p, row)
       \/ \E race \in Races \union {Keep}, team \in Teams \union {NoTeam, Keep},
             leg \in (0..MaxLeg) \union {Keep}, gender \in Genders \union {Keep} :
            ReadUpdateParticipant(q, p, race, team, leg, gender)
  \/ \E q \in Requests :
       \/ WriteUpdateRace(q) \/ WriteCreateTeam(q) \/ WriteUpdateTeam(q) \/ DropTeam(q)
       \/ WriteCreateParticipant(q) \/ WriteUpdateParticipant(q) \/ Rollback(q)
  \/ \E selection \in SUBSET People : DeleteParticipants(selection)

Spec == Init /\ [][Next]_vars
-----------------------------------------------------------------------------
(* Whatever runs at once, a participant's team is a team of the participant's *)
(* own race, and it exists.  Team and race are two columns, checked against   *)
(* rows that may be gone or edited by the time they are written.              *)
TeamOfSameRace ==
  \A p \in People : person[p].team # NoTeam =>
    Live(person[p].team) /\ teamRace[person[p].team] = person[p].race

(* A member that DeleteTeam has detached is registered in the same race when *)
(* the deletion has committed or been undone, whatever ran in between.       *)
DetachedStayRegistered ==
  [][\A q \in Requests :
       request[q].kind = "detach" /\ request'[q] # request[q] =>
         \A p \in request[q].people :
           life'[p] = "live" /\ person'[p].race = person[p].race]_vars

(* What has been deleted is not brought back by a request that read it before. *)
DeletedForGood ==
  [][\A x \in Rows : life[x] = "gone" =>
       life'[x] = "gone" /\ (x \in People => person'[x] = person[x])]_vars

(* With one request at a time the rules hold of the stored rows.  Everybody   *)
(* who has a team, or is in a race without teams, fits the race's format: the *)
(* format has not changed under them.                                         *)
FormatKept ==
  \A p \in People : Live(p) =>
    LET f == format[person[p].race] IN
    \/ InvalidField(f, person[p].team, person[p].leg) = "none"
    \/ IsTeam(f) /\ person[p].team = NoTeam

(* No team outgrows the team size of its race. *)
TeamsWithinSize ==
  \A t \in Teams : Live(t) =>
    Members(t) = {} \/ Cardinality(Members(t)) <= format[teamRace[t]].size

(* A team of one gender has no other, and a complete mixed team has both, *)
(* though members change gender and teams change category.                *)
CategoryKept ==
  \A t \in Teams : Live(t) /\ Members(t) # {} =>
    ~BadComposition(category[t], format[teamRace[t]].size,
       {person[m].gender : m \in Members(t)}, Cardinality(Members(t)))

(* Category, gender, format and membership are edited by different requests, *)
(* each of which has to keep the rules that the others rely on.             *)
RulesKept == FormatKept /\ TeamsWithinSize /\ CategoryKept

(* "participants.race_id is ON DELETE RESTRICT" (event/repository.go:258). *)
RaceKeepsParticipants ==
  [][\A r \in Races : Live(r) /\ life'[r] = "gone" => ~RaceHasParticipants(r)]_vars
=============================================================================
