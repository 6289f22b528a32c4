----------------------------- MODULE ImportPlan -----------------------------
(***************************************************************************)
(* The bulk registration of an event: what PlanImport decides about every  *)
(* row of a file, from the stored participants and teams, and what         *)
(* applyPlan then writes, row by row in one transaction.                   *)
(*                                                                         *)
(* The database is a record: `people', the participants in the order they  *)
(* were created, and `teams', the category of each team, which its race    *)
(* and its name identify.  An import is alone in it: what overlapping      *)
(* requests do to each other is the subject of Registration.               *)
(*                                                                         *)
(* Rows name a race of the event and, if any, a category that exists.      *)
(* Names, contact data and blood types are left out, and so are team names *)
(* that differ by case or blanks only, and the limit on a file's length.   *)
(***************************************************************************)
EXTENDS RaceRules, Sequences

CONSTANTS
  Races, TeamNames, Bibs, Refs,
  RaceFormat,  \* the format of each race, a valid one
  InputRows,   \* the rows a file can have, of RowType
  MaxRows,     \* bound: the rows of one file
  MaxPeople,   \* bound: the participants of the event
  NoRef        \* a row, or a participant, without a ref_id

LastLeg == 2

RowType ==
  [race : Races, team : TeamNames \union {NoTeam}, category : Categories \union {"none"},
   leg : 0..LastLeg, bib : Bibs, ref : Refs \union {NoRef}, gender : Genders]

VARIABLE db

Keys == Races \X TeamNames
Key(row) == <<row.race, row.team>>
Files == UNION {[1..n -> InputRows \intersect RowType] : n \in 1..MaxRows}

Init == db = [people |-> <<>>, teams |-> [k \in Keys |-> "none"]]
-----------------------------------------------------------------------------
(* PlanImport, pass 1: each row on its own. *)

FitsRace(row) ==
  LET f == RaceFormat[row.race] IN
  InvalidField(f, IF IsTeam(f) THEN row.team ELSE NoTeam, row.leg) = "none"

Repeated(file, i) ==
  \E j \in DOMAIN file \ {i} :
    file[j].bib = file[i].bib \/ (file[i].ref # NoRef /\ file[j].ref = file[i].ref)

WithRef(d, row) == {p \in DOMAIN d.people : row.ref # NoRef /\ d.people[p].ref = row.ref}
WithBib(d, row) == {p \in DOMAIN d.people : d.people[p].bib = row.bib}

(* The participant a row is about, if any: by ref_id first, by BIB otherwise. *)
Match(d, row) == IF WithRef(d, row) # {} THEN WithRef(d, row) ELSE WithBib(d, row)
Found(d, row) == CHOOSE p \in Match(d, row) : TRUE

(* A plausible mistake: the BIB of a row that names a registration is not checked. *)
BibIgnored(d, row) == FALSE
BibOfAnother(d, row) ==
  IF WithRef(d, row) # {} THEN WithBib(d, row) \ WithRef(d, row) # {}
  ELSE row.ref # NoRef /\ \E p \in WithBib(d, row) : d.people[p].ref # NoRef

RowAction(d, file, i, update) ==
  LET row == file[i] IN
  IF ~FitsRace(row) \/ Repeated(file, i) \/ BibOfAnother(d, row) THEN "error"
  ELSE IF Match(d, row) = {} THEN "create"
  ELSE IF update THEN "update" ELSE "skip"
-----------------------------------------------------------------------------
(* planTeams: `joining' are the rows, of those not refused, of one team. *)

JoinsTeam(file, actions, i) ==
  actions[i] \in {"create", "update"} /\ IsTeam(RaceFormat[file[i].race])
Joining(file, actions, k) == {i \in DOMAIN file : JoinsTeam(file, actions, i) /\ Key(file[i]) = k}

Members(d, k) == {p \in DOMAIN d.people : Key(d.people[p]) = k}

(* A plausible mistake: those the file registers again count twice. *)
EveryMember(d, file, joining, k) == Members(d, k)
Staying(d, file, joining, k) == Members(d, k) \ UNION {Match(d, file[i]) : i \in joining}

(* An existing team keeps its category, a new one needs it stated by a row. *)
StatedCategory(d, file, joining, k) ==
  LET stated == {i \in joining : file[i].category # "none"} IN
  IF stated = {} THEN d.teams[k]
  ELSE file[CHOOSE i \in stated : \A j \in stated : i <= j].category
Category(d, file, joining, k) ==
  IF d.teams[k] # "none" THEN d.teams[k] ELSE StatedCategory(d, file, joining, k)

(* A plausible mistake: one too many. *)
OneOver(staying, earlier, size) == Cardinality(staying) + Cardinality(earlier) > size
TeamFull(staying, earlier, size) == Cardinality(staying) + Cardinality(earlier) >= size

(* The rows that may join: every earlier row takes its leg and its place, *)
(* accepted or not.                                                       *)
Accepted(d, file, joining, staying, size) ==
  LET Earlier(i) == {j \in joining : j < i}
      LegUsed(i) ==
        file[i].leg \in {d.people[m].leg : m \in staying} \union {file[j].leg : j \in Earlier(i)}
  IN {i \in joining :
        (file[i].leg # 0 => ~LegUsed(i)) /\ ~TeamFull(staying, Earlier(i), size)}

(* All of them, unless the team that results is not of its category. *)
Joiners(d, file, joining, k) ==
  LET size == RaceFormat[k[1]].size
      staying == Staying(d, file, joining, k)
      accepted == Accepted(d, file, joining, staying, size)
      category == Category(d, file, joining, k)
      genders == {d.people[m].gender : m \in staying} \union {file[i].gender : i \in accepted}
  IN IF \/ category = "none"
        \/ BadComposition(category, size, genders, Cardinality(staying) + Cardinality(accepted))
     THEN {} ELSE accepted

PlanImport(d, file, update) ==
  LET actions == [i \in DOMAIN file |-> RowAction(d, file, i, update)]
      joiners == UNION {Joiners(d, file, Joining(file, actions, k), k) : k \in Keys}
  IN [i \in DOMAIN file |->
        IF JoinsTeam(file, actions, i) /\ i \notin joiners THEN "error" ELSE actions[i]]

(* Only teams that somebody joins are created; their category may be stated *)
(* by a row that was refused.                                               *)
NewTeams(d, file, plan) == {k \in Keys : d.teams[k] = "none" /\ Joining(file, plan, k) # {}}

TeamsAfter(d, file, update, plan) ==
  LET actions == [i \in DOMAIN file |-> RowAction(d, file, i, update)] IN
  [k \in Keys |-> IF k \in NewTeams(d, file, plan) THEN Category(d, file, Joining(file, actions, k), k)
                  ELSE d.teams[k]]
-----------------------------------------------------------------------------
(* applyPlan. *)

(* What a row stores; a cell left blank keeps the ref_id that is stored. *)
Stored(row, ref) ==
  LET f == RaceFormat[row.race] IN
  [race |-> row.race, team |-> IF IsTeam(f) THEN row.team ELSE NoTeam,
   leg |-> IF IsRelay(f) THEN row.leg ELSE 0, bib |-> row.bib,
   ref |-> IF row.ref = NoRef THEN ref ELSE row.ref, gender |-> row.gender]

WriteRow(people, action, row, p) ==
  CASE action = "create" -> Append(people, Stored(row, NoRef))
    [] action = "update" -> [people EXCEPT ![p] = Stored(row, people[p].ref)]
    [] OTHER -> people

(* The participants after each row, were there no unique index. *)
Written(d, file, plan) ==
  LET people[n \in 0..Len(file)] ==
        IF n = 0 THEN d.people
        ELSE WriteRow(people[n - 1], plan[n], file[n], Found(d, file[n]))
  IN people

(* participants_event_bib_uk, participants_event_ref_id_uk, participants_team_leg_uk. *)
BibsAndRefsUnique(people) ==
  \A p, o \in DOMAIN people : p # o =>
    people[p].bib # people[o].bib /\ (people[p].ref # NoRef => people[p].ref # people[o].ref)
LegsUnique(people) ==
  \A p, o \in DOMAIN people :
    p # o /\ people[p].team # NoTeam /\ people[p].leg # 0 /\ Key(people[p]) = Key(people[o])
      => people[p].leg # people[o].leg

Applied(file, written) ==
  \A n \in DOMAIN file : BibsAndRefsUnique(written[n]) /\ LegsUnique(written[n])

Outcome(d, file, update) ==
  LET plan == PlanImport(d, file, update)
      written == Written(d, file, plan)
  IN IF Applied(file, written)
     THEN [people |-> written[Len(file)], teams |-> TeamsAfter(d, file, update, plan)]
     ELSE d

Import(file, update) ==
  /\ db' = Outcome(db, file, update)
  /\ Len(db'.people) <= MaxPeople

Next == \E file \in Files, update \in BOOLEAN : Import(file, update)

Spec == Init /\ [][Next]_db
-----------------------------------------------------------------------------
(* Free of errors, of two rows for one participant, and of clashes. *)
Clean(d, file) ==
  LET plan == PlanImport(d, file, TRUE) IN
  /\ \A i \in DOMAIN file : plan[i] # "error"
  /\ \A i, j \in DOMAIN file : i # j => Match(d, file[i]) \intersect Match(d, file[j]) = {}
  /\ Applied(file, Written(d, file, plan))

(* An import that is alone is aborted by nothing but a leg: the rules about  *)
(* BIBs and ref_ids of the rows and of the stored participants see to it     *)
(* that their unique indexes are never met, in whatever order rows are       *)
(* written.                                                                  *)
BibsAndRefsNeverClash ==
  \A file \in Files, update \in BOOLEAN :
    LET written == Written(db, file, PlanImport(db, file, update)) IN
    \A n \in DOMAIN file : BibsAndRefsUnique(written[n])

(* Imported again, a file that was free of errors, and had no two rows for  *)
(* one participant, matches everybody it registered and changes nothing.    *)
SecondImportChangesNothing ==
  \A file \in Files :
    Clean(db, file) =>
      LET once == Outcome(db, file, TRUE) IN
      /\ PlanImport(once, file, TRUE) = [i \in DOMAIN file |-> "update"]
      /\ Outcome(once, file, TRUE) = once

TeamInOrder(d, k) ==
  LET size == RaceFormat[k[1]].size IN
  Members(d, k) # {} =>
    /\ Cardinality(Members(d, k)) <= size
    /\ ~BadComposition(d.teams[k], size, {d.people[m].gender : m \in Members(d, k)},
                       Cardinality(Members(d, k)))

(* A file without errors leaves every team that was in order within its      *)
(* size and its category, wherever its members come from.                    *)
CleanImportKeepsOrder ==
  \A file \in Files :
    Clean(db, file) =>
      LET after == Outcome(db, file, TRUE) IN
      \A k \in Keys : TeamInOrder(db, k) => TeamInOrder(after, k)
=============================================================================
