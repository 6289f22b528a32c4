----------------------------- MODULE RaceRules -----------------------------
(***************************************************************************)
(* The rules of package participant that need no database: what a race's   *)
(* format asks of a participant, and what a team's gender category asks of *)
(* its members.                                                            *)
(*                                                                         *)
(* A leg or a team size of 0 is the nil of the code.  Names, e-mail        *)
(* addresses and blood types are left out: a request they make invalid     *)
(* changes nothing.                                                        *)
(***************************************************************************)
EXTENDS Naturals, FiniteSets

CONSTANT NoTeam

Genders == {"male", "female"}
Categories == Genders \union {"mixed"}

Formats ==
  [entry : {"individual", "team"}, course : {"standard", "relay", "loop"}, size : Nat]

IsTeam(format) == format.entry = "team"
IsRelay(format) == format.course = "relay"

(* RaceFormat.Normalize and RaceFormat.Validate; the settings of a loop are left out. *)
Normalized(format) ==
  IF IsTeam(format) THEN format ELSE [format EXCEPT !.size = 0]
ValidFormat(format) ==
  /\ IsRelay(format) => IsTeam(format)
  /\ IsTeam(format) => format.course # "standard" /\ format.size >= 2

(* Input.Validate: the first field it would complain of, "none" if all are fine. *)
InvalidField(format, team, leg) ==
  IF IsTeam(format) # (team # NoTeam) THEN "team_id"
  ELSE IF IsRelay(format) /\ leg \notin 1..format.size THEN "leg_order"
  ELSE IF ~IsRelay(format) /\ leg # 0 THEN "leg_order"
  ELSE "none"

(* CheckTeamComposition, for count members of these genders. *)
BadComposition(category, size, genders, count) ==
  IF category = "mixed" THEN count >= size /\ genders # Genders
  ELSE genders \ {category} # {}
=============================================================================
