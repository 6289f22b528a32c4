------------------------------- MODULE MCEvent -------------------------------
(***************************************************************************)
(* Event for TLC.                                                          *)
(***************************************************************************)
EXTENDS Event, TLC

CONSTANTS a1, a2, a3, b1, b2, f1, f2

Individual == [entry |-> "individual", course |-> "standard", size |-> 0]
Relay == [entry |-> "team", course |-> "relay", size |-> 2]
Loop == [entry |-> "team", course |-> "loop", size |-> 2]

(* Three people or BIBs, two teams. *)
As == {a1, a2, a3}
Bs == {b1, b2}
B == {b1}
MCSymmetry == Permutations(As) \union Permutations(Bs)

MCRaces == {"race"}
MCOneRequest == {"request"}
MCFormats == {Individual, Relay, Loop}

MCFileRaces == {"relay", "loop"}
MCFileFormat == ("relay" :> Relay) @@ ("loop" :> Loop)
MCTeamNames == {"team"}
MCRefs == {f1, f2}

(* Men for a relay team, whose category the second may leave open; for a loop team women or, as a mixed team, men. *)
MCInputRows ==
  [race : {"relay"}, team : {"team"}, category : {"male"}, leg : 1..2, bib : As,
   ref : {NoRef}, gender : {"male"}]
  \union [race : {"relay"}, team : {"team"}, category : {"none"}, leg : {2}, bib : As,
          ref : {NoRef}, gender : {"male"}]
  \union [race : {"loop"}, team : {"team"}, category : {"female"}, leg : {0}, bib : As,
          ref : {f1, NoRef}, gender : {"female"}]
  \union [race : {"loop"}, team : {"team"}, category : {"mixed"}, leg : {0}, bib : As,
          ref : {f1, f2}, gender : {"male"}]

(* Half millimetres.  Two columns fit the narrow BIB on A4, not the wide one. *)
MCCells == {[w |-> 176, h |-> 120], [w |-> 180, h |-> 120]}
MCLayouts ==
  {[paper |-> "a4", landscape |-> FALSE, cols |-> 2, rows |-> 2, gutter |-> 4, bleed |-> 6, margin |-> None],
   [paper |-> "a4", landscape |-> TRUE, cols |-> 1, rows |-> 1, gutter |-> 0, bleed |-> 6, margin |-> 0]}
=============================================================================
