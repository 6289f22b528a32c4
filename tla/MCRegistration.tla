--------------------------- MODULE MCRegistration ---------------------------
(* Instances of Registration for TLC. *)
EXTENDS Registration, TLC

CONSTANTS a1, a2, t1, p1, p2, q1, q2

MCRaces == {a1, a2}
MCOneTeam == {t1}
MCTwoPeople == {p1, p2}
MCRequests == {q1, q2}

Individual == [entry |-> "individual", course |-> "standard", size |-> 0]
Loop == [entry |-> "team", course |-> "loop", size |-> 2]
MCTwoFormats == {Individual, Loop}

MCSymmetry ==
  Permutations(MCRaces) \union Permutations(MCTwoPeople) \union Permutations(MCRequests)
=============================================================================
