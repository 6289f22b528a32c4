----------------------------- MODULE MCSessions -----------------------------
(* Instances of Sessions for TLC. *)
EXTENDS Sessions, TLC

CONSTANTS t1, t2, t3, f1, f2, u1, u2, r1, r2

MCTokens == {t1, t2, t3}
MCFamilies == {f1, f2}
MCFamily == {f1}
MCUsers == {u1, u2}
MCUser == {u1}
MCRequests == {r1, r2}
MCSymmetry ==
  Permutations(MCTokens) \union Permutations(MCFamilies) \union Permutations(MCRequests)
=============================================================================
