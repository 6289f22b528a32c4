----------------------------- MODULE MCIdentity -----------------------------
(***************************************************************************)
(* Identity for TLC.                                                       *)
(***************************************************************************)
EXTENDS Identity, TLC

CONSTANTS a1, a2, b1, b2, c1, c2   \* model values, used for several things each

As == {a1, a2}
Bs == {b1, b2}
Cs == {c1, c2}
MCSymmetry == Permutations(As) \union Permutations(Bs) \union Permutations(Cs)

MCGoogle == {"g1"} \X Bs
=============================================================================
