----------------------------- MODULE MCServices -----------------------------
(***************************************************************************)
(* Services for TLC.                                                       *)
(***************************************************************************)
EXTENDS Services, TLC

CONSTANTS a1, a2, a3, b1, b2, c1, c2   \* model values, used for several things each

As == {a1, a2, a3}
Bs == {b1, b2}
Cs == {c1, c2}
AsAndBs == As \union Bs
MCSymmetry == Permutations(As) \union Permutations(Bs) \union Permutations(Cs)

(* An old build, the new one, and a build of another branch. *)
MCFiles == ("old" :> 1..2) @@ ("new" :> 1..3) @@ ("branch" :> {1, 3})

(* An account and somebody of a tenant, both in the one photo. *)
MCTenantOf == ("account" :> None) @@ ("somebody" :> "t1")
MCInPhoto == ("p1" :> {"account", "somebody"})
MCPhotoTenant == ("p1" :> "t1")
=============================================================================
