------------------------------- MODULE MCFaces -------------------------------
(* One account, in the one photo of a workspace. *)
EXTENDS Faces, TLC

CONSTANTS u1, t1, p1

MCTenantOf == (u1 :> None)
MCInPhoto == (p1 :> {u1})
MCPhotoTenant == (p1 :> t1)
=============================================================================
