--------------------------- MODULE MCPhotoUpload ---------------------------
(* PhotoUpload on small instances. *)
EXTENDS PhotoUpload, TLC

CONSTANTS f1, f2, a1, a2, p1, p2, r1, r2, w1

MCFiles == {f1, f2}
MCOneFile == {f1}
MCAlbums == {a1, a2}
MCOneAlbum == {a1}
MCPhotos == {p1, p2}
MCRequests == {r1, r2}
MCOneRequest == {r1}
MCWorkers == {w1}

MCSymmetry == Permutations(MCAlbums) \union Permutations(MCPhotos) \union Permutations(MCRequests)
MCNoSymmetry == Permutations(MCPhotos)
=============================================================================
