----------------------------- MODULE MCJobQueue -----------------------------
(* Instances of JobQueue for TLC. *)
EXTENDS JobQueue, TLC

CONSTANTS j1, j2, w1, w2

MCJobs == {j1, j2}
MCHandled == {j1}
MCWorkers == {w1, w2}
MCSymmetry == Permutations(MCWorkers)
=============================================================================
