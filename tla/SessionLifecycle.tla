-------------------------- MODULE SessionLifecycle --------------------------
(***************************************************************************)
(* What a login promises: a session has one user and one hard cap, both    *)
(* fixed when it starts, and once it is over it never comes back.  Nothing *)
(* is said here of tokens, rotation, grace windows or requests; Sessions   *)
(* implements this specification.                                          *)
(***************************************************************************)
CONSTANTS Families,  \* the sessions, one per login
          Users,
          Times      \* the hard caps a session may have

VARIABLES phase,  \* "none", "open" or "over"
          owner,  \* whose session it is: nobody's before it starts
          cap     \* the moment it ends at the latest

vars == <<phase, owner, cap>>

Init ==
  /\ phase = [f \in Families |-> "none"]
  /\ owner = [f \in Families |-> {}]
  /\ cap = [f \in Families |-> {}]

Login(f) ==
  /\ phase[f] = "none"
  /\ phase' = [phase EXCEPT ![f] = "open"]
  /\ \E u \in Users : owner' = [owner EXCEPT ![f] = {u}]
  /\ \E end \in Times : cap' = [cap EXCEPT ![f] = {end}]

(* Signed out, taken for stolen, too old, or of a suspended user: some of    *)
(* these end several sessions at once.                                     *)
End(ending) ==
  /\ \A f \in ending : phase[f] = "open"
  /\ phase' = [f \in Families |-> IF f \in ending THEN "over" ELSE phase[f]]
  /\ UNCHANGED <<owner, cap>>

Next ==
  \/ \E f \in Families : Login(f)
  \/ \E ending \in SUBSET Families : End(ending)

Spec == Init /\ [][Next]_vars
=============================================================================
