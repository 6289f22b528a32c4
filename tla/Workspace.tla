------------------------------ MODULE Workspace ------------------------------
(***************************************************************************)
(* What a tenant promises about who belongs to it: one owner, for good;    *)
(* everybody else comes in by an invitation sent to them, which is then    *)
(* spent, with the role it grants, and stays what the owner and the admins *)
(* make of them.  Nothing is said here of requests, of what they read      *)
(* before or of links that expire; Membership implements this              *)
(* specification.                                                          *)
(***************************************************************************)
CONSTANTS Users, Invitations, NoUser

VARIABLES standing,   \* "out", or the role of a member
          invitation, \* "none" before it is sent, "pending", then spent
          invitee, granted

letters == <<invitation, invitee, granted>>
vars == <<standing, letters>>

Grantable == {"admin", "staff"}

Init ==
  /\ standing = [u \in Users |-> "out"]
  /\ invitation = [i \in Invitations |-> "none"]
  /\ invitee = [i \in Invitations |-> NoUser]
  /\ granted = [i \in Invitations |-> "staff"]

Found(u) ==
  /\ \A v \in Users : standing[v] = "out"
  /\ standing' = [standing EXCEPT ![u] = "owner"]
  /\ UNCHANGED letters

Invite(i) ==
  /\ invitation[i] = "none"
  /\ \E u \in Users : standing[u] = "owner"
  /\ invitation' = [invitation EXCEPT ![i] = "pending"]
  /\ \E u \in Users : invitee' = [invitee EXCEPT ![i] = u]
  /\ \E p \in Grantable : granted' = [granted EXCEPT ![i] = p]
  /\ UNCHANGED standing

Withdraw(i) ==
  /\ invitation[i] = "pending"
  /\ invitation' = [invitation EXCEPT ![i] = "revoked"]
  /\ UNCHANGED <<standing, invitee, granted>>

Join(i) ==
  /\ invitation[i] = "pending"
  /\ standing[invitee[i]] = "out"
  /\ invitation' = [invitation EXCEPT ![i] = "accepted"]
  /\ standing' = [standing EXCEPT ![invitee[i]] = granted[i]]
  /\ UNCHANGED <<invitee, granted>>

Change(u) ==
  /\ standing[u] \in Grantable
  /\ \E p \in Grantable : standing' = [standing EXCEPT ![u] = p]
  /\ UNCHANGED letters

Leave(u) ==
  /\ standing[u] \in Grantable
  /\ standing' = [standing EXCEPT ![u] = "out"]
  /\ UNCHANGED letters

Next ==
  \/ \E u \in Users : Found(u) \/ Change(u) \/ Leave(u)
  \/ \E i \in Invitations : Invite(i) \/ Withdraw(i) \/ Join(i)

Spec == Init /\ [][Next]_vars
=============================================================================
