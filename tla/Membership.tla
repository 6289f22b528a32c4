----------------------------- MODULE Membership -----------------------------
(***************************************************************************)
(* Who belongs to a workspace: tenant.Service over tenant_members and      *)
(* invitations, for one tenant (row-level security keeps every transaction *)
(* to the rows of its own).                                                *)
(*                                                                         *)
(* A management request goes through RequireTenantForUser, which reads the *)
(* actor's role in a transaction of its own and hands it down; the service *)
(* then opens another, reads the row it is about, checks the rules and     *)
(* updates.  Both transactions are READ COMMITTED, so the actor's role and *)
(* the row may have changed by the time the update commits; the update     *)
(* itself looks again only at what its WHERE clause says.                  *)
(***************************************************************************)
CONSTANTS
  Users,       \* accounts; an invitation's email names one of them
  Invitations, \* invitations that can be sent
  Requests,    \* HTTP requests that can be in progress at once
  NoUser,
  NoInvitation

ASSUME MembershipAssumption ==
  /\ NoUser \notin Users
  /\ NoInvitation \notin Invitations

VARIABLES
  owner,      \* tenants.owner_user_id, NoUser before the tenant is created
  membership, \* tenant_members.status of each user, "none" without a row
  role,       \* tenant_members.role
  invitation, \* invitations.status, "none" before it is sent
  invitee,    \* the user with invitations.email
  granted,    \* invitations.role
  invitedBy,  \* invitations.invited_by
  lapsed,     \* the invitations past expires_at
  request     \* the requests in progress

memberVars == <<owner, membership, role>>
invitationVars == <<invitation, invitee, granted, invitedBy, lapsed>>
vars == <<memberVars, invitationVars, request>>

Roles == {"owner", "admin", "staff"}
Grantable == {"admin", "staff"}

(* MemberRole.IsAtLeast(RoleAdmin). *)
Manages(p) == p \in {"owner", "admin"}

(* "member": past the middleware, with the role it read; the other kinds have *)
(* read the row they are about and passed the service's rules.             *)
Kinds == {"none", "member", "change", "remove", "resend", "accept"}
RequestType ==
  [kind : Kinds, actor : Users \union {NoUser}, as : Roles,
   target : Users \union {NoUser}, role : Grantable,
   inv : Invitations \union {NoInvitation}]
NoRequest ==
  [kind |-> "none", actor |-> NoUser, as |-> "staff", target |-> NoUser,
   role |-> "staff", inv |-> NoInvitation]

(* One type invariant. *)
TypeOK ==
  /\ owner \in Users \union {NoUser}
  /\ membership \in [Users -> {"none", "active", "removed"}]
  /\ role \in [Users -> Roles]
  /\ invitation \in [Invitations -> {"none", "pending", "accepted", "revoked"}]
  /\ invitee \in [Invitations -> Users \union {NoUser}]
  /\ granted \in [Invitations -> Grantable]
  /\ invitedBy \in [Invitations -> Users \union {NoUser}]
  /\ lapsed \subseteq Invitations
  /\ request \in [Requests -> RequestType]

Init ==
  /\ owner = NoUser
  /\ membership = [u \in Users |-> "none"]
  /\ role = [u \in Users |-> "staff"]
  /\ invitation = [i \in Invitations |-> "none"]
  /\ invitee = [i \in Invitations |-> NoUser]
  /\ granted = [i \in Invitations |-> "staff"]
  /\ invitedBy = [i \in Invitations |-> NoUser]
  /\ lapsed = {}
  /\ request = [r \in Requests |-> NoRequest]

-----------------------------------------------------------------------------
Answer(r) == request' = [request EXCEPT ![r] = NoRequest]

(* The tenant and its owner's membership, in one transaction. *)
CreateTenant(u) ==
  /\ owner = NoUser
  /\ owner' = u
  /\ membership' = [membership EXCEPT ![u] = "active"]
  /\ role' = [role EXCEPT ![u] = "owner"]
  /\ UNCHANGED <<invitationVars, request>>

(* RequireTenantForUser, then RequireAdminRole. *)
RequireTenantForUser(r, u) ==
  /\ request[r] = NoRequest
  /\ membership[u] = "active"
  /\ Manages(role[u])
  /\ request' = [request EXCEPT ![r] =
       [NoRequest EXCEPT !.kind = "member", !.actor = u, !.as = role[u]]]
  /\ UNCHANGED <<memberVars, invitationVars>>

(* The transaction is rolled back, or the service refuses: a rule is not    *)
(* met, an UPDATE finds no row, a statement fails, the client gives up.     *)
Rollback(r) ==
  /\ request[r] # NoRequest
  /\ Answer(r)
  /\ UNCHANGED <<memberVars, invitationVars>>

-----------------------------------------------------------------------------
(* Invitations.                                                            *)

(* A plausible mistake: whoever may invite may invite an admin. *)
InviteStaffAnyActor(r, i, u, p) ==
  /\ request[r].kind = "member"
  /\ invitation[i] = "none"
  /\ p \in Grantable
  /\ invitation' = [invitation EXCEPT ![i] = "pending"]
  /\ invitee' = [invitee EXCEPT ![i] = u]
  /\ granted' = [granted EXCEPT ![i] = p]
  /\ invitedBy' = [invitedBy EXCEPT ![i] = request[r].actor]
  /\ Answer(r)
  /\ UNCHANGED <<memberVars, lapsed>>

(* Nothing is asked of the invitee: a member, even the owner, can be invited, *)
(* and more than once.                                                     *)
InviteStaff(r, i, u, p) ==
  /\ request[r].kind = "member"
  /\ invitation[i] = "none"
  /\ p \in Grantable
  /\ request[r].as = "owner" \/ p # "admin"
  /\ invitation' = [invitation EXCEPT ![i] = "pending"]
  /\ invitee' = [invitee EXCEPT ![i] = u]
  /\ granted' = [granted EXCEPT ![i] = p]
  /\ invitedBy' = [invitedBy EXCEPT ![i] = request[r].actor]
  /\ Answer(r)
  /\ UNCHANGED <<memberVars, lapsed>>

(* One guarded UPDATE; the role the invitation grants is not looked at. *)
RevokeInvitation(r, i) ==
  /\ request[r].kind = "member"
  /\ invitation[i] = "pending"
  /\ invitation' = [invitation EXCEPT ![i] = "revoked"]
  /\ Answer(r)
  /\ UNCHANGED <<memberVars, invitee, granted, invitedBy, lapsed>>

(* ResendInvitation's read and rules. *)
BeginResend(r, i) ==
  /\ request[r].kind = "member"
  /\ invitation[i] = "pending"
  /\ granted[i] = "admin" => request[r].as = "owner"
  /\ request' = [request EXCEPT ![r].kind = "resend", ![r].inv = i]
  /\ UNCHANGED <<memberVars, invitationVars>>

(* RotateInvitationToken: a new link and a new expiry, if still pending.  An *)
(* acceptance that looked the old link up before is not stopped by it.      *)
CommitResend(r) ==
  LET i == request[r].inv
  IN /\ request[r].kind = "resend"
     /\ invitation[i] = "pending"
     /\ lapsed' = lapsed \ {i}
     /\ Answer(r)
     /\ UNCHANGED <<memberVars, invitation, invitee, granted, invitedBy>>

(* AcceptInvitation's reads, outside any transaction: the current link of a *)
(* pending invitation, presented by the account it was sent to.            *)
BeginAccept(r, i) ==
  /\ request[r] = NoRequest
  /\ invitation[i] = "pending"
  /\ i \notin lapsed
  /\ request' = [request EXCEPT ![r] =
       [NoRequest EXCEPT !.kind = "accept", !.actor = invitee[i],
                         !.role = granted[i], !.inv = i]]
  /\ UNCHANGED <<memberVars, invitationVars>>

(* A plausible mistake: MarkInvitationAccepted without its status guard, the *)
(* read having seen 'pending'.                                             *)
CommitAcceptUnguarded(r) ==
  LET i == request[r].inv
      u == request[r].actor
  IN /\ request[r].kind = "accept"
     /\ membership[u] # "active"
     /\ invitation' = [invitation EXCEPT ![i] = "accepted"]
     /\ membership' = [membership EXCEPT ![u] = "active"]
     /\ role' = [role EXCEPT ![u] = request[r].role]
     /\ Answer(r)
     /\ UNCHANGED <<owner, invitee, granted, invitedBy, lapsed>>

(* A plausible mistake: the upsert without WHERE status = 'removed'. *)
CommitAcceptUpserts(r) ==
  LET i == request[r].inv
      u == request[r].actor
  IN /\ request[r].kind = "accept"
     /\ invitation[i] = "pending"
     /\ invitation' = [invitation EXCEPT ![i] = "accepted"]
     /\ membership' = [membership EXCEPT ![u] = "active"]
     /\ role' = [role EXCEPT ![u] = request[r].role]
     /\ Answer(r)
     /\ UNCHANGED <<owner, invitee, granted, invitedBy, lapsed>>

(* MarkInvitationAccepted and CreateOrReactivateMember in one transaction:  *)
(* an active membership rolls both back, and the invitation stays pending.  *)
CommitAccept(r) ==
  LET i == request[r].inv
      u == request[r].actor
  IN /\ request[r].kind = "accept"
     /\ invitation[i] = "pending"
     /\ membership[u] # "active"
     /\ invitation' = [invitation EXCEPT ![i] = "accepted"]
     /\ membership' = [membership EXCEPT ![u] = "active"]
     /\ role' = [role EXCEPT ![u] = request[r].role]
     /\ Answer(r)
     /\ UNCHANGED <<owner, invitee, granted, invitedBy, lapsed>>

(* expires_at passes. *)
Lapse(i) ==
  /\ invitation[i] = "pending"
  /\ i \notin lapsed
  /\ lapsed' = lapsed \union {i}
  /\ UNCHANGED <<memberVars, invitation, invitee, granted, invitedBy, request>>

-----------------------------------------------------------------------------
(* Members.                                                                *)

(* UpdateMemberRole's read of the member, and authorizeMemberChange. *)
BeginChange(r, u, p) ==
  /\ request[r].kind = "member"
  /\ membership[u] = "active"
  /\ role[u] # "owner"
  /\ p \in Grantable
  /\ request[r].as = "owner"
  /\ request' = [request EXCEPT ![r].kind = "change", ![r].target = u, ![r].role = p]
  /\ UNCHANGED <<memberVars, invitationVars>>

(* The UPDATE is for an active member. *)
CommitChange(r) ==
  LET u == request[r].target
  IN /\ request[r].kind = "change"
     /\ membership[u] = "active"
     /\ role' = [role EXCEPT ![u] = request[r].role]
     /\ Answer(r)
     /\ UNCHANGED <<owner, membership, invitationVars>>

(* RemoveMember's read of the member, and authorizeMemberChange. *)
BeginRemove(r, u) ==
  /\ request[r].kind = "member"
  /\ membership[u] = "active"
  /\ role[u] # "owner"
  /\ request[r].as = "admin" => role[u] = "staff"
  /\ request' = [request EXCEPT ![r].kind = "remove", ![r].target = u]
  /\ UNCHANGED <<memberVars, invitationVars>>

(* SetMemberStatus names the row by id alone: neither the status nor the     *)
(* role that was checked is looked at again.                               *)
CommitRemove(r) ==
  LET u == request[r].target
  IN /\ request[r].kind = "remove"
     /\ membership' = [membership EXCEPT ![u] = "removed"]
     /\ Answer(r)
     /\ UNCHANGED <<owner, role, invitationVars>>

-----------------------------------------------------------------------------
Invite(r) ==
  \/ \E i \in Invitations, u \in Users, p \in Roles : InviteStaff(r, i, u, p)
  \/ \E i \in Invitations : RevokeInvitation(r, i) \/ BeginResend(r, i) \/ BeginAccept(r, i)
  \/ CommitResend(r)
  \/ CommitAccept(r)

ManageMembers(r) ==
  \/ \E u \in Users, p \in Roles : BeginChange(r, u, p)
  \/ \E u \in Users : BeginRemove(r, u)
  \/ CommitChange(r)
  \/ CommitRemove(r)

Next ==
  \/ \E u \in Users : CreateTenant(u)
  \/ \E r \in Requests, u \in Users : RequireTenantForUser(r, u)
  \/ \E r \in Requests : Invite(r) \/ ManageMembers(r) \/ Rollback(r)
  \/ \E i \in Invitations : Lapse(i)

Spec == Init /\ [][Next]_vars

-----------------------------------------------------------------------------
(* Properties                                                              *)

(* There is exactly one owner (members.go), the user tenants.owner_user_id   *)
(* names, active whatever requests do to each other: not removed, not       *)
(* demoted by a request that read another row, not overwritten by accepting *)
(* an invitation that was sent to them.                                    *)
OneOwner ==
  \A u \in Users : membership[u] = "active" /\ role[u] = "owner" <=> u = owner

(* A tenant goes through the life of Workspace and no other: nobody comes in, *)
(* or comes back, but by spending an invitation that was still pending and  *)
(* addressed to them, with the role it grants - neither a second use of it  *)
(* nor a revocation between the check and the commit lets anyone in -, what *)
(* is spent stays so, and the owner neither leaves nor changes role.       *)
Standing(u) == IF membership[u] = "active" THEN role[u] ELSE "out"
Tenant == INSTANCE Workspace WITH standing <- [u \in Users |-> Standing(u)]
ImplementsWorkspace == Tenant!Spec

Admin(u) == membership[u] = "active" /\ role[u] = "admin"

(* "Only the Owner may grant Admin": a user becomes an admin only by the     *)
(* owner's own role change, or by an invitation the owner sent, though the  *)
(* role a request acts with may be stale.                                  *)
OnlyOwnerGrantsAdmin ==
  [][\A u \in Users :
       Admin(u)' /\ ~Admin(u) =>
         \/ \E r \in Requests :
              request[r].kind = "change" /\ request[r].target = u /\ request[r].actor = owner
         \/ \E i \in Invitations :
              invitee[i] = u /\ granted[i] = "admin" /\ invitedBy[i] = owner]_vars

(* Nobody joins, or comes back, but by spending an invitation that was still *)
(* pending and addressed to them, with the role it grants: neither a second *)
(* use of it nor a revocation that came between the check and the commit    *)
(* lets anyone in.                                                         *)
JoinSpendsInvitation ==
  [][\A u \in Users :
       membership[u] # "active" /\ membership'[u] = "active" =>
         \/ owner = NoUser /\ owner' = u
         \/ \E i \in Invitations :
              /\ invitation[i] = "pending" /\ invitation'[i] = "accepted"
              /\ invitee[i] = u /\ granted[i] = role'[u]]_vars

(* An invitation is spent once: accepted or revoked, it stays so.           *)
SpentIsSpent ==
  [][\A i \in Invitations :
       invitation[i] \in {"accepted", "revoked"} => invitation'[i] = invitation[i]]_vars
=============================================================================
