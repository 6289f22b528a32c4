--------------------------- MODULE ServicesProofs ---------------------------
(***************************************************************************)
(* Proofs about the parts of module Services that keep tenants' members,   *)
(* requests, migrations, clients, layers, templates and lists, for any     *)
(* sets and bounds.  MediaProofs has the others.                           *)
(***************************************************************************)
EXTENDS Services, FiniteSetTheorems, WellFoundedInduction, TLAPS

(* The cardinality an instance speaks of is the one of FiniteSets.           *)
LEMMA TheCardinality == \A S : T!Cardinality(S) = Cardinality(S)
  BY DEF T!Cardinality, Cardinality
LEMMA ListCardinality == \A S : L!Cardinality(S) = Cardinality(S)
  BY DEF L!Cardinality, Cardinality
LEMMA LimitCardinality == \A S : R!Cardinality(S) = Cardinality(S)
  BY DEF R!Cardinality, Cardinality

(* A set of numbers has a least one.                                        *)
LEMMA LeastOne ==
  ASSUME NEW S \in SUBSET Nat, S # {}
  PROVE  \E m \in S : \A i \in S : m <= i
  <1>1. IsWellFoundedOn({p \in Nat \X Nat : p[1] < p[2]}, Nat)
    BY NatLessThanWellFounded, Zenon DEF OpToRel
  <1>2. PICK m \in S : \A i \in S : ~(<<i, m>> \in {p \in Nat \X Nat : p[1] < p[2]})
    BY <1>1, WFMin
  <1>3. ASSUME NEW i \in S PROVE m <= i
    <2>1. <<i, m>> \in Nat \X Nat /\ <<i, m>>[1] = i /\ <<i, m>>[2] = m
      OBVIOUS
    <2>2. ~(i < m)
      BY <1>2, <2>1
    <2> QED BY <2>2
  <1> QED BY <1>3
-----------------------------------------------------------------------------
(* Membership. *)

(* What a request in progress may rely on, although it read it in an earlier *)
(* transaction: an owner's role is the owner's for good, the owner is never *)
(* the target of a change or a removal, and an invitation keeps its invitee *)
(* and its role.                                                           *)
SoundRequests ==
  {q \in RequestType :
     /\ q.kind # "none" => q.actor \in Users /\ owner # NoUser
     /\ q.as = "owner" => q.actor = owner /\ owner # NoUser
     /\ q.kind \in {"change", "remove"} => q.target \in Users \ {owner}
     /\ q.kind = "change" => q.as = "owner"
     /\ q.kind \in {"resend", "accept"} => q.inv \in Invitations
     /\ q.kind = "accept" =>
          /\ invitation[q.inv] # "none"
          /\ q.actor = invitee[q.inv]
          /\ q.role = granted[q.inv]}

RequestsSound == \A r \in Requests : request[r] \in SoundRequests

(* An invitation was sent to somebody, by a member of the tenant, and by its *)
(* owner if it grants admin.                                               *)
InvitationsSound ==
  \A i \in Invitations :
    invitation[i] # "none" =>
      /\ invitee[i] \in Users
      /\ owner # NoUser
      /\ granted[i] = "admin" => invitedBy[i] = owner

(* Nobody is a member of a tenant that does not exist yet. *)
MembersOwned == \A u \in Users : membership[u] # "none" => owner # NoUser

IInv == TypeOK /\ OneOwner /\ RequestsSound /\ InvitationsSound /\ MembersOwned

LEMMA NoRequestSound == NoRequest \in RequestType /\ NoRequest \in SoundRequests
  BY DEF NoRequest, RequestType, Kinds, Roles, Grantable, SoundRequests

LEMMA InitIInv == Init => IInv
  <1> SUFFICES ASSUME Init PROVE IInv
    OBVIOUS
  <1> USE MembershipAssumption
  <1>1. TypeOK
    BY NoRequestSound DEF Init, TypeOK, Roles, Grantable
  <1>2. OneOwner /\ InvitationsSound /\ MembersOwned
    BY DEF Init, OneOwner, InvitationsSound, MembersOwned
  <1>3. RequestsSound
    BY NoRequestSound DEF Init, RequestsSound
  <1> QED BY <1>1, <1>2, <1>3 DEF IInv

(* Requests stay sound while the owner and the invitations sent keep what    *)
(* they are.                                                               *)
LEMMA SoundMonotone ==
  ASSUME owner' = owner,
         \A i \in Invitations : invitation[i] # "none" =>
           invitation'[i] # "none" /\ invitee'[i] = invitee[i] /\ granted'[i] = granted[i]
  PROVE  SoundRequests \subseteq SoundRequests'
  BY DEF SoundRequests

LEMMA RequestKeeps ==
  ASSUME TypeOK, RequestsSound, NEW r \in Requests, NEW q \in SoundRequests',
         SoundRequests \subseteq SoundRequests',
         request' = [request EXCEPT ![r] = q]
  PROVE  request' \in [Requests -> RequestType] /\ RequestsSound'
  <1>1. q \in RequestType
    BY DEF SoundRequests
  <1>2. request' \in [Requests -> RequestType]
    BY <1>1 DEF TypeOK
  <1>3. \A s \in Requests : request'[s] \in SoundRequests'
    BY DEF TypeOK, RequestsSound
  <1> QED BY <1>2, <1>3 DEF RequestsSound

LEMMA AnswerKeeps ==
  ASSUME TypeOK, RequestsSound, NEW r \in Requests, Answer(r),
         SoundRequests \subseteq SoundRequests'
  PROVE  request' \in [Requests -> RequestType] /\ RequestsSound'
  <1>1. NoRequest \in SoundRequests'
    BY NoRequestSound
  <1> QED BY <1>1, RequestKeeps DEF Answer

(* A step that only moves a request on. *)
LEMMA RequestStepKeeps ==
  ASSUME IInv, NEW r \in Requests, NEW q \in SoundRequests,
         request' = [request EXCEPT ![r] = q],
         UNCHANGED <<memberVars, invitationVars>>
  PROVE  IInv'
  <1>1. SoundRequests' = SoundRequests
    BY DEF SoundRequests, memberVars, invitationVars
  <1>2. request' \in [Requests -> RequestType] /\ RequestsSound'
    BY <1>1, RequestKeeps DEF IInv
  <1>3. TypeOK' /\ OneOwner' /\ InvitationsSound' /\ MembersOwned'
    BY <1>2 DEF IInv, TypeOK, OneOwner, InvitationsSound, MembersOwned, memberVars, invitationVars
  <1> QED BY <1>2, <1>3 DEF IInv

(* A step of a request past the middleware, to a row it has checked. *)
LEMMA BeginKeeps ==
  ASSUME IInv, NEW r \in Requests, request[r].kind = "member",
         NEW k \in {"change", "remove", "resend"},
         NEW u \in Users \union {NoUser}, NEW p \in Grantable,
         NEW i \in Invitations \union {NoInvitation},
         k \in {"change", "remove"} => u \in Users \ {owner},
         k = "change" => request[r].as = "owner",
         k = "resend" => i \in Invitations
  PROVE  [request[r] EXCEPT !.kind = k, !.target = u, !.role = p, !.inv = i] \in SoundRequests
  <1>1. request[r] \in SoundRequests /\ request[r] \in RequestType
    BY DEF IInv, TypeOK, RequestsSound
  <1> DEFINE q == [request[r] EXCEPT !.kind = k, !.target = u, !.role = p, !.inv = i]
  <1>2. /\ q \in RequestType
        /\ q.kind = k /\ q.target = u /\ q.inv = i
        /\ q.as = request[r].as /\ q.actor = request[r].actor
    BY <1>1 DEF RequestType, Kinds
  <1>3. /\ request[r].actor \in Users /\ owner # NoUser
        /\ request[r].as = "owner" => request[r].actor = owner
    BY <1>1 DEF SoundRequests
  <1> HIDE DEF q
  <1>4. q \in SoundRequests
    BY <1>2, <1>3 DEF SoundRequests
  <1> QED BY <1>4 DEF q

(* A step that answers a request and otherwise changes members only. *)
LEMMA MemberStepKeeps ==
  ASSUME IInv, NEW r \in Requests, Answer(r), owner' = owner,
         UNCHANGED invitationVars,
         membership' \in [Users -> {"none", "active", "removed"}],
         role' \in [Users -> Roles],
         OneOwner', MembersOwned'
  PROVE  IInv'
  <1>1. SoundRequests' = SoundRequests
    BY DEF SoundRequests, invitationVars
  <1>2. request' \in [Requests -> RequestType] /\ RequestsSound'
    BY <1>1, AnswerKeeps DEF IInv
  <1>3. TypeOK' /\ InvitationsSound'
    BY <1>2 DEF IInv, TypeOK, InvitationsSound, invitationVars
  <1> QED BY <1>2, <1>3 DEF IInv

(* A step that answers a request and otherwise changes invitations only,     *)
(* forgetting none that was sent.                                          *)
LEMMA InvitationStepKeeps ==
  ASSUME IInv, NEW r \in Requests, Answer(r),
         UNCHANGED memberVars,
         invitation' \in [Invitations -> {"none", "pending", "accepted", "revoked"}],
         invitee' \in [Invitations -> Users \union {NoUser}],
         granted' \in [Invitations -> Grantable],
         invitedBy' \in [Invitations -> Users \union {NoUser}],
         lapsed' \subseteq Invitations,
         \A i \in Invitations : invitation[i] # "none" =>
           invitation'[i] # "none" /\ invitee'[i] = invitee[i] /\ granted'[i] = granted[i],
         InvitationsSound'
  PROVE  IInv'
  <1>1. SoundRequests \subseteq SoundRequests'
    BY SoundMonotone DEF memberVars
  <1>2. request' \in [Requests -> RequestType] /\ RequestsSound'
    BY <1>1, AnswerKeeps DEF IInv
  <1>3. TypeOK' /\ OneOwner' /\ MembersOwned'
    BY <1>2 DEF IInv, TypeOK, OneOwner, MembersOwned, memberVars
  <1> QED BY <1>2, <1>3 DEF IInv

LEMMA NextIInv == IInv /\ [Next]_vars => IInv'
  <1> SUFFICES ASSUME IInv, [Next]_vars PROVE IInv'
    OBVIOUS
  <1> USE MembershipAssumption
  <1>0. TypeOK /\ OneOwner /\ RequestsSound /\ InvitationsSound /\ MembersOwned
    BY DEF IInv
  <1>req. \A r \in Requests : request[r] \in RequestType /\ request[r] \in SoundRequests
    BY <1>0 DEF TypeOK, RequestsSound
  <1>1. ASSUME NEW u \in Users, CreateTenant(u) PROVE IInv'
    <2>1. /\ owner = NoUser /\ owner' = u
          /\ membership' = [membership EXCEPT ![u] = "active"]
          /\ role' = [role EXCEPT ![u] = "owner"]
          /\ UNCHANGED <<invitation, invitee, granted, invitedBy, lapsed, request>>
      BY <1>1 DEF CreateTenant, invitationVars
    <2>2. TypeOK'
      BY <1>0, <2>1 DEF TypeOK, Roles
    <2>3. OneOwner' /\ MembersOwned'
      BY <1>0, <2>1 DEF OneOwner, MembersOwned, TypeOK
    <2>4. InvitationsSound'
      BY <1>0, <2>1 DEF InvitationsSound
    <2>5. ASSUME NEW r \in Requests PROVE request'[r] \in SoundRequests'
      <3>1. request[r] \in RequestType /\ request[r].kind = "none" /\ request[r].as # "owner"
        BY <1>req, <2>1 DEF SoundRequests
      <3> QED BY <2>1, <3>1 DEF SoundRequests
    <2> QED BY <2>2, <2>3, <2>4, <2>5 DEF IInv, RequestsSound
  <1>2. ASSUME NEW r \in Requests, NEW u \in Users, RequireTenantForUser(r, u) PROVE IInv'
    <2> DEFINE q == [NoRequest EXCEPT !.kind = "member", !.actor = u, !.as = role[u]]
    <2>1. membership[u] = "active" /\ role[u] \in Roles
      BY <1>0, <1>2 DEF RequireTenantForUser, TypeOK
    <2>2. owner # NoUser /\ (role[u] = "owner" => u = owner)
      BY <1>0, <2>1 DEF MembersOwned, OneOwner
    <2>3. q \in SoundRequests
      BY <2>1, <2>2 DEF SoundRequests, NoRequest, RequestType, Kinds, Grantable
    <2> QED BY <1>2, <2>3, RequestStepKeeps DEF RequireTenantForUser
  <1>3. ASSUME NEW r \in Requests, Rollback(r) PROVE IInv'
    BY <1>3, NoRequestSound, RequestStepKeeps DEF Rollback, Answer
  <1>4. ASSUME NEW r \in Requests, NEW i \in Invitations, NEW u \in Users, NEW p \in Roles,
               InviteStaff(r, i, u, p)
        PROVE  IInv'
    <2>1. /\ request[r].kind = "member" /\ invitation[i] = "none" /\ p \in Grantable
          /\ request[r].as = "owner" \/ p # "admin"
          /\ invitation' = [invitation EXCEPT ![i] = "pending"]
          /\ invitee' = [invitee EXCEPT ![i] = u]
          /\ granted' = [granted EXCEPT ![i] = p]
          /\ invitedBy' = [invitedBy EXCEPT ![i] = request[r].actor]
          /\ Answer(r)
          /\ UNCHANGED <<owner, membership, role, lapsed>>
      BY <1>4 DEF InviteStaff, memberVars
    <2>2. /\ request[r].actor \in Users /\ owner # NoUser
          /\ p = "admin" => request[r].actor = owner
      BY <1>req, <2>1 DEF SoundRequests
    <2>3. InvitationsSound'
      BY <1>0, <2>1, <2>2 DEF InvitationsSound, TypeOK
    <2>4. /\ invitation' \in [Invitations -> {"none", "pending", "accepted", "revoked"}]
          /\ invitee' \in [Invitations -> Users \union {NoUser}]
          /\ granted' \in [Invitations -> Grantable]
          /\ invitedBy' \in [Invitations -> Users \union {NoUser}]
          /\ lapsed' \subseteq Invitations
      BY <1>0, <2>1, <2>2 DEF TypeOK
    <2>5. \A j \in Invitations : invitation[j] # "none" =>
            invitation'[j] # "none" /\ invitee'[j] = invitee[j] /\ granted'[j] = granted[j]
      BY <1>0, <2>1 DEF TypeOK
    <2> QED BY <2>1, <2>3, <2>4, <2>5, InvitationStepKeeps DEF memberVars
  <1>5. ASSUME NEW r \in Requests, NEW i \in Invitations, RevokeInvitation(r, i) PROVE IInv'
    <2>1. /\ invitation[i] = "pending"
          /\ invitation' = [invitation EXCEPT ![i] = "revoked"]
          /\ Answer(r)
          /\ UNCHANGED <<owner, membership, role, invitee, granted, invitedBy, lapsed>>
      BY <1>5 DEF RevokeInvitation, memberVars
    <2>2. InvitationsSound'
      BY <1>0, <2>1 DEF InvitationsSound, TypeOK
    <2>3. invitation' \in [Invitations -> {"none", "pending", "accepted", "revoked"}]
      BY <1>0, <2>1 DEF TypeOK
    <2>4. \A j \in Invitations : invitation[j] # "none" =>
            invitation'[j] # "none" /\ invitee'[j] = invitee[j] /\ granted'[j] = granted[j]
      BY <1>0, <2>1 DEF TypeOK
    <2> QED BY <1>0, <2>1, <2>2, <2>3, <2>4, InvitationStepKeeps DEF memberVars, TypeOK
  <1>6. ASSUME NEW r \in Requests, NEW i \in Invitations, BeginResend(r, i) PROVE IInv'
    <2>1. /\ request[r].kind = "member"
          /\ request' = [request EXCEPT ![r] =
               [request[r] EXCEPT !.kind = "resend", !.target = request[r].target,
                                  !.role = request[r].role, !.inv = i]]
      BY <1>0, <1>req, <1>6 DEF BeginResend, TypeOK, RequestType
    <2>2. request[r].target \in Users \union {NoUser} /\ request[r].role \in Grantable
      BY <1>req DEF RequestType
    <2>3. [request[r] EXCEPT !.kind = "resend", !.target = request[r].target,
                             !.role = request[r].role, !.inv = i] \in SoundRequests
      BY <2>1, <2>2, BeginKeeps
    <2> QED BY <1>6, <2>1, <2>3, RequestStepKeeps DEF BeginResend
  <1>7. ASSUME NEW r \in Requests, CommitResend(r) PROVE IInv'
    <2> DEFINE i == request[r].inv
    <2>1. /\ request[r].kind = "resend"
          /\ lapsed' = lapsed \ {i}
          /\ Answer(r)
          /\ UNCHANGED <<owner, membership, role, invitation, invitee, granted, invitedBy>>
      BY <1>7 DEF CommitResend, memberVars
    <2>2. i \in Invitations
      BY <1>req, <2>1 DEF SoundRequests
    <2> HIDE DEF i
    <2>4. lapsed' \subseteq Invitations
      BY <1>0, <2>1 DEF TypeOK
    <2>5. InvitationsSound'
      BY <1>0, <2>1 DEF InvitationsSound
    <2>6. \A j \in Invitations : invitation[j] # "none" =>
            invitation'[j] # "none" /\ invitee'[j] = invitee[j] /\ granted'[j] = granted[j]
      BY <2>1
    <2> QED BY <1>0, <2>1, <2>4, <2>5, <2>6, InvitationStepKeeps DEF memberVars, TypeOK
  <1>8. ASSUME NEW r \in Requests, NEW i \in Invitations, BeginAccept(r, i) PROVE IInv'
    <2> DEFINE q == [NoRequest EXCEPT !.kind = "accept", !.actor = invitee[i],
                                      !.role = granted[i], !.inv = i]
    <2>1. /\ invitation[i] = "pending" /\ request' = [request EXCEPT ![r] = q]
      BY <1>8 DEF BeginAccept
    <2>2. /\ invitee[i] \in Users /\ owner # NoUser /\ granted[i] \in Grantable
      BY <1>0, <2>1 DEF InvitationsSound, TypeOK
    <2>3. q \in SoundRequests
      BY <2>1, <2>2 DEF SoundRequests, NoRequest, RequestType, Kinds, Roles
    <2> QED BY <1>8, <2>1, <2>3, RequestStepKeeps DEF BeginAccept
  <1>9. ASSUME NEW r \in Requests, CommitAccept(r) PROVE IInv'
    <2> DEFINE i == request[r].inv
               u == request[r].actor
    <2>1. /\ request[r].kind = "accept" /\ invitation[i] = "pending" /\ membership[u] # "active"
          /\ invitation' = [invitation EXCEPT ![i] = "accepted"]
          /\ membership' = [membership EXCEPT ![u] = "active"]
          /\ role' = [role EXCEPT ![u] = request[r].role]
          /\ Answer(r)
          /\ UNCHANGED <<owner, invitee, granted, invitedBy, lapsed>>
      BY <1>9 DEF CommitAccept
    <2>2. i \in Invitations /\ u \in Users /\ owner # NoUser /\ request[r].role \in Grantable
      BY <1>req, <2>1 DEF SoundRequests, RequestType
    <2> HIDE DEF i, u
    <2>3. u # owner
      BY <1>0, <2>1, <2>2 DEF OneOwner
    <2>4. OneOwner'
      <3>1. ASSUME NEW v \in Users, v # u
            PROVE  (membership'[v] = "active" /\ role'[v] = "owner") <=> v = owner
        BY <1>0, <2>1, <3>1 DEF OneOwner, TypeOK
      <3>2. role'[u] # "owner"
        BY <1>0, <2>1, <2>2 DEF TypeOK, Grantable
      <3> QED BY <2>1, <2>3, <3>1, <3>2 DEF OneOwner
    <2>5. MembersOwned' /\ InvitationsSound'
      BY <1>0, <2>1, <2>2 DEF MembersOwned, InvitationsSound, TypeOK
    <2>6. SoundRequests \subseteq SoundRequests'
      <3>1. \A j \in Invitations : invitation[j] # "none" =>
              invitation'[j] # "none" /\ invitee'[j] = invitee[j] /\ granted'[j] = granted[j]
        BY <1>0, <2>1 DEF TypeOK
      <3> QED BY <2>1, <3>1, SoundMonotone
    <2>7. request' \in [Requests -> RequestType] /\ RequestsSound'
      BY <1>0, <2>1, <2>6, AnswerKeeps
    <2>8. /\ membership' \in [Users -> {"none", "active", "removed"}]
          /\ role' \in [Users -> Roles]
          /\ invitation' \in [Invitations -> {"none", "pending", "accepted", "revoked"}]
      BY <1>0, <2>1, <2>2 DEF TypeOK, Roles, Grantable
    <2>9. TypeOK'
      BY <1>0, <2>1, <2>7, <2>8 DEF TypeOK
    <2> QED BY <2>4, <2>5, <2>7, <2>9 DEF IInv
  <1>10. ASSUME NEW i \in Invitations, Lapse(i) PROVE IInv'
    <2>1. /\ lapsed' = lapsed \union {i}
          /\ UNCHANGED <<owner, membership, role, invitation, invitee, granted, invitedBy,
                         request>>
      BY <1>10 DEF Lapse, memberVars
    <2>2. SoundRequests' = SoundRequests
      BY <2>1 DEF SoundRequests
    <2> QED BY <1>0, <2>1, <2>2
            DEF IInv, TypeOK, OneOwner, RequestsSound, InvitationsSound, MembersOwned
  <1>11. ASSUME NEW r \in Requests, NEW u \in Users, NEW p \in Roles, BeginChange(r, u, p)
         PROVE  IInv'
    <2>1. /\ request[r].kind = "member" /\ p \in Grantable /\ request[r].as = "owner"
          /\ u # owner
          /\ request' = [request EXCEPT ![r] =
               [request[r] EXCEPT !.kind = "change", !.target = u, !.role = p,
                                  !.inv = request[r].inv]]
      BY <1>0, <1>req, <1>11 DEF BeginChange, TypeOK, RequestType, OneOwner
    <2>2. request[r].inv \in Invitations \union {NoInvitation}
      BY <1>req DEF RequestType
    <2>3. [request[r] EXCEPT !.kind = "change", !.target = u, !.role = p,
                             !.inv = request[r].inv] \in SoundRequests
      BY <2>1, <2>2, BeginKeeps
    <2> QED BY <1>11, <2>1, <2>3, RequestStepKeeps DEF BeginChange
  <1>12. ASSUME NEW r \in Requests, NEW u \in Users, BeginRemove(r, u) PROVE IInv'
    <2>1. /\ request[r].kind = "member"
          /\ u # owner
          /\ request' = [request EXCEPT ![r] =
               [request[r] EXCEPT !.kind = "remove", !.target = u, !.role = request[r].role,
                                  !.inv = request[r].inv]]
      BY <1>0, <1>req, <1>12 DEF BeginRemove, TypeOK, RequestType, OneOwner
    <2>2. /\ request[r].inv \in Invitations \union {NoInvitation}
          /\ request[r].role \in Grantable
      BY <1>req DEF RequestType
    <2>3. [request[r] EXCEPT !.kind = "remove", !.target = u, !.role = request[r].role,
                             !.inv = request[r].inv] \in SoundRequests
      BY <2>1, <2>2, BeginKeeps
    <2> QED BY <1>12, <2>1, <2>3, RequestStepKeeps DEF BeginRemove
  <1>13. ASSUME NEW r \in Requests, CommitChange(r) PROVE IInv'
    <2> DEFINE u == request[r].target
    <2>1. /\ request[r].kind = "change"
          /\ role' = [role EXCEPT ![u] = request[r].role]
          /\ Answer(r)
          /\ UNCHANGED <<owner, membership>> /\ UNCHANGED invitationVars
      BY <1>13 DEF CommitChange
    <2>2. u \in Users \ {owner} /\ request[r].role \in Grantable
      BY <1>req, <2>1 DEF SoundRequests, RequestType
    <2> HIDE DEF u
    <2>3. role' \in [Users -> Roles]
      BY <1>0, <2>1, <2>2 DEF TypeOK, Roles, Grantable
    <2>4. OneOwner' /\ MembersOwned'
      BY <1>0, <2>1, <2>2 DEF OneOwner, MembersOwned, TypeOK, Grantable
    <2> QED BY <1>0, <2>1, <2>3, <2>4, MemberStepKeeps DEF TypeOK
  <1>14. ASSUME NEW r \in Requests, CommitRemove(r) PROVE IInv'
    <2> DEFINE u == request[r].target
    <2>1. /\ request[r].kind = "remove"
          /\ membership' = [membership EXCEPT ![u] = "removed"]
          /\ Answer(r)
          /\ UNCHANGED <<owner, role>> /\ UNCHANGED invitationVars
      BY <1>14 DEF CommitRemove
    <2>2. u \in Users \ {owner} /\ owner # NoUser
      BY <1>req, <2>1 DEF SoundRequests
    <2> HIDE DEF u
    <2>3. membership' \in [Users -> {"none", "active", "removed"}]
      BY <1>0, <2>1, <2>2 DEF TypeOK
    <2>4. OneOwner' /\ MembersOwned'
      BY <1>0, <2>1, <2>2 DEF OneOwner, MembersOwned, TypeOK
    <2> QED BY <1>0, <2>1, <2>3, <2>4, MemberStepKeeps DEF TypeOK
  <1>15. ASSUME UNCHANGED vars PROVE IInv'
    <2>1. SoundRequests' = SoundRequests
      BY <1>15 DEF SoundRequests, vars, memberVars, invitationVars
    <2> QED BY <1>0, <1>15, <2>1
            DEF IInv, TypeOK, OneOwner, RequestsSound, InvitationsSound, MembersOwned,
                vars, memberVars, invitationVars
  <1> QED
    BY <1>1, <1>2, <1>3, <1>4, <1>5, <1>6, <1>7, <1>8, <1>9, <1>10, <1>11, <1>12, <1>13,
       <1>14, <1>15
       DEF Next, Invite, ManageMembers

(* Only an acceptance makes a member of somebody who is not one.            *)
LEMMA OnlyAcceptJoins ==
  ASSUME IInv, [Next]_vars, NEW u \in Users,
         membership[u] # "active", membership'[u] = "active"
  PROVE  \/ owner = NoUser /\ owner' = u
         \/ \E r \in Requests : CommitAccept(r) /\ request[r].actor = u
  <1> USE DEF memberVars, invitationVars
  <1>0. TypeOK
    BY DEF IInv
  <1>1. ASSUME UNCHANGED membership PROVE FALSE
    BY <1>1
  <1>2. CASE \E v \in Users : CreateTenant(v)
    <2>1. PICK v \in Users : CreateTenant(v)
      BY <1>2
    <2> QED BY <1>0, <2>1 DEF CreateTenant, TypeOK
  <1>3. CASE \E r \in Requests : CommitAccept(r)
    <2>1. PICK r \in Requests : CommitAccept(r)
      BY <1>3
    <2>2. request[r].actor = u
      BY <1>0, <2>1 DEF CommitAccept, TypeOK
    <2> QED BY <2>1, <2>2
  <1>4. CASE \E r \in Requests : CommitRemove(r)
    <2>1. PICK r \in Requests : CommitRemove(r)
      BY <1>4
    <2> QED BY <1>0, <2>1 DEF CommitRemove, TypeOK
  <1>5. CASE UNCHANGED membership
    BY <1>1, <1>5
  <1> QED
    BY <1>2, <1>3, <1>4, <1>5
       DEF Next, Invite, ManageMembers, RequireTenantForUser, Rollback, InviteStaff,
           RevokeInvitation, BeginResend, CommitResend, BeginAccept, Lapse, BeginChange,
           BeginRemove, CommitChange, vars

LEMMA JoinStep ==
  ASSUME IInv, [Next]_vars, NEW u \in Users,
         membership[u] # "active", membership'[u] = "active"
  PROVE  \/ owner = NoUser /\ owner' = u
         \/ \E i \in Invitations :
              /\ invitation[i] = "pending" /\ invitation'[i] = "accepted"
              /\ invitee[i] = u /\ granted[i] = role'[u]
  <1>1. CASE owner = NoUser /\ owner' = u
    BY <1>1
  <1>2. CASE \E r \in Requests : CommitAccept(r) /\ request[r].actor = u
    <2>1. PICK r \in Requests : CommitAccept(r) /\ request[r].actor = u
      BY <1>2
    <2> DEFINE i == request[r].inv
    <2>2. request[r] \in SoundRequests
      BY DEF IInv, RequestsSound
    <2>3. /\ request[r].kind = "accept" /\ invitation[i] = "pending"
          /\ invitation' = [invitation EXCEPT ![i] = "accepted"]
          /\ role' = [role EXCEPT ![u] = request[r].role]
      BY <2>1 DEF CommitAccept
    <2>4. i \in Invitations /\ invitee[i] = u /\ granted[i] = request[r].role
      BY <2>1, <2>2, <2>3 DEF SoundRequests
    <2> HIDE DEF i
    <2>5. invitation'[i] = "accepted" /\ role'[u] = request[r].role
      BY <2>3, <2>4 DEF IInv, TypeOK
    <2> QED BY <2>3, <2>4, <2>5
  <1> QED BY <1>1, <1>2, OnlyAcceptJoins

(* Who becomes an admin was made one by the owner. *)
LEMMA AdminStep ==
  ASSUME IInv, [Next]_vars, NEW u \in Users, Admin(u)', ~Admin(u)
  PROVE  \/ \E r \in Requests :
              request[r].kind = "change" /\ request[r].target = u /\ request[r].actor = owner
         \/ \E i \in Invitations :
              invitee[i] = u /\ granted[i] = "admin" /\ invitedBy[i] = owner
  <1> USE DEF memberVars, invitationVars
  <1>0. TypeOK /\ OneOwner /\ InvitationsSound
    BY DEF IInv
  <1>1. membership'[u] = "active" /\ role'[u] = "admin"
    BY DEF Admin
  <1>2. CASE membership[u] # "active"
    <2>1. CASE owner = NoUser /\ owner' = u
      <3>1. IInv'
        BY NextIInv
      <3> QED BY <1>1, <2>1, <3>1 DEF IInv, OneOwner
    <2>2. CASE \E i \in Invitations :
              /\ invitation[i] = "pending" /\ invitation'[i] = "accepted"
              /\ invitee[i] = u /\ granted[i] = role'[u]
      BY <1>0, <1>1, <2>2 DEF InvitationsSound
    <2> QED BY <1>1, <1>2, <2>1, <2>2, JoinStep
  <1>3. CASE membership[u] = "active"
    <2>1. role[u] # "admin"
      BY <1>3 DEF Admin
    <2>2. CASE \E r \in Requests : CommitChange(r)
      <3>1. PICK r \in Requests : CommitChange(r)
        BY <2>2
      <3>2. request[r].target = u /\ request[r].kind = "change"
        BY <1>0, <1>1, <2>1, <3>1 DEF CommitChange, TypeOK
      <3>3. request[r].actor = owner
        BY <3>2 DEF IInv, RequestsSound, SoundRequests
      <3> QED BY <3>2, <3>3
    <2>3. CASE \E v \in Users : CreateTenant(v)
      <3>1. PICK v \in Users : CreateTenant(v)
        BY <2>3
      <3> QED BY <1>0, <1>1, <2>1, <3>1 DEF CreateTenant, TypeOK
    <2>4. CASE \E r \in Requests : CommitAccept(r)
      <3>1. PICK r \in Requests : CommitAccept(r)
        BY <2>4
      <3>2. request[r].actor # u
        BY <1>3, <3>1 DEF CommitAccept
      <3> QED BY <1>0, <1>1, <2>1, <3>1, <3>2 DEF CommitAccept, TypeOK
    <2>5. CASE UNCHANGED role
      BY <1>1, <2>1, <2>5
    <2> QED
      BY <2>2, <2>3, <2>4, <2>5
         DEF Next, Invite, ManageMembers, RequireTenantForUser, Rollback, InviteStaff,
             RevokeInvitation, BeginResend, CommitResend, BeginAccept, Lapse, BeginChange,
             BeginRemove, CommitRemove, vars
  <1> QED BY <1>2, <1>3

(* No step touches an invitation that was accepted or revoked: each UPDATE of *)
(* its status is for a pending one.                                        *)
LEMMA SpentStep ==
  ASSUME TypeOK, [Next]_vars, NEW i \in Invitations, invitation[i] \in {"accepted", "revoked"}
  PROVE  invitation'[i] = invitation[i]
  <1> USE DEF memberVars, invitationVars
  <1>1. CASE \E r \in Requests, j \in Invitations, u \in Users, p \in Roles : InviteStaff(r, j, u, p)
    BY <1>1 DEF InviteStaff, TypeOK
  <1>2. CASE \E r \in Requests, j \in Invitations : RevokeInvitation(r, j)
    BY <1>2 DEF RevokeInvitation, TypeOK
  <1>3. CASE \E r \in Requests : CommitAccept(r)
    <2>1. PICK r \in Requests : CommitAccept(r)
      BY <1>3
    <2>2. request[r].inv # i
      BY <2>1 DEF CommitAccept
    <2> QED BY <2>1, <2>2 DEF CommitAccept, TypeOK
  <1>4. CASE UNCHANGED invitation
    BY <1>4
  <1> QED
    BY <1>1, <1>2, <1>3, <1>4
       DEF Next, Invite, ManageMembers, CreateTenant, RequireTenantForUser, Rollback, BeginResend,
           CommitResend, BeginAccept, Lapse, BeginChange, BeginRemove, CommitChange, CommitRemove, vars

(* The owner is one and stays so, whatever management requests and           *)
(* acceptances of invitations overlap (members.go: "there is exactly one"). *)
THEOREM OwnerSafety == Spec => [](TypeOK /\ OneOwner)
  <1>1. IInv => TypeOK /\ OneOwner
    BY DEF IInv
  <1> QED BY <1>1, InitIInv, NextIInv, PTL DEF Spec

(* AcceptInvitation: nobody joins or comes back without spending a pending   *)
(* invitation of theirs.                                                   *)
THEOREM Joining == Spec => JoinSpendsInvitation
  <1>1. IInv /\ [Next]_vars =>
          [\A u \in Users :
             membership[u] # "active" /\ membership'[u] = "active" =>
               \/ owner = NoUser /\ owner' = u
               \/ \E i \in Invitations :
                    /\ invitation[i] = "pending" /\ invitation'[i] = "accepted"
                    /\ invitee[i] = u /\ granted[i] = role'[u]]_vars
    BY JoinStep
  <1> QED BY <1>1, InitIInv, NextIInv, PTL DEF Spec, JoinSpendsInvitation

(* InviteStaff and UpdateMemberRole: only the owner makes an admin, although *)
(* the role a request acts with was read in an earlier transaction.        *)
THEOREM AdminsFromOwner == Spec => OnlyOwnerGrantsAdmin
  <1>1. IInv /\ [Next]_vars =>
          [\A u \in Users :
             Admin(u)' /\ ~Admin(u) =>
               \/ \E r \in Requests :
                    request[r].kind = "change" /\ request[r].target = u /\ request[r].actor = owner
               \/ \E i \in Invitations :
                    invitee[i] = u /\ granted[i] = "admin" /\ invitedBy[i] = owner]_vars
    BY AdminStep
  <1> QED BY <1>1, InitIInv, NextIInv, PTL DEF Spec, OnlyOwnerGrantsAdmin

(* MarkInvitationAccepted, RevokeInvitation: an invitation is spent once.    *)
THEOREM SpentForGood == Spec => SpentIsSpent
  <1>1. IInv /\ [Next]_vars =>
          [\A i \in Invitations :
             invitation[i] \in {"accepted", "revoked"} => invitation'[i] = invitation[i]]_vars
    BY SpentStep DEF IInv
  <1> QED BY <1>1, InitIInv, NextIInv, PTL DEF Spec, SpentIsSpent

(* What a step does to the standing of one user and of nobody else.          *)
LEMMA StandingMoves ==
  ASSUME NEW u \in Users, \A v \in Users \ {u} : Standing(v)' = Standing(v)
  PROVE  [v \in Users |-> Standing(v)]'
           = [[v \in Users |-> Standing(v)] EXCEPT ![u] = Standing(u)']
  OBVIOUS

LEMMA OwnerStands ==
  ASSUME TypeOK, OneOwner, owner # NoUser
  PROVE  owner \in Users /\ Standing(owner) = "owner"
  BY DEF TypeOK, OneOwner, Standing

(* Whoever is not the owner is out, or an admin or staff.                     *)
LEMMA OthersStand ==
  ASSUME TypeOK, OneOwner, NEW u \in Users, u # owner, membership[u] = "active"
  PROVE  Standing(u) \in Tenant!Grantable
  BY DEF TypeOK, OneOwner, Standing, Roles, Tenant!Grantable

LEMMA FoundStep ==
  ASSUME IInv, NEW u \in Users, CreateTenant(u)
  PROVE  Tenant!Next
  <1>0. TypeOK /\ MembersOwned
    BY DEF IInv
  <1>1. /\ owner = NoUser
        /\ membership' = [membership EXCEPT ![u] = "active"]
        /\ role' = [role EXCEPT ![u] = "owner"]
        /\ UNCHANGED <<invitation, invitee, granted>>
    BY DEF CreateTenant, invitationVars
  <1>2. \A v \in Users : Standing(v) = "out"
    BY <1>0, <1>1 DEF MembersOwned, Standing
  <1>3. Standing(u)' = "owner" /\ \A v \in Users \ {u} : Standing(v)' = Standing(v)
    BY <1>0, <1>1 DEF Standing, TypeOK
  <1>4. [v \in Users |-> Standing(v)]' = [[v \in Users |-> Standing(v)] EXCEPT ![u] = "owner"]
    BY <1>3, StandingMoves
  <1>5. Tenant!Found(u)
    BY <1>1, <1>2, <1>4 DEF Tenant!Found, Tenant!letters
  <1> QED BY <1>5 DEF Tenant!Next

LEMMA InviteStep ==
  ASSUME IInv, NEW r \in Requests, NEW i \in Invitations, NEW u \in Users, NEW p \in Roles,
         InviteStaff(r, i, u, p)
  PROVE  Tenant!Next
  <1>0. TypeOK /\ OneOwner
    BY DEF IInv
  <1>1. /\ request[r].kind = "member" /\ invitation[i] = "none" /\ p \in Grantable
        /\ invitation' = [invitation EXCEPT ![i] = "pending"]
        /\ invitee' = [invitee EXCEPT ![i] = u]
        /\ granted' = [granted EXCEPT ![i] = p]
        /\ UNCHANGED <<membership, role>>
    BY DEF InviteStaff, memberVars
  <1>2. owner # NoUser
    BY <1>1 DEF IInv, RequestsSound, SoundRequests
  <1>3. owner \in Users /\ [v \in Users |-> Standing(v)][owner] = "owner"
    BY <1>0, <1>2, OwnerStands
  <1>4. UNCHANGED [v \in Users |-> Standing(v)]
    BY <1>1 DEF Standing
  <1>5. p \in Tenant!Grantable
    BY <1>1 DEF Grantable, Tenant!Grantable
  <1>6. Tenant!Invite(i)
    BY <1>1, <1>3, <1>4, <1>5 DEF Tenant!Invite
  <1> QED BY <1>6 DEF Tenant!Next

LEMMA WithdrawStep ==
  ASSUME NEW r \in Requests, NEW i \in Invitations, RevokeInvitation(r, i)
  PROVE  Tenant!Next
  <1>1. /\ invitation[i] = "pending"
        /\ invitation' = [invitation EXCEPT ![i] = "revoked"]
        /\ UNCHANGED <<membership, role, invitee, granted>>
    BY DEF RevokeInvitation, memberVars
  <1>2. UNCHANGED [v \in Users |-> Standing(v)]
    BY <1>1 DEF Standing
  <1>3. Tenant!Withdraw(i)
    BY <1>1, <1>2 DEF Tenant!Withdraw
  <1> QED BY <1>3 DEF Tenant!Next

LEMMA AcceptStep ==
  ASSUME IInv, NEW r \in Requests, CommitAccept(r)
  PROVE  Tenant!Next
  <1>0. TypeOK
    BY DEF IInv
  <1>1. /\ request[r].inv \in Invitations /\ request[r].actor \in Users
        /\ request[r].actor = invitee[request[r].inv] /\ request[r].role = granted[request[r].inv]
    BY DEF CommitAccept, IInv, RequestsSound, SoundRequests
  <1>i. PICK i \in Invitations : i = request[r].inv
    BY <1>1
  <1>u. PICK u \in Users : u = request[r].actor
    BY <1>1
  <1>2. /\ request[r].kind = "accept" /\ invitation[i] = "pending" /\ membership[u] # "active"
        /\ invitation' = [invitation EXCEPT ![i] = "accepted"]
        /\ membership' = [membership EXCEPT ![u] = "active"]
        /\ role' = [role EXCEPT ![u] = request[r].role]
        /\ UNCHANGED <<invitee, granted>>
    BY <1>i, <1>u DEF CommitAccept
  <1>3. [v \in Users |-> Standing(v)][invitee[i]] = "out"
    BY <1>1, <1>2, <1>i, <1>u DEF Standing
  <1>4. Standing(u)' = granted[i] /\ \A v \in Users \ {u} : Standing(v)' = Standing(v)
    BY <1>0, <1>1, <1>2, <1>i, <1>u DEF Standing, TypeOK
  <1>5. [v \in Users |-> Standing(v)]'
          = [[v \in Users |-> Standing(v)] EXCEPT ![invitee[i]] = granted[i]]
    BY <1>1, <1>4, <1>i, <1>u, StandingMoves
  <1>6. Tenant!Join(i)
    BY <1>2, <1>3, <1>5 DEF Tenant!Join
  <1> QED BY <1>6 DEF Tenant!Next

LEMMA ChangeStep ==
  ASSUME IInv, NEW r \in Requests, CommitChange(r)
  PROVE  Tenant!Next
  <1>0. TypeOK /\ OneOwner
    BY DEF IInv
  <1>1. request[r].target \in Users \ {owner} /\ request[r].role \in Tenant!Grantable
    BY DEF CommitChange, IInv, RequestsSound, SoundRequests, RequestType, Grantable, Tenant!Grantable
  <1>u. PICK u \in Users \ {owner} : u = request[r].target
    BY <1>1
  <1>p. PICK p \in Tenant!Grantable : p = request[r].role
    BY <1>1
  <1>2. /\ request[r].kind = "change" /\ membership[u] = "active"
        /\ role' = [role EXCEPT ![u] = p]
        /\ UNCHANGED <<membership, invitation, invitee, granted>>
    BY <1>u, <1>p DEF CommitChange, invitationVars
  <1>3. [v \in Users |-> Standing(v)][u] \in Tenant!Grantable
    BY <1>0, <1>2, OthersStand
  <1>4. Standing(u)' = p /\ \A v \in Users \ {u} : Standing(v)' = Standing(v)
    BY <1>0, <1>2 DEF Standing, TypeOK
  <1>5. [v \in Users |-> Standing(v)]' = [[v \in Users |-> Standing(v)] EXCEPT ![u] = p]
    BY <1>4, StandingMoves
  <1>6. Tenant!Change(u)
    BY <1>2, <1>3, <1>5 DEF Tenant!Change, Tenant!letters
  <1> QED BY <1>6 DEF Tenant!Next

(* A removal of somebody already gone changes nothing. *)
LEMMA RemoveStep ==
  ASSUME IInv, NEW r \in Requests, CommitRemove(r)
  PROVE  [Tenant!Next]_(Tenant!vars)
  <1>0. TypeOK /\ OneOwner
    BY DEF IInv
  <1>1. request[r].target \in Users \ {owner}
    BY DEF CommitRemove, IInv, RequestsSound, SoundRequests
  <1>u. PICK u \in Users \ {owner} : u = request[r].target
    BY <1>1
  <1>2. /\ request[r].kind = "remove"
        /\ membership' = [membership EXCEPT ![u] = "removed"]
        /\ UNCHANGED <<role, invitation, invitee, granted>>
    BY <1>u DEF CommitRemove, invitationVars
  <1>3. Standing(u)' = "out" /\ \A v \in Users \ {u} : Standing(v)' = Standing(v)
    BY <1>0, <1>2 DEF Standing, TypeOK
  <1>4. CASE membership[u] = "active"
    <2>1. [v \in Users |-> Standing(v)][u] \in Tenant!Grantable
      BY <1>0, <1>4, OthersStand
    <2>2. [v \in Users |-> Standing(v)]' = [[v \in Users |-> Standing(v)] EXCEPT ![u] = "out"]
      BY <1>3, StandingMoves
    <2>3. Tenant!Leave(u)
      BY <1>2, <2>1, <2>2 DEF Tenant!Leave, Tenant!letters
    <2> QED BY <2>3 DEF Tenant!Next
  <1>5. CASE membership[u] # "active"
    <2>1. \A v \in Users : Standing(v)' = Standing(v)
      BY <1>3, <1>5 DEF Standing
    <2> QED BY <1>2, <2>1 DEF Tenant!vars, Tenant!letters
  <1> QED BY <1>4, <1>5

(* tenant.Service implements Workspace: whatever requests of members, removed *)
(* members and invitees overlap, the tenant has its one owner for good and  *)
(* nobody is in it but by an invitation of their own that was then pending. *)
THEOREM TenantsRefine == Spec => ImplementsWorkspace
  <1>1. Init => Tenant!Init
    BY DEF Init, Standing, Tenant!Init
  <1>2. IInv /\ [Next]_vars => [Tenant!Next]_(Tenant!vars)
    <2> SUFFICES ASSUME IInv, [Next]_vars PROVE [Tenant!Next]_(Tenant!vars)
      OBVIOUS
    <2>1. ASSUME UNCHANGED <<memberVars, invitation, invitee, granted>>
          PROVE  UNCHANGED Tenant!vars
      BY <2>1 DEF memberVars, Standing, Tenant!vars, Tenant!letters
    <2>2. CASE \E u \in Users : CreateTenant(u)
      BY <2>2, FoundStep
    <2>3. CASE \E r \in Requests, i \in Invitations, u \in Users, p \in Roles : InviteStaff(r, i, u, p)
      BY <2>3, InviteStep
    <2>4. CASE \E r \in Requests, i \in Invitations : RevokeInvitation(r, i)
      BY <2>4, WithdrawStep
    <2>5. CASE \E r \in Requests : CommitAccept(r)
      BY <2>5, AcceptStep
    <2>6. CASE \E r \in Requests : CommitChange(r)
      BY <2>6, ChangeStep
    <2>7. CASE \E r \in Requests : CommitRemove(r)
      BY <2>7, RemoveStep
    <2>8. CASE UNCHANGED <<memberVars, invitation, invitee, granted>>
      BY <2>1, <2>8
    <2> QED
      BY <2>2, <2>3, <2>4, <2>5, <2>6, <2>7, <2>8
         DEF Next, Invite, ManageMembers, RequireTenantForUser, Rollback, BeginResend, CommitResend,
             BeginAccept, Lapse, BeginChange, BeginRemove, invitationVars, vars
  <1> QED
    BY <1>1, <1>2, InitIInv, NextIInv, PTL DEF Spec, ImplementsWorkspace, Tenant!Spec
-----------------------------------------------------------------------------
(* RateLimit.  The last requests let through, as many as the key counts up to *)
(* the limit, are of its window; the Limit before them at most of the window  *)
(* before; and what is older is at least a window older than the clock.      *)

Passed == Cardinality(DOMAIN allowed)
Counted == IF ~redis["count"].there THEN 0
           ELSE IF redis["count"].value <= Limit THEN redis["count"].value ELSE Limit

LimitTypeOK ==
  /\ now \in Nat
  /\ Passed \in Nat /\ DOMAIN allowed = 1..Passed
  /\ \A i \in 1..Passed : allowed[i] \in 0..now
  /\ redis \in [{"count"} -> [there : BOOLEAN, value : Nat, until : Nat]]
  /\ ~redis["count"].there => redis["count"] = R!NoKey
  /\ Counted <= Passed

AllowedInOrder == \A i, j \in 1..Passed : i <= j => allowed[i] <= allowed[j]

WindowLasts ==
  redis["count"].until # 0 =>
    \A i \in 1..Passed : i <= Passed - Counted => allowed[i] + Window <= redis["count"].until

LastWindowOver ==
  \A i \in 1..Passed : i <= Passed - Counted - Limit => allowed[i] + Window <= now

AllowedApart ==
  \A i, j \in 1..Passed : j = i + 2 * Limit => allowed[i] + Window <= allowed[j]

LimitInv == LimitTypeOK /\ AllowedInOrder /\ WindowLasts /\ LastWindowOver /\ AllowedApart

LEMMA LimitInit == R!Init => LimitInv
  <1> SUFFICES ASSUME R!Init PROVE LimitInv
    OBVIOUS
  <1>1. DOMAIN allowed = {} /\ Passed = 0
    BY FS_EmptySet DEF R!Init, Passed
  <1>2. redis = [k \in {"count"} |-> R!NoKey] /\ now = 0
    BY DEF R!Init, R!EmptyStore
  <1>3. Counted = 0
    BY <1>2 DEF Counted, R!NoKey
  <1>4. LimitTypeOK
    BY <1>1, <1>2, <1>3 DEF LimitTypeOK, R!NoKey
  <1>5. AllowedInOrder /\ WindowLasts /\ LastWindowOver /\ AllowedApart
    BY <1>1 DEF AllowedInOrder, WindowLasts, LastWindowOver, AllowedApart
  <1> QED BY <1>4, <1>5 DEF LimitInv

(* Only the key and the clock move.                                          *)
LEMMA WindowSteps ==
  ASSUME LimitInv, now' \in Nat, now <= now', UNCHANGED allowed,
         redis' \in [{"count"} -> [there : BOOLEAN, value : Nat, until : Nat]],
         ~redis'["count"].there => redis'["count"] = R!NoKey,
         Counted' <= Passed, WindowLasts', LastWindowOver'
  PROVE  LimitInv'
  <1> USE DEF LimitInv
  <1>1. Passed' = Passed
    BY DEF Passed
  <1>2. LimitTypeOK'
    BY <1>1 DEF LimitTypeOK
  <1>3. AllowedInOrder' /\ AllowedApart'
    BY <1>1 DEF AllowedInOrder, AllowedApart
  <1> QED BY <1>2, <1>3

LEMMA LimitNext == LimitInv /\ [R!Next]_(R!vars) => LimitInv'
  <1> SUFFICES ASSUME LimitInv, [R!Next]_(R!vars) PROVE LimitInv'
    OBVIOUS
  <1> USE RateLimitAssumption DEF LimitInv
  <1> DEFINE key == redis["count"]
             n == Passed
  <1>0. /\ now \in Nat /\ n \in Nat /\ key \in [there : BOOLEAN, value : Nat, until : Nat]
        /\ Counted \in Nat /\ Counted <= Limit
    BY DEF LimitTypeOK, Counted
  <1>1. ASSUME NEW r \in LimitedRequests, R!Allow(r) PROVE LimitInv'
    <2> DEFINE count == key.value + 1
    <2>1. /\ redis' = [redis EXCEPT !["count"] = [there |-> TRUE, value |-> count, until |-> key.until]]
          /\ R!WithinLimit(count) => R!Pass
          /\ ~R!WithinLimit(count) => UNCHANGED allowed
          /\ now' = now
      BY <1>0, <1>1 DEF R!Allow, R!Incr, R!Get, LimitTypeOK
    <2>2. /\ redis'["count"] = [there |-> TRUE, value |-> count, until |-> key.until]
          /\ redis' \in [{"count"} -> [there : BOOLEAN, value : Nat, until : Nat]]
      BY <1>0, <2>1 DEF LimitTypeOK
    <2>3. ~key.there => key.value = 0 /\ key.until = 0
      BY DEF LimitTypeOK, R!NoKey
    <2>4. CASE count <= Limit
      <3>1. allowed' = [i \in 1..(n + 1) |-> IF i \in 1..n THEN allowed[i] ELSE now]
        BY <2>1, <2>4, LimitCardinality DEF R!WithinLimit, R!Pass, R!Times, Passed, LimitTypeOK
      <3>2. DOMAIN allowed' = 1..(n + 1)
        BY <3>1
      <3>3. Passed' = n + 1
        BY <1>0, <3>2, FS_Interval DEF Passed
      <3>4. Counted' = Counted + 1
        BY <1>0, <2>2, <2>3, <2>4 DEF Counted
      <3>5. allowed'[n + 1] = now /\ \A i \in 1..n : allowed'[i] = allowed[i]
        BY <1>0, <3>1
      <3> HIDE DEF n
      <3>6. /\ \A i \in 1..n : allowed[i] \in 0..now
            /\ Counted <= n
        BY DEF LimitTypeOK, n
      <3>7. LimitTypeOK'
        BY <1>0, <2>1, <2>2, <3>2, <3>3, <3>4, <3>5, <3>6 DEF LimitTypeOK
      <3>8. AllowedInOrder'
        BY <1>0, <3>3, <3>5, <3>6 DEF AllowedInOrder, n
      <3>9. WindowLasts'
        BY <1>0, <2>2, <3>3, <3>4, <3>5 DEF WindowLasts, n
      <3>10. LastWindowOver'
        BY <1>0, <2>1, <3>3, <3>4, <3>5 DEF LastWindowOver, n
      <3>11. AllowedApart'
        <4> SUFFICES ASSUME NEW i \in 1..(n + 1), NEW j \in 1..(n + 1), j = i + 2 * Limit
                     PROVE  allowed'[i] + Window <= allowed'[j]
          BY <3>3 DEF AllowedApart
        <4>1. CASE j <= n
          BY <1>0, <3>5, <4>1 DEF AllowedApart, n
        <4>2. CASE j = n + 1
          <5>1. i <= n - Counted - Limit /\ i \in 1..n
            BY <1>0, <2>3, <2>4, <4>2 DEF Counted
          <5> QED BY <1>0, <3>5, <4>2, <5>1 DEF LastWindowOver, n
        <4> QED BY <1>0, <4>1, <4>2
      <3> QED BY <3>7, <3>8, <3>9, <3>10, <3>11
    <2>5. CASE ~(count <= Limit)
      <3>1. UNCHANGED allowed
        BY <2>1, <2>5 DEF R!WithinLimit
      <3>2. Counted' = Counted
        BY <1>0, <2>2, <2>3, <2>5 DEF Counted
      <3>3. Passed' = Passed
        BY <3>1 DEF Passed
      <3>4. WindowLasts' /\ LastWindowOver'
        BY <2>1, <2>2, <3>1, <3>2, <3>3 DEF WindowLasts, LastWindowOver
      <3> QED BY <1>0, <2>1, <2>2, <3>1, <3>2, <3>4, WindowSteps DEF LimitTypeOK
    <2> QED BY <2>4, <2>5
  <1>2. ASSUME NEW r \in LimitedRequests, NEW done \in BOOLEAN, R!SetWindow(r, done) PROVE LimitInv'
    <2>1. /\ UNCHANGED <<now, allowed>>
          /\ redis' = redis \/ (/\ key.there
                                /\ redis' = [redis EXCEPT !["count"].until = R!Deadline(now, Window)])
      BY <1>2 DEF R!SetWindow, R!Expire, R!Exists
    <2>2. CASE redis' = redis
      BY <2>1, <2>2, WindowSteps
         DEF LimitTypeOK, Counted, Passed, WindowLasts, LastWindowOver
    <2>3. CASE key.there /\ redis' = [redis EXCEPT !["count"].until = R!Deadline(now, Window)]
      <3>1. R!Deadline(now, Window) \in Nat /\ R!Deadline(now, Window) \in {0, now + Window}
        BY <1>0 DEF R!Deadline
      <3>2. /\ redis'["count"] = [key EXCEPT !.until = R!Deadline(now, Window)]
            /\ redis' \in [{"count"} -> [there : BOOLEAN, value : Nat, until : Nat]]
        BY <1>0, <2>3, <3>1 DEF LimitTypeOK
      <3>3. Counted' = Counted /\ Passed' = Passed
        BY <1>0, <2>1, <3>2 DEF Counted, Passed
      <3>4. WindowLasts' /\ LastWindowOver'
        BY <1>0, <2>1, <3>1, <3>2, <3>3 DEF WindowLasts, LastWindowOver, LimitTypeOK
      <3> QED BY <1>0, <2>1, <2>3, <3>2, <3>3, <3>4, WindowSteps DEF LimitTypeOK
    <2> QED BY <2>1, <2>2, <2>3
  <1>3. CASE R!Tick
    <2>1. /\ now' = now + 1 /\ UNCHANGED allowed
          /\ redis' = [k \in {"count"} |->
               IF key.until # 0 /\ key.until <= now + 1 THEN R!NoKey ELSE key]
      BY <1>3 DEF R!Tick, R!Sweep, LimitTypeOK
    <2>2. Passed' = Passed
      BY <2>1 DEF Passed
    <2>3. CASE key.until # 0 /\ key.until <= now + 1
      <3>1. redis'["count"] = R!NoKey
        BY <2>1, <2>3
      <3>2. Counted' = 0
        BY <3>1 DEF Counted, R!NoKey
      <3>3. WindowLasts'
        BY <3>1 DEF WindowLasts, R!NoKey
      <3>4. LastWindowOver'
        <4> SUFFICES ASSUME NEW i \in 1..Passed, i <= Passed - Limit
                     PROVE  allowed[i] + Window <= now + 1
          BY <1>0, <2>1, <2>2, <3>2 DEF LastWindowOver
        <4>1. allowed[i] + Window <= key.until /\ allowed[i] \in Nat
          BY <1>0, <2>3 DEF WindowLasts, LimitTypeOK
        <4> QED BY <1>0, <2>3, <4>1
      <3>5. redis' \in [{"count"} -> [there : BOOLEAN, value : Nat, until : Nat]]
        BY <2>1, <2>3 DEF R!NoKey
      <3> QED BY <1>0, <2>1, <3>1, <3>2, <3>3, <3>4, <3>5, WindowSteps
    <2>4. CASE ~(key.until # 0 /\ key.until <= now + 1)
      <3>1. redis' = redis
        BY <2>1, <2>4 DEF LimitTypeOK
      <3>2. Counted' = Counted
        BY <3>1 DEF Counted
      <3>3. WindowLasts' /\ LastWindowOver'
        BY <1>0, <2>1, <2>2, <3>1, <3>2 DEF WindowLasts, LastWindowOver, LimitTypeOK
      <3> QED BY <1>0, <2>1, <3>1, <3>2, <3>3, WindowSteps DEF LimitTypeOK
    <2> QED BY <2>3, <2>4
  <1>4. CASE UNCHANGED R!vars
    BY <1>4, <1>0, WindowSteps DEF R!vars, LimitTypeOK, Counted, Passed, WindowLasts, LastWindowOver
  <1> QED BY <1>1, <1>2, <1>3, <1>4 DEF R!Next

LEMMA LimitStep ==
  part = "limit" /\ [AllNext]_allVars => part' = "limit" /\ [R!Next]_(R!vars)
  BY DEF AllNext, allVars, shared, limitOwn, R!vars

(* Allow (INCR, then EXPIRE by whoever counted 1): a stretch as long as a       *)
(* window lets twice the limit through at most.  Those it lets through are    *)
(* numbered from the first on, and 2 * Limit further on the stretch is over.  *)
THEOREM TwoWindows == AllSpec => []TwoWindowsAtMost
  <1> DEFINE Kept == part = "limit" => LimitInv
  <1>1. Kept => TwoWindowsAtMost
    <2> SUFFICES ASSUME LimitInv, NEW t \in 0..now
                 PROVE  Cardinality({i \in DOMAIN allowed : allowed[i] >= t /\ allowed[i] < t + Window})
                          <= 2 * Limit
      BY LimitCardinality DEF TwoWindowsAtMost, R!TwoWindowsAtMost, R!Times
    <2> DEFINE S == {i \in DOMAIN allowed : allowed[i] >= t /\ allowed[i] < t + Window}
    <2> USE RateLimitAssumption DEF LimitInv
    <2>1. DOMAIN allowed = 1..Passed /\ Passed \in Nat /\ \A i \in 1..Passed : allowed[i] \in Nat
      BY DEF LimitTypeOK
    <2>2. CASE S = {}
      BY <2>2, FS_EmptySet
    <2>3. CASE S # {}
      <3>1. PICK m \in S : \A i \in S : m <= i
        <4>1. S \subseteq Nat
          BY <2>1
        <4> HIDE DEF S
        <4> QED BY <2>3, <4>1, LeastOne
      <3>2. m \in 1..Passed /\ allowed[m] >= t
        BY <2>1
      <3>3. ASSUME NEW i \in S PROVE i \in m..(m + 2 * Limit - 1)
        <4>1. i \in 1..Passed /\ m <= i /\ allowed[i] < t + Window
          BY <2>1, <3>1
        <4>2. CASE i >= m + 2 * Limit
          <5>1. m + 2 * Limit \in 1..Passed
            BY <2>1, <3>2, <4>1, <4>2
          <5>2. allowed[m] + Window <= allowed[m + 2 * Limit]
            BY <3>2, <5>1 DEF AllowedApart
          <5>3. allowed[m + 2 * Limit] <= allowed[i]
            BY <4>1, <4>2, <5>1 DEF AllowedInOrder
          <5> QED BY <2>1, <3>2, <4>1, <5>1, <5>2, <5>3
        <4> QED BY <3>2, <4>1, <4>2
      <3>4. S \subseteq m..(m + 2 * Limit - 1)
        BY <3>3
      <3>5. m \in Nat
        BY <3>2
      <3> HIDE DEF S
      <3>6. IsFiniteSet(m..(m + 2 * Limit - 1)) /\ Cardinality(m..(m + 2 * Limit - 1)) <= 2 * Limit
        BY <3>5, FS_Interval
      <3>7. Cardinality(S) <= Cardinality(m..(m + 2 * Limit - 1)) /\ Cardinality(S) \in Nat
        BY <3>4, <3>6, FS_Subset, FS_CardinalityType
      <3>8. Cardinality(m..(m + 2 * Limit - 1)) \in Nat
        BY <3>6, FS_CardinalityType
      <3>9. Cardinality(S) <= 2 * Limit
        BY <3>6, <3>7, <3>8
      <3> QED BY <3>9 DEF S
    <2> QED BY <2>2, <2>3
  <1>2. Kept /\ [AllNext]_allVars => Kept'
    BY LimitStep, LimitNext DEF AllNext, allVars
  <1>3. AllInit => Kept
    BY LimitInit DEF AllInit
  <1> QED BY <1>1, <1>2, <1>3, PTL DEF AllSpec
-----------------------------------------------------------------------------
(* Clients.  No grant of a quiet client is in progress and none begins, so   *)
(* its tokens were issued before.  And a token's scopes are the client's,   *)
(* which never change.                                                     *)

ClientsTypeOK ==
  /\ now \in Nat /\ now <= MaxTime
  /\ client \in [ClientIds -> [status : {"none", "active", "revoked"}, scopes : SUBSET ClientScopes]]
  /\ quiet \in [ClientIds -> Nat]
  /\ grant \in [Requests -> [client : ClientIds \union {None}, scopes : SUBSET ClientScopes]]
  /\ token \subseteq [client : ClientIds, scopes : SUBSET ClientScopes, exp : Nat]

QuietIsOver ==
  \A c \in ClientIds : quiet[c] # O!Never =>
    client[c].status = "revoked" /\ \A r \in Requests : grant[r].client # c

GrantsAsRead ==
  \A r \in Requests : grant[r] # O!NoGrant =>
    /\ grant[r].client \in ClientIds
    /\ client[grant[r].client].status # "none"
    /\ grant[r].scopes \subseteq client[grant[r].client].scopes

TokensInTime ==
  \A t \in token :
    /\ client[t.client].status # "none"
    /\ t.scopes \subseteq client[t.client].scopes
    /\ t.exp <= now + M2MTTL
    /\ t.exp <= quiet[t.client] + M2MTTL

ClientsInv == ClientsTypeOK /\ QuietIsOver /\ GrantsAsRead /\ TokensInTime

LEMMA ClientsInit == MaxTime \in Nat /\ O!Init => ClientsInv
  BY DEF O!Init, O!NoClient, O!NoGrant, O!Never, ClientsInv, ClientsTypeOK, QuietIsOver,
         GrantsAsRead, TokensInTime

(* A client that becomes quiet does so with what was issued until now. *)
LEMMA ClientQuiets ==
  ASSUME MaxTime \in Nat, M2MTTL \in Nat, ClientsInv, NEW c \in ClientIds, O!Quiets(c),
         now' = now, token' = token
  PROVE  /\ quiet' \in [ClientIds -> Nat]
         /\ \A k \in ClientIds \ {c} : quiet'[k] = quiet[k]
         /\ \/ quiet'[c] = quiet[c]
            \/ /\ quiet[c] = O!Never /\ quiet'[c] = now
               /\ client'[c].status = "revoked" /\ \A r \in Requests : grant'[r].client # c
         /\ \A t \in token : t.exp <= quiet'[t.client] + M2MTTL
  <1> DEFINE isQuiet == client'[c].status = "revoked" /\ \A r \in Requests : grant'[r].client # c
  <1>1. quiet' = [quiet EXCEPT ![c] = IF quiet[c] = O!Never /\ isQuiet THEN now ELSE quiet[c]]
    BY DEF O!Quiets
  <1> HIDE DEF isQuiet
  <1>2. quiet' \in [ClientIds -> Nat] /\ \A k \in ClientIds \ {c} : quiet'[k] = quiet[k]
    BY <1>1 DEF ClientsInv, ClientsTypeOK
  <1>3. quiet'[c] = quiet[c] \/ (quiet[c] = O!Never /\ quiet'[c] = now /\ isQuiet)
    BY <1>1 DEF ClientsInv, ClientsTypeOK
  <1>4. ASSUME NEW t \in token PROVE t.exp <= quiet'[t.client] + M2MTTL
    <2>1. t.exp <= now + M2MTTL /\ t.exp <= quiet[t.client] + M2MTTL /\ t.client \in ClientIds
      BY DEF ClientsInv, ClientsTypeOK, TokensInTime
    <2> QED BY <1>2, <1>3, <2>1
  <1> QED BY <1>2, <1>3, <1>4 DEF isQuiet

LEMMA ClientsNext ==
  ASSUME MaxTime \in Nat, M2MTTL \in Nat, None \notin ClientIds, ClientsInv, [O!Next]_(O!vars)
  PROVE  ClientsInv'
  <1> USE DEF ClientsInv, O!Never
  <1>1. ASSUME NEW c \in ClientIds, NEW s \in SUBSET ClientScopes, O!CreateClient(c, s)
        PROVE  ClientsInv'
    <2>1. ClientsTypeOK' /\ QuietIsOver'
      BY <1>1 DEF O!CreateClient, ClientsTypeOK, QuietIsOver
    <2>2. GrantsAsRead'
      BY <1>1 DEF O!CreateClient, ClientsTypeOK, GrantsAsRead
    <2>3. TokensInTime'
      BY <1>1 DEF O!CreateClient, ClientsTypeOK, TokensInTime
    <2> QED BY <2>1, <2>2, <2>3
  <1>2. ASSUME NEW c \in ClientIds, O!RevokeClient(c)
        PROVE  ClientsInv'
    <2>1. /\ client[c].status # "none"
          /\ client' = [client EXCEPT ![c].status = "revoked"]
          /\ UNCHANGED <<now, grant, token>> /\ O!Quiets(c)
      BY <1>2 DEF O!RevokeClient
    <2>2. /\ quiet' \in [ClientIds -> Nat]
          /\ \A k \in ClientIds \ {c} : quiet'[k] = quiet[k]
          /\ \/ quiet'[c] = quiet[c]
             \/ /\ quiet[c] = O!Never /\ quiet'[c] = now
                /\ client'[c].status = "revoked" /\ \A r \in Requests : grant'[r].client # c
          /\ \A t \in token : t.exp <= quiet'[t.client] + M2MTTL
      BY <2>1, ClientQuiets
    <2>3. ClientsTypeOK'
      BY <2>1, <2>2 DEF ClientsTypeOK
    <2>4. QuietIsOver'
      BY <2>1, <2>2 DEF ClientsTypeOK, QuietIsOver
    <2>5. GrantsAsRead' /\ TokensInTime'
      BY <2>1, <2>2 DEF ClientsTypeOK, GrantsAsRead, TokensInTime
    <2> QED BY <2>3, <2>4, <2>5
  <1>3. ASSUME NEW r \in Requests, NEW c \in ClientIds, NEW s \in SUBSET ClientScopes,
               O!GetByClientID(r, c, s)
        PROVE  ClientsInv'
    <2>1. quiet[c] = MaxTime + 1 /\ client[c].status = "active"
      BY <1>3 DEF O!GetByClientID, O!MayBeGranted, QuietIsOver
    <2>2. ClientsTypeOK'
      BY <1>3 DEF O!GetByClientID, ClientsTypeOK
    <2>3. GrantsAsRead'
      BY <1>3, <2>1 DEF O!GetByClientID, ClientsTypeOK, GrantsAsRead
    <2>4. QuietIsOver' /\ TokensInTime'
      BY <1>3, <2>1 DEF O!GetByClientID, ClientsTypeOK, QuietIsOver, TokensInTime
    <2> QED BY <2>2, <2>3, <2>4
  <1>4. ASSUME NEW r \in Requests, O!ClientCredentialsGrant(r) \/ O!GrantFails(r)
        PROVE  ClientsInv'
    <2> DEFINE c == grant[r].client
               t0 == [client |-> c, scopes |-> grant[r].scopes, exp |-> now + M2MTTL]
    <2>1. /\ grant[r] # O!NoGrant
          /\ token' \subseteq token \union {t0}
          /\ grant' = [grant EXCEPT ![r] = O!NoGrant]
          /\ UNCHANGED <<now, client>> /\ O!Quiets(c)
      BY <1>4 DEF O!ClientCredentialsGrant, O!GrantFails
    <2>2. /\ c \in ClientIds /\ grant[r].scopes \in SUBSET ClientScopes
          /\ client[c].status # "none" /\ grant[r].scopes \subseteq client[c].scopes
          /\ quiet[c] = MaxTime + 1
      BY <2>1 DEF ClientsTypeOK, GrantsAsRead, QuietIsOver
    <2>3. O!NoGrant \in [client : ClientIds \union {None}, scopes : SUBSET ClientScopes]
      BY DEF O!NoGrant
    <2>4. /\ t0.client = c /\ t0.scopes = grant[r].scopes /\ t0.exp = now + M2MTTL
          /\ t0 \in [client : ClientIds, scopes : SUBSET ClientScopes, exp : Nat]
      BY <2>2 DEF ClientsTypeOK
    <2> HIDE DEF c, t0
    <2>5. /\ quiet' \in [ClientIds -> Nat]
          /\ \A k \in ClientIds \ {c} : quiet'[k] = quiet[k]
          /\ \/ quiet'[c] = quiet[c]
             \/ /\ quiet'[c] = now
                /\ client'[c].status = "revoked" /\ \A q \in Requests : grant'[q].client # c
      BY <2>1, <2>2 DEF O!Quiets, ClientsTypeOK
    <2>6. ClientsTypeOK'
      BY <2>1, <2>2, <2>3, <2>4, <2>5 DEF ClientsTypeOK
    <2>7. QuietIsOver' /\ GrantsAsRead'
      <3>1. ASSUME NEW q \in Requests
            PROVE  grant'[q] = grant[q] \/ (q = r /\ grant'[q] = O!NoGrant)
        BY <2>1 DEF ClientsTypeOK
      <3>2. ASSUME NEW k \in ClientIds, quiet'[k] # O!Never
            PROVE  client'[k].status = "revoked" /\ \A q \in Requests : grant'[q].client # k
        <4>1. CASE k = c
          BY <2>2, <2>5, <3>2, <4>1
        <4>2. CASE k # c
          <5>1. client[k].status = "revoked" /\ \A q \in Requests : grant[q].client # k
            BY <2>5, <3>2, <4>2 DEF QuietIsOver
          <5> QED BY <2>1, <3>1, <5>1 DEF O!NoGrant
        <4> QED BY <4>1, <4>2
      <3> QED BY <2>1, <3>1, <3>2 DEF QuietIsOver, GrantsAsRead
    <2>8. TokensInTime'
      <3>1. ASSUME NEW t \in token'
            PROVE  /\ t.client \in ClientIds /\ client[t.client].status # "none"
                   /\ t.scopes \subseteq client[t.client].scopes
                   /\ t.exp \in Nat /\ t.exp <= now + M2MTTL /\ t.exp <= quiet[t.client] + M2MTTL
        <4>1. CASE t \in token
          BY <4>1 DEF ClientsTypeOK, TokensInTime
        <4>2. CASE t = t0
          BY <2>2, <2>4, <4>2 DEF ClientsTypeOK
        <4> QED BY <2>1, <4>1, <4>2
      <3>2. \A t \in token' : t.exp <= quiet'[t.client] + M2MTTL
        <4>1. ASSUME NEW t \in token', t.client = c PROVE t.exp <= quiet'[c] + M2MTTL
          BY <2>5, <3>1, <4>1 DEF ClientsTypeOK
        <4>2. ASSUME NEW t \in token', t.client # c PROVE t.exp <= quiet'[t.client] + M2MTTL
          BY <2>5, <3>1, <4>2
        <4> QED BY <4>1, <4>2
      <3> QED BY <2>1, <3>1, <3>2 DEF TokensInTime
    <2> QED BY <2>6, <2>7, <2>8
  <1>5. CASE O!Tick
    <2>1. ClientsTypeOK'
      BY <1>5 DEF O!Tick, ClientsTypeOK
    <2>2. QuietIsOver' /\ GrantsAsRead'
      BY <1>5 DEF O!Tick, QuietIsOver, GrantsAsRead
    <2>3. TokensInTime'
      BY <1>5 DEF O!Tick, ClientsTypeOK, TokensInTime
    <2> QED BY <2>1, <2>2, <2>3
  <1>6. CASE UNCHANGED O!vars
    BY <1>6 DEF O!vars, ClientsTypeOK, QuietIsOver, GrantsAsRead, TokensInTime
  <1> QED
    BY <1>1, <1>2, <1>3, <1>4, <1>5, <1>6 DEF O!Next, O!ManageClients, O!Token

LEMMA ClientsStep ==
  part = "clients" /\ [AllNext]_allVars => part' = "clients" /\ [O!Next]_(O!vars)
  BY DEF AllNext, allVars, shared, clientsOwn, O!vars

(* No request looks at a client again once its token is issued, and a grant  *)
(* may overlap the revocation by any time: once such grants have ended, a   *)
(* revoked client is served for one lifetime more at most.                 *)
THEOREM ClientsFade == AllSpec => []RevokedClientsFade
  <1> DEFINE Kept == part = "clients" => ClientsInv
  <1>1. Kept => RevokedClientsFade
    BY ClientsAssumption DEF ClientsInv, ClientsTypeOK, TokensInTime, RevokedClientsFade, O!RevokedClientsFade, O!RequireM2MAuth,
           O!RequireScope
  <1>2. Kept /\ [AllNext]_allVars => Kept'
    BY ClientsAssumption, ClientsStep, ClientsNext DEF AllNext, allVars
  <1>3. AllInit => Kept
    BY ClientsAssumption, ClientsInit DEF AllInit
  <1> QED BY <1>1, <1>2, <1>3, PTL DEF AllSpec
-----------------------------------------------------------------------------
(* Migrations.  What a process read as recorded still is: rows are only      *)
(* added.  So the versions it passed over are recorded, and those below the *)
(* one in hand are.                                                        *)

MigrationsTypeOK ==
  /\ recorded \subseteq Versions
  /\ changed \in [Versions -> Nat]
  /\ process \in [Processes -> [at : {"stopped", "ready", "transaction"},
                                applied : SUBSET Versions, version : Nat, runs : Nat]]

ReadIsRecorded == \A p \in Processes : process[p].applied \subseteq recorded

InOrder ==
  \A p \in Processes :
    /\ process[p].at = "ready" => \A w \in Files[p] : w <= process[p].version => w \in recorded
    /\ process[p].at = "transaction" =>
         /\ process[p].version \in Files[p]
         /\ \A w \in Files[p] : w < process[p].version => w \in recorded

MigrationsInv == MigrationsTypeOK /\ ReadIsRecorded /\ InOrder /\ M!MigratedOnce

(* A process carries files of known versions, which count from 1. *)
Numbered == Versions \subseteq Nat \ {0} /\ Files \in [Processes -> SUBSET Versions]

LEMMA MigrationsInit == MaxRuns \in Nat /\ Numbered /\ M!Init => MigrationsInv
  BY DEF Numbered, M!Init, M!Stopped, M!MigratedOnce, MigrationsInv, MigrationsTypeOK,
         ReadIsRecorded, InOrder

LEMMA MigrationsNext ==
  ASSUME Numbered, MigrationsInv, [M!Next]_(M!vars)
  PROVE  MigrationsInv'
  <1> USE DEF MigrationsInv
  <1>1. ASSUME NEW p \in Processes, M!appliedVersions(p)
        PROVE  MigrationsInv'
    <2>1. MigrationsTypeOK' /\ ReadIsRecorded'
      BY <1>1 DEF M!appliedVersions, MigrationsTypeOK, ReadIsRecorded
    <2>2. InOrder'
      BY <1>1 DEF M!appliedVersions, MigrationsTypeOK, InOrder, Numbered
    <2>3. M!MigratedOnce'
      BY <1>1 DEF M!appliedVersions, M!MigratedOnce
    <2> QED BY <2>1, <2>2, <2>3
  <1>2. ASSUME NEW p \in Processes, M!BeginMigration(p)
        PROVE  MigrationsInv'
    <2>1. PICK v \in M!Pending(p) :
            /\ process[p].at = "ready"
            /\ \A w \in M!Pending(p) : v <= w
            /\ process' = [process EXCEPT ![p].at = "transaction", ![p].version = v]
            /\ UNCHANGED <<recorded, changed>>
      BY <1>2 DEF M!BeginMigration
    <2>2. v \in Files[p] /\ v \in Nat
      BY <2>1 DEF M!Pending, Numbered
    <2>3. MigrationsTypeOK' /\ ReadIsRecorded'
      BY <2>1, <2>2 DEF MigrationsTypeOK, ReadIsRecorded
    <2>4. ASSUME NEW w \in Files[p], w < v PROVE w \in recorded
      BY <2>1, <2>2, <2>4 DEF M!Pending, MigrationsTypeOK, ReadIsRecorded, InOrder, Numbered
    <2>5. InOrder'
      BY <2>1, <2>2, <2>4 DEF MigrationsTypeOK, InOrder
    <2>6. M!MigratedOnce'
      BY <2>1 DEF M!MigratedOnce
    <2> QED BY <2>3, <2>5, <2>6
  <1>3. ASSUME NEW p \in Processes, M!applyMigration(p)
        PROVE  MigrationsInv'
    <2> DEFINE v == process[p].version
    <2>1. /\ process[p].at = "transaction" /\ v \notin recorded
          /\ changed' = [changed EXCEPT ![v] = @ + 1]
          /\ recorded' = recorded \union {v}
          /\ process' = [process EXCEPT ![p].at = "ready"]
      BY <1>3 DEF M!applyMigration, M!Set
    <2>2. v \in Files[p] /\ v \in Versions /\ \A w \in Files[p] : w < v => w \in recorded
      BY <2>1 DEF InOrder, Numbered
    <2>3. MigrationsTypeOK'
      BY <2>1, <2>2 DEF MigrationsTypeOK
    <2>4. ReadIsRecorded'
      BY <2>1 DEF MigrationsTypeOK, ReadIsRecorded
    <2>5. InOrder'
      BY <2>1, <2>2 DEF MigrationsTypeOK, InOrder, Numbered
    <2>6. M!MigratedOnce'
      BY <2>1, <2>2 DEF MigrationsTypeOK, M!MigratedOnce
    <2> QED BY <2>3, <2>4, <2>5, <2>6
  <1>4. ASSUME NEW p \in Processes, M!Exit(p)
        PROVE  MigrationsInv'
    BY <1>4 DEF M!Exit, M!Stopped, M!MigratedOnce, MigrationsTypeOK, ReadIsRecorded, InOrder
  <1>5. CASE UNCHANGED M!vars
    BY <1>5 DEF M!vars, M!MigratedOnce, MigrationsTypeOK, ReadIsRecorded, InOrder
  <1> QED BY <1>1, <1>2, <1>3, <1>4, <1>5 DEF M!Next

LEMMA MigrationsStep ==
  part = "migrate" /\ [AllNext]_allVars => part' = "migrate" /\ [M!Next]_(M!vars)
  BY DEF AllNext, allVars, shared, migrateOwn, M!vars

(* DB.Migrate: each version changes the schema once and is recorded with it,  *)
(* however many processes of whichever builds migrate at once and die.       *)
THEOREM EachMigrationOnce == AllSpec => []MigratedOnce
  <1> DEFINE Kept == part = "migrate" => MigrationsInv
  <1>1. Kept => MigratedOnce
    BY DEF MigrationsInv, MigratedOnce
  <1>2. Kept /\ [AllNext]_allVars => Kept'
    BY MigrationsAssumption, MigrationsStep, MigrationsNext DEF AllNext, allVars, Numbered
  <1>3. AllInit => Kept
    BY MigrationsAssumption, MigrationsInit DEF AllInit, Numbered
  <1> QED BY <1>1, <1>2, <1>3, PTL DEF AllSpec
-----------------------------------------------------------------------------
(* Watermarks.  A save in progress has a number of its own, which no row has *)
(* yet.  Of another save's rows that are still there it has seen, and is     *)
(* about to delete, all or none; and it has seen and deletes those of every   *)
(* save that had committed when its DELETE began.                          *)

Layers == LayerIds \X (1..MaxSaves)

SaveSteps == {"idle", "delete", "deleting", "insert"}

WatermarksTypeOK ==
  /\ layers \subseteq Layers
  /\ saves \in 0..MaxSaves
  /\ wrote \in [1..MaxSaves -> SUBSET LayerIds]
  /\ finished \subseteq 1..saves
  /\ preceding \in [1..MaxSaves -> SUBSET finished]
  /\ requests \in [Requests -> [at : SaveSteps, save : 0..MaxSaves, ids : SUBSET LayerIds,
                               sees : SUBSET Layers, deleted : SUBSET Layers]]

(* Rows are those of saves that have committed; one in progress has not, and *)
(* its number is its own.                                                  *)
RowsOfDone ==
  /\ \A l \in layers : l[2] \in finished
  /\ \A r \in Requests : \A l \in requests[r].sees \union requests[r].deleted : l[2] \in finished

SavesInProgress ==
  \A r \in Requests : requests[r].at # "idle" =>
    /\ requests[r].save \in (1..saves) \ finished
    /\ \A q \in Requests :
         q # r /\ requests[q].at # "idle" => requests[q].save # requests[r].save

DeletesWhole ==
  \A r \in Requests :
    /\ \A l \in requests[r].sees, k \in layers : k[2] = l[2] => k \in requests[r].sees
    /\ \A l \in requests[r].deleted, k \in layers :
         l \in layers /\ k[2] = l[2] => k \in requests[r].deleted

EarlierSeen ==
  \A r \in Requests : \A l \in layers :
    l[2] \in preceding[requests[r].save] =>
      /\ requests[r].at = "deleting" => l \in requests[r].sees
      /\ requests[r].at = "insert" => l \in requests[r].deleted

WatermarksInv ==
  /\ WatermarksTypeOK /\ RowsOfDone /\ SavesInProgress /\ DeletesWhole /\ EarlierSeen
  /\ K!SavesAreWhole /\ K!OnlyOverlappingMix

LEMMA WatermarksInit == MaxSaves \in Nat /\ K!Init => WatermarksInv
  <1> SUFFICES ASSUME MaxSaves \in Nat, K!Init PROVE WatermarksInv
    OBVIOUS
  <1>1. WatermarksTypeOK
    BY DEF K!Init, K!NoRequest, WatermarksTypeOK, Layers, SaveSteps
  <1>2. RowsOfDone /\ SavesInProgress /\ DeletesWhole /\ EarlierSeen
    BY DEF K!Init, K!NoRequest, RowsOfDone, SavesInProgress, DeletesWhole, EarlierSeen
  <1>3. K!SavesAreWhole /\ K!OnlyOverlappingMix
    BY DEF K!Init, K!SavesAreWhole, K!OnlyOverlappingMix
  <1> QED BY <1>1, <1>2, <1>3 DEF WatermarksInv

(* A request that ends takes its number and what it saw and deleted with it.  *)
LEMMA WatermarksAnswer ==
  ASSUME MaxSaves \in Nat, WatermarksTypeOK, NEW r \in Requests, K!Answer(r)
  PROVE  /\ requests' \in [Requests -> [at : SaveSteps, save : 0..MaxSaves, ids : SUBSET LayerIds,
                                       sees : SUBSET Layers, deleted : SUBSET Layers]]
         /\ requests'[r].at = "idle" /\ requests'[r].sees = {} /\ requests'[r].deleted = {}
         /\ \A q \in Requests : q # r => requests'[q] = requests[q]
  BY DEF WatermarksTypeOK, K!Answer, K!NoRequest, SaveSteps

LEMMA WatermarksInsert ==
  ASSUME MaxSaves \in Nat, WatermarksInv, NEW r \in Requests, K!Insert(r)
  PROVE  WatermarksInv'
  <1> USE DEF WatermarksInv
  <1> DEFINE save == requests[r].save
             kept == layers \ requests[r].deleted
             new == {<<i, save>> : i \in requests[r].ids}
  <1>1. /\ requests[r].at = "insert"
        /\ layers' = kept \union new
        /\ wrote' = [wrote EXCEPT ![save] = requests[r].ids]
        /\ finished' = finished \union {save}
        /\ K!Answer(r)
        /\ UNCHANGED <<saves, preceding>>
    BY DEF K!Insert, K!Commit, K!At
  <1>2. save \in 1..saves /\ save \in 1..MaxSaves /\ saves \in Nat /\ save \notin finished
    BY <1>1 DEF SavesInProgress, WatermarksTypeOK
  <1>3. new \subseteq Layers /\ \A l \in new : l[2] = save
    BY <1>2 DEF WatermarksTypeOK, Layers
  <1>4. \A l \in kept : l[2] \in finished /\ l[2] # save
    BY <1>2 DEF RowsOfDone
  <1>5. WatermarksTypeOK'
    <2>1. layers' \subseteq Layers
      BY <1>1, <1>3 DEF WatermarksTypeOK
    <2>2. wrote' \in [1..MaxSaves -> SUBSET LayerIds]
      BY <1>1 DEF WatermarksTypeOK
    <2>3. finished' \subseteq 1..saves' /\ preceding' \in [1..MaxSaves -> SUBSET finished']
      BY <1>1, <1>2 DEF WatermarksTypeOK
    <2> HIDE DEF WatermarksInv
    <2> QED BY <1>1, <2>1, <2>2, <2>3, WatermarksAnswer DEF WatermarksInv, WatermarksTypeOK
  <1>6. RowsOfDone'
    BY <1>1, <1>3, <1>4, WatermarksAnswer DEF RowsOfDone
  <1>7. SavesInProgress'
    BY <1>1, <1>2, WatermarksAnswer DEF SavesInProgress
  <1>8. DeletesWhole'
    <2> SUFFICES ASSUME NEW q \in Requests, NEW k \in layers'
                 PROVE  /\ \A l \in requests'[q].sees : k[2] = l[2] => k \in requests'[q].sees
                        /\ \A l \in requests'[q].deleted :
                             l \in layers' /\ k[2] = l[2] => k \in requests'[q].deleted
      BY DEF DeletesWhole
    <2>1. CASE q = r
      BY <1>1, <2>1, WatermarksAnswer
    <2>2. CASE q # r
      <3>1. requests'[q] = requests[q]
        BY <1>1, <2>2, WatermarksAnswer
      <3>2. \A l \in requests[q].sees \union requests[q].deleted : l[2] # save
        BY <1>2 DEF RowsOfDone
      <3> QED BY <1>1, <1>3, <3>1, <3>2 DEF DeletesWhole
    <2> QED BY <2>1, <2>2
  <1>9. EarlierSeen'
    <2> SUFFICES ASSUME NEW q \in Requests, NEW l \in layers', q # r,
                        l[2] \in preceding[requests[q].save]
                 PROVE  /\ requests[q].at = "deleting" => l \in requests[q].sees
                        /\ requests[q].at = "insert" => l \in requests[q].deleted
      BY <1>1, WatermarksAnswer DEF EarlierSeen
    <2>1. requests[q].at = "idle" \/ requests[q].save \in 1..MaxSaves
      BY DEF SavesInProgress, WatermarksTypeOK
    <2>2. CASE requests[q].at # "idle"
      <3>1. l[2] \in finished
        BY <2>1, <2>2 DEF WatermarksTypeOK
      <3>2. l \in kept
        BY <1>1, <1>2, <1>3, <3>1
      <3> QED BY <3>2 DEF EarlierSeen
    <2> QED BY <2>2
  <1>10. K!SavesAreWhole'
    <2> SUFFICES ASSUME NEW s \in 1..MaxSaves,
                        {l[1] : l \in {x \in layers' : x[2] = s}} # {}
                 PROVE  {l[1] : l \in {x \in layers' : x[2] = s}} = wrote'[s]
      BY DEF K!SavesAreWhole
    <2>1. CASE s = save
      <3>1. {x \in layers' : x[2] = s} = new
        BY <1>1, <1>3, <1>4, <2>1
      <3>2. {l[1] : l \in new} = requests[r].ids
        <4>1. ASSUME NEW i \in requests[r].ids PROVE i \in {l[1] : l \in new}
          <5>1. <<i, save>> \in new /\ <<i, save>>[1] = i
            OBVIOUS
          <5> QED BY <5>1
        <4>2. \A l \in new : l[1] \in requests[r].ids
          OBVIOUS
        <4> HIDE DEF new
        <4> QED BY <4>1, <4>2
      <3>3. wrote'[s] = requests[r].ids
        BY <1>1, <1>2, <2>1 DEF WatermarksTypeOK
      <3> QED BY <3>1, <3>2, <3>3
    <2>2. CASE s # save
      <3>1. {x \in layers' : x[2] = s} = {x \in kept : x[2] = s}
        BY <1>1, <1>3, <2>2
      <3>2. PICK k \in kept : k[2] = s
        BY <3>1
      <3>3. \A l \in layers : l[2] = s => l \in kept
        BY <3>2 DEF DeletesWhole
      <3>4. {x \in layers' : x[2] = s} = {x \in layers : x[2] = s}
        BY <3>1, <3>3
      <3>5. wrote'[s] = wrote[s]
        BY <1>1, <2>2 DEF WatermarksTypeOK
      <3> QED BY <3>4, <3>5 DEF K!SavesAreWhole
    <2> QED BY <2>1, <2>2
  <1>11. K!OnlyOverlappingMix'
    <2> SUFFICES ASSUME NEW x \in layers', NEW y \in layers', x[2] \in preceding[y[2]] PROVE FALSE
      BY <1>1 DEF K!OnlyOverlappingMix
    <2>1. y[2] \in 1..MaxSaves
      BY <1>1, <1>2, <1>3 DEF WatermarksTypeOK, Layers
    <2>2. x[2] \in finished
      BY <2>1 DEF WatermarksTypeOK
    <2>3. x \in kept
      BY <1>1, <1>2, <1>3, <2>2
    <2>4. CASE y \in kept
      BY <2>3, <2>4 DEF K!OnlyOverlappingMix
    <2>5. CASE y \in new
      BY <1>1, <1>3, <2>3, <2>5 DEF EarlierSeen
    <2> QED BY <1>1, <2>4, <2>5
  <1> QED BY <1>5, <1>6, <1>7, <1>8, <1>9, <1>10, <1>11

LEMMA WatermarksNext ==
  ASSUME MaxSaves \in Nat, WatermarksInv, [K!Next]_(K!vars)
  PROVE  WatermarksInv'
  <1> USE DEF WatermarksInv
  <1>1. ASSUME NEW r \in Requests, NEW ids \in SUBSET LayerIds, K!BeginReplace(r, ids)
        PROVE  WatermarksInv'
    <2>1. /\ requests[r].at = "idle" /\ saves < MaxSaves /\ saves' = saves + 1
          /\ requests' = [requests EXCEPT ![r] =
               [at |-> "delete", save |-> saves + 1, ids |-> ids, sees |-> {}, deleted |-> {}]]
          /\ UNCHANGED <<layers, wrote, finished, preceding>>
      BY <1>1 DEF K!BeginReplace, K!At
    <2>2. WatermarksTypeOK'
      BY <2>1 DEF WatermarksTypeOK, SaveSteps
    <2>3. RowsOfDone'
      BY <2>1 DEF WatermarksTypeOK, RowsOfDone
    <2>4. SavesInProgress'
      BY <2>1 DEF WatermarksTypeOK, SavesInProgress
    <2>5. DeletesWhole' /\ EarlierSeen'
      BY <2>1 DEF WatermarksTypeOK, DeletesWhole, EarlierSeen
    <2>6. K!SavesAreWhole' /\ K!OnlyOverlappingMix'
      BY <2>1 DEF K!SavesAreWhole, K!OnlyOverlappingMix
    <2> QED BY <2>2, <2>3, <2>4, <2>5, <2>6
  <1>2. ASSUME NEW r \in Requests, K!BeginDelete(r)
        PROVE  WatermarksInv'
    <2>1. /\ requests[r].at = "delete"
          /\ requests' = [requests EXCEPT ![r].at = "deleting", ![r].sees = layers]
          /\ preceding' = [preceding EXCEPT ![requests[r].save] = finished]
          /\ UNCHANGED <<layers, saves, wrote, finished>>
      BY <1>2 DEF K!BeginDelete, K!At
    <2>2. requests[r].save \in 1..MaxSaves /\ requests[r].save \notin finished
      BY <2>1 DEF SavesInProgress, WatermarksTypeOK
    <2>3. WatermarksTypeOK'
      BY <2>1 DEF WatermarksTypeOK, SaveSteps
    <2>4. RowsOfDone' /\ SavesInProgress'
      BY <2>1 DEF WatermarksTypeOK, RowsOfDone, SavesInProgress
    <2>5. DeletesWhole'
      BY <2>1 DEF WatermarksTypeOK, DeletesWhole
    <2>6. EarlierSeen'
      <3> SUFFICES ASSUME NEW q \in Requests, q # r, requests[q].at # "idle"
                   PROVE  preceding'[requests[q].save] = preceding[requests[q].save]
        BY <2>1 DEF WatermarksTypeOK, EarlierSeen
      <3> QED BY <2>1 DEF SavesInProgress, WatermarksTypeOK
    <2>7. K!OnlyOverlappingMix'
      BY <2>1, <2>2 DEF K!OnlyOverlappingMix, RowsOfDone, WatermarksTypeOK
    <2>8. K!SavesAreWhole'
      BY <2>1 DEF K!SavesAreWhole
    <2> QED BY <2>3, <2>4, <2>5, <2>6, <2>7, <2>8
  <1>3. ASSUME NEW r \in Requests, K!DeleteAll(r)
        PROVE  WatermarksInv'
    <2> DEFINE left == requests[r].sees \intersect layers
    <2>1. /\ requests[r].at = "deleting"
          /\ requests' = [requests EXCEPT ![r].at = "insert", ![r].deleted = left]
          /\ UNCHANGED <<layers, saves, wrote, finished, preceding>>
      BY <1>3 DEF K!DeleteAll, K!At
    <2>2. WatermarksTypeOK'
      BY <2>1 DEF WatermarksTypeOK, SaveSteps
    <2>3. RowsOfDone' /\ SavesInProgress'
      BY <2>1 DEF WatermarksTypeOK, RowsOfDone, SavesInProgress
    <2>4. DeletesWhole'
      BY <2>1 DEF WatermarksTypeOK, DeletesWhole
    <2>5. EarlierSeen'
      BY <2>1 DEF WatermarksTypeOK, EarlierSeen
    <2>6. K!SavesAreWhole' /\ K!OnlyOverlappingMix'
      BY <2>1 DEF K!SavesAreWhole, K!OnlyOverlappingMix
    <2> QED BY <2>2, <2>3, <2>4, <2>5, <2>6
  <1>4. ASSUME NEW r \in Requests, K!Rollback(r)
        PROVE  WatermarksInv'
    <2>1. K!Answer(r) /\ UNCHANGED <<layers, saves, wrote, finished, preceding>>
      BY <1>4 DEF K!Rollback
    <2>2. WatermarksTypeOK'
      BY <2>1, WatermarksAnswer DEF WatermarksTypeOK
    <2>3. RowsOfDone' /\ SavesInProgress' /\ DeletesWhole'
      BY <2>1, WatermarksAnswer DEF RowsOfDone, SavesInProgress, DeletesWhole
    <2>4. EarlierSeen'
      BY <2>1, WatermarksAnswer DEF EarlierSeen
    <2>5. K!SavesAreWhole' /\ K!OnlyOverlappingMix'
      BY <2>1 DEF K!SavesAreWhole, K!OnlyOverlappingMix
    <2> QED BY <2>2, <2>3, <2>4, <2>5
  <1>5. CASE UNCHANGED K!vars
    BY <1>5 DEF K!vars, WatermarksTypeOK, RowsOfDone, SavesInProgress, DeletesWhole, EarlierSeen,
           K!SavesAreWhole, K!OnlyOverlappingMix
  <1> QED BY <1>1, <1>2, <1>3, <1>4, <1>5, WatermarksInsert DEF K!Next

LEMMA WatermarksStep ==
  part = "watermarks" /\ [AllNext]_allVars => part' = "watermarks" /\ [K!Next]_(K!vars)
  BY DEF AllNext, allVars, shared, watermarksOwn, K!vars

(* ReplaceAll deletes and inserts in one transaction: however many overlap,  *)
(* no design is left in parts, ...                                         *)
THEOREM WholeSaves == AllSpec => []SavesAreWhole
  <1> DEFINE Kept == part = "watermarks" => WatermarksInv
  <1>1. Kept => SavesAreWhole
    BY DEF WatermarksInv, SavesAreWhole
  <1>2. Kept /\ [AllNext]_allVars => Kept'
    BY WatermarksAssumption, WatermarksStep, WatermarksNext DEF AllNext, allVars
  <1>3. AllInit => Kept
    BY WatermarksAssumption, WatermarksInit DEF AllInit
  <1> QED BY <1>1, <1>2, <1>3, PTL DEF AllSpec

(* ... and designs are mixed only by saves that overlap: neither had          *)
(* committed when the DELETE of the other began.                           *)
THEOREM MixedByOverlap == AllSpec => []OnlyOverlappingMix
  <1> DEFINE Kept == part = "watermarks" => WatermarksInv
  <1>1. Kept => OnlyOverlappingMix
    BY DEF WatermarksInv, OnlyOverlappingMix
  <1>2. Kept /\ [AllNext]_allVars => Kept'
    BY WatermarksAssumption, WatermarksStep, WatermarksNext DEF AllNext, allVars
  <1>3. AllInit => Kept
    BY WatermarksAssumption, WatermarksInit DEF AllInit
  <1> QED BY <1>1, <1>2, <1>3, PTL DEF AllSpec
-----------------------------------------------------------------------------
(* Templates.  The unique index on the scope of active templates is asked of *)
(* every row that is written; turning the others off can only help.          *)

Rows == [scope : Scopes, active : BOOLEAN, version : Nat]

Edits == [at : {"idle", "free", "write"}, id : TemplateIds \union {None}, new : BOOLEAN,
          row : Rows \union {None}, freed : SUBSET TemplateIds]

TemplatesTypeOK ==
  /\ template \in [TemplateIds -> Rows \union {None}]
  /\ requests \in [Requests -> Edits]
  /\ \A r \in Requests : requests[r].at # "idle" => requests[r].row \in Rows /\ requests[r].id \in TemplateIds
  /\ \A r \in Requests : requests[r].freed \subseteq T!There

OneHolder == \A s \in Scopes : \A t, u \in T!ActiveIn(s) : t = u

TemplatesInv == TemplatesTypeOK /\ OneHolder

LEMMA TemplatesInit == T!Init => TemplatesInv
  BY DEF T!Init, T!NoRequest, TemplatesInv, TemplatesTypeOK, Edits, OneHolder, T!ActiveIn, T!There

LEMMA TemplatesNext ==
  ASSUME MaxVersion \in Nat, None \notin Rows, TemplatesInv, [T!Next]_(T!vars)
  PROVE  TemplatesInv'
  <1> USE DEF TemplatesInv
  <1>1. ASSUME template' = template, requests' \in [Requests -> Edits],
               \A r \in Requests : requests'[r].at # "idle" =>
                 requests'[r].row \in Rows /\ requests'[r].id \in TemplateIds,
               \A r \in Requests : requests'[r].freed \subseteq T!There
        PROVE  TemplatesInv'
    BY <1>1 DEF TemplatesTypeOK, OneHolder, T!ActiveIn, T!There
  <1>2. T!NoRequest \in Edits /\ T!NoRequest.at = "idle" /\ T!NoRequest.freed = {}
    BY DEF T!NoRequest, Edits
  <1>3. ASSUME NEW r \in Requests, NEW t \in TemplateIds, NEW s \in Scopes, NEW a \in BOOLEAN,
               T!Create(r, t, s, a)
        PROVE  TemplatesInv'
    BY <1>1, <1>3 DEF T!Create, T!Row, Rows, Edits, TemplatesTypeOK
  <1>4. ASSUME NEW r \in Requests, NEW t \in TemplateIds, NEW s \in Scopes, NEW a \in BOOLEAN,
               NEW redesign \in BOOLEAN, T!Update(r, t, s, a, redesign)
        PROVE  TemplatesInv'
    <2> DEFINE n == template[t].version + (IF redesign THEN 1 ELSE 0)
               edit == [at |-> "free", id |-> t, new |-> FALSE, freed |-> {}, row |-> T!Row(s, a, n)]
    <2>1. n \in Nat
      BY <1>4 DEF T!Update, T!There, TemplatesTypeOK, Rows
    <2>2. requests' = [requests EXCEPT ![r] = edit] /\ template' = template
      BY <1>4 DEF T!Update
    <2> HIDE DEF n
    <2>3. edit \in Edits /\ edit.row \in Rows /\ edit.id \in TemplateIds /\ edit.freed = {}
      BY <2>1 DEF T!Row, Rows, Edits
    <2> HIDE DEF edit
    <2> QED BY <1>1, <2>2, <2>3 DEF TemplatesTypeOK
  <1>5. ASSUME NEW r \in Requests, T!Deactivate(r)
        PROVE  TemplatesInv'
    <2> DEFINE holders ==
          IF requests[r].row.active THEN T!ActiveIn(requests[r].row.scope) \ {requests[r].id} ELSE {}
    <2>1. /\ requests[r].at = "free" /\ template' = template
          /\ requests' = [requests EXCEPT ![r].at = "write", ![r].freed = holders]
      BY <1>5 DEF T!Deactivate, T!At
    <2>2. holders \in SUBSET TemplateIds /\ holders \subseteq T!There
      BY DEF T!ActiveIn, T!There
    <2> HIDE DEF holders
    <2> QED BY <1>1, <2>1, <2>2 DEF TemplatesTypeOK, Edits
  <1>6. ASSUME NEW r \in Requests, T!Write(r)
        PROVE  TemplatesInv'
    <2> DEFINE t == requests[r].id
               row == requests[r].row
    <2>1. /\ requests[r].at = "write" /\ ~T!scopeTaken(r)
          /\ template' = [q \in TemplateIds |->
               IF q = t THEN row
               ELSE IF q \in requests[r].freed THEN [template[q] EXCEPT !.active = FALSE]
               ELSE template[q]]
          /\ requests' = [requests EXCEPT ![r] = T!NoRequest]
      BY <1>6 DEF T!Write, T!At, T!Answer
    <2>2. row \in Rows /\ t \in TemplateIds
      BY <2>1 DEF TemplatesTypeOK
    <2>3. T!There' = T!There \union {t}
      BY <2>1, <2>2 DEF T!There, TemplatesTypeOK, Rows
    <2>4. TemplatesTypeOK'
      BY <1>2, <2>1, <2>2, <2>3 DEF TemplatesTypeOK, T!There, Rows
    <2>5. ASSUME NEW s \in Scopes, NEW u \in T!ActiveIn(s)', u # t
          PROVE  u \in T!ActiveIn(s) /\ u \notin requests[r].freed
      BY <2>1, <2>5 DEF T!ActiveIn, T!There, TemplatesTypeOK, Rows
    <2>6. ASSUME NEW s \in Scopes, t \in T!ActiveIn(s)'
          PROVE  row.active /\ row.scope = s
      BY <2>1, <2>2, <2>6 DEF T!ActiveIn, T!There
    <2>7. \A u \in T!ActiveIn(row.scope) : row.active => u \in {t} \union requests[r].freed
      BY <2>1 DEF T!scopeTaken
    <2>8. OneHolder'
      BY <2>5, <2>6, <2>7 DEF OneHolder
    <2> QED BY <2>4, <2>8
  <1>7. ASSUME NEW r \in Requests, T!Rollback(r)
        PROVE  TemplatesInv'
    BY <1>1, <1>2, <1>7 DEF T!Rollback, T!Answer, TemplatesTypeOK
  <1>8. ASSUME NEW t \in TemplateIds, T!Delete(t)
        PROVE  TemplatesInv'
    BY <1>8 DEF T!Delete, TemplatesTypeOK, OneHolder, T!ActiveIn, T!There
  <1>9. CASE UNCHANGED T!vars
    BY <1>9 DEF T!vars, TemplatesTypeOK, OneHolder, T!ActiveIn, T!There
  <1> QED BY <1>3, <1>4, <1>5, <1>6, <1>7, <1>8, <1>9 DEF T!Next

LEMMA TemplatesStep ==
  part = "templates" /\ [AllNext]_allVars => part' = "templates" /\ [T!Next]_(T!vars)
  BY DEF AllNext, allVars, shared, T!vars

(* However many edits overlap, each blind to what the others have yet to    *)
(* commit, no scope has two active templates.                              *)
THEOREM OneActiveTemplate == AllSpec => []OneActivePerScope
  <1> DEFINE Kept == part = "templates" => TemplatesInv
  <1>1. Kept => OneActivePerScope
    <2> SUFFICES ASSUME TemplatesInv, NEW s \in Scopes PROVE Cardinality(T!ActiveIn(s)) <= 1
      BY TheCardinality DEF OneActivePerScope, T!OneActivePerScope
    <2>1. CASE T!ActiveIn(s) = {}
      BY <2>1, FS_EmptySet
    <2>2. CASE T!ActiveIn(s) # {}
      <3>1. PICK t : T!ActiveIn(s) = {t}
        BY <2>2 DEF TemplatesInv, OneHolder
      <3>2. Cardinality({t}) = 1
        BY FS_Singleton
      <3> QED BY <3>1, <3>2
    <2> QED BY <2>1, <2>2
  <1>2. Kept /\ [AllNext]_allVars => Kept'
    BY TemplatesAssumption, TemplatesStep, TemplatesNext DEF AllNext, allVars, Rows
  <1>3. AllInit => Kept
    BY TemplatesAssumption, TemplatesInit DEF AllInit
  <1> QED BY <1>1, <1>2, <1>3, PTL DEF AllSpec
-----------------------------------------------------------------------------
(* Listing.  Rows are ordered by the positions cursors hold, and a finite set *)
(* has a first and a last.  What was returned does not follow the cursor and  *)
(* so is not asked for again; what has been there throughout and was not      *)
(* returned follows it and is still to come.                                *)

Placed(x) == x.at \in Nat /\ x.id \in Nat

(* In an order of pages the rows of its list do not tie. *)
NoTies(S) == \A x, y \in S : L!Follows(list, x, y) \/ L!Follows(list, y, x) \/ x = y

LEMMA Order ==
  ASSUME NEW x, NEW y, NEW z, Placed(x), Placed(y), Placed(z)
  PROVE  /\ ~L!Follows(list, x, x)
         /\ L!Follows(list, x, y) => ~L!Follows(list, y, x)
         /\ L!Follows(list, x, y) /\ L!Follows(list, y, z) => L!Follows(list, x, z)
  <1>1. CASE list.name = "participants"
    BY <1>1 DEF Placed, L!Follows, L!ByName
  <1>2. CASE list.name = "teams"
    BY <1>2 DEF Placed, L!Follows, L!ByName
  <1>3. CASE list.name \notin L!ByName
    BY <1>3 DEF Placed, L!Follows, L!ByName
  <1> QED BY <1>1, <1>2, <1>3 DEF L!ByName

(* One that no other comes before, in an order. *)
LEMMA First ==
  ASSUME NEW S, IsFiniteSet(S), S # {}, NEW earlier,
         \A x, y, z \in S : <<x, y>> \in earlier /\ <<y, z>> \in earlier => <<x, z>> \in earlier,
         \A x \in S : <<x, x>> \notin earlier
  PROVE  \E x \in S : \A y \in S : <<y, x>> \notin earlier
  <1> DEFINE lower(x) == {y \in S : <<y, x>> \in earlier}
             sizes == {Cardinality(lower(x)) : x \in S}
  <1>1. \A x \in S : lower(x) \subseteq S /\ IsFiniteSet(lower(x)) /\ Cardinality(lower(x)) \in Nat
    BY FS_Subset, FS_CardinalityType
  <1>2. sizes \in SUBSET Nat /\ sizes # {}
    <2> HIDE DEF lower
    <2> QED BY <1>1
  <1>3. PICK m \in sizes : \A i \in sizes : m <= i
    <2> HIDE DEF sizes
    <2> QED BY <1>2, LeastOne
  <1>4. PICK x \in S : Cardinality(lower(x)) = m
    BY <1>3
  <1>5. ASSUME NEW y \in S, <<y, x>> \in earlier PROVE FALSE
    <2>1. lower(y) \subseteq lower(x) /\ y \in lower(x) /\ y \notin lower(y)
      BY <1>5
    <2> HIDE DEF lower
    <2>2. lower(y) # lower(x)
      BY <2>1
    <2>3. Cardinality(lower(y)) < Cardinality(lower(x))
      BY <1>1, <2>1, <2>2, FS_Subset, FS_CardinalityType
    <2>4. Cardinality(lower(y)) \in sizes
      OBVIOUS
    <2> HIDE DEF sizes
    <2> QED BY <1>1, <1>2, <1>3, <1>4, <2>3, <2>4
  <1> QED BY <1>5

LEMMA LastThere ==
  ASSUME NEW S, IsFiniteSet(S), S # {}, \A x \in S : Placed(x)
  PROVE  L!LastRow(list, S) \in S /\ \A y \in S : ~L!Follows(list, y, L!LastRow(list, S))
  <1> DEFINE earlier == {p \in S \X S : L!Follows(list, p[1], p[2])}
  <1>1. \A x, y \in S : <<x, y>> \in earlier <=> L!Follows(list, x, y)
    OBVIOUS
  <1>2. /\ \A x, y, z \in S : <<x, y>> \in earlier /\ <<y, z>> \in earlier => <<x, z>> \in earlier
        /\ \A x \in S : <<x, x>> \notin earlier
    BY <1>1, Order
  <1> HIDE DEF earlier
  <1>3. \E x \in S : \A y \in S : <<y, x>> \notin earlier
    BY <1>2, First
  <1>4. \E x \in S : \A y \in S : ~L!Follows(list, y, x)
    BY <1>1, <1>3
  <1> QED BY <1>4 DEF L!LastRow

LEMMA FirstThere ==
  ASSUME NEW S, IsFiniteSet(S), S # {}, \A x \in S : Placed(x)
  PROVE  \E x \in S : \A y \in S : ~L!Follows(list, x, y)
  <1> DEFINE earlier == {p \in S \X S : L!Follows(list, p[2], p[1])}
  <1>1. \A x, y \in S : <<x, y>> \in earlier <=> L!Follows(list, y, x)
    OBVIOUS
  <1>2. /\ \A x, y, z \in S : <<x, y>> \in earlier /\ <<y, z>> \in earlier => <<x, z>> \in earlier
        /\ \A x \in S : <<x, x>> \notin earlier
    BY <1>1, Order
  <1> HIDE DEF earlier
  <1>3. \E x \in S : \A y \in S : <<y, x>> \notin earlier
    BY <1>2, First
  <1> QED BY <1>1, <1>3

(* A page: it has rows, whatever is left out follows any of them, and        *)
(* nothing is left out when there was room.                                 *)
LEMMA Page ==
  ASSUME NEW S, IsFiniteSet(S), \A x \in S : Placed(x), NoTies(S), NEW n \in Nat \ {0}
  PROVE  /\ L!FirstRows(list, S, n) \subseteq S
         /\ S # {} => L!FirstRows(list, S, n) # {}
         /\ \A x \in S \ L!FirstRows(list, S, n), y \in L!FirstRows(list, S, n) : L!Follows(list, x, y)
         /\ Cardinality(S) <= n => L!FirstRows(list, S, n) = S
  <1> DEFINE newer(x) == {y \in S : L!Follows(list, x, y)}
             page == L!FirstRows(list, S, n)
  <1>1. page = {x \in S : Cardinality(newer(x)) < n}
    BY ListCardinality DEF L!FirstRows
  <1> HIDE DEF page
  <1>2. \A x \in S : newer(x) \subseteq S /\ IsFiniteSet(newer(x)) /\ Cardinality(newer(x)) \in Nat
    BY FS_Subset, FS_CardinalityType
  <1>3. S # {} => page # {}
    <2> SUFFICES ASSUME S # {} PROVE page # {}
      OBVIOUS
    <2>1. PICK x \in S : \A y \in S : ~L!Follows(list, x, y)
      BY FirstThere
    <2>2. newer(x) = {}
      BY <2>1
    <2>3. Cardinality(newer(x)) = 0
      BY <2>2, FS_EmptySet
    <2> QED BY <1>1, <2>3
  <1>4. ASSUME NEW x \in S \ page, NEW y \in page PROVE L!Follows(list, x, y)
    <2>1. y \in S /\ x # y
      BY <1>1, <1>4
    <2>2. ASSUME L!Follows(list, y, x) PROVE FALSE
      <3>1. newer(x) \subseteq newer(y)
        BY <2>1, <2>2, Order
      <3> HIDE DEF newer
      <3>2. Cardinality(newer(x)) <= Cardinality(newer(y))
        BY <1>2, <2>1, <3>1, FS_Subset
      <3> QED BY <1>1, <1>2, <1>4, <2>1, <3>2
    <2> QED BY <2>1, <2>2 DEF NoTies
  <1>5. ASSUME Cardinality(S) <= n PROVE page = S
    <2>1. ASSUME NEW x \in S PROVE Cardinality(newer(x)) < n
      <3>1. x \notin newer(x) /\ newer(x) \subseteq S
        BY Order
      <3> HIDE DEF newer
      <3>2. Cardinality(newer(x)) < Cardinality(S)
        BY <3>1, FS_Subset, FS_CardinalityType
      <3> QED BY <1>2, <1>5, <3>2, FS_CardinalityType
    <2> QED BY <1>1, <2>1
  <1> QED BY <1>1, <1>3, <1>4, <1>5 DEF page

ListingTypeOK ==
  /\ table \subseteq L!Rows /\ IsFiniteSet(table)
  /\ \A x, y \in table : x.id = y.id => x = y
  /\ list.name = "participants" =>
       \A x, y \in table : x.event = y.event /\ x.at = y.at => x = y
  /\ Placed(cursor)
  /\ seen \in [RowIds -> Nat]
  /\ list \in L!Queries

ReturnedOnce ==
  /\ \A i \in RowIds \ moved : seen[i] <= 1
  /\ \A x \in table : x.id \notin moved /\ seen[x.id] # 0 => ~L!ToCome(list, cursor, x)

RestToCome ==
  /\ steady \subseteq L!ListedIds(list)
  /\ \A x \in table :
       x.id \in steady \ moved /\ seen[x.id] = 0 => L!ToCome(list, cursor, x)

AtStart == cursor = L!Start => steady = {} /\ \A i \in RowIds : seen[i] = 0

ListingInv == ListingTypeOK /\ ReturnedOnce /\ RestToCome /\ AtStart

LEMMA RowsPlaced == \A x \in L!Rows : Placed(x) /\ x.id \in RowIds
  <1> SUFFICES ASSUME NEW x \in L!Rows PROVE Placed(x) /\ x.id \in RowIds
    OBVIOUS
  <1>1. x.id \in RowIds /\ x.at \in 0..ListTime \union Names
    BY DEF L!Rows
  <1>2. x.id \in Nat
    BY <1>1, ListingAssumption
  <1>3. x.at \in Nat
    <2>1. CASE x.at \in 0..ListTime
      BY <2>1, ListingAssumption
    <2>2. CASE x.at \in Names
      BY <2>2, ListingAssumption
    <2> QED BY <1>1, <2>1, <2>2
  <1> QED BY <1>1, <1>2, <1>3 DEF Placed

LEMMA ListedRows == \A q \in L!Queries : L!Listed(q) \subseteq table
  BY DEF L!Queries, L!Lists, L!Listed, L!ListActiveMembersWithUser, L!ListInvitations, L!ListClients,
         L!ListObjects, L!ListEvents, L!ListAssignments, L!ListEventInvitations, L!ListJobs,
         L!ListPhotos, L!ListParticipants, L!ListTeams, L!Of, L!OfEvent, L!Filtered

LEMMA ListedSame ==
  ASSUME UNCHANGED <<table, list>> PROVE L!ListedIds(list)' = L!ListedIds(list)
  BY DEF L!ListedIds, L!Listed, L!ListActiveMembersWithUser, L!ListInvitations,
         L!ListClients, L!ListObjects, L!ListEvents, L!ListAssignments, L!ListEventInvitations,
         L!ListJobs, L!ListPhotos, L!ListParticipants, L!ListTeams, L!Of, L!OfEvent, L!Filtered

LEMMA ListedDoNotTie == ListingTypeOK => NoTies(L!Listed(list))
  <1> SUFFICES ASSUME ListingTypeOK, NEW x \in L!Listed(list), NEW y \in L!Listed(list), x # y
               PROVE  L!Follows(list, x, y) \/ L!Follows(list, y, x)
    BY DEF NoTies
  <1>1. /\ x \in table /\ y \in table /\ Placed(x) /\ Placed(y) /\ x.id # y.id
    BY ListedRows, RowsPlaced DEF ListingTypeOK
  <1>2. CASE list.name = "participants"
    <2>1. x.event = y.event
      BY <1>2 DEF L!Listed, L!ListParticipants, L!Filtered, L!OfEvent
    <2>2. x.at # y.at
      BY <1>1, <1>2, <2>1 DEF ListingTypeOK
    <2> QED BY <1>1, <1>2, <2>2 DEF L!Follows, L!ByName, Placed
  <1>3. CASE list.name = "teams"
    BY <1>1, <1>3 DEF L!Follows, L!ByName, Placed
  <1>4. CASE list.name \notin L!ByName
    BY <1>1, <1>4 DEF L!Follows, L!ByName, Placed
  <1> QED BY <1>2, <1>3, <1>4 DEF L!ByName

LEMMA ListingInit == L!Init => ListingInv
  <1> SUFFICES ASSUME L!Init PROVE ListingInv
    OBVIOUS
  <1>1. ListingTypeOK
    BY ListingAssumption, FS_EmptySet DEF L!Init, L!Start, ListingTypeOK, Placed
  <1>2. ReturnedOnce /\ RestToCome /\ AtStart
    BY DEF L!Init, ReturnedOnce, RestToCome, AtStart
  <1> QED BY <1>1, <1>2 DEF ListingInv

(* Rows that come have not been returned, and rows that stay keep their place *)
(* or are known to have moved.                                             *)
LEMMA ListingChanges ==
  ASSUME ListingInv, NEW t \in SUBSET L!Rows, IsFiniteSet(t), \A x, y \in t : x.id = y.id => x = y,
         list.name = "participants" =>
           \A x, y \in t : x.event = y.event /\ x.at = y.at => x = y,
         \A x \in t : \/ seen[x.id] = 0 /\ \A y \in table : y.id # x.id
                     \/ \E y \in table : y.id = x.id /\ (y.at = x.at \/ x.id \in moved'),
         L!Changed(t), moved \subseteq moved'
  PROVE  ListingInv'
  <1> USE DEF ListingInv
  <1>1. /\ table' = t /\ UNCHANGED <<list, cursor, seen>>
        /\ steady' = steady \intersect L!ListedIds(list)'
    BY DEF L!Changed
  <1>2. ListingTypeOK'
    BY <1>1 DEF ListingTypeOK
  <1>3. ASSUME NEW x \in t, NEW y \in table, y.id = x.id, y.at = x.at
        PROVE  L!ToCome(list, cursor, x) <=> L!ToCome(list, cursor, y)
    BY <1>3 DEF L!Follows, L!ToCome
  <1>4. ReturnedOnce'
    <2>1. \A i \in RowIds \ moved' : seen'[i] <= 1
      BY <1>1 DEF ReturnedOnce
    <2>2. ASSUME NEW x \in t, x.id \notin moved', seen[x.id] # 0 PROVE ~L!ToCome(list, cursor, x)
      <3>1. PICK y \in table : y.id = x.id /\ y.at = x.at
        BY <2>2
      <3> QED BY <1>3, <2>2, <3>1 DEF ReturnedOnce
    <2>3. \A x : L!ToCome(list, cursor, x)' <=> L!ToCome(list, cursor, x)
      BY <1>1
    <2> QED BY <1>1, <2>1, <2>2 DEF ReturnedOnce
  <1>5. RestToCome'
    <2>1. ASSUME NEW x \in t, x.id \in steady \ moved', seen[x.id] = 0
          PROVE  L!ToCome(list, cursor, x)
      <3>1. PICK y \in table : y.id = x.id
        BY <2>1, ListedRows DEF ListingTypeOK, RestToCome, L!ListedIds
      <3>2. y.at = x.at
        BY <2>1, <3>1 DEF ListingTypeOK
      <3> QED BY <1>3, <2>1, <3>1, <3>2 DEF RestToCome
    <2> QED BY <1>1, <2>1 DEF RestToCome
  <1>6. AtStart'
    BY <1>1 DEF AtStart
  <1> QED BY <1>2, <1>4, <1>5, <1>6

LEMMA ListingPages ==
  ASSUME ListingInv, NEW limit \in Nat, L!NextPage(limit)
  PROVE  ListingInv'
  <1> USE DEF ListingInv
  <1> DEFINE rest == L!After(L!Listed(list))
             n == L!NormalizeLimit(limit)
             page == L!FirstRows(list, rest, n)
             last == L!LastRow(list, page)
  <1>1. /\ cursor # L!End
        /\ cursor' = IF L!Cardinality(rest) > n THEN L!EncodeCursor(last) ELSE L!End
        /\ seen' = [i \in RowIds |-> IF i \in {x.id : x \in page} THEN seen[i] + 1 ELSE seen[i]]
        /\ steady' = IF cursor = L!Start THEN L!ListedIds(list) ELSE steady
        /\ moved' = IF cursor = L!Start THEN {} ELSE moved
        /\ UNCHANGED <<table, list>>
    BY DEF L!NextPage
  <1>2. n \in Nat \ {0}
    BY ListingAssumption DEF L!NormalizeLimit
  <1>3. /\ rest \subseteq table /\ L!Listed(list) \subseteq table /\ rest \subseteq L!Listed(list)
        /\ \A x \in L!Listed(list) : x \in rest <=> L!ToCome(list, cursor, x)
        /\ \A x \in rest : L!ToCome(list, cursor, x)
    BY ListedRows DEF ListingTypeOK, L!After
  <1> HIDE DEF rest, n
  <1>4. /\ IsFiniteSet(rest) /\ \A x \in table : Placed(x) /\ x.id \in RowIds
        /\ \A x, y \in table : x.id = y.id => x = y
        /\ NoTies(rest)
    BY <1>3, FS_Subset, RowsPlaced, ListedDoNotTie DEF ListingTypeOK, NoTies
  <1>5. /\ page \subseteq rest
        /\ rest # {} => page # {}
        /\ \A x \in rest \ page, y \in page : L!Follows(list, x, y)
        /\ Cardinality(rest) <= n => page = rest
    BY <1>2, <1>3, <1>4, Page
  <1> HIDE DEF page
  <1>15. page \subseteq table
    BY <1>3, <1>5
  <1>6. \A x \in table : x.id \in {y.id : y \in page} <=> x \in page
    <2> SUFFICES ASSUME NEW x \in table, x.id \in {y.id : y \in page} PROVE x \in page
      OBVIOUS
    <2>1. PICK y \in page : x.id = y.id
      OBVIOUS
    <2> QED BY <1>4, <1>15, <2>1
  <1>7. /\ seen' \in [RowIds -> Nat]
        /\ \A x \in table : seen'[x.id] = IF x \in page THEN seen[x.id] + 1 ELSE seen[x.id]
    BY <1>1, <1>4, <1>6 DEF ListingTypeOK
  <1>16. ASSUME NEW i \in RowIds \ moved', seen[i] # 0 PROVE i \notin moved
    BY <1>1, <1>16 DEF AtStart
  <1>8. \A i \in RowIds \ moved' : seen'[i] <= 1
    <2> SUFFICES ASSUME NEW i \in RowIds \ moved' PROVE seen'[i] <= 1
      OBVIOUS
    <2>1. CASE i \in {x.id : x \in page}
      <3>1. PICK x \in page : x.id = i
        BY <2>1
      <3>2. x \in table /\ L!ToCome(list, cursor, x)
        BY <1>3, <1>5, <1>15
      <3>3. seen[i] = 0
        BY <1>16, <3>1, <3>2 DEF ReturnedOnce
      <3> QED BY <1>1, <3>3
    <2>2. CASE i \notin {x.id : x \in page}
      <3>1. seen'[i] = seen[i]
        BY <1>1, <2>2
      <3>2. seen[i] = 0 \/ seen[i] <= 1
        BY <1>16 DEF ReturnedOnce
      <3> QED BY <3>1, <3>2
    <2> QED BY <2>1, <2>2
  <1>9. Cardinality(rest) \in Nat
    BY <1>4, FS_CardinalityType
  <1>10. /\ Placed(cursor') /\ cursor' # L!Start
         /\ \A x \in table : x \in page => ~L!ToCome(list, cursor', x)
         /\ \A x \in table : ~L!ToCome(list, cursor, x) => ~L!ToCome(list, cursor', x)
         /\ \A x \in rest \ page : L!ToCome(list, cursor', x)
    <2>1. CASE Cardinality(rest) > n
      <3>1. rest # {} /\ page # {} /\ IsFiniteSet(page)
        <4>1. rest # {}
          BY <1>2, <2>1, FS_EmptySet
        <4>2. IsFiniteSet(page)
          BY <1>4, <1>5, FS_Subset
        <4> QED BY <1>5, <4>1, <4>2
      <3>2. last \in page /\ \A y \in page : ~L!Follows(list, y, last)
        <4>1. \A x \in page : Placed(x)
          BY <1>4, <1>15
        <4> QED BY <3>1, <4>1, LastThere
      <3>3. cursor' = [at |-> last.at, id |-> last.id]
        BY <1>1, <2>1, ListCardinality DEF L!EncodeCursor
      <3>4. last \in table /\ Placed(last) /\ last.id # 0 /\ L!ToCome(list, cursor, last)
        <4>1. last \in table /\ last \in rest
          BY <1>5, <1>15, <3>2
        <4> HIDE DEF last
        <4>2. last.id \in RowIds
          BY <1>4, <4>1
        <4> QED BY <1>3, <1>4, <4>1, <4>2, ListingAssumption
      <3> HIDE DEF last
      <3>5. cursor'.at = last.at /\ cursor'.id = last.id
        BY <3>3
      <3>6. cursor' # L!Start /\ cursor' # L!End
        BY <3>4, <3>5 DEF L!Start, L!End
      <3>7. \A x : L!ToCome(list, cursor', x) <=> L!Follows(list, x, last)
        BY <3>5, <3>6 DEF L!ToCome, L!Follows
      <3>8. Placed(cursor')
        BY <3>4, <3>5 DEF Placed
      <3>9. ASSUME NEW x \in table, ~L!ToCome(list, cursor, x) PROVE ~L!Follows(list, x, last)
        <4>1. Placed(x) /\ Placed(cursor)
          BY <1>4 DEF ListingTypeOK
        <4>2. ~L!Follows(list, x, cursor) /\ L!Follows(list, last, cursor)
          BY <1>1, <3>4, <3>9 DEF L!ToCome
        <4> QED BY <3>4, <4>1, <4>2, Order
      <3> QED BY <1>5, <3>2, <3>6, <3>7, <3>8, <3>9
    <2>2. CASE ~(Cardinality(rest) > n)
      <3>1. cursor' = L!End /\ page = rest
        BY <1>1, <1>2, <1>5, <1>9, <2>2, ListCardinality
      <3>2. Placed(L!End) /\ L!End # L!Start /\ \A x : ~L!ToCome(list, L!End, x)
        BY DEF Placed, L!End, L!Start, L!ToCome
      <3> QED BY <3>1, <3>2
    <2> QED BY <2>1, <2>2
  <1>11. ListingTypeOK'
    BY <1>1, <1>7, <1>10 DEF ListingTypeOK
  <1>12. ReturnedOnce'
    <2>1. ASSUME NEW x \in table, x.id \notin moved', seen'[x.id] # 0
          PROVE  ~L!ToCome(list, cursor', x)
      <3>1. CASE x \in page
        BY <1>10, <3>1
      <3>2. CASE x \notin page
        <4>1. seen[x.id] # 0 /\ x.id \in RowIds
          BY <1>4, <1>7, <2>1, <3>2
        <4>2. x.id \notin moved
          BY <1>16, <2>1, <4>1
        <4> QED BY <1>10, <4>1, <4>2 DEF ReturnedOnce
      <3> QED BY <3>1, <3>2
    <2> QED BY <1>1, <1>8, <2>1 DEF ReturnedOnce
  <1>13. RestToCome'
    <2>1. steady' \subseteq L!ListedIds(list) /\ L!ListedIds(list)' = L!ListedIds(list)
      BY <1>1, ListedSame DEF RestToCome
    <2>2. ASSUME NEW x \in table, x.id \in steady' \ moved', seen'[x.id] = 0
          PROVE  L!ToCome(list, cursor', x)
      <3>1. x \in L!Listed(list)
        BY <1>3, <1>4, <2>1, <2>2 DEF L!ListedIds
      <3>2. x \notin page /\ seen[x.id] = 0
        BY <1>4, <1>7, <2>2 DEF ListingTypeOK
      <3>3. L!ToCome(list, cursor, x)
        <4>1. CASE cursor = L!Start
          BY <1>1, <4>1 DEF L!ToCome
        <4>2. CASE cursor # L!Start
          BY <1>1, <2>2, <3>2, <4>2 DEF RestToCome
        <4> QED BY <4>1, <4>2
      <3> QED BY <1>3, <1>10, <3>1, <3>2, <3>3
    <2> QED BY <1>1, <2>1, <2>2 DEF RestToCome
  <1>14. AtStart'
    BY <1>10 DEF AtStart
  <1> QED BY <1>11, <1>12, <1>13, <1>14

LEMMA ListingNext == ListingInv /\ [L!Next]_(L!vars) => ListingInv'
  <1> SUFFICES ASSUME ListingInv, [L!Next]_(L!vars) PROVE ListingInv'
    OBVIOUS
  <1>0. /\ table \subseteq L!Rows /\ IsFiniteSet(table) /\ \A x, y \in table : x.id = y.id => x = y
        /\ list.name = "participants" =>
             \A x, y \in table : x.event = y.event /\ x.at = y.at => x = y
    BY DEF ListingInv, ListingTypeOK
  <1>1. ASSUME NEW limit \in 0..(MaxPageLimit + 1), L!NextPage(limit) PROVE ListingInv'
    BY <1>1, ListingPages, ListingAssumption
  <1>2. ASSUME NEW x \in L!Rows, L!Insert(x) PROVE ListingInv'
    <2>1. /\ L!Changed(table \union {x}) /\ seen[x.id] = 0 /\ moved' = moved
          /\ \A y \in table : y.id # x.id
          /\ list.name = "participants" => \A y \in table : y.event = x.event => y.at # x.at
      BY <1>2 DEF L!Insert, L!NameFree, L!ByName
    <2>2. IsFiniteSet(table \union {x})
      BY <1>0, FS_AddElement
    <2> QED BY <1>0, <2>1, <2>2, ListingChanges
  <1>3. ASSUME NEW x \in table, L!Delete(x) PROVE ListingInv'
    <2>1. IsFiniteSet(table \ {x})
      BY <1>0, FS_RemoveElement
    <2> QED BY <1>0, <1>3, <2>1, ListingChanges DEF L!Delete
  <1>4. ASSUME NEW x \in table, NEW y \in L!Rows, y.id = x.id,
               list.name = "participants" =>
                 \A z \in table : z.id # y.id /\ z.event = y.event => z.at # y.at,
               y.at = x.at \/ x.id \in moved',
               L!Changed((table \ {x}) \union {y}), moved \subseteq moved'
        PROVE  ListingInv'
    <2> DEFINE t == (table \ {x}) \union {y}
    <2>1. IsFiniteSet(t)
      BY <1>0, FS_RemoveElement, FS_AddElement
    <2>2. t \in SUBSET L!Rows /\ \A u, v \in t : u.id = v.id => u = v
      BY <1>0, <1>4
    <2>3. ASSUME list.name = "participants", NEW u \in t, NEW v \in t,
                 u.event = v.event, u.at = v.at
          PROVE  u = v
      <3>1. CASE u \in table \ {x} /\ v \in table \ {x}
        BY <1>0, <2>3, <3>1
      <3>2. CASE u = y \/ v = y
        BY <1>0, <1>4, <2>3, <3>2
      <3> QED BY <3>1, <3>2
    <2>4. \A u \in t : \E v \in table : v.id = u.id /\ (v.at = u.at \/ u.id \in moved')
      BY <1>4
    <2>5. L!Changed(t)
      BY <1>4
    <2> HIDE DEF t
    <2> QED BY <1>4, <2>1, <2>2, <2>3, <2>4, <2>5, ListingChanges
  <1>5. ASSUME NEW x \in table, NEW status \in Statuses, L!Update(x, status) PROVE ListingInv'
    <2> DEFINE y == [x EXCEPT !.status = status]
    <2>1. y \in L!Rows /\ y.id = x.id /\ y.at = x.at /\ y.event = x.event
      BY <1>0 DEF L!Rows
    <2>2. L!Changed((table \ {x}) \union {y}) /\ moved' = moved
      BY <1>5 DEF L!Update
    <2> HIDE DEF y
    <2> QED BY <1>0, <1>4, <2>1, <2>2
  <1>6. ASSUME NEW x \in table, NEW name \in Names, L!Rename(x, name) PROVE ListingInv'
    <2> DEFINE y == [x EXCEPT !.at = name]
    <2>1. y \in L!Rows /\ y.id = x.id /\ y.event = x.event
      BY <1>0 DEF L!Rows
    <2>2. /\ L!Changed((table \ {x}) \union {y}) /\ moved' = moved \union {x.id}
          /\ L!NameFree(y)
      BY <1>6 DEF L!Rename
    <2> HIDE DEF y
    <2> QED BY <1>0, <1>4, <2>1, <2>2 DEF L!NameFree
  <1>7. ASSUME UNCHANGED <<table, list, cursor, seen, steady, moved>> PROVE ListingInv'
    <2>1. ListingTypeOK' /\ ReturnedOnce' /\ AtStart'
      BY <1>7 DEF ListingInv, ListingTypeOK, ReturnedOnce, AtStart
    <2>2. L!ListedIds(list)' = L!ListedIds(list)
      BY <1>7, ListedSame
    <2> QED BY <1>7, <2>1, <2>2 DEF ListingInv, RestToCome
  <1> QED
    BY <1>1, <1>2, <1>3, <1>5, <1>6, <1>7 DEF L!Next, L!Tick, L!vars

LEMMA ListingStep ==
  part = "list" /\ [AllNext]_allVars => part' = "list" /\ [L!Next]_(L!vars)
  BY DEF AllNext, allVars, shared, listOwn, L!vars

(* DecodeCursor and the "after the cursor" conditions of every list that     *)
(* takes PageParams: a walk returns no row twice and, in the end, each that  *)
(* was on the list all the time, whatever page sizes it asks for and         *)
(* whatever changes meanwhile, but for rows whose BIB or name is edited      *)
(* during the walk.                                                        *)
THEOREM WholeWalk == AllSpec => []WalkIsWhole
  <1> DEFINE Kept == part = "list" => ListingInv
  <1>1. Kept => WalkIsWhole
    <2> SUFFICES ASSUME ListingInv PROVE L!WalkIsWhole
      BY DEF WalkIsWhole
    <2>1. ASSUME cursor = L!End, NEW i \in steady \ moved PROVE seen[i] = 1
      <3>1. PICK x \in table : x.id = i
        BY ListedRows DEF ListingInv, ListingTypeOK, RestToCome, L!ListedIds
      <3>2. i \in RowIds /\ ~L!ToCome(list, cursor, x)
        BY <2>1, <3>1, RowsPlaced DEF ListingInv, ListingTypeOK, L!ToCome
      <3>3. seen[i] # 0
        BY <3>1, <3>2 DEF ListingInv, RestToCome
      <3> QED BY <3>2, <3>3 DEF ListingInv, ListingTypeOK, ReturnedOnce
    <2> QED BY <2>1 DEF L!WalkIsWhole, ListingInv, ReturnedOnce
  <1>2. Kept /\ [AllNext]_allVars => Kept'
    BY ListingStep, ListingNext DEF AllNext, allVars
  <1>3. AllInit => Kept
    BY ListingInit DEF AllInit
  <1> QED BY <1>1, <1>2, <1>3, PTL DEF AllSpec
=============================================================================
