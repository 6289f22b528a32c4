----------------------------- MODULE EventCrew -----------------------------
(***************************************************************************)
(* Who may work on one event without belonging to its workspace: the       *)
(* assignment half of event.Service, and the gate RequireEventAccess.      *)
(*                                                                         *)
(* Staff assign an e-mail address.  An address with an account gets a row  *)
(* of event_assignments, at most one per person; another gets an           *)
(* invitation, which becomes that row once its addressee has registered    *)
(* and accepts it.  As in Membership, every request reads first and writes *)
(* later, at READ COMMITTED: AssignToEvent looks the account up and        *)
(* AcceptEventInvitation the invitation before their transaction opens,    *)
(* UpdateAssignment merges the patch into a row it has not locked.         *)
(* An event is never deleted.                                              *)
(***************************************************************************)
EXTENDS Naturals

CONSTANTS
  Users,        \* people: an e-mail address, and its account once registered
  Capabilities, \* the vocabulary of capability.go
  Invitations,  \* invitations that can be sent
  Requests,     \* HTTP requests that can be in progress at once
  MaxTime,      \* the last instant of the clock
  NoUser,
  NoInvitation

ASSUME EventCrewAssumption ==
  /\ NoUser \notin Users
  /\ NoInvitation \notin Invitations
  /\ MaxTime \in Nat

VARIABLES
  clock,
  accounts,     \* the users who have an account
  staff,        \* the active members of the workspace, staff or better
  status,       \* event_assignments.status of each user, "none" without a row
  caps,         \* event_assignments.capabilities
  until,        \* event_assignments.expires_at, MaxTime when there is none
  invitation,   \* event_invitations.status, "none" before it is sent
  invitee,      \* the user with event_invitations.email
  offered,      \* event_invitations.capabilities
  offeredUntil, \* event_invitations.assignment_expires_at
  lapsed,       \* the invitations past their own expires_at
  request       \* the requests in progress

peopleVars == <<clock, accounts, staff>>
assignmentVars == <<status, caps, until>>
invitationVars == <<invitation, invitee, offered, offeredUntil, lapsed>>
vars == <<peopleVars, assignmentVars, invitationVars, request>>

Times == 0..MaxTime

(* "staff": past RequireTenantForUser; the others have done their reads, and *)
(* it is by them that an assignment goes one way ("assign") or the other    *)
(* ("invite").                                                             *)
Kinds == {"none", "staff", "assign", "invite", "patch", "accept"}
RequestType ==
  [kind : Kinds, user : Users \union {NoUser},
   caps : SUBSET Capabilities, until : Times, inv : Invitations \union {NoInvitation}]
NoRequest ==
  [kind |-> "none", user |-> NoUser, caps |-> {}, until |-> 0,
   inv |-> NoInvitation]

(* One type invariant.  A row, once there, carries a capability. *)
TypeOK ==
  /\ clock \in Times
  /\ accounts \subseteq Users
  /\ staff \subseteq accounts
  /\ status \in [Users -> {"none", "active", "revoked"}]
  /\ caps \in [Users -> SUBSET Capabilities]
  /\ until \in [Users -> Times]
  /\ invitation \in [Invitations -> {"none", "pending", "accepted"}]
  /\ invitee \in [Invitations -> Users \union {NoUser}]
  /\ offered \in [Invitations -> SUBSET Capabilities]
  /\ offeredUntil \in [Invitations -> Times]
  /\ lapsed \subseteq Invitations
  /\ request \in [Requests -> RequestType]
  /\ \A u \in Users : status[u] # "none" => u \in accounts /\ caps[u] # {}

Init ==
  /\ clock = 0
  /\ accounts = {}
  /\ staff = {}
  /\ status = [u \in Users |-> "none"]
  /\ caps = [u \in Users |-> {}]
  /\ until = [u \in Users |-> 0]
  /\ invitation = [i \in Invitations |-> "none"]
  /\ invitee = [i \in Invitations |-> NoUser]
  /\ offered = [i \in Invitations |-> {}]
  /\ offeredUntil = [i \in Invitations |-> 0]
  /\ lapsed = {}
  /\ request = [r \in Requests |-> NoRequest]

Answer(r) == request' = [request EXCEPT ![r] = NoRequest]

-----------------------------------------------------------------------------
(* The people, and the gate.                                               *)

Register(u) ==
  /\ u \notin accounts
  /\ accounts' = accounts \union {u}
  /\ UNCHANGED <<clock, staff, assignmentVars, invitationVars, request>>

(* Joining and leaving the workspace (module Membership). *)
JoinWorkspace(u) ==
  /\ u \in accounts \ staff
  /\ staff' = staff \union {u}
  /\ UNCHANGED <<clock, accounts, assignmentVars, invitationVars, request>>

LeaveWorkspace(u) ==
  /\ u \in staff
  /\ staff' = staff \ {u}
  /\ UNCHANGED <<clock, accounts, assignmentVars, invitationVars, request>>

Tick ==
  /\ clock < MaxTime
  /\ clock' = clock + 1
  /\ UNCHANGED <<accounts, staff, assignmentVars, invitationVars, request>>

(* EventAssignment.IsActive. *)
IsActive(u) == status[u] = "active" /\ clock <= until[u]

(* RequireEventAccess(c): a session of the workspace, or an active          *)
(* assignment that carries c.                                              *)
MayAct(u, c) == u \in staff \/ (IsActive(u) /\ c \in caps[u])

(* RequireTenantForUser, then RequireAnyRole. *)
RequireTenantForUser(r) ==
  /\ request[r] = NoRequest
  /\ staff # {}
  /\ request' = [request EXCEPT ![r] = [NoRequest EXCEPT !.kind = "staff"]]
  /\ UNCHANGED <<peopleVars, assignmentVars, invitationVars>>

(* The transaction is rolled back, or the service refuses: the row exists   *)
(* already, the invitation was spent, a statement fails, the client is gone. *)
Rollback(r) ==
  /\ request[r] # NoRequest
  /\ Answer(r)
  /\ UNCHANGED <<peopleVars, assignmentVars, invitationVars>>

-----------------------------------------------------------------------------
(* Assigning.                                                              *)

(* AssignToEvent's validation, and GetUserByEmail outside the transaction. *)
BeginAssign(r, u, k, t) ==
  /\ request[r].kind = "staff"
  /\ k # {}
  /\ request' = [request EXCEPT ![r] =
       [NoRequest EXCEPT !.kind = IF u \in accounts THEN "assign" ELSE "invite",
                         !.user = u, !.caps = k, !.until = t]]
  /\ UNCHANGED <<peopleVars, assignmentVars, invitationVars>>

(* A new row, which the unique key allows only if there is none. *)
CreateAssignment(u, k, t) ==
  /\ status[u] = "none"
  /\ status' = [status EXCEPT ![u] = "active"]
  /\ caps' = [caps EXCEPT ![u] = k]
  /\ until' = [until EXCEPT ![u] = t]

CommitAssign(r) ==
  /\ request[r].kind = "assign"
  /\ CreateAssignment(request[r].user, request[r].caps, request[r].until)
  /\ Answer(r)
  /\ UNCHANGED <<peopleVars, invitationVars>>

(* The address had no account when it was looked up; it may have one by now. *)
CommitInvite(r, i) ==
  /\ request[r].kind = "invite"
  /\ invitation[i] = "none"
  /\ invitation' = [invitation EXCEPT ![i] = "pending"]
  /\ invitee' = [invitee EXCEPT ![i] = request[r].user]
  /\ offered' = [offered EXCEPT ![i] = request[r].caps]
  /\ offeredUntil' = [offeredUntil EXCEPT ![i] = request[r].until]
  /\ Answer(r)
  /\ UNCHANGED <<peopleVars, assignmentVars, lapsed>>

Lapse(i) ==
  /\ invitation[i] = "pending"
  /\ i \notin lapsed
  /\ lapsed' = lapsed \union {i}
  /\ UNCHANGED <<peopleVars, assignmentVars, invitation, invitee, offered,
                 offeredUntil, request>>
-----------------------------------------------------------------------------
(* Accepting.                                                              *)

(* A plausible mistake: whoever holds the link may accept. *)
BeginAcceptAnyone(r, i, u) ==
  /\ request[r] = NoRequest
  /\ invitation[i] = "pending"
  /\ i \notin lapsed
  /\ u \in accounts
  /\ request' = [request EXCEPT ![r] =
       [NoRequest EXCEPT !.kind = "accept", !.user = u, !.caps = offered[i],
                         !.until = offeredUntil[i], !.inv = i]]
  /\ UNCHANGED <<peopleVars, assignmentVars, invitationVars>>

(* AcceptEventInvitation's reads, outside the transaction: the link of a    *)
(* pending invitation, presented by the account with its address.          *)
BeginAccept(r, i, u) ==
  /\ request[r] = NoRequest
  /\ invitation[i] = "pending"
  /\ i \notin lapsed
  /\ u \in accounts
  /\ u = invitee[i]
  /\ request' = [request EXCEPT ![r] =
       [NoRequest EXCEPT !.kind = "accept", !.user = u, !.caps = offered[i],
                         !.until = offeredUntil[i], !.inv = i]]
  /\ UNCHANGED <<peopleVars, assignmentVars, invitationVars>>

(* A plausible mistake: the duplicate row is reported, the mark is kept. *)
CommitAcceptMarks(r) ==
  /\ request[r].kind = "accept"
  /\ invitation[request[r].inv] = "pending"
  /\ invitation' = [invitation EXCEPT ![request[r].inv] = "accepted"]
  /\ \/ CreateAssignment(request[r].user, request[r].caps, request[r].until)
     \/ status[request[r].user] # "none" /\ UNCHANGED assignmentVars
  /\ Answer(r)
  /\ UNCHANGED <<peopleVars, invitee, offered, offeredUntil, lapsed>>

(* MarkEventInvitationAccepted and CreateAssignment in one transaction: for *)
(* a person who has a row already both are rolled back, the invitation     *)
(* stays pending, and no operation ever revokes it.                        *)
CommitAccept(r) ==
  /\ request[r].kind = "accept"
  /\ invitation[request[r].inv] = "pending"
  /\ invitation' = [invitation EXCEPT ![request[r].inv] = "accepted"]
  /\ CreateAssignment(request[r].user, request[r].caps, request[r].until)
  /\ Answer(r)
  /\ UNCHANGED <<peopleVars, invitee, offered, offeredUntil, lapsed>>

-----------------------------------------------------------------------------
(* Changing and revoking.                                                  *)

(* UpdateAssignment reads the row, whatever its status, and merges the      *)
(* fields that were sent into it.                                          *)
BeginPatch(r, u, s, k, t) ==
  /\ request[r].kind = "staff"
  /\ status[u] # "none"
  /\ k # {}
  /\ "caps" \notin s => k = caps[u]
  /\ "until" \notin s => t = until[u]
  /\ request' = [request EXCEPT ![r] =
       [NoRequest EXCEPT !.kind = "patch", !.user = u, !.caps = k, !.until = t]]
  /\ UNCHANGED <<peopleVars, assignmentVars, invitationVars>>

(* The UPDATE writes every column but the status. *)
CommitPatch(r) ==
  /\ request[r].kind = "patch"
  /\ caps' = [caps EXCEPT ![request[r].user] = request[r].caps]
  /\ until' = [until EXCEPT ![request[r].user] = request[r].until]
  /\ Answer(r)
  /\ UNCHANGED <<peopleVars, status, invitationVars>>

(* One UPDATE, of an active row. *)
RevokeAssignment(r, u) ==
  /\ request[r].kind = "staff"
  /\ status[u] = "active"
  /\ status' = [status EXCEPT ![u] = "revoked"]
  /\ Answer(r)
  /\ UNCHANGED <<peopleVars, caps, until, invitationVars>>

-----------------------------------------------------------------------------
People == Tick \/ \E u \in Users : Register(u) \/ JoinWorkspace(u) \/ LeaveWorkspace(u)

Handle(r) ==
  \/ RequireTenantForUser(r)
  \/ \E u \in Users, k \in SUBSET Capabilities, t \in Times :
       \/ BeginAssign(r, u, k, t)
       \/ \E s \in SUBSET {"caps", "until"} : BeginPatch(r, u, s, k, t)
  \/ \E i \in Invitations : CommitInvite(r, i) \/ \E u \in Users : BeginAccept(r, i, u)
  \/ \E u \in Users : RevokeAssignment(r, u)
  \/ CommitAssign(r)
  \/ CommitAccept(r)
  \/ CommitPatch(r)
  \/ Rollback(r)

Next ==
  \/ People
  \/ \E r \in Requests : Handle(r)
  \/ \E i \in Invitations : Lapse(i)

Spec == Init /\ [][Next]_vars

-----------------------------------------------------------------------------
(* Properties                                                              *)

(* Of the invitations a person holds, accepting one uses up the person: the *)
(* unique key lets no second one be accepted, and the row outlives them all. *)
OneAcceptedEach ==
  /\ \A i \in Invitations :
       invitation[i] = "accepted" => invitee[i] \in Users /\ status[invitee[i]] # "none"
  /\ \A i, j \in Invitations :
       invitation[i] = "accepted" /\ invitation[j] = "accepted" /\ invitee[i] = invitee[j]
         => i = j

(* Marking the invitation and creating the row are one step: it succeeds    *)
(* only for the addressee, who had no row, and gives what was offered.      *)
AcceptIsAllOrNothing ==
  [][\A i \in Invitations :
       invitation[i] # "accepted" /\ invitation'[i] = "accepted" =>
         /\ status[invitee[i]] = "none"
         /\ status'[invitee[i]] = "active"
         /\ caps'[invitee[i]] = offered[i]
         /\ until'[invitee[i]] = offeredUntil[i]]_vars

(* Nobody gets to do on the event what they could not do before but by       *)
(* joining the workspace, by a request of its staff that names them and the *)
(* capability, or by their first use of an invitation: an old invitation    *)
(* restores nothing that was revoked, narrowed or has expired.             *)
AccessComesFromStaff ==
  [][\A u \in Users, c \in Capabilities :
       ~MayAct(u, c) /\ MayAct(u, c)' =>
         \/ u \in staff' \ staff
         \/ \E r \in Requests :
              /\ request[r].kind \in {"assign", "patch"}
              /\ request[r].user = u /\ c \in request[r].caps
              /\ request'[r] = NoRequest
         \/ /\ status[u] = "none"
            /\ \E i \in Invitations :
                 /\ invitation[i] = "pending" /\ invitation'[i] = "accepted"
                 /\ invitee[i] = u /\ c \in offered[i]]_vars

(* A revocation is for good: a change that read the row while it was active, *)
(* a second assignment and a pending invitation all leave it revoked.       *)
RevokedForGood ==
  [][\A u \in Users : status[u] = "revoked" => status'[u] = "revoked"]_vars

=============================================================================
