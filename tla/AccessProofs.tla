---------------------------- MODULE AccessProofs ----------------------------
(***************************************************************************)
(* Proofs about who somebody is and what they may do at an event: the      *)
(* parts of module Identity, for any sets and bounds.                      *)
(***************************************************************************)
EXTENDS Identity, FiniteSetTheorems, TLAPS

(* The cardinality an instance speaks of is the one of FiniteSets.           *)
LEMMA TheCardinality == \A S : B!Cardinality(S) = Cardinality(S)
  BY DEF B!Cardinality, Cardinality
LEMMA CodeCardinality == \A S : C!Cardinality(S) = Cardinality(S)
  BY DEF C!Cardinality, Cardinality
-----------------------------------------------------------------------------
(* Event assignments (EventCrew). *)

(* What a request may rely on although it read it before its transaction:   *)
(* accounts and rows are not deleted, and a sent invitation keeps its       *)
(* addressee and its offer.                                                *)
SoundRequests ==
  {q \in RequestType :
     /\ q.kind \in {"assign", "invite", "patch", "accept"} => q.user \in Users /\ q.caps # {}
     /\ q.kind = "assign" => q.user \in accounts
     /\ q.kind = "patch" => status[q.user] # "none"
     /\ q.kind = "accept" =>
          /\ q.inv \in Invitations
          /\ invitation[q.inv] # "none"
          /\ q.user \in accounts
          /\ q.user = invitee[q.inv]
          /\ q.caps = offered[q.inv]
          /\ q.until = offeredUntil[q.inv]}

RequestsSound == \A r \in Requests : request[r] \in SoundRequests

InvitationsSound ==
  \A i \in Invitations : invitation[i] # "none" => invitee[i] \in Users /\ offered[i] # {}

IInv == TypeOK /\ OneAcceptedEach /\ RequestsSound /\ InvitationsSound

LEMMA NoRequestSound == NoRequest \in RequestType /\ NoRequest \in SoundRequests
  <1>1. 0 \in Times
    BY EventCrewAssumption DEF Times
  <1>2. NoRequest \in RequestType
    BY <1>1 DEF NoRequest, RequestType, Kinds
  <1>3. NoRequest.kind = "none"
    BY DEF NoRequest
  <1> QED BY <1>2, <1>3 DEF SoundRequests

LEMMA InitIInv == Init => IInv
  <1> SUFFICES ASSUME Init PROVE IInv
    OBVIOUS
  <1> USE EventCrewAssumption
  <1>1. TypeOK
    BY NoRequestSound DEF Init, TypeOK, Times
  <1>2. OneAcceptedEach /\ InvitationsSound
    BY DEF Init, OneAcceptedEach, InvitationsSound
  <1>3. RequestsSound
    BY NoRequestSound DEF Init, RequestsSound
  <1> QED BY <1>1, <1>2, <1>3 DEF IInv

(* Requests stay sound while accounts and rows are kept and the invitations  *)
(* that were sent stay what they are.                                      *)
LEMMA SoundMonotone ==
  ASSUME accounts \subseteq accounts',
         \A u \in Users : status[u] # "none" => status'[u] # "none",
         \A i \in Invitations : invitation[i] # "none" =>
           /\ invitation'[i] # "none" /\ invitee'[i] = invitee[i]
           /\ offered'[i] = offered[i] /\ offeredUntil'[i] = offeredUntil[i]
  PROVE  SoundRequests \subseteq SoundRequests'
  BY DEF SoundRequests

(* A step that moves one request on, if at all. *)
LEMMA RequestKeeps ==
  ASSUME TypeOK, RequestsSound, NEW r \in Requests, NEW q \in SoundRequests',
         SoundRequests \subseteq SoundRequests',
         request' = [request EXCEPT ![r] = q]
  PROVE  request' \in [Requests -> RequestType] /\ RequestsSound'
  <1>1. q \in RequestType
    BY DEF SoundRequests
  <1>2. request' \in [Requests -> RequestType]
    BY <1>1 DEF TypeOK
  <1>3. \A s \in Requests : request'[s] \in SoundRequests'
    BY DEF TypeOK, RequestsSound
  <1> QED BY <1>2, <1>3 DEF RequestsSound

LEMMA AnswerKeeps ==
  ASSUME TypeOK, RequestsSound, NEW r \in Requests, Answer(r),
         SoundRequests \subseteq SoundRequests'
  PROVE  request' \in [Requests -> RequestType] /\ RequestsSound'
  <1>1. NoRequest \in SoundRequests'
    BY NoRequestSound
  <1> QED BY <1>1, RequestKeeps DEF Answer

LEMMA RequestStepKeeps ==
  ASSUME IInv, NEW r \in Requests, NEW q \in SoundRequests,
         request' = [request EXCEPT ![r] = q],
         UNCHANGED <<peopleVars, assignmentVars, invitationVars>>
  PROVE  IInv'
  <1> USE DEF peopleVars, assignmentVars, invitationVars
  <1>1. SoundRequests' = SoundRequests
    BY DEF SoundRequests
  <1>2. request' \in [Requests -> RequestType] /\ RequestsSound'
    BY <1>1, RequestKeeps DEF IInv
  <1>3. TypeOK' /\ OneAcceptedEach' /\ InvitationsSound'
    BY <1>2 DEF IInv, TypeOK, OneAcceptedEach, InvitationsSound
  <1> QED BY <1>2, <1>3 DEF IInv

(* A step of people and time. *)
LEMMA PeopleStepKeeps ==
  ASSUME IInv, UNCHANGED <<assignmentVars, invitationVars, request>>,
         clock' \in Times, accounts \subseteq accounts', accounts' \subseteq Users,
         staff' \subseteq accounts'
  PROVE  IInv'
  <1> USE DEF assignmentVars, invitationVars
  <1>1. SoundRequests \subseteq SoundRequests'
    BY SoundMonotone
  <1>2. RequestsSound'
    BY <1>1 DEF IInv, RequestsSound
  <1>3. TypeOK' /\ OneAcceptedEach' /\ InvitationsSound'
    BY DEF IInv, TypeOK, OneAcceptedEach, InvitationsSound
  <1> QED BY <1>2, <1>3 DEF IInv

(* A step that answers a request after it wrote rows, losing none. *)
LEMMA AssignmentStepKeeps ==
  ASSUME IInv, NEW r \in Requests, Answer(r), UNCHANGED <<peopleVars, invitationVars>>,
         status' \in [Users -> {"none", "active", "revoked"}],
         caps' \in [Users -> SUBSET Capabilities],
         until' \in [Users -> Times],
         \A u \in Users : status'[u] # "none" => u \in accounts /\ caps'[u] # {},
         \A u \in Users : status[u] # "none" => status'[u] # "none"
  PROVE  IInv'
  <1> USE DEF peopleVars, invitationVars
  <1>1. SoundRequests \subseteq SoundRequests'
    BY SoundMonotone
  <1>2. request' \in [Requests -> RequestType] /\ RequestsSound'
    BY <1>1, AnswerKeeps DEF IInv
  <1>3. TypeOK' /\ OneAcceptedEach' /\ InvitationsSound'
    BY <1>2 DEF IInv, TypeOK, OneAcceptedEach, InvitationsSound
  <1> QED BY <1>2, <1>3 DEF IInv

(* What the insertion of a row does. *)
LEMMA CreateAssignmentLemma ==
  ASSUME TypeOK, NEW u \in accounts, NEW k \in SUBSET Capabilities, NEW t \in Times,
         k # {}, CreateAssignment(u, k, t)
  PROVE  /\ status' \in [Users -> {"none", "active", "revoked"}]
         /\ caps' \in [Users -> SUBSET Capabilities]
         /\ until' \in [Users -> Times]
         /\ \A v \in Users : status'[v] # "none" => v \in accounts /\ caps'[v] # {}
         /\ \A v \in Users : status[v] # "none" => status'[v] # "none"
         /\ status[u] = "none" /\ status'[u] = "active" /\ caps'[u] = k /\ until'[u] = t
  <1>1. u \in Users
    BY DEF TypeOK
  <1> QED BY <1>1 DEF TypeOK, CreateAssignment

LEMMA NextIInv == IInv /\ [Next]_vars => IInv'
  <1> SUFFICES ASSUME IInv, [Next]_vars PROVE IInv'
    OBVIOUS
  <1> USE EventCrewAssumption
  <1>0. TypeOK /\ OneAcceptedEach /\ RequestsSound /\ InvitationsSound
    BY DEF IInv
  <1>req. \A r \in Requests : request[r] \in RequestType /\ request[r] \in SoundRequests
    BY <1>0 DEF TypeOK, RequestsSound
  <1>1. ASSUME People PROVE IInv'
    <2>1. CASE Tick
      BY <1>0, <2>1, PeopleStepKeeps DEF Tick, TypeOK, Times
    <2>2. ASSUME NEW u \in Users, Register(u) PROVE IInv'
      BY <1>0, <2>2, PeopleStepKeeps DEF Register, TypeOK
    <2>3. ASSUME NEW u \in Users, JoinWorkspace(u) PROVE IInv'
      BY <1>0, <2>3, PeopleStepKeeps DEF JoinWorkspace, TypeOK
    <2>4. ASSUME NEW u \in Users, LeaveWorkspace(u) PROVE IInv'
      BY <1>0, <2>4, PeopleStepKeeps DEF LeaveWorkspace, TypeOK
    <2> QED BY <1>1, <2>1, <2>2, <2>3, <2>4 DEF People
  <1>2. ASSUME NEW r \in Requests, RequireTenantForUser(r) PROVE IInv'
    <2> DEFINE q == [NoRequest EXCEPT !.kind = "staff"]
    <2>1. q \in SoundRequests
      <3>1. q \in RequestType
        BY NoRequestSound DEF NoRequest, RequestType, Kinds
      <3>2. q.kind = "staff"
        BY DEF NoRequest
      <3> HIDE DEF q
      <3> QED BY <3>1, <3>2 DEF SoundRequests
    <2> QED BY <1>2, <2>1, RequestStepKeeps DEF RequireTenantForUser
  <1>3. ASSUME NEW r \in Requests, Rollback(r) PROVE IInv'
    BY <1>3, NoRequestSound, RequestStepKeeps DEF Rollback, Answer
  <1>4. ASSUME NEW r \in Requests, NEW u \in Users, NEW k \in SUBSET Capabilities,
               NEW t \in Times, BeginAssign(r, u, k, t)
        PROVE  IInv'
    <2> DEFINE q == [NoRequest EXCEPT !.kind = IF u \in accounts THEN "assign" ELSE "invite",
                                      !.user = u, !.caps = k, !.until = t]
    <2>1. k # {} /\ request' = [request EXCEPT ![r] = q]
      BY <1>4 DEF BeginAssign
    <2>2. q \in SoundRequests
      <3>1. q \in RequestType
        BY DEF NoRequest, RequestType, Kinds
      <3>2. /\ q.kind \in {"assign", "invite"} /\ q.user = u /\ q.caps = k
            /\ q.kind = "assign" => u \in accounts
        BY DEF NoRequest
      <3> HIDE DEF q
      <3> QED BY <2>1, <3>1, <3>2 DEF SoundRequests
    <2> QED BY <1>4, <2>1, <2>2, RequestStepKeeps DEF BeginAssign
  <1>5. ASSUME NEW r \in Requests, CommitAssign(r) PROVE IInv'
    <2>1. /\ request[r].user \in accounts
          /\ request[r].caps \in SUBSET Capabilities /\ request[r].caps # {}
          /\ request[r].until \in Times
      BY <1>req, <1>5 DEF CommitAssign, SoundRequests, RequestType
    <2>2. /\ CreateAssignment(request[r].user, request[r].caps, request[r].until)
          /\ Answer(r) /\ UNCHANGED <<peopleVars, invitationVars>>
      BY <1>5 DEF CommitAssign
    <2> QED BY <1>0, <2>1, <2>2, CreateAssignmentLemma, AssignmentStepKeeps
  <1>6. ASSUME NEW r \in Requests, NEW i \in Invitations, CommitInvite(r, i) PROVE IInv'
    <2>1. /\ request[r].kind = "invite" /\ invitation[i] = "none"
          /\ invitation' = [invitation EXCEPT ![i] = "pending"]
          /\ invitee' = [invitee EXCEPT ![i] = request[r].user]
          /\ offered' = [offered EXCEPT ![i] = request[r].caps]
          /\ offeredUntil' = [offeredUntil EXCEPT ![i] = request[r].until]
          /\ Answer(r)
          /\ UNCHANGED <<clock, accounts, staff, status, caps, until, lapsed>>
      BY <1>6 DEF CommitInvite, peopleVars, assignmentVars
    <2>2. /\ request[r].user \in Users /\ request[r].caps # {}
          /\ request[r].caps \in SUBSET Capabilities /\ request[r].until \in Times
      BY <1>req, <2>1 DEF SoundRequests, RequestType
    <2>3. \A j \in Invitations : invitation[j] # "none" =>
            /\ invitation'[j] # "none" /\ invitee'[j] = invitee[j]
            /\ offered'[j] = offered[j] /\ offeredUntil'[j] = offeredUntil[j]
      BY <1>0, <2>1 DEF TypeOK
    <2>4. request' \in [Requests -> RequestType] /\ RequestsSound'
      BY <1>0, <2>1, <2>3, SoundMonotone, AnswerKeeps
    <2>5. TypeOK'
      BY <1>0, <2>1, <2>2, <2>4 DEF TypeOK
    <2>6. OneAcceptedEach' /\ InvitationsSound'
      BY <1>0, <2>1, <2>2 DEF TypeOK, OneAcceptedEach, InvitationsSound
    <2> QED BY <2>4, <2>5, <2>6 DEF IInv
  <1>7. ASSUME NEW i \in Invitations, Lapse(i) PROVE IInv'
    <2>1. /\ lapsed' = lapsed \union {i}
          /\ UNCHANGED <<clock, accounts, staff, status, caps, until, invitation, invitee,
                         offered, offeredUntil, request>>
      BY <1>7 DEF Lapse, peopleVars, assignmentVars
    <2>2. SoundRequests' = SoundRequests
      BY <2>1 DEF SoundRequests
    <2> QED BY <1>0, <2>1, <2>2
            DEF IInv, TypeOK, OneAcceptedEach, RequestsSound, InvitationsSound
  <1>8. ASSUME NEW r \in Requests, NEW i \in Invitations, NEW u \in Users, BeginAccept(r, i, u)
        PROVE  IInv'
    <2> DEFINE q == [NoRequest EXCEPT !.kind = "accept", !.user = u, !.caps = offered[i],
                                      !.until = offeredUntil[i], !.inv = i]
    <2>1. /\ invitation[i] = "pending" /\ u \in accounts /\ u = invitee[i]
          /\ request' = [request EXCEPT ![r] = q]
      BY <1>8 DEF BeginAccept
    <2>2. offered[i] \in SUBSET Capabilities /\ offered[i] # {} /\ offeredUntil[i] \in Times
      BY <1>0, <2>1 DEF InvitationsSound, TypeOK
    <2>3. q \in SoundRequests
      <3>1. q \in RequestType
        BY <2>2 DEF NoRequest, RequestType, Kinds
      <3>2. /\ q.kind = "accept" /\ q.user = u /\ q.caps = offered[i]
            /\ q.until = offeredUntil[i] /\ q.inv = i
        BY DEF NoRequest
      <3> HIDE DEF q
      <3> QED BY <2>1, <2>2, <3>1, <3>2 DEF SoundRequests
    <2> QED BY <1>8, <2>1, <2>3, RequestStepKeeps DEF BeginAccept
  <1>9. ASSUME NEW r \in Requests, CommitAccept(r) PROVE IInv'
    <2> DEFINE i == request[r].inv
               u == request[r].user
    <2>1. /\ request[r].kind = "accept" /\ invitation[i] = "pending"
          /\ invitation' = [invitation EXCEPT ![i] = "accepted"]
          /\ CreateAssignment(u, request[r].caps, request[r].until)
          /\ Answer(r)
          /\ UNCHANGED <<clock, accounts, staff, invitee, offered, offeredUntil, lapsed>>
      BY <1>9 DEF CommitAccept, peopleVars
    <2>2. /\ i \in Invitations /\ u \in accounts /\ u = invitee[i]
          /\ request[r].caps \in SUBSET Capabilities /\ request[r].caps # {}
          /\ request[r].until \in Times
      BY <1>req, <2>1 DEF SoundRequests, RequestType
    <2> HIDE DEF i, u
    <2>3. /\ status' \in [Users -> {"none", "active", "revoked"}]
          /\ caps' \in [Users -> SUBSET Capabilities]
          /\ until' \in [Users -> Times]
          /\ \A v \in Users : status'[v] # "none" => v \in accounts /\ caps'[v] # {}
          /\ \A v \in Users : status[v] # "none" => status'[v] # "none"
          /\ status[u] = "none" /\ status'[u] = "active"
      BY <1>0, <2>1, <2>2, CreateAssignmentLemma
    <2>4. \A j \in Invitations : invitation[j] # "none" =>
            /\ invitation'[j] # "none" /\ invitee'[j] = invitee[j]
            /\ offered'[j] = offered[j] /\ offeredUntil'[j] = offeredUntil[j]
      BY <1>0, <2>1, <2>2 DEF TypeOK
    <2>5. request' \in [Requests -> RequestType] /\ RequestsSound'
      BY <1>0, <2>1, <2>3, <2>4, SoundMonotone, AnswerKeeps
    <2>6. TypeOK'
      BY <1>0, <2>1, <2>2, <2>3, <2>5 DEF TypeOK
    <2>7. OneAcceptedEach'
      <3>1. \A j \in Invitations : invitation'[j] = "accepted" <=> j = i \/ invitation[j] = "accepted"
        BY <1>0, <2>1, <2>2 DEF TypeOK
      <3>2. \A j \in Invitations : invitation[j] = "accepted" => invitee[j] # u
        BY <1>0, <2>3 DEF OneAcceptedEach
      <3>3. u \in Users
        BY <1>0, <2>2 DEF TypeOK
      <3> QED BY <1>0, <2>1, <2>2, <2>3, <3>1, <3>2, <3>3 DEF OneAcceptedEach
    <2>8. InvitationsSound'
      BY <1>0, <2>1, <2>2 DEF InvitationsSound, TypeOK
    <2> QED BY <2>5, <2>6, <2>7, <2>8 DEF IInv
  <1>10. ASSUME NEW r \in Requests, NEW u \in Users, NEW s \in SUBSET {"caps", "until"},
                NEW k \in SUBSET Capabilities, NEW t \in Times, BeginPatch(r, u, s, k, t)
         PROVE  IInv'
    <2> DEFINE q == [NoRequest EXCEPT !.kind = "patch", !.user = u, !.caps = k, !.until = t]
    <2>1. status[u] # "none" /\ k # {} /\ request' = [request EXCEPT ![r] = q]
      BY <1>10 DEF BeginPatch
    <2>2. q \in SoundRequests
      <3>1. q \in RequestType
        BY DEF NoRequest, RequestType, Kinds
      <3>2. q.kind = "patch" /\ q.user = u /\ q.caps = k
        BY DEF NoRequest
      <3> HIDE DEF q
      <3> QED BY <2>1, <3>1, <3>2 DEF SoundRequests
    <2> QED BY <1>10, <2>1, <2>2, RequestStepKeeps DEF BeginPatch
  <1>11. ASSUME NEW r \in Requests, CommitPatch(r) PROVE IInv'
    <2>1. /\ caps' = [caps EXCEPT ![request[r].user] = request[r].caps]
          /\ until' = [until EXCEPT ![request[r].user] = request[r].until]
          /\ Answer(r) /\ UNCHANGED status /\ UNCHANGED <<peopleVars, invitationVars>>
      BY <1>11 DEF CommitPatch
    <2>2. /\ request[r].user \in Users /\ request[r].until \in Times
          /\ request[r].caps \in SUBSET Capabilities /\ request[r].caps # {}
      BY <1>req, <1>11 DEF CommitPatch, SoundRequests, RequestType
    <2>3. /\ caps' \in [Users -> SUBSET Capabilities] /\ until' \in [Users -> Times]
          /\ \A u \in Users : status'[u] # "none" => u \in accounts /\ caps'[u] # {}
      BY <1>0, <2>1, <2>2 DEF TypeOK
    <2> QED BY <1>0, <2>1, <2>3, AssignmentStepKeeps DEF TypeOK
  <1>12. ASSUME NEW r \in Requests, NEW u \in Users, RevokeAssignment(r, u) PROVE IInv'
    <2>1. /\ status[u] = "active" /\ status' = [status EXCEPT ![u] = "revoked"]
          /\ Answer(r) /\ UNCHANGED <<caps, until>> /\ UNCHANGED <<peopleVars, invitationVars>>
      BY <1>12 DEF RevokeAssignment
    <2>2. /\ status' \in [Users -> {"none", "active", "revoked"}]
          /\ \A v \in Users : status'[v] # "none" <=> status[v] # "none"
      BY <1>0, <2>1 DEF TypeOK
    <2>3. \A v \in Users : status'[v] # "none" => v \in accounts /\ caps'[v] # {}
      BY <1>0, <2>1, <2>2 DEF TypeOK
    <2> QED BY <1>0, <2>1, <2>2, <2>3, AssignmentStepKeeps DEF TypeOK
  <1>13. ASSUME UNCHANGED vars PROVE IInv'
    <2> USE DEF vars, peopleVars, assignmentVars, invitationVars
    <2>1. SoundRequests' = SoundRequests
      BY <1>13 DEF SoundRequests
    <2> QED BY <1>0, <1>13, <2>1
            DEF IInv, TypeOK, OneAcceptedEach, RequestsSound, InvitationsSound
  <1> QED
    BY <1>1, <1>2, <1>3, <1>4, <1>5, <1>6, <1>7, <1>8, <1>9, <1>10, <1>11, <1>12, <1>13
       DEF Next, Handle

(* The steps that write a row; any other leaves the rows alone.             *)
LEMMA RowSteps ==
  ASSUME IInv, [Next]_vars
  PROVE  \/ \E r \in Requests :
              \/ CommitAssign(r) \/ CommitAccept(r) \/ CommitPatch(r)
              \/ \E u \in Users : RevokeAssignment(r, u)
         \/ UNCHANGED assignmentVars /\ clock <= clock'
  <1> USE DEF peopleVars, assignmentVars
  <1>1. clock <= clock
    BY DEF IInv, TypeOK, Times
  <1>2. CASE People
    <2>1. clock \in Nat
      BY EventCrewAssumption DEF IInv, TypeOK, Times
    <2> QED BY <1>1, <1>2, <2>1
            DEF People, Tick, Register, JoinWorkspace, LeaveWorkspace
  <1>3. ASSUME NEW r \in Requests, Handle(r)
        PROVE  \/ CommitAssign(r) \/ CommitAccept(r) \/ CommitPatch(r)
               \/ \E u \in Users : RevokeAssignment(r, u)
               \/ UNCHANGED assignmentVars /\ clock <= clock'
    BY <1>1, <1>3 DEF Handle, RequireTenantForUser, BeginAssign, BeginPatch, CommitInvite,
                      BeginAccept, Rollback
  <1>4. CASE \E i \in Invitations : Lapse(i)
    BY <1>1, <1>4 DEF Lapse
  <1>5. CASE UNCHANGED vars
    BY <1>1, <1>5 DEF vars
  <1> QED BY <1>2, <1>3, <1>4, <1>5 DEF Next

(* Only an acceptance marks an invitation accepted. *)
LEMMA AcceptSteps ==
  ASSUME IInv, [Next]_vars, NEW i \in Invitations,
         invitation[i] # "accepted", invitation'[i] = "accepted"
  PROVE  \E r \in Requests : CommitAccept(r) /\ request[r].inv = i
  <1> USE DEF invitationVars
  <1>1. CASE \E r \in Requests : CommitAccept(r)
    <2>1. PICK r \in Requests : CommitAccept(r)
      BY <1>1
    <2>2. request[r].inv = i
      BY <2>1 DEF IInv, TypeOK, CommitAccept
    <2> QED BY <2>1, <2>2
  <1>2. CASE \E r \in Requests, j \in Invitations : CommitInvite(r, j)
    BY <1>2 DEF IInv, TypeOK, CommitInvite
  <1>3. CASE People
    BY <1>3 DEF People, Tick, Register, JoinWorkspace, LeaveWorkspace
  <1>4. CASE \E j \in Invitations : Lapse(j)
    BY <1>4 DEF Lapse
  <1>5. CASE UNCHANGED vars
    BY <1>5 DEF vars
  <1>6. ASSUME NEW r \in Requests, Handle(r)
        PROVE  \/ CommitAccept(r) \/ \E j \in Invitations : CommitInvite(r, j)
               \/ UNCHANGED invitation
    BY <1>6 DEF Handle, RequireTenantForUser, BeginAssign, BeginPatch, CommitAssign,
                CommitPatch, RevokeAssignment, BeginAccept, Rollback
  <1> QED BY <1>1, <1>2, <1>3, <1>4, <1>5, <1>6 DEF Next

(* What an acceptance writes, in terms of the invitation it spends.         *)
LEMMA AcceptWrites ==
  ASSUME IInv, NEW r \in Requests, CommitAccept(r)
  PROVE  LET i == request[r].inv
         IN /\ i \in Invitations /\ invitee[i] = request[r].user /\ invitee[i] \in Users
            /\ invitation[i] = "pending" /\ invitation'[i] = "accepted"
            /\ offered[i] = request[r].caps
            /\ status[invitee[i]] = "none" /\ status'[invitee[i]] = "active"
            /\ caps'[invitee[i]] = offered[i] /\ until'[invitee[i]] = offeredUntil[i]
  <1> DEFINE i == request[r].inv
  <1>0. TypeOK /\ request[r] \in SoundRequests
    BY DEF IInv, RequestsSound
  <1>1. /\ request[r].kind = "accept" /\ invitation[i] = "pending"
        /\ invitation' = [invitation EXCEPT ![i] = "accepted"]
        /\ CreateAssignment(request[r].user, request[r].caps, request[r].until)
    BY DEF CommitAccept
  <1>2. /\ i \in Invitations /\ request[r].user = invitee[i] /\ request[r].user \in Users
        /\ request[r].caps = offered[i] /\ request[r].until = offeredUntil[i]
    BY <1>0, <1>1 DEF SoundRequests
  <1>3. /\ status[request[r].user] = "none" /\ status'[request[r].user] = "active"
        /\ caps'[request[r].user] = request[r].caps
        /\ until'[request[r].user] = request[r].until
    BY <1>0, <1>1, <1>2 DEF TypeOK, CreateAssignment
  <1>4. invitation'[i] = "accepted"
    BY <1>0, <1>1, <1>2 DEF TypeOK
  <1> QED BY <1>1, <1>2, <1>3, <1>4

LEMMA SpecIInv == Spec => []IInv
  BY InitIInv, NextIInv, PTL DEF Spec

(* Types, and no person who has accepted two invitations or has accepted one *)
(* and has no row.                                                         *)
THEOREM CrewSafety == Spec => [](TypeOK /\ OneAcceptedEach)
  <1>1. IInv => TypeOK /\ OneAcceptedEach
    BY DEF IInv
  <1> QED BY <1>1, SpecIInv, PTL

(* AcceptEventInvitation marks and inserts together or not at all.          *)
THEOREM Accepting == Spec => AcceptIsAllOrNothing
  <1> DEFINE Kept ==
               \A i \in Invitations :
                    invitation[i] # "accepted" /\ invitation'[i] = "accepted" =>
                      /\ status[invitee[i]] = "none"
                      /\ status'[invitee[i]] = "active"
                      /\ caps'[invitee[i]] = offered[i]
                      /\ until'[invitee[i]] = offeredUntil[i]
  <1>1. IInv /\ [Next]_vars => Kept
    BY AcceptSteps, AcceptWrites
  <1> HIDE DEF Kept
  <1>2. IInv /\ [Next]_vars => [Kept]_vars
    BY <1>1
  <1>3. Spec => [][Kept]_vars
    BY <1>2, InitIInv, NextIInv, PTL DEF Spec
  <1> QED BY <1>3 DEF Kept, AcceptIsAllOrNothing

(* RevokeAssignment cannot be undone by any request, however old.           *)
THEOREM Revoking == Spec => RevokedForGood
  <1> DEFINE Kept == \A u \in Users : status[u] = "revoked" => status'[u] = "revoked"
  <1>1. IInv /\ [Next]_vars => Kept
    <2> SUFFICES ASSUME IInv, [Next]_vars, NEW u \in Users, status[u] = "revoked"
                 PROVE  status'[u] = "revoked"
      OBVIOUS
    <2>0. TypeOK
      BY DEF IInv
    <2>1. ASSUME NEW r \in Requests, CommitAssign(r) PROVE status'[u] = "revoked"
      BY <2>0, <2>1 DEF TypeOK, CommitAssign, CreateAssignment
    <2>2. ASSUME NEW r \in Requests, CommitAccept(r) PROVE status'[u] = "revoked"
      BY <2>0, <2>2 DEF TypeOK, CommitAccept, CreateAssignment
    <2>3. ASSUME NEW r \in Requests, CommitPatch(r) PROVE status'[u] = "revoked"
      BY <2>3 DEF CommitPatch
    <2>4. ASSUME NEW r \in Requests, NEW v \in Users, RevokeAssignment(r, v)
          PROVE  status'[u] = "revoked"
      BY <2>0, <2>4 DEF TypeOK, RevokeAssignment
    <2> QED BY <2>1, <2>2, <2>3, <2>4, RowSteps DEF assignmentVars
  <1> HIDE DEF Kept
  <1>2. IInv /\ [Next]_vars => [Kept]_vars
    BY <1>1
  <1>3. Spec => [][Kept]_vars
    BY <1>2, InitIInv, NextIInv, PTL DEF Spec
  <1> QED BY <1>3 DEF Kept, RevokedForGood

(* RequireEventAccess lets nobody do more than staff, through this module or *)
(* through the workspace, have given them.                                 *)
THEOREM Access == Spec => AccessComesFromStaff
  <1> DEFINE Given(u, c) ==
               \/ u \in staff' \ staff
               \/ \E r \in Requests :
                    /\ request[r].kind \in {"assign", "patch"}
                    /\ request[r].user = u /\ c \in request[r].caps
                    /\ request'[r] = NoRequest
               \/ /\ status[u] = "none"
                  /\ \E i \in Invitations :
                       /\ invitation[i] = "pending" /\ invitation'[i] = "accepted"
                       /\ invitee[i] = u /\ c \in offered[i]
             Kept == \A u \in Users, c \in Capabilities : ~MayAct(u, c) /\ MayAct(u, c)' => Given(u, c)
  <1>1. IInv /\ [Next]_vars => Kept
    <2> SUFFICES ASSUME IInv, [Next]_vars, NEW u \in Users, NEW c \in Capabilities,
                        ~MayAct(u, c), MayAct(u, c)', u \notin staff' \ staff
                 PROVE  Given(u, c)
      BY ZenonT(30)
    <2>0. TypeOK /\ RequestsSound
      BY DEF IInv
    <2>row. /\ status'[u] = "active" /\ clock' <= until'[u] /\ c \in caps'[u]
            /\ ~(status[u] = "active" /\ clock <= until[u] /\ c \in caps[u])
      BY DEF MayAct, IsActive
    <2>1. ASSUME NEW r \in Requests, CommitAssign(r) PROVE Given(u, c)
      <3>1. request[r].kind = "assign" /\ request'[r] = NoRequest
        BY <2>0, <2>1 DEF TypeOK, CommitAssign, Answer
      <3>2. UNCHANGED clock /\ CreateAssignment(request[r].user, request[r].caps, request[r].until)
        BY <2>1 DEF CommitAssign, peopleVars
      <3>3. request[r].user = u
        BY <2>0, <2>row, <3>2 DEF TypeOK, CreateAssignment
      <3>4. c \in request[r].caps
        BY <2>0, <2>row, <3>2, <3>3 DEF TypeOK, CreateAssignment
      <3> QED BY <3>1, <3>3, <3>4
    <2>2. ASSUME NEW r \in Requests, CommitAccept(r) PROVE Given(u, c)
      <3>1. UNCHANGED clock /\ CreateAssignment(request[r].user, request[r].caps, request[r].until)
        BY <2>2 DEF CommitAccept, peopleVars
      <3>2. request[r].user = u
        BY <2>0, <2>row, <3>1 DEF TypeOK, CreateAssignment
      <3>3. caps'[u] = request[r].caps
        BY <2>0, <3>1, <3>2 DEF TypeOK, CreateAssignment
      <3> QED BY <2>2, <2>row, <3>2, <3>3, AcceptWrites
    <2>3. ASSUME NEW r \in Requests, CommitPatch(r) PROVE Given(u, c)
      <3>1. /\ request[r].kind = "patch" /\ request'[r] = NoRequest
            /\ caps' = [caps EXCEPT ![request[r].user] = request[r].caps]
            /\ until' = [until EXCEPT ![request[r].user] = request[r].until]
            /\ UNCHANGED <<clock, status>>
        BY <2>0, <2>3 DEF TypeOK, CommitPatch, Answer, peopleVars
      <3>2. request[r].user = u
        BY <2>0, <2>row, <3>1 DEF TypeOK
      <3>3. c \in request[r].caps
        BY <2>0, <2>row, <3>1, <3>2 DEF TypeOK
      <3> QED BY <3>1, <3>2, <3>3
    <2>4. ASSUME NEW r \in Requests, NEW v \in Users, RevokeAssignment(r, v) PROVE Given(u, c)
      <3>1. /\ UNCHANGED <<clock, caps, until>>
            /\ status' = [status EXCEPT ![v] = "revoked"]
        BY <2>4 DEF RevokeAssignment, peopleVars
      <3>2. status[u] = "active"
        BY <2>0, <2>row, <3>1 DEF TypeOK
      <3> QED BY <2>row, <3>1, <3>2
    <2>5. ASSUME UNCHANGED assignmentVars, clock <= clock' PROVE Given(u, c)
      <3>1. clock \in Nat /\ clock' \in Nat /\ until[u] \in Nat /\ until'[u] = until[u]
        <4>1. TypeOK'
          BY NextIInv DEF IInv
        <4> QED BY <2>0, <2>5, <4>1 DEF TypeOK, Times, assignmentVars
      <3>2. clock <= until[u]
        BY <2>5, <2>row, <3>1
      <3> QED BY <2>5, <2>row, <3>2 DEF assignmentVars
    <2> QED BY <2>1, <2>2, <2>3, <2>4, <2>5, RowSteps
  <1> HIDE DEF Kept
  <1>2. IInv /\ [Next]_vars => [Kept]_vars
    BY <1>1
  <1>3. Spec => [][Kept]_vars
    BY <1>2, InitIInv, NextIInv, PTL DEF Spec
  <1> QED BY <1>3 DEF Kept, AccessComesFromStaff

-----------------------------------------------------------------------------
(* BrowserSession.  Whoever signed out did so with a token that had been     *)
(* issued, and Redis keeps the blacklist entry until that token has expired. *)

TokensIssued ==
  /\ DOMAIN tokens = 1..B!Last(tokens)
  /\ B!Last(tokens) \in 0..MaxTokens
  /\ \A j \in DOMAIN tokens : tokens[j].exp \in Nat

CookiesIssued ==
  /\ DOMAIN requests = Requests
  /\ jar.access \in DOMAIN tokens \union {0}
  /\ \A r \in Requests :
       /\ requests[r].at = "admitted" => requests[r].cookies.access \in DOMAIN tokens
       /\ requests[r].at = "set" => requests[r].cookies.access \in DOMAIN tokens \union {0}

BlacklistTypeOK ==
  /\ now \in Nat
  /\ blacklist \in [1..MaxTokens -> [there : BOOLEAN, value : Nat, until : Nat]]

BlacklistLasts ==
  \A j \in signedOut :
    /\ j \in DOMAIN tokens
    /\ tokens[j].exp <= now \/ (blacklist[j].there /\ blacklist[j].until = tokens[j].exp)

BrowserInv == TokensIssued /\ CookiesIssued /\ BlacklistTypeOK /\ BlacklistLasts

LEMMA BrowserInit == MaxTokens \in Nat /\ B!Init => BrowserInv
  <1> SUFFICES ASSUME MaxTokens \in Nat, B!Init PROVE BrowserInv
    OBVIOUS
  <1>1. DOMAIN tokens = {} /\ B!Last(tokens) = 0
    BY TheCardinality, FS_EmptySet DEF B!Init, B!Last
  <1>2. TokensIssued
    BY <1>1 DEF TokensIssued
  <1>3. CookiesIssued
    BY <1>1 DEF B!Init, B!NoCookies, B!NoRequest, CookiesIssued
  <1>4. BlacklistTypeOK /\ BlacklistLasts
    BY DEF B!Init, B!EmptyStore, B!NoKey, BlacklistTypeOK, BlacklistLasts
  <1> QED BY <1>2, <1>3, <1>4 DEF BrowserInv

(* A token more: it has the next number, and the others are as they were.    *)
LEMMA TokenIssued ==
  ASSUME MaxTokens \in Nat, AccessTokenTTL \in Nat, now \in Nat, TokensIssued,
         NEW user, NEW tenant, B!IssueUserAccessToken(user, tenant)
  PROVE  /\ TokensIssued'
         /\ DOMAIN tokens' = DOMAIN tokens \union {B!Last(tokens) + 1}
         /\ \A j \in DOMAIN tokens : tokens'[j] = tokens[j]
  <1> DEFINE n == B!Last(tokens)
             x == [user |-> user, tenant |-> tenant, exp |-> now + AccessTokenTTL]
  <1>1. n \in Nat /\ n < MaxTokens /\ DOMAIN tokens = 1..n
    BY DEF TokensIssued, B!IssueUserAccessToken
  <1>2. tokens' = [i \in 1..(n + 1) |-> IF i \in DOMAIN tokens THEN tokens[i] ELSE x]
    BY DEF B!IssueUserAccessToken, B!Append1, B!Last
  <1>3. Cardinality(1..(n + 1)) = n + 1
    BY <1>1, FS_Interval
  <1>4. DOMAIN tokens' = 1..(n + 1)
    BY <1>2
  <1>5. (B!Last(tokens))' = n + 1
    BY TheCardinality, <1>3, <1>4 DEF B!Last
  <1> HIDE DEF n
  <1>6. \A j \in DOMAIN tokens : tokens'[j] = tokens[j]
    BY <1>1, <1>2
  <1>7. \A j \in DOMAIN tokens' : tokens'[j].exp \in Nat
    BY <1>1, <1>2, <1>4 DEF TokensIssued
  <1>8. TokensIssued'
    BY <1>1, <1>4, <1>5, <1>7 DEF TokensIssued
  <1> QED BY <1>1, <1>4, <1>6, <1>8 DEF n

(* What a step that is about neither tokens nor blacklist has to show.       *)
LEMMA CookieSteps ==
  ASSUME BrowserInv, UNCHANGED <<now, tokens, blacklist, signedOut>>, CookiesIssued'
  PROVE  BrowserInv'
  BY DEF BrowserInv, TokensIssued, BlacklistTypeOK, BlacklistLasts, B!Last

(* What a step that issues a token and answers with it has to show.          *)
LEMMA IssueSteps ==
  ASSUME MaxTokens \in Nat, AccessTokenTTL \in Nat, BrowserInv,
         NEW r \in Requests, NEW user, NEW tenant, NEW s,
         B!IssueUserAccessToken(user, tenant),
         B!Answer(r, "set", s, B!Last(tokens) + 1),
         UNCHANGED <<now, blacklist, jar, signedOut>>
  PROVE  BrowserInv'
  <1> USE DEF BrowserInv
  <1>1. /\ TokensIssued'
        /\ DOMAIN tokens' = DOMAIN tokens \union {B!Last(tokens) + 1}
        /\ \A j \in DOMAIN tokens : tokens'[j] = tokens[j]
    BY TokenIssued DEF BlacklistTypeOK
  <1>2. requests' = [requests EXCEPT ![r] = [at |-> "set", user |-> None, tenant |-> None,
          cookies |-> [refresh |-> s, access |-> B!Last(tokens) + 1]]]
    BY DEF B!Answer, B!NoRequest
  <1>3. CookiesIssued'
    BY <1>1, <1>2 DEF CookiesIssued
  <1>4. BlacklistTypeOK' /\ BlacklistLasts'
    BY <1>1 DEF BlacklistTypeOK, BlacklistLasts
  <1> QED BY <1>1, <1>3, <1>4

LEMMA LogoutKeeps ==
  ASSUME MaxTokens \in Nat, BrowserInv,
         NEW r \in Requests, NEW revoked \in BOOLEAN, NEW noted \in BOOLEAN,
         B!Logout(r, revoked, noted)
  PROVE  BrowserInv'
  <1> USE DEF BrowserInv
  <1> DEFINE jti == requests[r].cookies.access
  <1>1. /\ requests[r].at = "admitted"
        /\ requests' = [requests EXCEPT ![r] = [at |-> "clear", user |-> None, tenant |-> None,
             cookies |-> [refresh |-> 0, access |-> 0]]]
        /\ UNCHANGED <<now, tokens, jar>>
    BY DEF B!Logout, B!At, B!clearSessionCookies, B!Answer, B!NoRequest
  <1>2. jti \in DOMAIN tokens /\ jti \in 1..MaxTokens /\ tokens[jti].exp \in Nat /\ now \in Nat
    BY <1>1 DEF CookiesIssued, TokensIssued, BlacklistTypeOK
  <1>3. TokensIssued' /\ CookiesIssued'
    BY <1>1 DEF TokensIssued, CookiesIssued, B!Last
  <1>4. CASE tokens[jti].exp > now /\ noted
    <2>1. B!Deadline(now, tokens[jti].exp - now) = tokens[jti].exp
      BY <1>2, <1>4 DEF B!Deadline
    <2>2. /\ blacklist' = [blacklist EXCEPT ![jti] =
               [there |-> TRUE, value |-> 1, until |-> tokens[jti].exp]]
          /\ signedOut' = signedOut \union {jti}
      BY <1>4, <2>1 DEF B!Logout, B!BlacklistUntilExpiry, B!Set
    <2>3. BlacklistTypeOK'
      BY <1>1, <1>2, <2>2 DEF BlacklistTypeOK
    <2>4. BlacklistLasts'
      BY <1>1, <1>2, <2>2 DEF BlacklistTypeOK, BlacklistLasts, TokensIssued
    <2> QED BY <1>3, <2>3, <2>4
  <1>5. CASE ~(tokens[jti].exp > now /\ noted)
    <2>1. UNCHANGED <<blacklist, signedOut>>
      BY <1>5 DEF B!Logout
    <2> QED BY <1>1, <1>3, <2>1 DEF BlacklistTypeOK, BlacklistLasts
  <1> QED BY <1>4, <1>5

(* Redis drops an entry when the token it is about has expired.              *)
LEMMA TickKeeps ==
  ASSUME MaxTokens \in Nat, BrowserInv, B!Tick
  PROVE  BrowserInv'
  <1> USE DEF BrowserInv
  <1>1. /\ now' = now + 1 /\ UNCHANGED <<tokens, jar, requests, signedOut>>
        /\ blacklist' = [k \in DOMAIN blacklist |->
             IF blacklist[k].until # 0 /\ blacklist[k].until <= now + 1 THEN B!NoKey ELSE blacklist[k]]
    BY DEF B!Tick, B!Sweep, B!rows
  <1>2. TokensIssued' /\ CookiesIssued'
    BY <1>1 DEF TokensIssued, CookiesIssued, B!Last
  <1>3. BlacklistTypeOK'
    BY <1>1 DEF BlacklistTypeOK, B!NoKey
  <1>4. BlacklistLasts'
    BY <1>1 DEF BlacklistTypeOK, BlacklistLasts, TokensIssued
  <1> QED BY <1>2, <1>3, <1>4

LEMMA BrowserNext ==
  ASSUME MaxTokens \in Nat, AccessTokenTTL \in Nat, BrowserInv, [B!Next]_(B!vars)
  PROVE  BrowserInv'
  <1>1. ASSUME NEW r \in Requests, B!RefuseRefresh(r) PROVE BrowserInv'
    BY <1>1, CookieSteps
       DEF B!RefuseRefresh, B!clearSessionCookies, B!Answer, B!NoRequest, B!rows, BrowserInv, CookiesIssued
  <1>2. ASSUME NEW r \in Requests, B!readRefreshToken(r) PROVE BrowserInv'
    BY <1>2, CookieSteps DEF B!readRefreshToken, B!rows, BrowserInv, CookiesIssued
  <1>3. ASSUME NEW r \in Requests, B!Admit(r) PROVE BrowserInv'
    BY <1>3, CookieSteps DEF B!Admit, B!rows, BrowserInv, CookiesIssued
  <1>4. ASSUME NEW r \in Requests, B!Arrive(r) PROVE BrowserInv'
    BY <1>4, CookieSteps
       DEF B!Arrive, B!At, B!End, B!NoCookies, B!NoRequest, B!rows, BrowserInv, CookiesIssued
  <1>5. ASSUME NEW r \in Requests, B!Gone(r) PROVE BrowserInv'
    BY <1>5, CookieSteps DEF B!Gone, B!End, B!NoRequest, B!rows, BrowserInv, CookiesIssued
  <1>6. ASSUME NEW r \in Requests, NEW user \in Users, B!Login(r, user) PROVE BrowserInv'
    BY <1>6, IssueSteps DEF B!Login, B!setSessionCookies
  <1>7. ASSUME NEW r \in Requests, NEW tenant, B!RefreshAccessToken(r, tenant) PROVE BrowserInv'
    BY <1>7, IssueSteps DEF B!RefreshAccessToken, B!setSessionCookies
  <1>8. ASSUME NEW r \in Requests, NEW tenant, B!SelectTenant(r, tenant) PROVE BrowserInv'
    BY <1>8, IssueSteps DEF B!SelectTenant, B!setAccessCookies
  <1>9. ASSUME NEW r \in Requests, NEW revoked \in BOOLEAN, NEW noted \in BOOLEAN,
               B!Logout(r, revoked, noted)
        PROVE  BrowserInv'
    BY <1>9, LogoutKeeps
  <1>10. ASSUME NEW user, NEW tenant, B!MembershipChanges(user, tenant) PROVE BrowserInv'
    BY <1>10, CookieSteps DEF B!MembershipChanges, BrowserInv, CookiesIssued
  <1>11. CASE B!Tick
    BY <1>11, TickKeeps
  <1>12. CASE UNCHANGED B!vars
    BY <1>12, CookieSteps DEF B!vars, B!rows, BrowserInv, CookiesIssued
  <1> QED
    BY <1>1, <1>2, <1>3, <1>4, <1>5, <1>6, <1>7, <1>8, <1>9, <1>10, <1>11, <1>12 DEF B!Next

LEMMA BrowserStep ==
  part = "browser" /\ [AllNext]_allVars => part' = "browser" /\ [B!Next]_(B!vars)
  BY DEF AllNext, allVars, shared, browserOwn, B!vars, B!rows

(* Logout: whatever else is under way, and however long it takes, the access *)
(* token is refused from the moment Redis has the entry until it expires.    *)
THEOREM SignedOut == AllSpec => []SignedOutStaysOut
  <1> DEFINE Kept == part = "browser" => BrowserInv
  <1>1. Kept => SignedOutStaysOut
    BY DEF BrowserInv, TokensIssued, BlacklistTypeOK, BlacklistLasts, SignedOutStaysOut,
           B!SignedOutStaysOut, B!RequireUserAuth, B!Parsed, B!IsAccessTokenRevoked, B!Exists
  <1>2. Kept /\ [AllNext]_allVars => Kept'
    BY BrowserAssumption, BrowserStep, BrowserNext DEF AllNext, allVars
  <1>3. AllInit => Kept
    BY BrowserAssumption, BrowserInit DEF AllInit
  <1> QED BY <1>1, <1>2, <1>3, PTL DEF AllSpec
-----------------------------------------------------------------------------
(* Accounts.  A secret stands for what was true when it was issued, and that  *)
(* stays true: an address that was proven, an identity that is linked.  So it *)
(* does not matter how often a secret is used, nor how late.               *)

SecretSound(h) ==
  /\ h.kind = "mail" => h.user \in Users
  /\ h.kind = "signup" => h.email \in proven
  /\ h.kind = "code" => IF h.user # None THEN <<h.user, h.sub>> \in social
                        ELSE h.email \in proven /\ h.sub \in Subs
  /\ h.kind = "pending" => h.email \in proven /\ h.sub \in Subs

RequestSound(q) ==
  LET h == q.secret IN
  /\ q.at = "verify" => h.user \in Users
  /\ q.at = "signup" => h.email \in proven
  /\ q.at = "resolve" => h.email \in proven /\ h.sub \in Subs
  /\ q.at = "signIn" => <<h.user, h.sub>> \in social
  /\ q.at \in {"profile", "google"} => h.email \in proven /\ h.sub \in Subs

LinkedOnce ==
  /\ social \subseteq Users \X Subs
  /\ \A a, b \in social : a[2] = b[2] => a = b

AccountsTypeOK ==
  /\ account \in [Users -> [email : Emails \union {None}, password : BOOLEAN, verified : BOOLEAN]]
  /\ DOMAIN requests = Requests
  /\ proven \subseteq Emails \union {None}

SignedInLinked == \A p \in session : <<p[2], p[1]>> \in social

RowsInv == AccountsTypeOK /\ LinkedOnce /\ SignedInLinked /\ A!VerifiedIsProven

AccountsInv ==
  /\ RowsInv
  /\ \A h \in held : SecretSound(h)
  /\ \A r \in Requests : RequestSound(requests[r])

LEMMA AccountsInit == A!Init => AccountsInv
  BY DEF A!Init, A!NoAccount, A!NoRequest, A!NoSecret, A!VerifiedIsProven, AccountsInv, RowsInv,
         AccountsTypeOK, LinkedOnce, SignedInLinked, SecretSound, RequestSound

(* What was sound stays so.                                                *)
LEMMA SoundStays ==
  ASSUME AccountsInv, RowsInv',
         proven \subseteq proven', social \subseteq social',
         \A h \in held' : h \in held \/ SecretSound(h)',
         \A r \in Requests : requests'[r] = requests[r] \/ RequestSound(requests[r])'
  PROVE  AccountsInv'
  <1>1. ASSUME NEW h, SecretSound(h) PROVE SecretSound(h)'
    BY <1>1 DEF SecretSound
  <1>2. ASSUME NEW q, RequestSound(q) PROVE RequestSound(q)'
    BY <1>2 DEF RequestSound
  <1>3. (\A h \in held : SecretSound(h))'
    BY <1>1 DEF AccountsInv
  <1>4. (\A r \in Requests : RequestSound(requests[r]))'
    BY <1>2 DEF AccountsInv
  <1> QED BY <1>3, <1>4 DEF AccountsInv

LEMMA IdleIsSound == RequestSound(A!NoRequest) /\ RequestSound(A!NoRequest)'
  BY DEF RequestSound, A!NoRequest

(* A step that leaves accounts, links and sign-ins alone.                   *)
LEMMA RowsStay ==
  ASSUME RowsInv, UNCHANGED <<account, social, session>>, DOMAIN requests' = Requests,
         proven \subseteq proven', proven' \subseteq Emails \union {None}
  PROVE  RowsInv'
  BY DEF RowsInv, AccountsTypeOK, LinkedOnce, SignedInLinked, A!VerifiedIsProven

LEMMA SelfRegistrationKeeps == AccountsInv /\ A!SelfRegistration => AccountsInv'
  <1> SUFFICES ASSUME AccountsInv, A!SelfRegistration PROVE AccountsInv'
    OBVIOUS
  <1>0. RowsInv
    BY DEF AccountsInv
  <1>1. ASSUME NEW u \in Users, NEW e \in Emails, A!Register(u, e) PROVE AccountsInv'
    <2>1. /\ account' = [account EXCEPT ![u] = [email |-> e, password |-> TRUE, verified |-> FALSE]]
          /\ held' = held \union
               {[id |-> issued + 1, kind |-> "mail", email |-> None, sub |-> None, user |-> u]}
          /\ UNCHANGED <<social, requests, proven, session>>
      BY <1>1 DEF A!Register, A!CreateUser, A!Issue, A!histories
    <2>2. RowsInv'
      BY <1>0, <2>1 DEF RowsInv, AccountsTypeOK, LinkedOnce, SignedInLinked, A!VerifiedIsProven
    <2>3. \A h \in held' : h \in held \/ SecretSound(h)'
      BY <2>1 DEF SecretSound
    <2> QED BY <2>1, <2>2, <2>3, SoundStays
  <1>2. ASSUME NEW r \in Requests, A!VerifyEmail(r) PROVE AccountsInv'
    <2> DEFINE u == requests[r].secret.user
    <2>1. /\ held' \subseteq held
          /\ account' = [account EXCEPT ![u].verified = TRUE]
          /\ proven' = proven \union {account[u].email}
          /\ requests' = [requests EXCEPT ![r] = A!NoRequest]
          /\ UNCHANGED <<social, session>>
      BY <1>2 DEF A!VerifyEmail, A!End
    <2>2. u \in Users
      BY <1>2 DEF A!VerifyEmail, AccountsInv, RequestSound
    <2>3. RowsInv'
      BY <1>0, <2>1, <2>2 DEF RowsInv, AccountsTypeOK, LinkedOnce, SignedInLinked, A!VerifiedIsProven
    <2> QED BY <2>1, <2>3, IdleIsSound, SoundStays DEF RowsInv, AccountsTypeOK
  <1>3. ASSUME NEW r \in Requests, NEW h \in held, A!GetEmailToken(r, h) PROVE AccountsInv'
    <2>1. /\ requests' = [requests EXCEPT ![r] = [at |-> "verify", secret |-> h]]
          /\ h.kind = "mail" /\ SecretSound(h)
          /\ UNCHANGED <<account, social, held, proven, session>>
      BY <1>3 DEF A!GetEmailToken, A!Begin, A!rows, A!histories, AccountsInv
    <2>2. RowsInv'
      BY <1>0, <2>1, RowsStay DEF RowsInv, AccountsTypeOK
    <2> QED
      BY <1>0, <2>1, <2>2, SoundStays DEF RowsInv, AccountsTypeOK, SecretSound, RequestSound
  <1> QED BY <1>1, <1>2, <1>3 DEF A!SelfRegistration

LEMMA SignUpKeeps == AccountsInv /\ A!SignUp => AccountsInv'
  <1> SUFFICES ASSUME AccountsInv, A!SignUp PROVE AccountsInv'
    OBVIOUS
  <1>0. RowsInv
    BY DEF AccountsInv
  <1>1. ASSUME NEW e \in Emails, A!StoreSignupToken(e) PROVE AccountsInv'
    <2>1. /\ held' = held \union
               {[id |-> issued + 1, kind |-> "signup", email |-> e, sub |-> None, user |-> None]}
          /\ proven' = proven \union {e}
          /\ UNCHANGED <<account, social, requests, session>>
      BY <1>1 DEF A!StoreSignupToken, A!Issue, A!rows
    <2>2. RowsInv'
      BY <1>0, <2>1, RowsStay DEF RowsInv, AccountsTypeOK
    <2>3. \A h \in held' : h \in held \/ SecretSound(h)'
      BY <2>1 DEF SecretSound
    <2> QED BY <2>1, <2>2, <2>3, SoundStays
  <1>2. ASSUME NEW r \in Requests, NEW h \in held, A!GetSignupToken(r, h) PROVE AccountsInv'
    <2>1. /\ requests' = [requests EXCEPT ![r] = [at |-> "signup", secret |-> h]]
          /\ h.kind = "signup"
          /\ UNCHANGED <<account, social, held, proven, session>>
      BY <1>2 DEF A!GetSignupToken, A!Begin, A!rows, A!histories
    <2>2. RowsInv'
      BY <1>0, <2>1, RowsStay DEF RowsInv, AccountsTypeOK
    <2> QED
      BY <1>0, <2>1, <2>2, SoundStays
         DEF RowsInv, AccountsTypeOK, AccountsInv, SecretSound, RequestSound
  <1>3. ASSUME NEW r \in Requests, NEW u \in Users, A!CompleteSignup(r, u) PROVE AccountsInv'
    <2> DEFINE e == requests[r].secret.email
    <2>1. /\ account' = [account EXCEPT ![u] = [email |-> e, password |-> TRUE, verified |-> TRUE]]
          /\ requests' = [requests EXCEPT ![r] =
               [at |-> "delete", secret |-> [A!NoSecret EXCEPT !.id = requests[r].secret.id]]]
          /\ UNCHANGED <<social, held, proven, session>>
      BY <1>3 DEF A!CompleteSignup, A!CreateUser, A!Deleting, A!histories
    <2>2. e \in proven
      BY <1>3 DEF A!CompleteSignup, AccountsInv, RequestSound
    <2>3. RowsInv'
      BY <1>0, <2>1, <2>2 DEF RowsInv, AccountsTypeOK, LinkedOnce, SignedInLinked, A!VerifiedIsProven
    <2> QED BY <1>0, <2>1, <2>3, SoundStays DEF RowsInv, AccountsTypeOK, RequestSound
  <1> QED BY <1>1, <1>2, <1>3 DEF A!SignUp

(* CreateSocialAccount, for an identity that is linked to nobody.           *)
LEMMA LinkKeeps ==
  ASSUME LinkedOnce, NEW u \in Users, NEW sub \in Subs, A!CreateSocialAccount(u, sub)
  PROVE  LinkedOnce' /\ social' = social \union {<<u, sub>>}
  <1>1. social' = social \union {<<u, sub>>} /\ \A v \in Users : <<v, sub>> \notin social
    BY DEF A!CreateSocialAccount, A!SubFree, A!ByProviderID
  <1> QED BY <1>1 DEF LinkedOnce

LEMMA GoogleSignInKeeps == AccountsInv /\ A!GoogleSignIn => AccountsInv'
  <1> SUFFICES ASSUME AccountsInv, A!GoogleSignIn PROVE AccountsInv'
    OBVIOUS
  <1>0. RowsInv
    BY DEF AccountsInv
  <1>1. CASE A!BeginAuthorization
    <2>1. /\ held' = held \union
               {[id |-> issued + 1, kind |-> "state", email |-> None, sub |-> None, user |-> None]}
          /\ UNCHANGED <<account, social, requests, proven, session>>
      BY <1>1 DEF A!BeginAuthorization, A!Issue, A!rows, A!histories
    <2>2. RowsInv'
      BY <1>0, <2>1, RowsStay DEF RowsInv, AccountsTypeOK
    <2>3. \A h \in held' : h \in held \/ SecretSound(h)'
      BY <2>1 DEF SecretSound
    <2> QED BY <2>1, <2>2, <2>3, SoundStays
  <1>2. ASSUME NEW r \in Requests, NEW h \in held, NEW sub \in Subs, NEW e \in Emails,
               NEW ok \in BOOLEAN, A!CompleteAuthorization(r, h, sub, e, ok)
        PROVE  AccountsInv'
    <2>1. /\ requests' = [requests EXCEPT ![r] =
               [at |-> "resolve", secret |-> [A!NoSecret EXCEPT !.email = e, !.sub = sub]]]
          /\ held' \subseteq held
          /\ proven' = proven \union {e}
          /\ UNCHANGED <<account, social, session>>
      BY <1>2 DEF A!CompleteAuthorization, A!Begin, A!Deleted, A!rows
    <2>2. RowsInv'
      BY <1>0, <2>1, RowsStay DEF RowsInv, AccountsTypeOK
    <2>3. \A q \in Requests : requests'[q] = requests[q] \/ RequestSound(requests[q])'
      BY <1>0, <2>1 DEF RowsInv, AccountsTypeOK, RequestSound, A!NoSecret
    <2> QED BY <2>1, <2>2, <2>3, SoundStays
  <1>3. ASSUME NEW r \in Requests, A!ResolveGoogleIdentity(r) PROVE AccountsInv'
    <2> DEFINE sub == requests[r].secret.sub
               e == requests[r].secret.email
    <2>1. /\ requests[r].at = "resolve"
          /\ requests' = [requests EXCEPT ![r] = A!NoRequest]
          /\ UNCHANGED <<account, proven, session>>
      BY <1>3 DEF A!ResolveGoogleIdentity, A!End, A!histories
    <2>2. e \in proven /\ sub \in Subs
      BY <2>1 DEF AccountsInv, RequestSound
    <2>3. \A q \in Requests : requests'[q] = requests[q] \/ RequestSound(requests[q])'
      BY <1>0, <2>1, IdleIsSound DEF RowsInv, AccountsTypeOK
    <2>4. ASSUME LinkedOnce', social \subseteq social',
                 NEW u, A!StoreGoogleCode(sub, e, u), u # None => <<u, sub>> \in social'
          PROVE  AccountsInv'
      <3>1. held' = held \union
              {[id |-> issued + 1, kind |-> "code", email |-> IF u = None THEN e ELSE None,
                sub |-> sub, user |-> u]}
        BY <2>4 DEF A!StoreGoogleCode, A!Issue
      <3>2. \A h \in held' : h \in held \/ SecretSound(h)'
        BY <2>1, <2>2, <2>4, <3>1 DEF SecretSound
      <3>3. RowsInv'
        BY <1>0, <2>1, <2>4 DEF RowsInv, AccountsTypeOK, SignedInLinked, A!VerifiedIsProven
      <3> QED BY <2>1, <2>3, <2>4, <3>2, <3>3, SoundStays
    <2>5. ASSUME NEW u \in Users, A!Resolved(sub, e, u)
          PROVE  LinkedOnce' /\ social \subseteq social' /\ <<u, sub>> \in social'
      <3>1. CASE u \in A!ByProviderID(sub) /\ UNCHANGED social
        BY <1>0, <3>1 DEF A!ByProviderID, RowsInv, LinkedOnce
      <3>2. CASE A!CreateSocialAccount(u, sub)
        BY <1>0, <2>2, <3>2, LinkKeeps DEF RowsInv
      <3> QED BY <2>5, <3>1, <3>2 DEF A!Resolved
    <2>6. ASSUME NEW u \in Users, A!Resolved(sub, e, u), A!StoreGoogleCode(sub, e, u)
          PROVE  AccountsInv'
      BY <2>4, <2>5, <2>6
    <2>7. CASE A!StoreGoogleCode(sub, e, None) /\ UNCHANGED social
      BY <1>0, <2>4, <2>7 DEF RowsInv, LinkedOnce
    <2> HIDE DEF sub, e
    <2> QED BY <1>3, <2>6, <2>7 DEF A!ResolveGoogleIdentity, sub, e
  <1>4. ASSUME NEW r \in Requests, NEW h \in held, NEW ok \in BOOLEAN,
               A!ExchangeGoogleCode(r, h, ok)
        PROVE  AccountsInv'
    <2>1. /\ h.kind = "code" /\ SecretSound(h)
          /\ requests' = [requests EXCEPT ![r] =
               [at |-> IF h.user # None THEN "signIn" ELSE "profile", secret |-> [h EXCEPT !.id = 0]]]
          /\ held' \subseteq held
          /\ UNCHANGED <<account, social, proven, session>>
      BY <1>4 DEF A!ExchangeGoogleCode, A!Begin, A!Deleted, A!rows, A!histories, AccountsInv
    <2>2. RowsInv'
      BY <1>0, <2>1, RowsStay DEF RowsInv, AccountsTypeOK
    <2>3. \A q \in Requests : requests'[q] = requests[q] \/ RequestSound(requests[q])'
      BY <1>0, <2>1 DEF RowsInv, AccountsTypeOK, RequestSound, SecretSound
    <2> QED BY <2>1, <2>2, <2>3, SoundStays
  <1>5. ASSUME NEW r \in Requests, A!SignIn(r) PROVE AccountsInv'
    <2>1. /\ session' = session \union {<<requests[r].secret.sub, requests[r].secret.user>>}
          /\ <<requests[r].secret.user, requests[r].secret.sub>> \in social
          /\ requests' = [requests EXCEPT ![r] = A!NoRequest]
          /\ UNCHANGED <<account, social, held, proven>>
      BY <1>5 DEF A!SignIn, A!End, A!rows, AccountsInv, RequestSound
    <2>2. RowsInv'
      BY <1>0, <2>1 DEF RowsInv, AccountsTypeOK, LinkedOnce, SignedInLinked, A!VerifiedIsProven
    <2> QED BY <1>0, <2>1, <2>2, IdleIsSound, SoundStays DEF RowsInv, AccountsTypeOK
  <1>6. ASSUME NEW r \in Requests, A!StorePending(r) PROVE AccountsInv'
    <2>1. /\ held' = held \union
               {[id |-> issued + 1, kind |-> "pending", email |-> requests[r].secret.email,
                 sub |-> requests[r].secret.sub, user |-> None]}
          /\ requests[r].secret.email \in proven /\ requests[r].secret.sub \in Subs
          /\ requests' = [requests EXCEPT ![r] = A!NoRequest]
          /\ UNCHANGED <<account, social, proven, session>>
      BY <1>6 DEF A!StorePending, A!Issue, A!End, A!rows, A!histories, AccountsInv, RequestSound
    <2>2. RowsInv'
      BY <1>0, <2>1, RowsStay DEF RowsInv, AccountsTypeOK
    <2>3. \A h \in held' : h \in held \/ SecretSound(h)'
      BY <2>1 DEF SecretSound
    <2> QED BY <1>0, <2>1, <2>2, <2>3, IdleIsSound, SoundStays DEF RowsInv, AccountsTypeOK
  <1>7. ASSUME NEW r \in Requests, NEW h \in held, A!GetPending(r, h) PROVE AccountsInv'
    <2>1. /\ requests' = [requests EXCEPT ![r] = [at |-> "google", secret |-> h]]
          /\ h.kind = "pending" /\ SecretSound(h)
          /\ UNCHANGED <<account, social, held, proven, session>>
      BY <1>7 DEF A!GetPending, A!Begin, A!rows, A!histories, AccountsInv
    <2>2. RowsInv'
      BY <1>0, <2>1, RowsStay DEF RowsInv, AccountsTypeOK
    <2> QED
      BY <1>0, <2>1, <2>2, SoundStays DEF RowsInv, AccountsTypeOK, SecretSound, RequestSound
  <1>8. ASSUME NEW r \in Requests, NEW u \in Users, A!CompleteGoogleSignup(r, u)
        PROVE  AccountsInv'
    <2> DEFINE h == requests[r].secret
    <2>1. /\ account' = [account EXCEPT ![u] =
               [email |-> h.email, password |-> FALSE, verified |-> TRUE]]
          /\ A!CreateSocialAccount(u, h.sub)
          /\ session' = session \union {<<h.sub, u>>}
          /\ requests' = [requests EXCEPT ![r] =
               [at |-> "delete", secret |-> [A!NoSecret EXCEPT !.id = h.id]]]
          /\ UNCHANGED <<held, proven>>
      BY <1>8 DEF A!CompleteGoogleSignup, A!CreateUser, A!Deleting
    <2>2. h.email \in proven /\ h.sub \in Subs
      BY <1>8 DEF A!CompleteGoogleSignup, AccountsInv, RequestSound
    <2> HIDE DEF h
    <2>3. LinkedOnce' /\ social' = social \union {<<u, h.sub>>}
      BY <1>0, <2>1, <2>2, LinkKeeps DEF RowsInv
    <2>4. AccountsTypeOK'
      BY <1>0, <2>1, <2>2 DEF RowsInv, AccountsTypeOK
    <2>5. SignedInLinked'
      <3> SUFFICES ASSUME NEW p \in session' PROVE <<p[2], p[1]>> \in social'
        BY DEF SignedInLinked
      <3>1. CASE p \in session
        BY <1>0, <2>3, <3>1 DEF RowsInv, SignedInLinked
      <3>2. CASE p = <<h.sub, u>>
        <4>1. p[1] = h.sub /\ p[2] = u
          BY <3>2
        <4> QED BY <2>3, <4>1
      <3> QED BY <2>1, <3>1, <3>2
    <2>6. A!VerifiedIsProven'
      BY <1>0, <2>1, <2>2 DEF RowsInv, AccountsTypeOK, A!VerifiedIsProven
    <2>7. \A q \in Requests : requests'[q] = requests[q] \/ RequestSound(requests[q])'
      BY <1>0, <2>1 DEF RowsInv, AccountsTypeOK, RequestSound
    <2> QED BY <2>1, <2>3, <2>4, <2>5, <2>6, <2>7, SoundStays DEF RowsInv
  <1> QED BY <1>1, <1>2, <1>3, <1>4, <1>5, <1>6, <1>7, <1>8 DEF A!GoogleSignIn

LEMMA AccountsNext == AccountsInv /\ [A!Next]_(A!vars) => AccountsInv'
  <1> SUFFICES ASSUME AccountsInv, [A!Next]_(A!vars) PROVE AccountsInv'
    OBVIOUS
  <1>0. RowsInv
    BY DEF AccountsInv
  <1>1. ASSUME held' \subseteq held, UNCHANGED <<account, social, proven, session>>,
               \/ UNCHANGED requests
               \/ \E r \in Requests : requests' = [requests EXCEPT ![r] = A!NoRequest]
        PROVE  AccountsInv'
    <2>1. RowsInv'
      BY <1>0, <1>1, RowsStay DEF RowsInv, AccountsTypeOK
    <2> QED BY <1>0, <1>1, <2>1, IdleIsSound, SoundStays DEF RowsInv, AccountsTypeOK
  <1>2. ASSUME NEW r \in Requests, A!Fail(r) PROVE AccountsInv'
    BY <1>1, <1>2 DEF A!Fail, A!End, A!rows, A!histories
  <1>3. ASSUME NEW r \in Requests, NEW ok \in BOOLEAN, A!DeleteSecret(r, ok) PROVE AccountsInv'
    BY <1>1, <1>3 DEF A!DeleteSecret, A!Deleted, A!End, A!rows, A!histories
  <1>4. ASSUME NEW h \in held, A!Expire(h) PROVE AccountsInv'
    BY <1>1, <1>4 DEF A!Expire, A!rows, A!histories
  <1>5. CASE UNCHANGED A!vars
    BY <1>1, <1>5 DEF A!vars, A!rows, A!histories
  <1> QED
    BY <1>2, <1>3, <1>4, <1>5, SelfRegistrationKeeps, SignUpKeeps, GoogleSignInKeeps DEF A!Next

LEMMA AccountsStep ==
  part = "account" /\ [AllNext]_allVars => part' = "account" /\ [A!Next]_(A!vars)
  BY DEF AllNext, allVars, shared, accountOwn, A!vars, A!rows, A!histories

AccountKept == part = "account" => AccountsInv

LEMMA AccountsKept == AllSpec => []AccountKept
  <1>1. AccountKept /\ [AllNext]_allVars => AccountKept'
    BY AccountsStep, AccountsNext DEF AccountKept, AllNext, allVars
  <1>2. AllInit => AccountKept
    BY AccountsInit DEF AllInit, AccountKept
  <1> QED BY <1>1, <1>2, PTL DEF AllSpec

(* Two redemptions of one Google code or pending sign-up, or an old one after *)
(* the address was taken, never sign one identity in to two accounts.       *)
THEOREM GoogleIdentities == AllSpec => []OneAccountPerGoogleIdentity
  <1>1. AccountKept => OneAccountPerGoogleIdentity
    <2> SUFFICES ASSUME RowsInv, NEW p \in session, NEW q \in session, p[1] = q[1]
                 PROVE  p[2] = q[2] /\ <<p[2], p[1]>> \in social
      BY DEF AccountKept, AccountsInv, OneAccountPerGoogleIdentity, A!OneAccountPerGoogleIdentity
    <2>1. <<p[2], p[1]>> \in social /\ <<q[2], q[1]>> \in social
      BY DEF RowsInv, SignedInLinked
    <2>2. <<p[2], p[1]>> = <<q[2], q[1]>>
      BY <2>1 DEF RowsInv, LinkedOnce
    <2> QED BY <2>1, <2>2
  <1> QED BY <1>1, AccountsKept, PTL

(* No route to an account, whatever it overlaps, marks an address verified   *)
(* that nobody has proved.                                                 *)
THEOREM VerifiedAddresses == AllSpec => []VerifiedIsProven
  <1>1. AccountKept => VerifiedIsProven
    BY DEF AccountKept, AccountsInv, RowsInv, VerifiedIsProven
  <1> QED BY <1>1, AccountsKept, PTL
-----------------------------------------------------------------------------
(* OneTimeCode.  While a code stands there is a limit to how often the        *)
(* attempts at it can start again, and so to what is left of them; once it    *)
(* is gone only the requests that had read it have a guess left, each one.   *)

Attempts(n) == MaxAttempts * n
Allowed == Attempts(Cardinality(Requests) + 2)

Stands == redis["otp"].there
Forgetting == {r \in Requests : requests[r].at = "reset"}
Late(c) == {r \in Requests : requests[r].at = "count" /\ requests[r].code = c}

AttemptsLeft ==
  IF redis["attempts"].value < MaxAttempts THEN MaxAttempts - redis["attempts"].value ELSE 0
Older ==
  IF redis["attempts"].until # 0 /\ redis["attempts"].until < redis["otp"].until THEN 1 ELSE 0
Restarts == Cardinality(Forgetting) + Older

CodeRequest ==
  [at : {"idle", "issue", "reset", "count", "destroy", "spend"}, code : 0..MaxCodes]
CodeKey == [there : BOOLEAN, value : Nat, until : Nat]

CodeTypeOK ==
  /\ now \in Nat /\ issued \in 0..MaxCodes
  /\ guesses \in [1..MaxCodes -> Nat]
  /\ requests \in [Requests -> CodeRequest]
  /\ redis \in [C!Keys -> CodeKey]

CodesNumbered ==
  /\ \A c \in 1..MaxCodes : c > issued => guesses[c] = 0
  /\ Stands => issued # 0 /\ redis["otp"].value = issued
  /\ \A r \in Requests : requests[r].at = "count" => requests[r].code \in 1..issued

DeadlinesSet ==
  /\ OTPTTL = 0 => redis["attempts"].until = 0
  /\ OTPTTL # 0 /\ Stands => redis["otp"].until # 0 /\ redis["otp"].until <= now + OTPTTL
  /\ OTPTTL = 0 /\ Stands => redis["otp"].until = 0
  /\ ~redis["attempts"].there => redis["attempts"].value = 0 /\ redis["attempts"].until = 0

AttemptsBounded == Stands => guesses[issued] + AttemptsLeft + Attempts(Restarts) <= Allowed
LateBounded ==
  \A c \in 1..issued : guesses[c] + Cardinality(Late(c)) <= Allowed + Cardinality(Requests)

CodeBase == CodeTypeOK /\ CodesNumbered /\ DeadlinesSet
CodeInv == CodeBase /\ AttemptsBounded /\ LateBounded

LEMMA Numbers ==
  /\ IsFiniteSet(Requests) /\ Cardinality(Requests) \in Nat /\ Allowed \in Nat
  /\ MaxAttempts \in Nat /\ OTPTTL \in Nat /\ Cooldown \in Nat /\ Hour \in Nat /\ MaxCodes \in Nat
  BY CodeAssumption, FS_CardinalityType DEF Allowed, Attempts

LEMMA AttemptsAddUp ==
  ASSUME NEW m \in Nat, NEW n \in Nat, m <= n
  PROVE  /\ Attempts(m) \in Nat /\ Attempts(m) <= Attempts(n)
         /\ Attempts(m + 1) = Attempts(m) + MaxAttempts
  <1>1. \A a, b \in Nat : MaxAttempts * (a + b) = MaxAttempts * a + MaxAttempts * b
    BY Numbers
  <1>2. \A a \in Nat : MaxAttempts * a \in Nat
    BY Numbers
  <1>3. n - m \in Nat /\ n = m + (n - m)
    OBVIOUS
  <1>4. MaxAttempts * n = MaxAttempts * m + MaxAttempts * (n - m)
    BY <1>1, <1>3
  <1>5. MaxAttempts * m <= MaxAttempts * n
    BY <1>2, <1>3, <1>4
  <1>6. MaxAttempts * (m + 1) = MaxAttempts * m + MaxAttempts
    BY Numbers
  <1> QED BY <1>2, <1>5, <1>6 DEF Attempts

CountsInRange ==
  /\ IsFiniteSet(Forgetting) /\ Cardinality(Forgetting) \in Nat
  /\ Cardinality(Forgetting) <= Cardinality(Requests)
  /\ \A c : /\ IsFiniteSet(Late(c)) /\ Cardinality(Late(c)) \in Nat
            /\ Cardinality(Late(c)) <= Cardinality(Requests)
  /\ Older \in {0, 1} /\ Restarts \in Nat /\ AttemptsLeft \in 0..MaxAttempts

LEMMA Counts == CodeTypeOK => CountsInRange
  <1> SUFFICES ASSUME CodeTypeOK PROVE CountsInRange
    OBVIOUS
  <1>1. Forgetting \subseteq Requests /\ \A c : Late(c) \subseteq Requests
    BY DEF Forgetting, Late
  <1>2. \A S : S \subseteq Requests => /\ IsFiniteSet(S) /\ Cardinality(S) \in Nat
                                       /\ Cardinality(S) <= Cardinality(Requests)
    BY Numbers, FS_Subset, FS_CardinalityType
  <1>3. Older \in {0, 1}
    BY DEF Older
  <1>4. redis["attempts"].value \in Nat
    BY DEF CodeTypeOK, CodeKey, C!Keys
  <1>5. AttemptsLeft \in 0..MaxAttempts
    <2>1. PICK v \in Nat : v = redis["attempts"].value
      BY <1>4
    <2>2. MaxAttempts \in Nat
      BY Numbers
    <2> QED BY <2>1, <2>2 DEF AttemptsLeft
  <1> QED BY <1>1, <1>2, <1>3, <1>5 DEF Restarts, CountsInRange

LEMMA CountsAfter == CodeTypeOK' => CountsInRange'
  BY Counts, PTL

LEMMA CodeInit == C!Init => CodeInv
  <1> SUFFICES ASSUME C!Init PROVE CodeInv
    OBVIOUS
  <1>1. CodeTypeOK /\ CodesNumbered /\ DeadlinesSet
    BY Numbers DEF C!Init, C!Idle, C!EmptyStore, C!NoKey, C!Keys, CodeTypeOK, CodeRequest, CodeKey,
                   CodesNumbered, DeadlinesSet, Stands
  <1>2. ~Stands /\ issued = 0
    BY DEF C!Init, C!EmptyStore, C!NoKey, C!Keys, Stands
  <1>3. 1..issued = {}
    BY <1>2
  <1> QED BY <1>1, <1>2, <1>3 DEF CodeInv, CodeBase, AttemptsBounded, LateBounded

(* As long as the code stands, what is left never grows: attempts start again *)
(* at the cost of a restart.                                               *)
LEMMA LeftAddsUp ==
  ASSUME NEW m \in Nat, NEW n \in Nat, NEW g \in Nat, NEW h \in Nat,
         NEW k \in 0..MaxAttempts, NEW l \in 0..MaxAttempts,
         g + l + Attempts(m) <= Allowed,
         (h + k <= g + l /\ n <= m) \/ (h = g /\ n + 1 <= m)
  PROVE  h + k + Attempts(n) <= Allowed
  <1>1. /\ MaxAttempts \in Nat /\ Allowed \in Nat
        /\ Attempts(m) \in Nat /\ Attempts(n) \in Nat
    BY Numbers, AttemptsAddUp
  <1>2. CASE h + k <= g + l /\ n <= m
    <2>1. Attempts(n) <= Attempts(m)
      BY <1>2, AttemptsAddUp
    <2> QED BY <1>1, <1>2, <2>1
  <1>3. CASE h = g /\ n + 1 <= m
    <2>1. n <= m /\ n <= n + 1 /\ n + 1 \in Nat
      BY <1>3
    <2>2. Attempts(n + 1) = Attempts(n) + MaxAttempts /\ Attempts(n + 1) <= Attempts(m)
      BY <1>3, <2>1, AttemptsAddUp
    <2> QED BY <1>1, <1>3, <2>2
  <1> QED BY <1>2, <1>3

LEMMA LeftFalls ==
  ASSUME CodeInv, CodeBase', Stands, issued' = issued,
         \/ /\ guesses'[issued] + AttemptsLeft' <= guesses[issued] + AttemptsLeft
            /\ Restarts' <= Restarts
         \/ guesses' = guesses /\ Restarts' + 1 <= Restarts
  PROVE  AttemptsBounded'
  <1>1. /\ Restarts \in Nat /\ AttemptsLeft \in 0..MaxAttempts
        /\ Restarts' \in Nat /\ AttemptsLeft' \in 0..MaxAttempts
    BY Counts, CountsAfter DEF CodeInv, CodeBase, CountsInRange
  <1>2. issued \in 1..MaxCodes
    BY Numbers DEF CodeInv, CodeBase, CodesNumbered, CodeTypeOK
  <1>3. guesses[issued] \in Nat /\ guesses'[issued] \in Nat
    BY <1>2 DEF CodeInv, CodeBase, CodeTypeOK
  <1>4. guesses[issued] + AttemptsLeft + Attempts(Restarts) <= Allowed
    BY DEF CodeInv, AttemptsBounded
  <1>5. guesses'[issued] + AttemptsLeft' + Attempts(Restarts') <= Allowed
    BY <1>1, <1>3, <1>4, LeftAddsUp
  <1> QED BY <1>5 DEF AttemptsBounded

(* Nobody comes to have read a code but the one that stands. *)
LEMMA LateStays ==
  ASSUME CodeInv, CodeBase', issued <= issued', guesses' = guesses,
         \A r \in Requests : requests'[r].at = "count" =>
           requests'[r] = requests[r] \/ (Stands /\ requests'[r].code = issued)
  PROVE  LateBounded'
  <1>1. /\ Allowed \in Nat /\ MaxAttempts \in Nat /\ Cardinality(Requests) \in Nat
        /\ issued \in Nat /\ issued' \in 0..MaxCodes /\ MaxCodes \in Nat
    BY Numbers DEF CodeInv, CodeBase, CodeTypeOK
  <1>2. \A c : /\ IsFiniteSet(Late(c)) /\ Cardinality(Late(c)) \in Nat /\ Cardinality(Late(c)') \in Nat
               /\ Cardinality(Late(c)') <= Cardinality(Requests)
    BY Counts, CountsAfter DEF CodeInv, CodeBase, CountsInRange
  <1>3. ASSUME NEW c \in 1..issued'
        PROVE  guesses[c] + Cardinality(Late(c)') <= Allowed + Cardinality(Requests)
    <2>1. c \in 1..MaxCodes /\ guesses[c] \in Nat
      BY <1>1 DEF CodeInv, CodeBase, CodeTypeOK
    <2>2. CASE c > issued
      <3>1. guesses[c] = 0
        BY <2>1, <2>2 DEF CodeInv, CodeBase, CodesNumbered
      <3> QED BY <1>1, <1>2, <3>1
    <2>3. CASE Stands /\ c = issued
      <3>1. guesses[c] + AttemptsLeft + Attempts(Restarts) <= Allowed
        BY <2>3 DEF CodeInv, AttemptsBounded
      <3>2. AttemptsLeft \in Nat /\ Attempts(Restarts) \in Nat
        <4>1. AttemptsLeft \in 0..MaxAttempts /\ Restarts \in Nat
          BY Counts DEF CodeInv, CodeBase, CountsInRange
        <4> QED BY <1>1, <4>1, AttemptsAddUp
      <3>3. guesses[c] <= Allowed
        BY <1>1, <2>1, <3>1, <3>2
      <3> QED BY <1>1, <1>2, <2>1, <3>3
    <2>4. CASE ~(c > issued) /\ ~(Stands /\ c = issued)
      <3>1. c \in 1..issued
        BY <1>1, <2>1, <2>4
      <3>2. Late(c)' \subseteq Late(c)
        BY <2>4 DEF Late
      <3>3. Cardinality(Late(c)') <= Cardinality(Late(c))
        BY <1>2, <3>2, FS_Subset
      <3>4. guesses[c] + Cardinality(Late(c)) <= Allowed + Cardinality(Requests)
        BY <3>1 DEF CodeInv, LateBounded
      <3> QED BY <1>1, <1>2, <2>1, <3>3, <3>4
    <2> QED BY <2>2, <2>3, <2>4
  <1> QED BY <1>3 DEF LateBounded

(* Whoever had read a code and compares it now had not compared it before. *)
LEMMA LateCounted ==
  ASSUME CodeInv, CodeBase', issued' = issued,
         NEW r \in Requests, requests[r].at = "count", requests'[r].at # "count",
         \A s \in Requests \ {r} : requests'[s] = requests[s],
         guesses' = guesses \/ guesses' = [guesses EXCEPT ![requests[r].code] = @ + 1]
  PROVE  LateBounded'
  <1>1. /\ Allowed \in Nat /\ MaxAttempts \in Nat /\ Cardinality(Requests) \in Nat
        /\ issued \in 0..MaxCodes /\ MaxCodes \in Nat
    BY Numbers DEF CodeInv, CodeBase, CodeTypeOK
  <1>2. \A c : /\ IsFiniteSet(Late(c)) /\ Cardinality(Late(c)) \in Nat /\ Cardinality(Late(c)') \in Nat
    BY Counts, CountsAfter DEF CodeInv, CodeBase, CountsInRange
  <1>3. ASSUME NEW c \in 1..issued
        PROVE  guesses'[c] + Cardinality(Late(c)') <= Allowed + Cardinality(Requests)
    <2>1. c \in 1..MaxCodes /\ guesses[c] \in Nat /\ guesses'[c] \in Nat
      BY <1>1 DEF CodeInv, CodeBase, CodeTypeOK
    <2>2. guesses[c] + Cardinality(Late(c)) <= Allowed + Cardinality(Requests)
      BY DEF CodeInv, LateBounded
    <2>3. CASE c = requests[r].code
      <3>1. r \in Late(c) /\ Late(c)' = Late(c) \ {r}
        BY <2>3 DEF Late
      <3>2. Cardinality(Late(c)') = Cardinality(Late(c)) - 1
        BY <1>2, <3>1, FS_RemoveElement
      <3>3. guesses'[c] <= guesses[c] + 1
        BY <2>1 DEF CodeInv, CodeBase, CodeTypeOK
      <3> QED BY <1>1, <1>2, <2>1, <2>2, <3>2, <3>3
    <2>4. CASE c # requests[r].code
      <3>1. Late(c)' \subseteq Late(c)
        BY <2>4 DEF Late
      <3>2. Cardinality(Late(c)') <= Cardinality(Late(c))
        BY <1>2, <3>1, FS_Subset
      <3>3. guesses'[c] = guesses[c]
        BY <2>1, <2>4 DEF CodeInv, CodeBase, CodeTypeOK
      <3> QED BY <1>1, <1>2, <2>1, <2>2, <3>2, <3>3
    <2> QED BY <2>3, <2>4
  <1> QED BY <1>3 DEF LateBounded

LEMMA CodeRequestMoves ==
  ASSUME CodeTypeOK, NEW r \in Requests, NEW q \in CodeRequest,
         requests' = [requests EXCEPT ![r] = q]
  PROVE  /\ requests' \in [Requests -> CodeRequest] /\ requests'[r] = q
         /\ \A s \in Requests \ {r} : requests'[s] = requests[s]
  BY DEF CodeTypeOK

LEMMA CodeSteps ==
  ASSUME CodeTypeOK, NEW r \in Requests
  PROVE  /\ C!End(r) => /\ requests' \in [Requests -> CodeRequest] /\ requests'[r].at = "idle"
                        /\ \A s \in Requests \ {r} : requests'[s] = requests[s]
         /\ \A step \in {"issue", "reset", "spend", "destroy"} : C!Goto(r, step) =>
              /\ requests' \in [Requests -> CodeRequest] /\ requests'[r].at = step
              /\ \A s \in Requests \ {r} : requests'[s] = requests[s]
  <1>1. C!Idle \in CodeRequest /\ C!Idle.at = "idle"
    BY Numbers DEF C!Idle, CodeRequest
  <1>2. ASSUME C!End(r)
        PROVE  /\ requests' \in [Requests -> CodeRequest] /\ requests'[r].at = "idle"
               /\ \A s \in Requests \ {r} : requests'[s] = requests[s]
    BY <1>1, <1>2, CodeRequestMoves DEF C!End
  <1>3. ASSUME NEW step \in {"issue", "reset", "spend", "destroy"}, C!Goto(r, step)
        PROVE  /\ requests' \in [Requests -> CodeRequest] /\ requests'[r].at = step
               /\ \A s \in Requests \ {r} : requests'[s] = requests[s]
    <2> DEFINE q == [requests[r] EXCEPT !.at = step]
    <2>1. requests[r] \in CodeRequest
      BY DEF CodeTypeOK
    <2>2. q \in CodeRequest /\ q.at = step
      BY <2>1 DEF CodeRequest
    <2>3. requests' = [requests EXCEPT ![r] = q]
      BY <1>3 DEF C!Goto
    <2> HIDE DEF q
    <2> QED BY <2>2, <2>3, CodeRequestMoves
  <1> QED BY <1>2, <1>3

LEMMA CodeKeys ==
  CodeTypeOK => /\ redis["otp"] \in CodeKey /\ redis["attempts"] \in CodeKey
                /\ DOMAIN redis = C!Keys /\ {"otp", "attempts"} \subseteq C!Keys
  BY DEF CodeTypeOK, C!Keys

(* A step that leaves the code and its attempts alone. *)
LEMMA QuietKeeps ==
  ASSUME CodeInv, redis' \in [C!Keys -> CodeKey], redis'["otp"] = redis["otp"],
         redis'["attempts"] = redis["attempts"], UNCHANGED <<now, issued, guesses>>,
         requests' \in [Requests -> CodeRequest],
         \A r \in Requests : \/ requests'[r] = requests[r]
                             \/ requests'[r].at \notin {"reset", "count"}
                             \/ requests'[r].at = "count" /\ Stands /\ requests'[r].code = issued
  PROVE  CodeInv'
  <1>1. CodeTypeOK'
    BY DEF CodeInv, CodeBase, CodeTypeOK
  <1>2. CodesNumbered' /\ DeadlinesSet'
    BY DEF CodeInv, CodeBase, CodeTypeOK, CodesNumbered, DeadlinesSet, Stands
  <1>3. CodeBase'
    BY <1>1, <1>2 DEF CodeBase
  <1>4. LateBounded'
    BY <1>3, LateStays DEF CodeInv, CodeBase, CodeTypeOK
  <1>5. AttemptsBounded'
    <2>1. CASE Stands
      <3>1. Forgetting' \subseteq Forgetting /\ Older' = Older /\ AttemptsLeft' = AttemptsLeft
        BY DEF Forgetting, Older, AttemptsLeft
      <3>2. /\ IsFiniteSet(Forgetting) /\ Cardinality(Forgetting) \in Nat
            /\ Cardinality(Forgetting') \in Nat /\ Older \in {0, 1} /\ AttemptsLeft \in 0..MaxAttempts
        BY <1>3, Counts, CountsAfter DEF CodeInv, CodeBase, CountsInRange
      <3>3. Cardinality(Forgetting') <= Cardinality(Forgetting)
        BY <3>1, <3>2, FS_Subset
      <3>4. Restarts' <= Restarts
        BY <3>1, <3>2, <3>3 DEF Restarts
      <3>5. guesses'[issued] + AttemptsLeft' <= guesses[issued] + AttemptsLeft
        <4>1. guesses[issued] \in Nat /\ MaxAttempts \in Nat
          BY <2>1, Numbers DEF CodeInv, CodeBase, CodeTypeOK, CodesNumbered
        <4> QED BY <3>1, <3>2, <4>1
      <3> QED BY <1>3, <2>1, <3>4, <3>5, LeftFalls
    <2>2. CASE ~Stands
      BY <2>2 DEF AttemptsBounded, Stands
    <2> QED BY <2>1, <2>2
  <1> QED BY <1>3, <1>4, <1>5 DEF CodeInv

(* What INCR, and a PEXPIRE after the first, make of a key. *)
LEMMA CodeIncr ==
  ASSUME NEW store \in [C!Keys -> CodeKey], NEW k \in C!Keys
  PROVE  /\ C!Incr(store, k) \in [C!Keys -> CodeKey]
         /\ C!Incr(store, k)[k] =
              [there |-> TRUE, value |-> store[k].value + 1, until |-> store[k].until]
         /\ \A other \in C!Keys \ {k} : C!Incr(store, k)[other] = store[other]
  <1>1. store[k] \in CodeKey
    OBVIOUS
  <1> DEFINE q == [there |-> TRUE, value |-> store[k].value + 1, until |-> store[k].until]
             once == [store EXCEPT ![k].there = TRUE]
  <1>2. q \in CodeKey
    BY <1>1 DEF CodeKey
  <1>3. once[k] = [there |-> TRUE, value |-> store[k].value, until |-> store[k].until]
    BY <1>1 DEF CodeKey
  <1>4. once = [store EXCEPT ![k] = once[k]]
    OBVIOUS
  <1>5. C!Incr(store, k) = [once EXCEPT ![k] = [once[k] EXCEPT !.value = @ + 1]]
    BY DEF C!Incr
  <1>6. C!Incr(store, k) = [store EXCEPT ![k] = q]
    BY <1>3, <1>5
  <1> HIDE DEF q
  <1>7. C!Incr(store, k) \in [C!Keys -> CodeKey] /\ C!Incr(store, k)[k] = q
    BY <1>2, <1>6
  <1> QED BY <1>6, <1>7 DEF q

LEMMA CodeStart ==
  ASSUME CodeInv, NEW r \in Requests, NEW expires \in BOOLEAN, C!StartSignup(r, expires)
  PROVE  CodeInv'
  <1> DEFINE first == C!SetNX(redis, "cooldown", 1, C!Deadline(now, Cooldown))
             counted == C!Counted(first, "sends", Hour, expires)
  <1>1. /\ CodeTypeOK /\ redis' = counted /\ UNCHANGED <<now, issued, guesses>>
        /\ C!Goto(r, "issue") \/ requests' = requests
    BY DEF C!StartSignup, CodeInv, CodeBase
  <1>2. redis \in [C!Keys -> CodeKey] /\ now \in Nat
    BY <1>1 DEF CodeTypeOK
  <1>3. first \in [C!Keys -> CodeKey] /\ \A k \in {"otp", "attempts"} : first[k] = redis[k]
    <2>1. C!Deadline(now, Cooldown) \in Nat
      BY <1>2, Numbers DEF C!Deadline
    <2> QED BY <1>2, <2>1 DEF C!SetNX, C!Set, C!Keys, CodeKey
  <1> HIDE DEF first
  <1>4. counted \in [C!Keys -> CodeKey] /\ \A k \in {"otp", "attempts"} : counted[k] = first[k]
    <2>1. C!Deadline(now, Hour) \in Nat
      BY <1>2, Numbers DEF C!Deadline
    <2>2. /\ C!Incr(first, "sends") \in [C!Keys -> CodeKey]
          /\ \A k \in {"otp", "attempts"} : C!Incr(first, "sends")[k] = first[k]
      BY <1>3, CodeIncr DEF C!Keys
    <2> QED BY <2>1, <2>2 DEF C!Counted, C!Expire, C!Keys, CodeKey
  <1> HIDE DEF counted
  <1>5. requests' \in [Requests -> CodeRequest]
    BY <1>1, CodeSteps DEF CodeTypeOK
  <1>6. \A s \in Requests : requests'[s] = requests[s] \/ requests'[s].at \notin {"reset", "count"}
    BY <1>1, CodeSteps
  <1> QED BY <1>1, <1>3, <1>4, <1>5, <1>6, QuietKeeps, CodeKeys

LEMMA CodeRead ==
  ASSUME CodeInv, NEW r \in Requests, C!ReadCode(r)
  PROVE  CodeInv'
  <1> DEFINE q == [at |-> "count", code |-> issued]
  <1>1. CodeTypeOK /\ Stands /\ redis["otp"].value = issued
    BY DEF C!ReadCode, C!Exists, Stands, CodeInv, CodeBase, CodesNumbered
  <1>2. requests' = [requests EXCEPT ![r] = q] /\ UNCHANGED <<now, redis, issued, guesses>>
    BY <1>1 DEF C!ReadCode, C!Get
  <1>3. q \in CodeRequest /\ q.at = "count" /\ q.code = issued
    BY <1>1 DEF CodeTypeOK, CodeRequest
  <1> HIDE DEF q
  <1>4. /\ requests' \in [Requests -> CodeRequest] /\ requests'[r] = q
        /\ \A s \in Requests \ {r} : requests'[s] = requests[s]
    BY <1>1, <1>2, <1>3, CodeRequestMoves
  <1>5. \A s \in Requests : \/ requests'[s] = requests[s]
                            \/ requests'[s].at = "count" /\ Stands /\ requests'[s].code = issued
    BY <1>1, <1>3, <1>4
  <1> QED BY <1>1, <1>2, <1>4, <1>5, QuietKeeps DEF CodeTypeOK

LEMMA CodeEnds ==
  ASSUME CodeInv, NEW r \in Requests, C!End(r), UNCHANGED <<now, redis, issued, guesses>>
  PROVE  CodeInv'
  <1>1. CodeTypeOK
    BY DEF CodeInv, CodeBase
  <1>2. \A s \in Requests : requests'[s] = requests[s] \/ requests'[s].at \notin {"reset", "count"}
    BY <1>1, CodeSteps
  <1> QED BY <1>1, <1>2, CodeSteps, QuietKeeps DEF CodeTypeOK

LEMMA CodeWaits ==
  ASSUME CodeInv, UNCHANGED <<now, redis, issued, guesses, requests>>
  PROVE  CodeInv'
  BY QuietKeeps DEF CodeInv, CodeBase, CodeTypeOK

LEMMA CodeIssued ==
  ASSUME CodeInv, NEW r \in Requests, C!IssueCode(r)
  PROVE  CodeInv'
  <1> DEFINE end == C!Deadline(now, OTPTTL)
             key == [there |-> TRUE, value |-> issued + 1, until |-> end]
  <1>1. /\ CodeTypeOK /\ CodesNumbered /\ DeadlinesSet
        /\ issued < MaxCodes /\ issued' = issued + 1 /\ UNCHANGED <<now, guesses>>
        /\ redis' = [redis EXCEPT !["otp"] = key] /\ C!Goto(r, "reset")
    BY DEF C!IssueCode, C!Set, CodeInv, CodeBase
  <1>2. /\ issued \in Nat /\ issued' \in 1..MaxCodes /\ now \in Nat /\ OTPTTL \in Nat
        /\ MaxCodes \in Nat /\ MaxAttempts \in Nat
    BY <1>1, Numbers DEF CodeTypeOK
  <1>3. /\ end \in Nat
        /\ OTPTTL = 0 => end = 0
        /\ OTPTTL # 0 => end # 0 /\ end <= now + OTPTTL
    BY <1>2 DEF C!Deadline
  <1> HIDE DEF end
  <1>4. key \in CodeKey /\ key.there /\ key.value = issued + 1 /\ key.until = end
    BY <1>2, <1>3 DEF CodeKey
  <1> HIDE DEF key
  <1>5. redis' \in [C!Keys -> CodeKey] /\ redis'["otp"] = key /\ redis'["attempts"] = redis["attempts"]
    BY <1>1, <1>4, CodeKeys DEF CodeTypeOK
  <1>6. /\ requests' \in [Requests -> CodeRequest] /\ requests'[r].at = "reset"
        /\ \A s \in Requests \ {r} : requests'[s] = requests[s]
    BY <1>1, CodeSteps
  <1>7. CodeTypeOK'
    BY <1>1, <1>2, <1>5, <1>6 DEF CodeTypeOK
  <1>8. CodesNumbered'
    BY <1>1, <1>2, <1>4, <1>5, <1>6 DEF CodesNumbered, Stands
  <1>9. DeadlinesSet'
    BY <1>1, <1>3, <1>4, <1>5 DEF DeadlinesSet, Stands
  <1>10. CodeBase'
    BY <1>7, <1>8, <1>9 DEF CodeBase
  <1>11. LateBounded'
    <2>1. issued <= issued' /\ guesses' = guesses
      BY <1>1, <1>2
    <2>2. \A s \in Requests : requests'[s].at = "count" => requests'[s] = requests[s]
      BY <1>6
    <2> QED BY <1>10, <2>1, <2>2, LateStays
  <1>12. AttemptsBounded'
    <2>1. guesses'[issued'] = 0
      BY <1>1, <1>2 DEF CodesNumbered
    <2>2. AttemptsLeft' \in 0..MaxAttempts /\ Restarts' \in Nat /\ Restarts' <= Cardinality(Requests) + 1
      <3>1. CountsInRange'
        BY <1>7, CountsAfter
      <3>2. Cardinality(Requests) \in Nat
        BY Numbers
      <3> QED BY <3>1, <3>2 DEF CountsInRange, Restarts
    <2>3. 0 + AttemptsLeft' + Attempts(Restarts') <= Allowed
      <3>1. Cardinality(Requests) + 1 \in Nat /\ Cardinality(Requests) + 2 = (Cardinality(Requests) + 1) + 1
        BY Numbers
      <3>2. /\ Attempts(Restarts') \in Nat /\ Attempts(Cardinality(Requests) + 1) \in Nat
            /\ Attempts(Restarts') <= Attempts(Cardinality(Requests) + 1)
        BY <2>2, <3>1, AttemptsAddUp
      <3>3. Attempts((Cardinality(Requests) + 1) + 1) = Attempts(Cardinality(Requests) + 1) + MaxAttempts
        BY <3>1, AttemptsAddUp
      <3>4. Allowed = Attempts(Cardinality(Requests) + 1) + MaxAttempts
        BY <3>1, <3>3 DEF Allowed
      <3> QED BY <1>2, <2>2, <3>2, <3>4
    <2> QED BY <2>1, <2>3 DEF AttemptsBounded
  <1> QED BY <1>10, <1>11, <1>12 DEF CodeInv

LEMMA CodeForgets ==
  ASSUME CodeInv, NEW r \in Requests, NEW deleted \in BOOLEAN, C!ForgetAttempts(r, deleted)
  PROVE  CodeInv'
  <1>1. CASE ~deleted
    BY <1>1, CodeEnds DEF C!ForgetAttempts
  <1>2. CASE deleted
    <2>1. /\ CodeTypeOK /\ CodesNumbered /\ DeadlinesSet
          /\ requests[r].at = "reset" /\ redis' = C!Del(redis, {"attempts"}) /\ C!End(r)
          /\ UNCHANGED <<now, issued, guesses>>
      BY <1>2 DEF C!ForgetAttempts, C!At, CodeInv, CodeBase
    <2>2. C!NoKey \in CodeKey /\ ~C!NoKey.there /\ C!NoKey.value = 0 /\ C!NoKey.until = 0
      BY DEF C!NoKey, CodeKey
    <2>3. redis' \in [C!Keys -> CodeKey] /\ redis'["otp"] = redis["otp"] /\ redis'["attempts"] = C!NoKey
      BY <2>1, <2>2, CodeKeys DEF C!Del, CodeTypeOK
    <2>4. /\ requests' \in [Requests -> CodeRequest] /\ requests'[r].at = "idle"
          /\ \A s \in Requests \ {r} : requests'[s] = requests[s]
      BY <2>1, CodeSteps
    <2>5. CodeBase'
      <3>1. CodeTypeOK'
        BY <2>1, <2>3, <2>4 DEF CodeTypeOK
      <3>2. CodesNumbered'
        BY <2>1, <2>3, <2>4 DEF CodesNumbered, Stands
      <3>3. DeadlinesSet'
        BY <2>1, <2>2, <2>3 DEF DeadlinesSet, Stands
      <3> QED BY <3>1, <3>2, <3>3 DEF CodeBase
    <2>6. LateBounded'
      <3>1. \A s \in Requests : requests'[s].at = "count" => requests'[s] = requests[s]
        BY <2>4
      <3>2. issued <= issued'
        BY <2>1 DEF CodeTypeOK
      <3> QED BY <2>1, <2>5, <3>1, <3>2, LateStays
    <2>7. AttemptsBounded'
      <3>1. CASE Stands
        <4>1. Forgetting' = Forgetting \ {r} /\ r \in Forgetting
          BY <2>1, <2>4 DEF Forgetting
        <4>2. Older' = 0
          BY <2>2, <2>3 DEF Older
        <4>3. /\ IsFiniteSet(Forgetting) /\ Cardinality(Forgetting) \in Nat /\ Older \in {0, 1}
          BY <2>1, Counts DEF CountsInRange
        <4>4. Cardinality(Forgetting') = Cardinality(Forgetting) - 1
          BY <4>1, <4>3, FS_RemoveElement
        <4>5. Restarts' + 1 <= Restarts
          BY <4>2, <4>3, <4>4 DEF Restarts
        <4> QED BY <2>1, <2>5, <3>1, <4>5, LeftFalls
      <3>2. CASE ~Stands
        BY <2>3, <3>2 DEF AttemptsBounded, Stands
      <3> QED BY <3>1, <3>2
    <2> QED BY <2>5, <2>6, <2>7 DEF CodeInv
  <1> QED BY <1>1, <1>2

LEMMA CodeDeleted ==
  ASSUME CodeInv, NEW r \in Requests, NEW deleted \in BOOLEAN, C!DeleteCode(r, deleted)
  PROVE  CodeInv'
  <1>1. CASE ~deleted
    BY <1>1, CodeEnds DEF C!DeleteCode
  <1>2. CASE deleted
    <2>1. /\ CodeTypeOK /\ CodesNumbered /\ DeadlinesSet
          /\ redis' = C!Del(redis, {"otp", "attempts"}) /\ C!End(r)
          /\ UNCHANGED <<now, issued, guesses>>
      BY <1>2 DEF C!DeleteCode, CodeInv, CodeBase
    <2>2. C!NoKey \in CodeKey /\ ~C!NoKey.there /\ C!NoKey.value = 0 /\ C!NoKey.until = 0
      BY DEF C!NoKey, CodeKey
    <2>3. redis' \in [C!Keys -> CodeKey] /\ redis'["otp"] = C!NoKey /\ redis'["attempts"] = C!NoKey
      BY <2>1, <2>2, CodeKeys DEF C!Del, CodeTypeOK
    <2>4. /\ requests' \in [Requests -> CodeRequest] /\ requests'[r].at = "idle"
          /\ \A s \in Requests \ {r} : requests'[s] = requests[s]
      BY <2>1, CodeSteps
    <2>5. CodeBase'
      <3>1. CodeTypeOK'
        BY <2>1, <2>3, <2>4 DEF CodeTypeOK
      <3>2. CodesNumbered'
        BY <2>1, <2>2, <2>3, <2>4 DEF CodesNumbered, Stands
      <3>3. DeadlinesSet'
        BY <2>1, <2>2, <2>3 DEF DeadlinesSet, Stands
      <3> QED BY <3>1, <3>2, <3>3 DEF CodeBase
    <2>6. LateBounded'
      <3>1. \A s \in Requests : requests'[s].at = "count" => requests'[s] = requests[s]
        BY <2>4
      <3>2. issued <= issued'
        BY <2>1 DEF CodeTypeOK
      <3> QED BY <2>1, <2>5, <3>1, <3>2, LateStays
    <2> QED BY <2>2, <2>3, <2>5, <2>6 DEF CodeInv, AttemptsBounded, Stands
  <1> QED BY <1>1, <1>2

LEMMA CodeCounted ==
  ASSUME CodeInv, NEW r \in Requests, NEW expires \in BOOLEAN, NEW right \in BOOLEAN,
         C!CountAttempt(r, expires, right)
  PROVE  CodeInv'
  <1> DEFINE n == redis["attempts"].value + 1
             new == redis'["attempts"]
  <1>1. /\ CodeTypeOK /\ CodesNumbered /\ DeadlinesSet
        /\ requests[r].at = "count" /\ redis' = C!Counted(redis, "attempts", OTPTTL, expires)
        /\ UNCHANGED <<now, issued>>
    BY DEF C!CountAttempt, C!At, CodeInv, CodeBase
  <1>2. /\ now \in Nat /\ issued \in 0..MaxCodes /\ MaxCodes \in Nat /\ OTPTTL \in Nat /\ MaxAttempts \in Nat
        /\ redis["attempts"].value \in Nat /\ redis["attempts"].until \in Nat /\ n \in Nat
        /\ requests[r].code \in 1..issued
    <2>1. redis["attempts"] \in CodeKey
      BY <1>1, CodeKeys
    <2>2. /\ redis["attempts"].value \in Nat /\ redis["attempts"].until \in Nat
          /\ redis["attempts"].value + 1 \in Nat
      BY <2>1 DEF CodeKey
    <2>3. now \in Nat /\ issued \in 0..MaxCodes /\ requests[r].code \in 1..issued
      BY <1>1 DEF CodeTypeOK, CodesNumbered
    <2> QED BY <2>2, <2>3, Numbers
  <1>3. /\ redis' \in [C!Keys -> CodeKey] /\ redis'["otp"] = redis["otp"]
        /\ new.there /\ new.value = n
        /\ new.until = redis["attempts"].until \/ new.until = C!Deadline(now, OTPTTL)
    <2> DEFINE counted == C!Incr(redis, "attempts")
    <2>1. /\ counted \in [C!Keys -> CodeKey] /\ counted["otp"] = redis["otp"]
          /\ counted["attempts"] = [there |-> TRUE, value |-> n, until |-> redis["attempts"].until]
      <3>1. redis \in [C!Keys -> CodeKey] /\ "attempts" \in C!Keys /\ "otp" \in C!Keys \ {"attempts"}
        BY <1>1, CodeKeys DEF CodeTypeOK
      <3> QED BY <3>1, CodeIncr
    <2>2. \/ redis' = counted
          \/ redis' = [counted EXCEPT !["attempts"].until = C!Deadline(now, OTPTTL)]
      BY <1>1 DEF C!Counted, C!Expire
    <2> HIDE DEF counted
    <2>3. C!Deadline(now, OTPTTL) \in Nat
      BY <1>2 DEF C!Deadline
    <2>4. CASE redis' = counted
      BY <2>1, <2>4
    <2>5. CASE redis' = [counted EXCEPT !["attempts"].until = C!Deadline(now, OTPTTL)]
      <3> DEFINE end == C!Deadline(now, OTPTTL)
      <3> HIDE DEF end
      <3>1. counted["attempts"] \in CodeKey /\ "attempts" \in C!Keys /\ "otp" \in C!Keys
        BY <1>1, <2>1, CodeKeys
      <3>2. redis'["attempts"] = [counted["attempts"] EXCEPT !.until = end]
        BY <2>1, <2>5, <3>1 DEF end
      <3>3. redis'["attempts"] \in CodeKey
        BY <2>3, <3>1, <3>2 DEF CodeKey, end
      <3>4. redis'["attempts"].there /\ redis'["attempts"].value = n /\ redis'["attempts"].until = end
        BY <2>1, <3>1, <3>2 DEF CodeKey
      <3>5. redis' \in [C!Keys -> CodeKey] /\ redis'["otp"] = redis["otp"]
        BY <2>1, <2>5, <3>1, <3>2, <3>3 DEF end
      <3> QED BY <3>4, <3>5 DEF end
    <2> QED BY <2>2, <2>4, <2>5
  <1>4. /\ C!Get(redis', "attempts") = n
        /\ \/ n > MaxAttempts /\ C!Goto(r, "destroy") /\ guesses' = guesses
           \/ /\ n <= MaxAttempts
              /\ guesses' = [guesses EXCEPT ![requests[r].code] = @ + 1]
              /\ C!Goto(r, "spend") \/ C!End(r)
    <2>1. C!Get(redis', "attempts") = n
      BY <1>3 DEF C!Get
    <2>2. n > MaxAttempts \/ n <= MaxAttempts
      BY <1>2
    <2> QED BY <1>1, <1>2, <2>1, <2>2 DEF C!CountAttempt
  <1> HIDE DEF n, new
  <1>5. /\ requests' \in [Requests -> CodeRequest] /\ requests'[r].at \notin {"count", "reset"}
        /\ \A s \in Requests \ {r} : requests'[s] = requests[s]
    BY <1>1, <1>4, CodeSteps
  <1>6. /\ guesses' \in [1..MaxCodes -> Nat]
        /\ \A c \in 1..MaxCodes : c > issued => guesses'[c] = guesses[c]
        /\ \A c \in 1..MaxCodes : guesses'[c] <= guesses[c] + 1
    <2>1. requests[r].code \in 1..MaxCodes /\ guesses \in [1..MaxCodes -> Nat]
      BY <1>1, <1>2 DEF CodeTypeOK
    <2>2. CASE guesses' = guesses
      BY <2>1, <2>2
    <2>3. CASE guesses' = [guesses EXCEPT ![requests[r].code] = @ + 1]
      <3>1. guesses' \in [1..MaxCodes -> Nat]
        BY <2>1, <2>3
      <3>2. \A c \in 1..MaxCodes :
              guesses'[c] = IF c = requests[r].code THEN guesses[c] + 1 ELSE guesses[c]
        BY <2>1, <2>3
      <3>3. \A c \in 1..MaxCodes : c > issued => guesses'[c] = guesses[c]
        BY <1>2, <3>2
      <3>4. ASSUME NEW c \in 1..MaxCodes PROVE guesses'[c] <= guesses[c] + 1
        <4>1. guesses[c] \in Nat
          BY <2>1
        <4> QED BY <3>2, <4>1
      <3> QED BY <3>1, <3>3, <3>4
    <2> QED BY <1>4, <2>2, <2>3
  <1>7. CodeTypeOK'
    BY <1>1, <1>3, <1>5, <1>6 DEF CodeTypeOK
  <1>8. CodesNumbered'
    BY <1>1, <1>3, <1>5, <1>6 DEF CodesNumbered, Stands
  <1>9. DeadlinesSet'
    <2>1. OTPTTL = 0 => new.until = 0
      BY <1>1, <1>3 DEF DeadlinesSet, C!Deadline
    <2> QED BY <1>1, <1>3, <2>1 DEF DeadlinesSet, Stands, new
  <1>10. CodeBase'
    BY <1>7, <1>8, <1>9 DEF CodeBase
  <1>11. LateBounded'
    BY <1>1, <1>4, <1>5, <1>10, LateCounted
  <1>12. AttemptsBounded'
    <2>1. CASE Stands
      <3>1. issued \in 1..MaxCodes /\ guesses[issued] \in Nat /\ guesses'[issued] \in Nat
        BY <1>1, <1>2, <1>6, <2>1 DEF CodesNumbered, CodeTypeOK
      <3>2. Forgetting' = Forgetting
        BY <1>1, <1>5 DEF Forgetting
      <3>3. Older' <= Older
        <4>1. redis["otp"].until \in Nat
          BY <1>1, CodeKeys DEF CodeKey
        <4>2. new.until = redis["attempts"].until \/ new.until = 0 \/ new.until >= redis["otp"].until
          <5>1. CASE OTPTTL = 0
            BY <1>3, <5>1 DEF C!Deadline
          <5>2. CASE OTPTTL # 0
            <6>1. redis["otp"].until <= now + OTPTTL
              BY <1>1, <2>1, <5>2 DEF DeadlinesSet
            <6>2. C!Deadline(now, OTPTTL) = now + OTPTTL
              BY <1>2, <5>2 DEF C!Deadline
            <6> QED BY <1>2, <1>3, <4>1, <6>1, <6>2
          <5> QED BY <5>1, <5>2
        <4>3. new.until = redis'["attempts"].until /\ new.until \in Nat
          BY <1>3, CodeKeys, <1>7 DEF new, CodeKey, C!Keys
        <4> QED BY <1>2, <1>3, <4>1, <4>2, <4>3 DEF Older
      <3>4. Restarts' <= Restarts
        <4>1. Cardinality(Forgetting) \in Nat /\ Older \in {0, 1} /\ Older' \in {0, 1}
          BY <1>1, <1>7, Counts, CountsAfter DEF CountsInRange
        <4> QED BY <3>2, <3>3, <4>1 DEF Restarts
      <3>5. guesses'[issued] + AttemptsLeft' <= guesses[issued] + AttemptsLeft
        <4>1. redis["attempts"].value = n - 1 /\ redis'["attempts"].value = n
          BY <1>2, <1>3 DEF n, new
        <4>2. CASE n > MaxAttempts
          <5>1. guesses' = guesses /\ AttemptsLeft' = 0
            BY <1>2, <1>4, <4>1, <4>2 DEF AttemptsLeft
          <5>2. AttemptsLeft \in 0..MaxAttempts
            BY <1>1, Counts DEF CountsInRange
          <5> QED BY <1>2, <3>1, <5>1, <5>2
        <4>3. CASE n <= MaxAttempts
          <5>1. /\ AttemptsLeft = MaxAttempts - (n - 1)
                /\ AttemptsLeft' = IF n < MaxAttempts THEN MaxAttempts - n ELSE 0
            BY <1>2, <4>1, <4>3 DEF AttemptsLeft
          <5>2. guesses'[issued] <= guesses[issued] + 1
            BY <1>6, <3>1
          <5> QED BY <1>2, <3>1, <4>3, <5>1, <5>2
        <4> QED BY <1>2, <4>2, <4>3
      <3> QED BY <1>1, <1>10, <2>1, <3>4, <3>5, LeftFalls
    <2>2. CASE ~Stands
      BY <1>3, <2>2 DEF AttemptsBounded, Stands
    <2> QED BY <2>1, <2>2
  <1> QED BY <1>10, <1>11, <1>12 DEF CodeInv

LEMMA CodeTicks ==
  ASSUME CodeInv, C!Tick
  PROVE  CodeInv'
  <1> DEFINE Gone(k) == redis[k].until # 0 /\ redis[k].until <= now + 1
  <1>1. /\ CodeTypeOK /\ CodesNumbered /\ DeadlinesSet
        /\ now' = now + 1 /\ redis' = C!Sweep(redis, now + 1) /\ UNCHANGED <<issued, requests, guesses>>
    BY DEF C!Tick, CodeInv, CodeBase
  <1>2. /\ now \in Nat /\ OTPTTL \in Nat /\ issued \in Nat
        /\ redis["otp"].until \in Nat /\ redis["attempts"].until \in Nat
    BY <1>1, Numbers, CodeKeys DEF CodeTypeOK, CodeKey
  <1>3. C!NoKey \in CodeKey /\ ~C!NoKey.there /\ C!NoKey.value = 0 /\ C!NoKey.until = 0
    BY DEF C!NoKey, CodeKey
  <1>4. /\ redis' \in [C!Keys -> CodeKey]
        /\ redis'["otp"] = IF Gone("otp") THEN C!NoKey ELSE redis["otp"]
        /\ redis'["attempts"] = IF Gone("attempts") THEN C!NoKey ELSE redis["attempts"]
    BY <1>1, <1>3, CodeKeys DEF C!Sweep, CodeTypeOK
  <1>5. CodeTypeOK'
    BY <1>1, <1>2, <1>4 DEF CodeTypeOK
  <1>6. CodesNumbered'
    BY <1>1, <1>3, <1>4 DEF CodesNumbered, Stands
  <1>7. DeadlinesSet'
    BY <1>1, <1>2, <1>3, <1>4 DEF DeadlinesSet, Stands
  <1>8. CodeBase'
    BY <1>5, <1>6, <1>7 DEF CodeBase
  <1>9. LateBounded'
    BY <1>1, <1>2, <1>8, LateStays
  <1>10. AttemptsBounded'
    <2>1. CASE Stands /\ ~Gone("otp")
      <3>1. Forgetting' = Forgetting
        BY <1>1 DEF Forgetting
      <3>2. redis'["otp"] = redis["otp"]
        BY <1>4, <2>1
      <3>3. Cardinality(Forgetting) \in Nat /\ Older \in {0, 1} /\ AttemptsLeft \in 0..MaxAttempts
        BY <1>1, Counts DEF CountsInRange
      <3>4. CASE ~Gone("attempts")
        <4>1. Older' = Older /\ AttemptsLeft' = AttemptsLeft
          BY <1>4, <3>2, <3>4 DEF Older, AttemptsLeft
        <4>2. Restarts' <= Restarts
          BY <3>1, <3>3, <4>1 DEF Restarts
        <4>3. guesses'[issued] + AttemptsLeft' <= guesses[issued] + AttemptsLeft
          <5>1. guesses[issued] \in Nat /\ MaxAttempts \in Nat
            BY <1>1, <2>1, Numbers DEF CodeTypeOK, CodesNumbered
          <5> QED BY <1>1, <3>3, <4>1, <5>1
        <4> QED BY <1>1, <1>8, <2>1, <4>2, <4>3, LeftFalls
      <3>5. CASE Gone("attempts")
        <4>1. Older' = 0
          BY <1>3, <1>4, <3>5 DEF Older
        <4>2. Older = 1
          BY <1>1, <1>2, <2>1, <3>5 DEF Older, DeadlinesSet
        <4>3. Restarts' + 1 <= Restarts
          BY <3>1, <3>3, <4>1, <4>2 DEF Restarts
        <4> QED BY <1>1, <1>8, <2>1, <4>3, LeftFalls
      <3> QED BY <3>4, <3>5
    <2>2. CASE ~Stands \/ Gone("otp")
      BY <1>3, <1>4, <2>2 DEF AttemptsBounded, Stands
    <2> QED BY <2>1, <2>2
  <1> QED BY <1>8, <1>9, <1>10 DEF CodeInv

LEMMA CodeNext == CodeInv /\ C!Next => CodeInv'
  <1> SUFFICES ASSUME CodeInv, C!Next PROVE CodeInv'
    OBVIOUS
  <1>1. ASSUME NEW r \in Requests, NEW ok \in BOOLEAN,
               C!StartSignup(r, ok) \/ C!ForgetAttempts(r, ok) \/ C!DeleteCode(r, ok)
        PROVE  CodeInv'
    BY <1>1, CodeStart, CodeForgets, CodeDeleted
  <1>2. ASSUME NEW r \in Requests, NEW ok \in BOOLEAN, NEW right \in BOOLEAN,
               C!CountAttempt(r, ok, right)
        PROVE  CodeInv'
    BY <1>2, CodeCounted
  <1>3. ASSUME NEW r \in Requests, C!IssueCode(r) \/ C!ReadCode(r) \/ C!Fail(r) PROVE CodeInv'
    BY <1>3, CodeIssued, CodeRead, CodeEnds DEF C!Fail
  <1>4. C!BecomesKnown => CodeInv'
    BY CodeWaits DEF C!BecomesKnown
  <1>5. C!Tick => CodeInv'
    BY CodeTicks
  <1> QED BY <1>1, <1>2, <1>3, <1>4, <1>5 DEF C!Next

LEMMA CodeStep ==
  part = "code" /\ [AllNext]_allVars =>
    part' = "code" /\ (C!Next \/ UNCHANGED <<now, redis, issued, guesses, requests>>)
  BY DEF AllNext, allVars, shared, codeOwn

(* A code is compared with so many guesses and no more, whoever asks and however *)
(* often (VerifySignupOTP and StartSignup of auth.Service): the inductive        *)
(* invariant counts what is left of the attempts while the code stands, how      *)
(* often they can still start again, and the requests that have read it.         *)
THEOREM GuessesAreBounded == AllSpec => []GuessesBounded
  <1> DEFINE I == part = "code" => CodeInv
  <1>1. AllInit => I
    BY CodeInit DEF AllInit
  <1>2. I /\ [AllNext]_allVars => I'
    <2> SUFFICES ASSUME I, [AllNext]_allVars, part' = "code" PROVE CodeInv'
      OBVIOUS
    <2>1. part = "code"
      BY DEF AllNext, allVars
    <2> QED BY <2>1, CodeStep, CodeNext, CodeWaits
  <1>3. I => GuessesBounded
    <2> SUFFICES ASSUME CodeInv, NEW c \in 1..issued
                 PROVE  guesses[c] <= MaxAttempts * (Cardinality(Requests) + 2) + Cardinality(Requests)
      BY CodeCardinality DEF GuessesBounded, C!GuessesBounded
    <2>1. /\ guesses[c] \in Nat /\ Cardinality(Late(c)) \in Nat
          /\ Cardinality(Requests) \in Nat /\ Allowed \in Nat
      BY Numbers, Counts DEF CodeInv, CodeBase, CodeTypeOK, CountsInRange
    <2>2. guesses[c] + Cardinality(Late(c)) <= Allowed + Cardinality(Requests)
      BY DEF CodeInv, LateBounded
    <2>3. guesses[c] <= Allowed + Cardinality(Requests)
      BY <2>1, <2>2
    <2> QED BY <2>3 DEF Allowed, Attempts
  <1> HIDE DEF I
  <1> QED BY <1>1, <1>2, <1>3, PTL DEF AllSpec
=============================================================================
