------------------------------ MODULE Clients ------------------------------
(***************************************************************************)
(* Credentials for other servers: OAuth clients of a workspace and the     *)
(* client-credentials grant.  A token is good until it expires whatever    *)
(* happens to its client (RequireM2MAuth reads no row), and a grant reads  *)
(* the client, takes as long as it takes, and issues one.                  *)
(***************************************************************************)
EXTENDS Naturals, FiniteSets

CONSTANTS
  ClientIds, Scopes, Requests,
  M2MTTL,
  MaxTime, MaxTokens,   \* bounds on the clock and on the tokens
  None

VARIABLES
  now,
  client,   \* oauth_clients: status and scopes
  grant,    \* token requests in progress: the client as it was read, and what is asked
  token,    \* M2M access tokens
  quiet     \* since when each client is revoked and no grant of it in progress (history)

vars == <<now, client, grant, token, quiet>>

NoClient == [status |-> "none", scopes |-> {}]
NoGrant == [client |-> None, scopes |-> {}]
Never == MaxTime + 1

Init ==
  /\ now = 0
  /\ client = [c \in ClientIds |-> NoClient]
  /\ grant = [r \in Requests |-> NoGrant]
  /\ token = {}
  /\ quiet = [c \in ClientIds |-> Never]

(* A step of client c makes it quiet when it leaves it revoked, with no grant *)
(* that has still to end.                                                  *)
Quiets(c) ==
  LET isQuiet == client'[c].status = "revoked" /\ \A r \in Requests : grant'[r].client # c
  IN quiet' = [quiet EXCEPT ![c] = IF @ = Never /\ isQuiet THEN now ELSE @]

(* By an admin, with scopes that exist. *)
CreateClient(c, scopes) ==
  /\ client[c].status = "none"
  /\ client' = [client EXCEPT ![c] = [status |-> "active", scopes |-> scopes]]
  /\ UNCHANGED <<now, grant, token, quiet>>

RevokeClient(c) ==
  /\ client[c].status # "none"
  /\ client' = [client EXCEPT ![c].status = "revoked"]
  /\ UNCHANGED <<now, grant, token>>
  /\ Quiets(c)

(* A plausible mistake: the secret is right, and that is enough. *)
KnownClient(c) == client[c].status # "none"
MayBeGranted(c) == client[c].status = "active"

(* No scope asked for means all of them. *)
GetByClientID(r, c, scopes) ==
  /\ grant[r] = NoGrant
  /\ MayBeGranted(c)
  /\ scopes \subseteq client[c].scopes
  /\ grant' = [grant EXCEPT ![r] =
       [client |-> c, scopes |-> IF scopes = {} THEN client[c].scopes ELSE scopes]]
  /\ UNCHANGED <<now, client, token, quiet>>

ClientCredentialsGrant(r) ==
  /\ grant[r] # NoGrant /\ Cardinality(token) < MaxTokens
  /\ token' = token \union
       {[client |-> grant[r].client, scopes |-> grant[r].scopes, exp |-> now + M2MTTL]}
  /\ grant' = [grant EXCEPT ![r] = NoGrant]
  /\ UNCHANGED <<now, client>>
  /\ Quiets(grant[r].client)

(* The secret is wrong, a scope is not the client's, the token cannot be     *)
(* signed, or the process is gone.                                         *)
GrantFails(r) ==
  /\ grant[r] # NoGrant
  /\ grant' = [grant EXCEPT ![r] = NoGrant]
  /\ UNCHANGED <<now, client, token>>
  /\ Quiets(grant[r].client)

RequireM2MAuth(t) == now < t.exp
RequireScope(t, scope) == scope \in t.scopes

Tick ==
  /\ now < MaxTime
  /\ now' = now + 1
  /\ token' = {t \in token : now + 1 < t.exp}
  /\ UNCHANGED <<client, grant, quiet>>

ManageClients ==
  \E c \in ClientIds :
    \/ RevokeClient(c)
    \/ \E scopes \in SUBSET Scopes \ {{}} : CreateClient(c, scopes)

Token ==
  \E r \in Requests :
    \/ ClientCredentialsGrant(r) \/ GrantFails(r)
    \/ \E c \in ClientIds, scopes \in SUBSET Scopes : GetByClientID(r, c, scopes)

Next == ManageClients \/ Token \/ Tick

Spec == Init /\ [][Next]_vars
-----------------------------------------------------------------------------
(* What a request with a client's token may do was granted to the client.    *)
(* And no request looks at the client again, so a grant that overlaps the   *)
(* revocation, however long it takes, hands out a token for a whole         *)
(* lifetime; but none begins after the revocation, so once those have ended *)
(* the client is served for one lifetime at most.                          *)
RevokedClientsFade ==
  \A t \in token, scope \in Scopes :
    RequireM2MAuth(t) /\ RequireScope(t, scope) =>
      scope \in client[t.client].scopes /\ now < quiet[t.client] + M2MTTL
=============================================================================
