--------------------------- MODULE BrowserSession ---------------------------
(***************************************************************************)
(* The cookies of one browser, the access tokens in them, and the requests *)
(* of its tabs: Login, Refresh, SwitchTenant and Logout of auth.Handler,   *)
(* RequireUserAuth before the last two, RequireTenantForUser before        *)
(* anything of a tenant.                                                   *)
(*                                                                         *)
(* A request takes the cookies with it when it leaves, and its answer may  *)
(* set or clear cookies whenever it arrives, or never.  The refresh token  *)
(* is the session it belongs to (rotation is module Sessions); the hint    *)
(* cookie is always set and cleared together with the access cookie.       *)
(***************************************************************************)
EXTENDS RedisKeys, FiniteSets

CONSTANTS
  Users, Tenants, Requests,
  AccessTokenTTL,
  MaxSessions, MaxTokens, MaxTime,   \* bounds on sign-ins, access tokens, the clock
  None

VARIABLES
  now,
  member,     \* tenant_members: active <<user, tenant>> pairs
  sessions,   \* by number: the user, and whether it is over
  tokens,     \* access tokens by jti: user, tenant, expiry
  blacklist,  \* auth:blacklist:<jti>
  jar,        \* the cookies: a session and a jti, 0 for none
  request,    \* requests in progress
  signedOut   \* tokens somebody signed out with, Redis taking note (history)

rows == <<member, sessions, tokens>>
vars == <<now, rows, blacklist, jar, request, signedOut>>

NoCookies == [refresh |-> 0, access |-> 0]
NoRequest == [at |-> "idle", user |-> None, tenant |-> None, cookies |-> NoCookies]

Init ==
  /\ now = 0
  /\ member \in SUBSET (Users \X Tenants)
  /\ sessions = << >> /\ tokens = << >>
  /\ blacklist = EmptyStore(1..MaxTokens)
  /\ jar = NoCookies
  /\ request = [r \in Requests |-> NoRequest]
  /\ signedOut = {}

At(r, step) == request[r].at = step
Goto(r, step) == request' = [request EXCEPT ![r].at = step]
End(r) == request' = [request EXCEPT ![r] = NoRequest]
Append1(s, x) == [i \in 1..(Cardinality(DOMAIN s) + 1) |-> IF i \in DOMAIN s THEN s[i] ELSE x]
Last(s) == Cardinality(DOMAIN s)

IssueUserAccessToken(user, tenant) ==
  /\ Last(tokens) < MaxTokens
  /\ tokens' = Append1(tokens, [user |-> user, tenant |-> tenant, exp |-> now + AccessTokenTTL])

(* Answers: what to put in the jar (0 leaves a cookie alone), or to empty it. *)
Answer(r, step, refresh, access) ==
  request' = [request EXCEPT ![r] =
    [at |-> step, user |-> None, tenant |-> None,
     cookies |-> [refresh |-> refresh, access |-> access]]]
setSessionCookies(r, s, jti) == Answer(r, "set", s, jti)
setAccessCookies(r, jti) == Answer(r, "set", 0, jti)
clearSessionCookies(r) == Answer(r, "clear", 0, 0)

ActiveRole(user, tenant) == <<user, tenant>> \in member
verifyTenantMembership(user, tenant) == ActiveRole(user, tenant)
-----------------------------------------------------------------------------
(* Login starts a session and an access token without a tenant. *)
Login(r, user) ==
  /\ At(r, "idle")
  /\ Last(sessions) < MaxSessions
  /\ sessions' = Append1(sessions, [user |-> user, over |-> FALSE])
  /\ IssueUserAccessToken(user, None)
  /\ setSessionCookies(r, Last(sessions) + 1, Last(tokens) + 1)
  /\ UNCHANGED <<now, member, blacklist, jar, signedOut>>

(* Refresh: a session that is over (here, by another device, by its cap), or *)
(* an error, answers by clearing the cookies, whatever they are by then ... *)
RefuseRefresh(r) ==
  /\ At(r, "idle")
  /\ jar.refresh # 0
  /\ clearSessionCookies(r)
  /\ UNCHANGED <<now, rows, blacklist, jar, signedOut>>

(* ... and one that is open goes on with the tenant of the access cookie,   *)
(* expired or not, and whoever it was for.                                 *)
readRefreshToken(r) ==
  /\ At(r, "idle")
  /\ jar.refresh # 0 /\ ~sessions[jar.refresh].over
  /\ request' = [request EXCEPT ![r] =
       [at |-> "hint", cookies |-> jar, user |-> sessions[jar.refresh].user,
        tenant |-> IF jar.access = 0 THEN None ELSE tokens[jar.access].tenant]]
  /\ UNCHANGED <<now, rows, blacklist, jar, signedOut>>

(* ... which it keeps for a member only; an error drops it too. *)
RefreshAccessToken(r, tenant) ==
  LET user == request[r].user IN
  /\ At(r, "hint")
  /\ \/ tenant = None
     \/ tenant = request[r].tenant /\ verifyTenantMembership(user, tenant)
  /\ IssueUserAccessToken(user, tenant)
  /\ setSessionCookies(r, request[r].cookies.refresh, Last(tokens) + 1)
  /\ UNCHANGED <<now, member, sessions, blacklist, jar, signedOut>>
-----------------------------------------------------------------------------
Parsed(jti) == now < tokens[jti].exp
(* An unreachable Redis says yes: Admit is then not taken. *)
IsAccessTokenRevoked(jti) == Exists(blacklist, jti)
RequireUserAuth(jti) == Parsed(jti) /\ ~IsAccessTokenRevoked(jti)

Admit(r) ==
  /\ At(r, "idle")
  /\ jar.access # 0 /\ RequireUserAuth(jar.access)
  /\ request' = [request EXCEPT ![r] =
       [at |-> "admitted", cookies |-> jar, user |-> tokens[jar.access].user,
        tenant |-> tokens[jar.access].tenant]]
  /\ UNCHANGED <<now, rows, blacklist, jar, signedOut>>

(* SwitchTenant: a token for a tenant of the user, whichever session it was. *)
SelectTenant(r, tenant) ==
  /\ At(r, "admitted")
  /\ verifyTenantMembership(request[r].user, tenant)
  /\ IssueUserAccessToken(request[r].user, tenant)
  /\ setAccessCookies(r, Last(tokens) + 1)
  /\ UNCHANGED <<now, member, sessions, blacklist, jar, signedOut>>

OwnFamily(s, user) == s # 0 /\ sessions[s].user = user

(* Until the token ends anyhow.  A plausible mistake first: a moment less. *)
BlacklistShort(jti) == Set(blacklist, jti, 1, Deadline(now, tokens[jti].exp - now - 1))
BlacklistUntilExpiry(jti) == Set(blacklist, jti, 1, Deadline(now, tokens[jti].exp - now))

(* Logout ends the session of the refresh cookie when it is the same user's *)
(* and blacklists the token it came with; the outcome of either is ignored. *)
Logout(r, revoked, noted) ==
  LET s == request[r].cookies.refresh  jti == request[r].cookies.access IN
  /\ At(r, "admitted")
  /\ sessions' = IF OwnFamily(s, request[r].user) /\ revoked
                 THEN [sessions EXCEPT ![s].over = TRUE] ELSE sessions
  /\ IF tokens[jti].exp > now /\ noted
     THEN blacklist' = BlacklistUntilExpiry(jti) /\ signedOut' = signedOut \union {jti}
     ELSE UNCHANGED <<blacklist, signedOut>>
  /\ clearSessionCookies(r)
  /\ UNCHANGED <<now, member, tokens, jar>>
-----------------------------------------------------------------------------
(* An answer reaches the browser. *)
Arrive(r) ==
  /\ At(r, "set") \/ At(r, "clear")
  /\ LET new == request[r].cookies IN
     jar' = IF At(r, "clear") THEN NoCookies
            ELSE [refresh |-> IF new.refresh = 0 THEN jar.refresh ELSE new.refresh,
                  access |-> new.access]
  /\ End(r)
  /\ UNCHANGED <<now, rows, blacklist, signedOut>>

(* Refused, failed, served without a word about cookies, or lost. *)
Gone(r) ==
  /\ ~At(r, "idle")
  /\ End(r)
  /\ UNCHANGED <<now, rows, blacklist, jar, signedOut>>

(* An owner lets somebody in, or removes them (module Membership). *)
MembershipChanges(user, tenant) ==
  /\ member' = IF ActiveRole(user, tenant) THEN member \ {<<user, tenant>>}
               ELSE member \union {<<user, tenant>>}
  /\ UNCHANGED <<now, sessions, tokens, blacklist, jar, request, signedOut>>

Tick ==
  /\ now < MaxTime
  /\ now' = now + 1
  /\ blacklist' = Sweep(blacklist, now + 1)
  /\ UNCHANGED <<rows, jar, request, signedOut>>

Next ==
  \/ \E r \in Requests :
       \/ RefuseRefresh(r) \/ readRefreshToken(r) \/ Admit(r) \/ Arrive(r) \/ Gone(r)
       \/ \E user \in Users : Login(r, user)
       \/ \E tenant \in Tenants \union {None} : RefreshAccessToken(r, tenant)
       \/ \E tenant \in Tenants : SelectTenant(r, tenant)
       \/ \E revoked, noted \in BOOLEAN : Logout(r, revoked, noted)
  \/ \E user \in Users, tenant \in Tenants : MembershipChanges(user, tenant)
  \/ Tick

Spec == Init /\ [][Next]_vars
-----------------------------------------------------------------------------
(* A token somebody signed out with is not admitted again, as long as it    *)
(* would have been valid (auth/service.go:411-414), if Redis took note.     *)
SignedOutStaysOut ==
  \A jti \in signedOut : ~RequireUserAuth(jti)
=============================================================================
