------------------------------ MODULE Sessions ------------------------------
(***************************************************************************)
(* Refresh-token sessions: auth.Service's issueSession, RefreshAccessToken *)
(* and Logout over the refresh_tokens table.                               *)
(*                                                                         *)
(* A login starts a family of tokens.  A refresh reads the presented token *)
(* and, in the same READ COMMITTED transaction, inserts a successor and    *)
(* rotates the token away; a rotated token is honoured for a grace window  *)
(* more, and any other revoked token is taken for stolen and ends its      *)
(* family.  What a request read may be stale when it commits, so a request *)
(* is two steps here: the reads, and the commit of its writes (nothing it  *)
(* wrote is visible before).  The UPDATE that revokes a family has a        *)
(* snapshot of its own besides: it acts on the rows that were there and not *)
(* revoked when it began, looks again at those it had to wait for, and      *)
(* never sees a row committed since.                                       *)
(***************************************************************************)
EXTENDS Integers

CONSTANTS
  Tokens,      \* refresh tokens, each the SHA-256 of an opaque value
  Families,    \* session families, one per login
  Users,
  Requests,    \* HTTP requests that can be in progress at once
  NoToken,
  NoFamily,
  IdleTTL,     \* cfg.RefreshTokenTTL
  AbsoluteTTL, \* cfg.RefreshAbsoluteTTL
  Grace,       \* cfg.RefreshGraceWindow
  MaxTime      \* bound on the clock

ASSUME SessionsAssumption ==
  /\ NoToken \notin Tokens
  /\ NoFamily \notin Families
  /\ IdleTTL \in Nat
  /\ AbsoluteTTL \in Nat
  /\ Grace \in Nat
  /\ MaxTime \in Nat
  /\ Users # {}

VARIABLES
  clock,      \* time.Now()
  active,     \* the users whose status is 'active'
  user,       \* refresh_tokens.user_id
  family,     \* refresh_tokens.family_id, NoFamily before the token is minted
  expires,    \* refresh_tokens.expires_at
  absolute,   \* refresh_tokens.absolute_expires_at
  revoked,    \* is revoked_at set?
  revokedAt,  \* its value when it is
  replacedBy, \* refresh_tokens.replaced_by_hash
  request,    \* the requests in progress
  ended,      \* history: how each family was ended, "no" while it was not
  spared      \* history: the tokens the ending of their family could not catch,
              \* and those minted from them since

tokenVars == <<user, family, expires, absolute, revoked, revokedAt, replacedBy>>
vars == <<clock, active, tokenVars, request, ended, spared>>

Minted(t) == family[t] # NoFamily
FamilyOf(f) == {t \in Tokens : family[t] = f}

(* "stolen": the token was taken for stolen; "reuse" and "logout": the        *)
(* UPDATE that revokes the family is running, for either reason.           *)
Kinds == {"none", "refresh", "stolen", "reuse", "logout"}

(* A request in progress: what it will commit, for which presented token,  *)
(* the time it took at its start, whether it will rotate the token, and the *)
(* snapshot of its UPDATE.                                                 *)
RequestType ==
  [kind : Kinds, token : Tokens \union {NoToken}, now : Nat, rotates : BOOLEAN,
   sees : SUBSET Tokens]
NoRequest == [kind |-> "none", token |-> NoToken, now |-> 0, rotates |-> FALSE, sees |-> {}]

(* One type invariant. *)
TypeOK ==
  /\ clock \in Nat
  /\ active \subseteq Users
  /\ user \in [Tokens -> Users]
  /\ family \in [Tokens -> Families \union {NoFamily}]
  /\ expires \in [Tokens -> Nat]
  /\ absolute \in [Tokens -> Nat]
  /\ revoked \in [Tokens -> BOOLEAN]
  /\ revokedAt \in [Tokens -> Nat]
  /\ replacedBy \in [Tokens -> Tokens \union {NoToken}]
  /\ request \in [Requests -> RequestType]
  /\ ended \in [Families -> {"no", "reuse", "logout"}]
  /\ spared \subseteq Tokens

Init ==
  /\ clock = 0
  /\ active = Users
  /\ user = [t \in Tokens |-> CHOOSE u \in Users : TRUE]
  /\ family = [t \in Tokens |-> NoFamily]
  /\ expires = [t \in Tokens |-> 0]
  /\ absolute = [t \in Tokens |-> 0]
  /\ revoked = [t \in Tokens |-> FALSE]
  /\ revokedAt = [t \in Tokens |-> 0]
  /\ replacedBy = [t \in Tokens |-> NoToken]
  /\ request = [r \in Requests |-> NoRequest]
  /\ ended = [f \in Families |-> "no"]
  /\ spared = {}

-----------------------------------------------------------------------------
(* Repository operations.                                                  *)

Earlier(a, b) == IF a <= b THEN a ELSE b

(* newRefreshTokenRecord and the INSERT of what it built. *)
CreateRefreshToken(t, u, f, cap, now) ==
  /\ ~Minted(t)
  /\ user' = [user EXCEPT ![t] = u]
  /\ family' = [family EXCEPT ![t] = f]
  /\ expires' = [expires EXCEPT ![t] = Earlier(now + IdleTTL, cap)]
  /\ absolute' = [absolute EXCEPT ![t] = cap]

(* The UPDATE names the row by id alone: it also overwrites the revoked_at of *)
(* a token revoked, or rotated by another request, since it was read.        *)
RotateRefreshToken(t, successor, now) ==
  /\ revoked' = [revoked EXCEPT ![t] = TRUE]
  /\ revokedAt' = [revokedAt EXCEPT ![t] = now]
  /\ replacedBy' = [replacedBy EXCEPT ![t] = successor]

(* A plausible mistake: the presented token alone, by RevokeRefreshToken. *)
RevokePresented(r) ==
  LET hit(t) == t = request[r].token /\ ~revoked[t]
  IN /\ revoked' = [t \in Tokens |-> revoked[t] \/ hit(t)]
     /\ revokedAt' = [t \in Tokens |-> IF hit(t) THEN request[r].now ELSE revokedAt[t]]

(* Of the rows the UPDATE saw, those that are still not revoked. *)
RevokeRefreshTokenFamily(r) ==
  LET hit(t) == t \in request[r].sees /\ ~revoked[t]
  IN /\ revoked' = [t \in Tokens |-> revoked[t] \/ hit(t)]
     /\ revokedAt' = [t \in Tokens |-> IF hit(t) THEN request[r].now ELSE revokedAt[t]]

(* The rows an UPDATE of the family that starts now sees. *)
Unrevoked(f) == {t \in FamilyOf(f) : ~revoked[t]}

-----------------------------------------------------------------------------
(* Requests.                                                               *)

(* issueSession, for a user Login (or a Google or OTP sign-in) let in. *)
IssueSession(u, f, t) ==
  /\ u \in active
  /\ FamilyOf(f) = {}
  /\ CreateRefreshToken(t, u, f, clock + AbsoluteTTL, clock)
  /\ UNCHANGED <<clock, active, revoked, revokedAt, replacedBy, request, ended, spared>>

(* A rotated token is honoured for the grace window more. *)
WithinGrace(t) ==
  /\ revoked[t]
  /\ replacedBy[t] # NoToken
  /\ clock - revokedAt[t] <= Grace

Expired(t) == clock > expires[t] \/ clock > absolute[t]

Start(r, what) ==
  /\ request[r] = NoRequest
  /\ request' = [request EXCEPT ![r] = what]
  /\ UNCHANGED <<clock, active, tokenVars, ended, spared>>

(* A request that begins by reading token t. *)
Request(kind, t) ==
  [kind |-> kind, token |-> t, now |-> clock, rotates |-> kind = "refresh" /\ ~revoked[t],
   sees |-> IF kind = "logout" THEN Unrevoked(family[t]) ELSE {}]

(* A plausible mistake: every token revoked lately passes for a rotated one. *)
BeginRefreshLax(r, t) ==
  /\ Minted(t)
  /\ ~revoked[t] \/ clock - revokedAt[t] <= Grace
  /\ ~Expired(t)
  /\ user[t] \in active
  /\ Start(r, Request("refresh", t))

(* RefreshAccessToken's reads, for a token it will honour; a token expired  *)
(* or of a suspended user is refused with nothing changed.                 *)
BeginRefresh(r, t) ==
  /\ Minted(t)
  /\ ~revoked[t] \/ WithinGrace(t)
  /\ ~Expired(t)
  /\ user[t] \in active
  /\ Start(r, Request("refresh", t))

(* RefreshAccessToken's reads, for a token it takes for stolen. *)
BeginReuse(r, t) ==
  /\ Minted(t)
  /\ revoked[t]
  /\ ~WithinGrace(t)
  /\ Start(r, Request("stolen", t))

(* ... and the UPDATE that follows begins. *)
BeginRevoke(r) ==
  /\ request[r].kind = "stolen"
  /\ request' = [request EXCEPT ![r].kind = "reuse",
                               ![r].sees = Unrevoked(family[request[r].token])]
  /\ UNCHANGED <<clock, active, tokenVars, ended, spared>>

(* Logout's read: a token that is unknown, or another user's, is ignored.   *)
(* Neither ever changes, so the UPDATE may as well begin with the read.    *)
BeginLogout(r, t, u) ==
  /\ Minted(t)
  /\ user[t] = u
  /\ Start(r, Request("logout", t))

Answer(r) == request' = [request EXCEPT ![r] = NoRequest]

(* A plausible mistake: a fresh cap at every rotation. *)
CommitRefreshExtends(r, new) ==
  LET old == request[r].token
      now == request[r].now
  IN /\ request[r].kind = "refresh"
     /\ CreateRefreshToken(new, user[old], family[old], now + AbsoluteTTL, now)
     /\ IF request[r].rotates
          THEN RotateRefreshToken(old, new, now)
          ELSE UNCHANGED <<revoked, revokedAt, replacedBy>>
     /\ spared' = IF old \in spared THEN spared \union {new} ELSE spared
     /\ Answer(r)
     /\ UNCHANGED <<clock, active, ended>>

(* The successor is inserted and the presented token rotated away, unless it *)
(* was within its grace window: then the successor is only a sibling.       *)
CommitRefresh(r, new) ==
  LET old == request[r].token
      now == request[r].now
  IN /\ request[r].kind = "refresh"
     /\ CreateRefreshToken(new, user[old], family[old], absolute[old], now)
     /\ IF request[r].rotates
          THEN RotateRefreshToken(old, new, now)
          ELSE UNCHANGED <<revoked, revokedAt, replacedBy>>
     /\ spared' = IF old \in spared THEN spared \union {new} ELSE spared
     /\ Answer(r)
     /\ UNCHANGED <<clock, active, ended>>

(* What the ending of a family cannot catch: a token minted since its UPDATE *)
(* began, one within its grace window, and one a refresh has presented but *)
(* not rotated yet.                                                        *)
Uncaught(r) ==
  {t \in FamilyOf(family[request[r].token]) :
     \/ ~revoked[t] /\ t \notin request[r].sees
     \/ WithinGrace(t)
     \/ \E q \in Requests : request[q].kind = "refresh" /\ request[q].token = t}

(* The revocation commits; of a reuse, although the request is refused. *)
CommitRevoke(r) ==
  LET f == family[request[r].token]
  IN /\ request[r].kind \in {"reuse", "logout"}
     /\ RevokeRefreshTokenFamily(r)
     /\ ended' = [ended EXCEPT ![f] = request[r].kind]
     /\ spared' = (spared \ FamilyOf(f)) \union Uncaught(r)
     /\ Answer(r)
     /\ UNCHANGED <<clock, active, user, family, expires, absolute, replacedBy>>

(* The transaction is rolled back: a failing statement, a lost connection, *)
(* a cancelled request or a crash of the API process.                      *)
Rollback(r) ==
  /\ request[r] # NoRequest
  /\ Answer(r)
  /\ UNCHANGED <<clock, active, tokenVars, ended, spared>>

-----------------------------------------------------------------------------
(* The environment.                                                        *)

Tick ==
  /\ clock < MaxTime
  /\ clock' = clock + 1
  /\ UNCHANGED <<active, tokenVars, request, ended, spared>>

(* No code of the repository suspends a user: an operator does. *)
Suspend(u) ==
  /\ u \in active
  /\ active' = active \ {u}
  /\ UNCHANGED <<clock, tokenVars, request, ended, spared>>

RefreshAccessToken(r) ==
  \/ \E t \in Tokens : BeginRefresh(r, t) \/ BeginReuse(r, t) \/ CommitRefresh(r, t)
  \/ BeginRevoke(r)

Logout(r) == \E t \in Tokens, u \in Users : BeginLogout(r, t, u)

Next ==
  \/ \E u \in Users, f \in Families, t \in Tokens : IssueSession(u, f, t)
  \/ \E r \in Requests : RefreshAccessToken(r) \/ Logout(r) \/ CommitRevoke(r) \/ Rollback(r)
  \/ Tick
  \/ \E u \in Users : Suspend(u)

Spec == Init /\ [][Next]_vars

-----------------------------------------------------------------------------
(* Properties                                                              *)

(* A family is one login: its tokens have one user and one hard cap, never  *)
(* exceeded by an idle expiry, so no chain of refreshes outlives the cap    *)
(* fixed at login (refreshtoken.go: "the hard cap fixed at login that       *)
(* ExpiresAt can never exceed").                                           *)
FamilyCoherent ==
  \A s, t \in Tokens :
    Minted(t) /\ family[s] = family[t] =>
      /\ user[s] = user[t]
      /\ absolute[s] = absolute[t]
      /\ expires[t] <= absolute[t]

(* Rotation leaves a trail: a token that names a successor is revoked, and  *)
(* the successor exists in the same session, however requests overlapped.   *)
TrailIntact ==
  \A t \in Tokens :
    replacedBy[t] # NoToken =>
      /\ Minted(t)
      /\ revoked[t]
      /\ replacedBy[t] # t
      /\ family[replacedBy[t]] = family[t]

(* Presenting t now would extend its session. *)
Usable(t) ==
  /\ Minted(t)
  /\ ~Expired(t)
  /\ user[t] \in active
  /\ ~revoked[t] \/ WithinGrace(t)

Refreshing(f) == \E r \in Requests : request[r].kind = "refresh" /\ family[request[r].token] = f

(* A session is over when none of its tokens can be used and no refresh is  *)
(* already past its checks.                                                *)
Over(f) ==
  /\ FamilyOf(f) # {}
  /\ \A t \in FamilyOf(f) : ~Usable(t)
  /\ ~Refreshing(f)

(* Over is over: no sequence of refreshes, logouts and reuse detections     *)
(* brings a session back once it is past its grace and its requests.       *)
OverIsOver == [][\A f \in Families : Over(f) => Over(f)']_vars

(* A session goes through the life cycle of SessionLifecycle and no other:  *)
(* of one user and with one cap from its login, and over once.             *)
Phase(f) == IF FamilyOf(f) = {} THEN "none" ELSE IF Over(f) THEN "over" ELSE "open"
Owners(f) == {user[t] : t \in FamilyOf(f)}
Caps(f) == {absolute[t] : t \in FamilyOf(f)}
Lifecycle == INSTANCE SessionLifecycle WITH
  Times <- 0..(MaxTime + AbsoluteTTL),
  phase <- [f \in Families |-> Phase(f)],
  owner <- [f \in Families |-> Owners(f)],
  cap <- [f \in Families |-> Caps(f)]
ImplementsLifecycle == Lifecycle!Spec

(* "Only this session": a step revokes tokens of at most one family, the one *)
(* of a token some request in progress presented.                           *)
OtherSessionsUntouched ==
  [][\A t \in Tokens :
       revoked'[t] # revoked[t] =>
         \E r \in Requests : request[r].kind # "none" /\ family[request[r].token] = family[t]]_vars

(* What an ended session can still live on: a token its revocation could    *)
(* not catch - a successor committed while the UPDATE ran, a token rotated  *)
(* within the grace window, one in the hands of a refresh that had read it  *)
(* before - and the tokens minted from those.  Every other token of the     *)
(* session, and every chain of refreshes that starts from one, is dead.    *)
OnlySparedLive ==
  \A t \in Tokens : Usable(t) /\ ended[family[t]] # "no" => t \in spared

(* Logout: "The whole session (family) ends, not just the presented token". *)
LogoutEndsSession ==
  \A f \in Families : ended[f] = "logout" => \A t \in FamilyOf(f) : ~Usable(t)
=============================================================================
