------------------------------ MODULE Accounts ------------------------------
(***************************************************************************)
(* How an account comes to be: self-registration with a link in a mail     *)
(* (Register, VerifyEmail), a signup token for a proven address            *)
(* (CompleteSignup) and Google sign-in (GoogleService, google_flow.go).    *)
(* Which browser may present a secret is left out.                         *)
(*                                                                         *)
(* A secret (a token, a code, an OAuth state) is a number with what it     *)
(* stands for.  There is no "get and delete": a request reads a secret,    *)
(* works, and deletes it later or not at all, so two requests may work on  *)
(* one secret.  A secret may go away at any time (its TTL).                *)
(***************************************************************************)
EXTENDS Naturals, FiniteSets

CONSTANTS
  Users, Emails, Subs,     \* account ids, addresses, Google's subject ids
  Google,                  \* the <<sub, address>> pairs Google may vouch for
  Requests,
  MaxSecrets,              \* a bound on the secrets issued
  None

VARIABLES
  account,  \* users: address, has a password, is_email_verified
  social,   \* user_social_accounts: <<user, sub>> pairs
  issued,   \* how many secrets there have been
  held,     \* the secrets that are to be had: in Redis, or not yet consumed
  request,  \* requests in progress
  proven,   \* addresses shown to belong to somebody (history)
  session   \* <<sub, user>>: who was signed in for a Google identity (history)

rows == <<account, social>>
histories == <<proven, session>>
vars == <<rows, issued, held, request, histories>>

NoAccount == [email |-> None, password |-> FALSE, verified |-> FALSE]
NoSecret == [id |-> 0, kind |-> "none", email |-> None, sub |-> None, user |-> None]
NoRequest == [at |-> "idle", secret |-> NoSecret]

Init ==
  /\ account = [u \in Users |-> NoAccount]
  /\ social = {}
  /\ issued = 0 /\ held = {}
  /\ request = [r \in Requests |-> NoRequest]
  /\ proven = {} /\ session = {}

Exists(u) == account[u].email # None
ByEmail(e) == {u \in Users : account[u].email = e}
ByProviderID(sub) == {u \in Users : <<u, sub>> \in social}

Issue(kind, email, sub, user) ==
  /\ issued < MaxSecrets
  /\ issued' = issued + 1
  /\ held' = held \union
       {[id |-> issued + 1, kind |-> kind, email |-> email, sub |-> sub, user |-> user]}

Idle(r) == request[r].at = "idle"
Begin(r, at, h) ==
  /\ Idle(r)
  /\ request' = [request EXCEPT ![r] = [at |-> at, secret |-> h]]
Deleting(r) == request' = [request EXCEPT ![r] =
  [at |-> "delete", secret |-> [NoSecret EXCEPT !.id = request[r].secret.id]]]
End(r) == request' = [request EXCEPT ![r] = NoRequest]
Deleted(s, deleted) == held' = IF deleted THEN {h \in held : h.id # s} ELSE held

(* users.email is UNIQUE. *)
EmailFree(e) == ByEmail(e) = {}
(* (provider, provider_user_id) is UNIQUE. *)
SubFree(sub) == ByProviderID(sub) = {}

CreateUser(u, e, password, verified) ==
  /\ ~Exists(u) /\ EmailFree(e)
  /\ account' = [account EXCEPT ![u] =
       [email |-> e, password |-> password, verified |-> verified]]
CreateSocialAccount(u, sub) ==
  /\ SubFree(sub)
  /\ social' = social \union {<<u, sub>>}
-----------------------------------------------------------------------------
(* A plausible mistake: the account counts as verified once the mail is out. *)
RegisterVerified(u, e) ==
  /\ CreateUser(u, e, TRUE, TRUE)
  /\ Issue("mail", None, None, u)
  /\ UNCHANGED <<social, request, histories>>

(* Register: the unverified account and its mail token, in one transaction. *)
Register(u, e) ==
  /\ CreateUser(u, e, TRUE, FALSE)
  /\ Issue("mail", None, None, u)
  /\ UNCHANGED <<social, request, histories>>

(* VerifyEmail reads the token outside any lock ... *)
GetEmailToken(r, h) ==
  /\ h.kind = "mail"
  /\ Begin(r, "verify", h)
  /\ UNCHANGED <<rows, held, histories, issued>>

(* ... and consumes it where it has not been consumed since. *)
VerifyEmail(r) ==
  LET h == request[r].secret IN
  /\ request[r].at = "verify" /\ h \in held
  /\ held' = held \ {h}
  /\ account' = [account EXCEPT ![h.user].verified = TRUE]
  /\ proven' = proven \union {account[h.user].email}
  /\ End(r)
  /\ UNCHANGED <<social, session, issued>>

(* Module OneTimeCode: a right guess stores a signup token. *)
StoreSignupToken(e) ==
  /\ Issue("signup", e, None, None)
  /\ proven' = proven \union {e}
  /\ UNCHANGED <<rows, request, session>>

GetSignupToken(r, h) ==
  /\ h.kind = "signup"
  /\ Begin(r, "signup", h)
  /\ UNCHANGED <<rows, held, histories, issued>>

CompleteSignup(r, u) ==
  /\ request[r].at = "signup"
  /\ CreateUser(u, request[r].secret.email, TRUE, TRUE)
  /\ Deleting(r)
  /\ UNCHANGED <<social, held, histories, issued>>
-----------------------------------------------------------------------------
(* BeginAuthorization stores a state for the way to Google and back. *)
BeginAuthorization ==
  /\ Issue("state", None, None, None)
  /\ UNCHANGED <<rows, request, histories>>

(* CompleteAuthorization: the state is read and deleted, and Google tells who *)
(* came back: one sub may come with another address later.                   *)
CompleteAuthorization(r, h, sub, e, deleted) ==
  /\ h.kind = "state"
  /\ <<sub, e>> \in Google
  /\ Begin(r, "resolve", [NoSecret EXCEPT !.email = e, !.sub = sub])
  /\ Deleted(h.id, deleted)
  /\ proven' = proven \union {e}
  /\ UNCHANGED <<rows, session, issued>>

(* The account an identity stands for: the one it is linked to, or the one  *)
(* with its address, which it is linked to now.  A plausible mistake first: *)
(* the account is found by its address and not linked.                      *)
ByEmailAlone(sub, e, u) == u \in ByProviderID(sub) \union ByEmail(e) /\ UNCHANGED social
Resolved(sub, e, u) ==
  \/ u \in ByProviderID(sub) /\ UNCHANGED social
  \/ ByProviderID(sub) = {} /\ u \in ByEmail(e) /\ CreateSocialAccount(u, sub)

StoreGoogleCode(sub, e, u) == Issue("code", IF u = None THEN e ELSE None, sub, u)

(* ResolveGoogleIdentity: a code for that account, or for a sign-up.        *)
(* Whoever links it between the reads makes the INSERT fail (see Fail).     *)
ResolveGoogleIdentity(r) ==
  LET sub == request[r].secret.sub  e == request[r].secret.email IN
  /\ request[r].at = "resolve"
  /\ \/ \E u \in Users : Resolved(sub, e, u) /\ StoreGoogleCode(sub, e, u)
     \/ /\ ByProviderID(sub) = {} /\ ByEmail(e) = {}
        /\ StoreGoogleCode(sub, e, None)
        /\ UNCHANGED social
  /\ End(r)
  /\ UNCHANGED <<account, histories>>

(* ExchangeGoogleCode: read, deleted, and then a session for the account ... *)
ExchangeGoogleCode(r, h, deleted) ==
  /\ h.kind = "code"
  /\ Begin(r, IF h.user # None THEN "signIn" ELSE "profile", [h EXCEPT !.id = 0])
  /\ Deleted(h.id, deleted)
  /\ UNCHANGED <<rows, histories, issued>>

SignIn(r) ==
  /\ request[r].at = "signIn"
  /\ session' = session \union {<<request[r].secret.sub, request[r].secret.user>>}
  /\ End(r)
  /\ UNCHANGED <<rows, held, proven, issued>>

(* ... or a pending sign-up, ... *)
StorePending(r) ==
  /\ request[r].at = "profile"
  /\ Issue("pending", request[r].secret.email, request[r].secret.sub, None)
  /\ End(r)
  /\ UNCHANGED <<rows, histories>>

GetPending(r, h) ==
  /\ h.kind = "pending"
  /\ Begin(r, "google", h)
  /\ UNCHANGED <<rows, held, histories, issued>>

(* ... which CompleteGoogleSignup turns into account and link, in one go. *)
CompleteGoogleSignup(r, u) ==
  LET h == request[r].secret IN
  /\ request[r].at = "google"
  /\ CreateUser(u, h.email, FALSE, TRUE)
  /\ CreateSocialAccount(u, h.sub)
  /\ session' = session \union {<<h.sub, u>>}
  /\ Deleting(r)
  /\ UNCHANGED <<held, proven, issued>>

(* "single use": the DEL after the fact, whose error is ignored. *)
DeleteSecret(r, deleted) ==
  /\ request[r].at = "delete"
  /\ Deleted(request[r].secret.id, deleted)
  /\ End(r)
  /\ UNCHANGED <<rows, histories, issued>>
-----------------------------------------------------------------------------
(* A TTL in Redis runs out; a mail token expires. *)
Expire(h) ==
  /\ held' = held \ {h}
  /\ UNCHANGED <<rows, request, histories, issued>>

(* A refusal (a suspended account, terms not accepted), an error, a client gone. *)
Fail(r) ==
  /\ ~Idle(r)
  /\ End(r)
  /\ UNCHANGED <<rows, held, histories, issued>>

SelfRegistration ==
  \/ \E u \in Users, e \in Emails : Register(u, e)
  \/ \E r \in Requests : VerifyEmail(r) \/ \E h \in held : GetEmailToken(r, h)

SignUp ==
  \/ \E e \in Emails : StoreSignupToken(e)
  \/ \E r \in Requests :
       \/ \E h \in held : GetSignupToken(r, h)
       \/ \E u \in Users : CompleteSignup(r, u)

GoogleSignIn ==
  \/ BeginAuthorization
  \/ \E r \in Requests :
       \/ ResolveGoogleIdentity(r) \/ SignIn(r) \/ StorePending(r)
       \/ \E u \in Users : CompleteGoogleSignup(r, u)
       \/ \E h \in held : GetPending(r, h) \/ \E ok \in BOOLEAN : ExchangeGoogleCode(r, h, ok)
       \/ \E h \in held, sub \in Subs, e \in Emails, ok \in BOOLEAN :
            CompleteAuthorization(r, h, sub, e, ok)

Next ==
  \/ SelfRegistration
  \/ SignUp
  \/ GoogleSignIn
  \/ \E r \in Requests : Fail(r) \/ \E ok \in BOOLEAN : DeleteSecret(r, ok)
  \/ \E h \in held : Expire(h)

Spec == Init /\ [][Next]_vars
-----------------------------------------------------------------------------
(* A Google identity is signed in to one account only, the one it is linked  *)
(* to, though codes and pending sign-ups outlive what they were made from    *)
(* and Google may report another address meanwhile.                          *)
OneAccountPerGoogleIdentity ==
  \A p, q \in session : p[1] = q[1] => p[2] = q[2] /\ <<p[2], p[1]>> \in social

(* An address is marked verified only when somebody has shown a secret that *)
(* was mailed to it, or Google vouched for it.                              *)
VerifiedIsProven ==
  \A u \in Users : account[u].verified => account[u].email \in proven
=============================================================================
