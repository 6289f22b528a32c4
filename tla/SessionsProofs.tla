--------------------------- MODULE SessionsProofs ---------------------------
(***************************************************************************)
(* Proofs about Sessions, for any number of tokens, families, users and    *)
(* concurrent requests, and any lifetimes and grace window.                *)
(***************************************************************************)
EXTENDS Sessions, TLAPS

(* A request in progress presented a token that exists, and its UPDATE saw   *)
(* rows of that token's family.                                            *)
RequestsCoherent ==
  \A r \in Requests :
    request[r].kind # "none" =>
      /\ request[r].token \in Tokens
      /\ Minted(request[r].token)
      /\ \A t \in request[r].sees : family[t] = family[request[r].token]

IInv == TypeOK /\ FamilyCoherent /\ TrailIntact /\ RequestsCoherent

LEMMA EarlierBound ==
  ASSUME NEW a \in Nat, NEW b \in Nat
  PROVE  Earlier(a, b) \in Nat /\ Earlier(a, b) <= b
  BY DEF Earlier

LEMMA NoRequestType == NoRequest \in RequestType
  BY DEF NoRequest, RequestType, Kinds

LEMMA InitIInv == Init => IInv
  <1> SUFFICES ASSUME Init PROVE IInv
    OBVIOUS
  <1> USE SessionsAssumption
  <1>1. TypeOK
    BY NoRequestType DEF Init, TypeOK
  <1>2. FamilyCoherent /\ TrailIntact /\ RequestsCoherent
    BY DEF Init, FamilyCoherent, TrailIntact, RequestsCoherent, Minted, NoRequest
  <1> QED BY <1>1, <1>2 DEF IInv

(* Minting gives a token that did not exist a family, a user and its expiries, *)
(* and touches no other token.                                             *)
LEMMA CreateKeeps ==
  ASSUME TypeOK, NEW t \in Tokens, NEW u \in Users, NEW f \in Families,
         NEW cap \in Nat, NEW now \in Nat, CreateRefreshToken(t, u, f, cap, now)
  PROVE  /\ user' \in [Tokens -> Users]
         /\ family' \in [Tokens -> Families \union {NoFamily}]
         /\ expires' \in [Tokens -> Nat]
         /\ absolute' \in [Tokens -> Nat]
         /\ family[t] = NoFamily
         /\ family'[t] = f /\ user'[t] = u /\ absolute'[t] = cap /\ expires'[t] <= cap
         /\ \A s \in Tokens \ {t} : /\ family'[s] = family[s]
                                    /\ user'[s] = user[s]
                                    /\ absolute'[s] = absolute[s]
                                    /\ expires'[s] = expires[s]
  <1> USE SessionsAssumption
  <1>1. now + IdleTTL \in Nat
    OBVIOUS
  <1>2. Earlier(now + IdleTTL, cap) \in Nat /\ Earlier(now + IdleTTL, cap) <= cap
    BY <1>1, EarlierBound
  <1> QED BY <1>2 DEF CreateRefreshToken, TypeOK, Minted

(* Minting a token of a family that has one keeps families coherent. *)
LEMMA CreateKeepsCoherence ==
  ASSUME IInv, NEW t \in Tokens, NEW u \in Users, NEW f \in Families,
         NEW cap \in Nat, NEW now \in Nat, CreateRefreshToken(t, u, f, cap, now),
         \A s \in FamilyOf(f) : user[s] = u /\ absolute[s] = cap
  PROVE  FamilyCoherent'
  <1> USE SessionsAssumption
  <1>1. TypeOK /\ FamilyCoherent
    BY DEF IInv
  <1>2. /\ family[t] = NoFamily
        /\ family'[t] = f /\ user'[t] = u /\ absolute'[t] = cap /\ expires'[t] <= cap
        /\ \A s \in Tokens \ {t} : /\ family'[s] = family[s]
                                   /\ user'[s] = user[s]
                                   /\ absolute'[s] = absolute[s]
                                   /\ expires'[s] = expires[s]
    BY <1>1, CreateKeeps
  <1> SUFFICES ASSUME NEW x \in Tokens, NEW y \in Tokens,
                      family'[y] # NoFamily, family'[x] = family'[y]
               PROVE  /\ user'[x] = user'[y]
                      /\ absolute'[x] = absolute'[y]
                      /\ expires'[y] <= absolute'[y]
    BY DEF FamilyCoherent, Minted
  <1>3. CASE x # t /\ y # t
    BY <1>1, <1>2, <1>3 DEF FamilyCoherent, Minted
  <1>4. CASE x = t /\ y = t
    BY <1>2, <1>4
  <1>5. CASE x = t /\ y # t
    <2>1. y \in FamilyOf(f)
      BY <1>2, <1>5 DEF FamilyOf
    <2>2. expires[y] <= absolute[y]
      BY <1>1, <1>2, <1>5 DEF FamilyCoherent, Minted
    <2> QED BY <1>2, <1>5, <2>1, <2>2
  <1>6. CASE x # t /\ y = t
    <2>1. x \in FamilyOf(f)
      BY <1>2, <1>6 DEF FamilyOf
    <2> QED BY <1>2, <1>6, <2>1
  <1> QED BY <1>3, <1>4, <1>5, <1>6

(* Ending a family only ever revokes, and only rows its UPDATE saw. *)
LEMMA RevokeKeeps ==
  ASSUME TypeOK, NEW r \in Requests, RevokeRefreshTokenFamily(r)
  PROVE  /\ revoked' \in [Tokens -> BOOLEAN]
         /\ revokedAt' \in [Tokens -> Nat]
         /\ \A t \in Tokens : revoked'[t] = (revoked[t] \/ t \in request[r].sees)
         /\ \A t \in Tokens : revoked[t] => revokedAt'[t] = revokedAt[t]
  <1>0. request[r].now \in Nat
    BY DEF TypeOK, RequestType
  <1>1. revoked' = [t \in Tokens |-> revoked[t] \/ (t \in request[r].sees /\ ~revoked[t])]
    BY DEF RevokeRefreshTokenFamily
  <1>2. revokedAt' = [t \in Tokens |-> IF t \in request[r].sees /\ ~revoked[t]
                                         THEN request[r].now ELSE revokedAt[t]]
    BY DEF RevokeRefreshTokenFamily
  <1>3. revoked \in [Tokens -> BOOLEAN] /\ revokedAt \in [Tokens -> Nat]
    BY DEF TypeOK
  <1>4. revokedAt' \in [Tokens -> Nat]
    BY <1>0, <1>2, <1>3
  <1>5. revoked' \in [Tokens -> BOOLEAN]
    BY <1>1, <1>3
  <1>6. \A t \in Tokens : revoked'[t] = (revoked[t] \/ t \in request[r].sees)
    BY <1>1, <1>3
  <1>7. \A t \in Tokens : revoked[t] => revokedAt'[t] = revokedAt[t]
    BY <1>2, <1>3
  <1> QED BY <1>4, <1>5, <1>6, <1>7

-----------------------------------------------------------------------------
(* The presented token of a request in progress, and what a request records. *)
LEMMA RequestFacts ==
  ASSUME IInv, NEW r \in Requests, request[r].kind # "none"
  PROVE  /\ request[r].token \in Tokens
         /\ family[request[r].token] \in Families
         /\ user[request[r].token] \in Users
         /\ absolute[request[r].token] \in Nat
         /\ request[r].now \in Nat
         /\ request[r].rotates \in BOOLEAN
  BY DEF IInv, TypeOK, RequestsCoherent, RequestType, Minted

(* What a request records is well typed, and of the family of its token. *)
LEMMA RequestTyped ==
  ASSUME TypeOK, NEW t \in Tokens, Minted(t), NEW k \in Kinds
  PROVE  /\ Request(k, t) \in RequestType
         /\ Request(k, t).token = t /\ Request(k, t).kind = k
         /\ \A s \in Request(k, t).sees : family[s] = family[t]
  <1>1. Unrevoked(family[t]) \subseteq Tokens /\ \A s \in Unrevoked(family[t]) : family[s] = family[t]
    BY DEF Unrevoked, FamilyOf
  <1>2. (k = "refresh" /\ ~revoked[t]) \in BOOLEAN /\ clock \in Nat
    BY DEF TypeOK
  <1> QED BY <1>1, <1>2 DEF Request, RequestType

(* A step that only rewrites requests, none with what IInv refuses. *)
LEMMA RequestStepKeeps ==
  ASSUME IInv, NEW r \in Requests, NEW q \in RequestType,
         request' = [request EXCEPT ![r] = q],
         UNCHANGED <<clock, active, tokenVars, ended, spared>>,
         q.token \in Tokens, Minted(q.token), \A s \in q.sees : family[s] = family[q.token]
  PROVE  IInv'
  <1>1. UNCHANGED <<clock, active, user, family, expires, absolute, revoked, revokedAt,
                    replacedBy, ended, spared>>
    BY DEF tokenVars
  <1>2. TypeOK'
    BY <1>1 DEF IInv, TypeOK
  <1>3. FamilyCoherent' /\ TrailIntact'
    BY <1>1 DEF IInv, FamilyCoherent, TrailIntact, Minted
  <1>4. RequestsCoherent'
    BY <1>1 DEF IInv, TypeOK, RequestsCoherent, Minted
  <1> QED BY <1>2, <1>3, <1>4 DEF IInv

LEMMA StartKeeps ==
  ASSUME IInv, NEW r \in Requests, NEW t \in Tokens, Minted(t),
         NEW k \in Kinds, Start(r, Request(k, t))
  PROVE  IInv'
  <1>1. TypeOK
    BY DEF IInv
  <1>2. /\ Request(k, t) \in RequestType
        /\ Request(k, t).token = t
        /\ \A s \in Request(k, t).sees : family[s] = family[t]
    BY <1>1, RequestTyped
  <1>3. /\ request' = [request EXCEPT ![r] = Request(k, t)]
        /\ UNCHANGED <<clock, active, tokenVars, ended, spared>>
    BY DEF Start
  <1> QED BY <1>2, <1>3, RequestStepKeeps

(* The request whose UPDATE begins is the one it was, with a snapshot. *)
LEMMA RevokeBegins ==
  ASSUME IInv, NEW r \in Requests, BeginRevoke(r)
  PROVE  \E q \in RequestType :
           /\ request' = [request EXCEPT ![r] = q]
           /\ UNCHANGED <<clock, active, tokenVars, ended, spared>>
           /\ q.kind = "reuse"
           /\ q.token = request[r].token /\ q.token \in Tokens /\ Minted(q.token)
           /\ \A s \in q.sees : family[s] = family[q.token]
  <1> DEFINE q == [request[r] EXCEPT !.kind = "reuse", !.sees = Unrevoked(family[request[r].token])]
  <1>1. request[r] \in RequestType /\ request[r].kind = "stolen"
        /\ request[r].token \in Tokens /\ Minted(request[r].token)
    BY DEF IInv, TypeOK, RequestsCoherent, BeginRevoke
  <1>2. /\ request' = [request EXCEPT ![r] = q]
        /\ UNCHANGED <<clock, active, tokenVars, ended, spared>>
    BY DEF BeginRevoke, IInv, TypeOK
  <1>3. Unrevoked(family[request[r].token]) \in SUBSET Tokens
        /\ \A s \in Unrevoked(family[request[r].token]) : family[s] = family[request[r].token]
    BY DEF Unrevoked, FamilyOf
  <1>4. /\ q \in RequestType /\ q.kind = "reuse" /\ q.token = request[r].token
        /\ q.sees = Unrevoked(family[request[r].token])
    BY <1>1, <1>3 DEF RequestType, Kinds
  <1> HIDE DEF q
  <1> QED BY <1>1, <1>2, <1>3, <1>4

LEMMA NextIInv == IInv /\ [Next]_vars => IInv'
  <1> SUFFICES ASSUME IInv, [Next]_vars PROVE IInv'
    OBVIOUS
  <1> USE SessionsAssumption
  <1>0. TypeOK /\ FamilyCoherent /\ TrailIntact /\ RequestsCoherent
    BY DEF IInv
  <1>1. ASSUME NEW u \in Users, NEW f \in Families, NEW t \in Tokens, IssueSession(u, f, t)
        PROVE  IInv'
    <2>1. clock + AbsoluteTTL \in Nat /\ clock \in Nat
      BY <1>0 DEF TypeOK
    <2>2. CreateRefreshToken(t, u, f, clock + AbsoluteTTL, clock) /\ FamilyOf(f) = {}
      BY <1>1 DEF IssueSession
    <2>3. FamilyCoherent'
      BY <2>1, <2>2, CreateKeepsCoherence
    <2>4. /\ user' \in [Tokens -> Users]
          /\ family' \in [Tokens -> Families \union {NoFamily}]
          /\ expires' \in [Tokens -> Nat]
          /\ absolute' \in [Tokens -> Nat]
          /\ family[t] = NoFamily
          /\ family'[t] = f
          /\ \A s \in Tokens \ {t} : family'[s] = family[s]
      BY <1>0, <2>1, <2>2, CreateKeeps
    <2>5. TypeOK'
      BY <1>0, <1>1, <2>4 DEF TypeOK, IssueSession
    <2>6. TrailIntact'
      BY <1>0, <1>1, <2>4 DEF TrailIntact, IssueSession, TypeOK, Minted
    <2>7. RequestsCoherent'
      <3>1. request' = request
        BY <1>1 DEF IssueSession
      <3>2. ASSUME NEW r \in Requests, request[r].kind # "none"
            PROVE  /\ request[r].token # t /\ t \notin request[r].sees
                   /\ request[r].sees \subseteq Tokens
        BY <1>0, <2>4, <3>2 DEF RequestsCoherent, TypeOK, RequestType, Minted
      <3> QED BY <1>0, <2>4, <3>1, <3>2 DEF RequestsCoherent, Minted
    <2> QED BY <2>3, <2>5, <2>6, <2>7 DEF IInv
  <1>2. ASSUME NEW r \in Requests, NEW t \in Tokens, BeginRefresh(r, t) PROVE IInv'
    <2>1. "refresh" \in Kinds
      BY DEF Kinds
    <2> QED BY <1>2, <2>1, StartKeeps DEF BeginRefresh
  <1>3. ASSUME NEW r \in Requests, NEW t \in Tokens, BeginReuse(r, t) PROVE IInv'
    <2>1. "stolen" \in Kinds
      BY DEF Kinds
    <2> QED BY <1>3, <2>1, StartKeeps DEF BeginReuse
  <1>4. ASSUME NEW r \in Requests, NEW t \in Tokens, NEW u \in Users, BeginLogout(r, t, u)
        PROVE  IInv'
    <2>1. "logout" \in Kinds
      BY DEF Kinds
    <2> QED BY <1>4, <2>1, StartKeeps DEF BeginLogout
  <1>5. ASSUME NEW r \in Requests, NEW new \in Tokens, CommitRefresh(r, new) PROVE IInv'
    <2> DEFINE old == request[r].token
               now == request[r].now
    <2>1. /\ request[r].kind = "refresh"
          /\ CreateRefreshToken(new, user[old], family[old], absolute[old], now)
          /\ IF request[r].rotates
               THEN RotateRefreshToken(old, new, now)
               ELSE UNCHANGED <<revoked, revokedAt, replacedBy>>
          /\ request' = [request EXCEPT ![r] = NoRequest]
          /\ UNCHANGED <<clock, active, ended>>
      BY <1>5 DEF CommitRefresh, Answer
    <2>2. /\ old \in Tokens /\ family[old] \in Families /\ user[old] \in Users
          /\ absolute[old] \in Nat /\ now \in Nat
      BY <2>1, RequestFacts
    <2> HIDE DEF old, now
    <2>3. /\ user' \in [Tokens -> Users]
          /\ family' \in [Tokens -> Families \union {NoFamily}]
          /\ expires' \in [Tokens -> Nat]
          /\ absolute' \in [Tokens -> Nat]
          /\ family[new] = NoFamily
          /\ family'[new] = family[old]
          /\ \A s \in Tokens \ {new} : family'[s] = family[s]
      BY <1>0, <2>1, <2>2, CreateKeeps
    <2>4. \A s \in FamilyOf(family[old]) : user[s] = user[old] /\ absolute[s] = absolute[old]
      BY <1>0, <2>2 DEF FamilyCoherent, FamilyOf, Minted
    <2>5. FamilyCoherent'
      BY <2>1, <2>2, <2>4, CreateKeepsCoherence
    <2>6. \/ UNCHANGED <<revoked, revokedAt, replacedBy>>
          \/ /\ revoked' = [revoked EXCEPT ![old] = TRUE]
             /\ revokedAt' = [revokedAt EXCEPT ![old] = now]
             /\ replacedBy' = [replacedBy EXCEPT ![old] = new]
      BY <2>1 DEF RotateRefreshToken
    <2>7. revoked' \in [Tokens -> BOOLEAN] /\ revokedAt' \in [Tokens -> Nat]
          /\ replacedBy' \in [Tokens -> Tokens \union {NoToken}]
      <3>1. CASE UNCHANGED <<revoked, revokedAt, replacedBy>>
        BY <1>0, <3>1 DEF TypeOK
      <3>2. CASE /\ revoked' = [revoked EXCEPT ![old] = TRUE]
                 /\ revokedAt' = [revokedAt EXCEPT ![old] = now]
                 /\ replacedBy' = [replacedBy EXCEPT ![old] = new]
        <4>1. revoked' \in [Tokens -> BOOLEAN]
          BY <1>0, <3>2 DEF TypeOK
        <4>2. revokedAt' \in [Tokens -> Nat] /\ replacedBy' \in [Tokens -> Tokens \union {NoToken}]
          BY <1>0, <2>2, <3>2 DEF TypeOK
        <4> QED BY <4>1, <4>2
      <3> QED BY <2>6, <3>1, <3>2
    <2>8. TypeOK'
      <3>1. spared' \subseteq Tokens
        BY <1>0, <1>5 DEF CommitRefresh, TypeOK
      <3> QED BY <1>0, <2>1, <2>3, <2>7, <3>1, NoRequestType DEF TypeOK
    <2>9. TrailIntact'
      <3>1. old # new
        BY <2>2, <2>3
      <3> QED BY <1>0, <2>2, <2>3, <2>6, <3>1 DEF TrailIntact, TypeOK, Minted
    <2>10. RequestsCoherent'
      <3>1. ASSUME NEW q \in Requests, request'[q].kind # "none"
            PROVE  /\ request'[q].token \in Tokens /\ family'[request'[q].token] # NoFamily
                   /\ \A t \in request'[q].sees : family'[t] = family'[request'[q].token]
        <4>1. request'[q] = request[q]
          BY <1>0, <2>1, <3>1 DEF TypeOK, NoRequest
        <4>2. /\ request[q].token \in Tokens /\ family[request[q].token] # NoFamily
              /\ \A t \in request[q].sees : family[t] = family[request[q].token]
              /\ request[q].sees \subseteq Tokens
          BY <1>0, <3>1, <4>1 DEF RequestsCoherent, Minted, TypeOK, RequestType
        <4>3. new \notin request[q].sees /\ new # request[q].token
          BY <2>3, <4>2
        <4>4. family'[request[q].token] = family[request[q].token]
          BY <2>3, <4>2, <4>3
        <4>5. \A t \in request[q].sees : family'[t] = family[t]
          BY <2>3, <4>2, <4>3
        <4> QED BY <4>1, <4>2, <4>4, <4>5
      <3> QED BY <3>1 DEF RequestsCoherent, Minted
    <2> QED BY <2>5, <2>8, <2>9, <2>10 DEF IInv
  <1>6. ASSUME NEW r \in Requests, CommitRevoke(r) PROVE IInv'
    <2>1. /\ request[r].kind \in {"reuse", "logout"}
          /\ request' = [request EXCEPT ![r] = NoRequest]
          /\ UNCHANGED <<clock, active, user, family, expires, absolute, replacedBy>>
          /\ RevokeRefreshTokenFamily(r)
      BY <1>6 DEF CommitRevoke, Answer
    <2>2. /\ revoked' \in [Tokens -> BOOLEAN]
          /\ revokedAt' \in [Tokens -> Nat]
          /\ \A t \in Tokens : revoked[t] => revoked'[t]
      BY <1>0, <2>1, RevokeKeeps
    <2>3. ended' \in [Families -> {"no", "reuse", "logout"}] /\ spared' \subseteq Tokens
      BY <1>0, <1>6, <2>1 DEF TypeOK, CommitRevoke, Uncaught, FamilyOf
    <2>4. TypeOK'
      BY <1>0, <2>1, <2>2, <2>3, NoRequestType DEF TypeOK
    <2>5. FamilyCoherent' /\ TrailIntact'
      BY <1>0, <2>1, <2>2 DEF FamilyCoherent, TrailIntact, Minted
    <2>6. RequestsCoherent'
      BY <1>0, <2>1 DEF RequestsCoherent, TypeOK, Minted, NoRequest
    <2> QED BY <2>4, <2>5, <2>6 DEF IInv
  <1>11. ASSUME NEW r \in Requests, BeginRevoke(r) PROVE IInv'
    BY <1>11, RevokeBegins, RequestStepKeeps
  <1>7. ASSUME NEW r \in Requests, Rollback(r) PROVE IInv'
    <2>1. /\ request' = [request EXCEPT ![r] = NoRequest]
          /\ UNCHANGED <<clock, active, user, family, expires, absolute, revoked,
                         revokedAt, replacedBy, ended, spared>>
      BY <1>7 DEF Rollback, Answer, tokenVars
    <2> QED BY <1>0, <2>1, NoRequestType
            DEF IInv, TypeOK, FamilyCoherent, TrailIntact, RequestsCoherent, Minted, NoRequest
  <1>8. CASE Tick
    BY <1>0, <1>8 DEF Tick, tokenVars, IInv, TypeOK, FamilyCoherent, TrailIntact,
       RequestsCoherent, Minted
  <1>9. ASSUME NEW u \in Users, Suspend(u) PROVE IInv'
    BY <1>0, <1>9 DEF Suspend, tokenVars, IInv, TypeOK, FamilyCoherent, TrailIntact,
       RequestsCoherent, Minted
  <1>10. CASE UNCHANGED vars
    BY <1>0, <1>10 DEF vars, tokenVars, IInv, TypeOK, FamilyCoherent, TrailIntact,
       RequestsCoherent, Minted
  <1> QED
    BY <1>1, <1>2, <1>3, <1>4, <1>5, <1>6, <1>7, <1>8, <1>9, <1>10, <1>11
       DEF Next, RefreshAccessToken, Logout

-----------------------------------------------------------------------------
(* In every reachable state of every instance a family is one login, bounded *)
(* by the cap fixed there, and rotation leaves an intact trail inside it.   *)
THEOREM SessionsSafety == Spec => [](TypeOK /\ FamilyCoherent /\ TrailIntact)
  <1>1. IInv => TypeOK /\ FamilyCoherent /\ TrailIntact
    BY DEF IInv
  <1> QED
    BY <1>1, InitIInv, NextIInv, PTL DEF Spec

(* A step that leaves the tokens alone, and time and suspensions no better,  *)
(* makes no token usable.                                                  *)
LEMMA UsableOnlyDecays ==
  ASSUME IInv, IInv', NEW t \in Tokens, Minted(t), ~Usable(t),
         clock' >= clock, active' \subseteq active,
         user'[t] = user[t], family'[t] = family[t],
         expires'[t] = expires[t], absolute'[t] = absolute[t],
         replacedBy'[t] = replacedBy[t],
         revoked[t] => revoked'[t] /\ revokedAt'[t] = revokedAt[t]
  PROVE  ~Usable(t)'
  <1> USE SessionsAssumption
  <1>1. /\ clock \in Nat /\ clock' \in Nat /\ expires[t] \in Nat /\ absolute[t] \in Nat
        /\ revokedAt[t] \in Nat /\ revoked[t] \in BOOLEAN /\ revoked'[t] \in BOOLEAN
    BY DEF IInv, TypeOK
  <1>2. replacedBy[t] # NoToken => revoked[t]
    BY DEF IInv, TrailIntact
  <1>3. CASE Expired(t)
    <2>1. Expired(t)'
      BY <1>1, <1>3 DEF Expired
    <2> QED BY <2>1 DEF Usable
  <1>4. CASE user[t] \notin active
    BY <1>4 DEF Usable
  <1>5. CASE revoked[t] /\ ~WithinGrace(t)
    <2>1. revoked'[t] /\ ~WithinGrace(t)'
      BY <1>1, <1>5 DEF WithinGrace
    <2> QED BY <2>1 DEF Usable
  <1> QED BY <1>3, <1>4, <1>5 DEF Usable

(* A token of an over family can only have been presented to a request that  *)
(* ends it, so what a step does to the family never makes it usable again.  *)
LEMMA OverStaysOver ==
  ASSUME IInv, IInv', [Next]_vars, NEW f \in Families, Over(f)
  PROVE  Over(f)'
  <1> USE SessionsAssumption
  <1>0. TypeOK /\ TrailIntact /\ RequestsCoherent
    BY DEF IInv
  <1>1. /\ FamilyOf(f) # {}
        /\ \A t \in Tokens : family[t] = f => Minted(t) /\ ~Usable(t)
        /\ \A r \in Requests : request[r].kind = "refresh" => family[request[r].token] # f
    BY <1>0 DEF Over, FamilyOf, Refreshing, Minted
  <1>clk. /\ clock \in Nat /\ clock' \in Nat
    BY DEF IInv, TypeOK
  <1> DEFINE Kept ==
        /\ \A t \in Tokens : (family'[t] = f) = (family[t] = f)
        /\ \A t \in Tokens : family[t] = f =>
             /\ user'[t] = user[t] /\ expires'[t] = expires[t] /\ absolute'[t] = absolute[t]
             /\ replacedBy'[t] = replacedBy[t]
             /\ revoked[t] => revoked'[t] /\ revokedAt'[t] = revokedAt[t]
        /\ clock' >= clock
        /\ active' \subseteq active
        /\ \A r \in Requests : request'[r].kind = "refresh" => family'[request'[r].token] # f
  <1>2. ASSUME Kept PROVE Over(f)'
    <2>1. FamilyOf(f)' = FamilyOf(f)
      BY <1>2 DEF FamilyOf
    <2>2. ASSUME NEW t \in Tokens, family'[t] = f PROVE ~Usable(t)'
      BY <1>1, <1>2, <2>2, UsableOnlyDecays
    <2>3. \A t \in FamilyOf(f)' : ~Usable(t)'
      BY <2>2 DEF FamilyOf
    <2>4. ~Refreshing(f)'
      BY <1>2 DEF Refreshing
    <2> QED BY <1>1, <2>1, <2>3, <2>4 DEF Over
  <1> HIDE DEF Kept
  <1>3. ASSUME NEW u \in Users, NEW g \in Families, NEW t \in Tokens, IssueSession(u, g, t)
        PROVE  Kept
    <2>1. g # f
      BY <1>1, <1>3 DEF IssueSession
    <2>2. clock + AbsoluteTTL \in Nat
      BY <1>clk
    <2>3. /\ family[t] = NoFamily /\ family'[t] = g
          /\ \A s \in Tokens \ {t} : /\ family'[s] = family[s]
                                     /\ user'[s] = user[s]
                                     /\ absolute'[s] = absolute[s]
                                     /\ expires'[s] = expires[s]
      BY <1>0, <1>3, <1>clk, <2>2, CreateKeeps DEF IssueSession
    <2>4. UNCHANGED <<clock, active, revoked, revokedAt, replacedBy, request>>
      BY <1>3 DEF IssueSession
    <2> QED BY <1>0, <1>1, <1>clk, <2>1, <2>3, <2>4 DEF Kept, RequestsCoherent, Minted
  <1>4. ASSUME NEW r \in Requests, NEW t \in Tokens, BeginRefresh(r, t) PROVE Kept
    <2>1. Usable(t)
      BY <1>4 DEF BeginRefresh, Usable
    <2>2. family[t] # f
      BY <1>1, <2>1
    <2>3. /\ UNCHANGED <<clock, active, user, family, expires, absolute, revoked,
                         revokedAt, replacedBy>>
          /\ request' = [request EXCEPT ![r] = Request("refresh", t)]
          /\ Request("refresh", t).token = t
      BY <1>4 DEF BeginRefresh, Start, tokenVars, Request
    <2>4. ASSUME NEW q \in Requests, request'[q].kind = "refresh"
          PROVE  family[request'[q].token] # f
      <3>1. CASE q = r
        BY <1>0, <2>2, <2>3, <3>1 DEF TypeOK
      <3>2. CASE q # r
        BY <1>0, <1>1, <2>3, <2>4, <3>2 DEF TypeOK
      <3> QED BY <3>1, <3>2
    <2> QED BY <1>clk, <2>3, <2>4 DEF Kept
  <1>5. ASSUME NEW r \in Requests, NEW t \in Tokens, NEW u \in Users,
               BeginReuse(r, t) \/ BeginLogout(r, t, u)
        PROVE  Kept
    <2>1. /\ UNCHANGED <<clock, active, user, family, expires, absolute, revoked,
                         revokedAt, replacedBy>>
          /\ \A q \in Requests : request'[q].kind = "refresh" => request'[q] = request[q]
      BY <1>0, <1>5 DEF BeginReuse, BeginLogout, Start, Request, tokenVars, TypeOK
    <2> QED BY <1>1, <1>clk, <2>1 DEF Kept
  <1>6. ASSUME NEW r \in Requests, NEW new \in Tokens, CommitRefresh(r, new) PROVE Kept
    <2> DEFINE old == request[r].token
               now == request[r].now
    <2>1. /\ request[r].kind = "refresh"
          /\ CreateRefreshToken(new, user[old], family[old], absolute[old], now)
          /\ IF request[r].rotates
               THEN RotateRefreshToken(old, new, now)
               ELSE UNCHANGED <<revoked, revokedAt, replacedBy>>
          /\ request' = [request EXCEPT ![r] = NoRequest]
          /\ UNCHANGED <<clock, active, ended>>
      BY <1>6 DEF CommitRefresh, Answer
    <2>2. /\ old \in Tokens /\ family[old] \in Families /\ user[old] \in Users
          /\ absolute[old] \in Nat /\ now \in Nat
      BY <2>1, RequestFacts
    <2>3. family[old] # f
      BY <1>1, <2>1
    <2> HIDE DEF old, now
    <2>4. /\ family[new] = NoFamily
          /\ family'[new] = family[old]
          /\ \A s \in Tokens \ {new} : /\ family'[s] = family[s]
                                       /\ user'[s] = user[s]
                                       /\ absolute'[s] = absolute[s]
                                       /\ expires'[s] = expires[s]
      BY <1>0, <2>1, <2>2, CreateKeeps
    <2>5. \A t \in Tokens : t # old =>
            revoked'[t] = revoked[t] /\ revokedAt'[t] = revokedAt[t] /\ replacedBy'[t] = replacedBy[t]
      BY <1>0, <2>1, <2>2 DEF RotateRefreshToken, TypeOK
    <2>6. ASSUME NEW q \in Requests, request'[q].kind = "refresh"
          PROVE  family'[request'[q].token] # f
      <3>1. request'[q] = request[q]
        BY <1>0, <2>1, <2>6 DEF TypeOK, NoRequest
      <3>2. request[q].token \in Tokens /\ family[request[q].token] # f
        BY <1>0, <1>1, <2>6, <3>1 DEF RequestsCoherent
      <3> QED BY <2>3, <2>4, <3>1, <3>2
    <2>7. clock' >= clock /\ active' \subseteq active
      BY <1>clk, <2>1
    <2>8. f # NoFamily
      OBVIOUS
    <2> QED BY <2>3, <2>4, <2>5, <2>6, <2>7, <2>8 DEF Kept
  <1>7. ASSUME NEW r \in Requests, CommitRevoke(r) PROVE Kept
    <2>1. /\ request' = [request EXCEPT ![r] = NoRequest]
          /\ UNCHANGED <<clock, active, user, family, expires, absolute, replacedBy>>
          /\ RevokeRefreshTokenFamily(r)
      BY <1>7 DEF CommitRevoke, Answer
    <2>4. \A t \in Tokens : revoked[t] => revoked'[t] /\ revokedAt'[t] = revokedAt[t]
      BY <1>0, <2>1, RevokeKeeps
    <2>5. \A q \in Requests : request'[q].kind = "refresh" => request'[q] = request[q]
      BY <1>0, <2>1 DEF TypeOK, NoRequest
    <2> QED BY <1>1, <1>clk, <2>1, <2>4, <2>5 DEF Kept
  <1>10. ASSUME NEW r \in Requests, BeginRevoke(r) PROVE Kept
    <2>1. /\ UNCHANGED <<clock, active, user, family, expires, absolute, revoked,
                         revokedAt, replacedBy>>
          /\ \A q \in Requests : request'[q].kind = "refresh" => request'[q] = request[q]
      BY <1>0, <1>10, RevokeBegins DEF tokenVars, TypeOK
    <2> QED BY <1>1, <1>clk, <2>1 DEF Kept
  <1>8. ASSUME NEW r \in Requests, Rollback(r) PROVE Kept
    <2>1. /\ request' = [request EXCEPT ![r] = NoRequest]
          /\ UNCHANGED <<clock, active, user, family, expires, absolute, revoked,
                         revokedAt, replacedBy>>
      BY <1>8 DEF Rollback, Answer, tokenVars
    <2>2. \A q \in Requests : request'[q].kind = "refresh" => request'[q] = request[q]
      BY <1>0, <2>1 DEF TypeOK, NoRequest
    <2> QED BY <1>1, <1>clk, <2>1, <2>2 DEF Kept
  <1>9. ASSUME Tick \/ (\E u \in Users : Suspend(u)) \/ UNCHANGED vars PROVE Kept
    <2>1. /\ UNCHANGED <<user, family, expires, absolute, revoked, revokedAt, replacedBy, request>>
          /\ clock' >= clock /\ active' \subseteq active
      BY <1>clk, <1>9 DEF Tick, Suspend, vars, tokenVars
    <2> QED BY <1>1, <2>1 DEF Kept
  <1> QED
    BY <1>2, <1>3, <1>4, <1>5, <1>6, <1>7, <1>8, <1>9, <1>10
       DEF Next, RefreshAccessToken, Logout

(* A session that is over is never brought back, whatever requests overlap. *)
THEOREM OverForGood == Spec => OverIsOver
  <1>1. IInv /\ IInv' /\ [Next]_vars => [\A f \in Families : Over(f) => Over(f)']_vars
    BY OverStaysOver
  <1> QED
    BY <1>1, InitIInv, NextIInv, PTL DEF Spec, OverIsOver

-----------------------------------------------------------------------------
(* Ending sessions.                                                        *)

(* Which step revokes a token: one of a request that presented a token of    *)
(* its family.                                                             *)
LEMMA RevokedByItsFamily ==
  ASSUME IInv, [Next]_vars, NEW t \in Tokens, revoked'[t] # revoked[t]
  PROVE  \E r \in Requests : request[r].kind # "none" /\ family[request[r].token] = family[t]
  <1>0. TypeOK
    BY DEF IInv
  <1>1. ASSUME NEW r \in Requests, NEW new \in Tokens, CommitRefresh(r, new)
        PROVE  request[r].kind # "none" /\ family[request[r].token] = family[t]
    <2>1. request[r].kind = "refresh"
      BY <1>1 DEF CommitRefresh
    <2>2. t = request[r].token
      BY <1>0, <1>1 DEF CommitRefresh, RotateRefreshToken, TypeOK
    <2> QED BY <2>1, <2>2
  <1>2. ASSUME NEW r \in Requests, CommitRevoke(r)
        PROVE  request[r].kind # "none" /\ family[request[r].token] = family[t]
    <2>1. request[r].kind # "none" /\ RevokeRefreshTokenFamily(r)
      BY <1>2 DEF CommitRevoke
    <2>2. revoked'[t] = (revoked[t] \/ t \in request[r].sees)
      BY <1>0, <2>1, RevokeKeeps
    <2>3. t \in request[r].sees
      BY <1>0, <2>2 DEF TypeOK
    <2> QED BY <2>1, <2>3 DEF IInv, RequestsCoherent
  <1>3. ~UNCHANGED revoked
    OBVIOUS
  <1> QED
    BY <1>1, <1>2, <1>3
       DEF Next, RefreshAccessToken, Logout, IssueSession, BeginRefresh, BeginReuse, BeginRevoke,
           BeginLogout, Start, Rollback, Tick, Suspend, vars, tokenVars

(* Logout, and the detection of a reuse: "Only this session" - no token of   *)
(* another family is ever revoked.                                         *)
THEOREM OnlyThisSession == Spec => OtherSessionsUntouched
  <1>1. IInv /\ [Next]_vars =>
          [\A t \in Tokens :
             revoked'[t] # revoked[t] =>
               \E r \in Requests : request[r].kind # "none" /\ family[request[r].token] = family[t]]_vars
    BY RevokedByItsFamily
  <1> QED
    BY <1>1, InitIInv, NextIInv, PTL DEF Spec, OtherSessionsUntouched

(* What is spared covers what can still be used of an ended session, and     *)
(* what a refresh of it holds.                                             *)
HeldIsSpared ==
  \A r \in Requests :
    request[r].kind = "refresh" /\ ended[family[request[r].token]] # "no"
      => request[r].token \in spared
EndedHadTokens == \A f \in Families : ended[f] # "no" => FamilyOf(f) # {}
SInv == OnlySparedLive /\ HeldIsSpared /\ EndedHadTokens

LEMMA InitSInv == Init => SInv
  BY SessionsAssumption
     DEF Init, SInv, OnlySparedLive, HeldIsSpared, EndedHadTokens, Usable, Minted, NoRequest

(* A step that mints nothing, begins no refresh and lets tokens only decay. *)
LEMMA DecayKeepsSpared ==
  ASSUME IInv, IInv', SInv, UNCHANGED <<user, family, expires, absolute, replacedBy, ended, spared>>,
         clock' >= clock, active' \subseteq active,
         \A t \in Tokens : revoked[t] => revoked'[t] /\ revokedAt'[t] = revokedAt[t],
         \A r \in Requests : request'[r].kind = "refresh" => request'[r] = request[r]
  PROVE  SInv'
  <1>1. ASSUME NEW t \in Tokens, Usable(t)' PROVE Usable(t)
    <2>1. Minted(t)
      BY <1>1 DEF Usable, Minted
    <2> QED BY <1>1, <2>1, UsableOnlyDecays
  <1>2. OnlySparedLive'
    BY <1>1 DEF SInv, OnlySparedLive
  <1>3. HeldIsSpared' /\ EndedHadTokens'
    BY DEF SInv, HeldIsSpared, EndedHadTokens, FamilyOf
  <1> QED BY <1>2, <1>3 DEF SInv

LEMMA NextSInv == IInv /\ IInv' /\ SInv /\ [Next]_vars => SInv'
  <1> SUFFICES ASSUME IInv, IInv', SInv, [Next]_vars PROVE SInv'
    OBVIOUS
  <1> USE SessionsAssumption
  <1>0. /\ TypeOK /\ TrailIntact /\ RequestsCoherent
        /\ OnlySparedLive /\ HeldIsSpared /\ EndedHadTokens
        /\ clock \in Nat /\ clock' \in Nat
    BY DEF IInv, TypeOK, SInv
  <1>1. ASSUME NEW u \in Users, NEW f \in Families, NEW t \in Tokens, IssueSession(u, f, t)
        PROVE  SInv'
    <2>1. /\ UNCHANGED <<clock, active, revoked, revokedAt, replacedBy, request, ended, spared>>
          /\ ended[f] = "no"
      BY <1>0, <1>1 DEF IssueSession, EndedHadTokens
    <2>2. /\ family[t] = NoFamily /\ family'[t] = f
          /\ \A s \in Tokens \ {t} : /\ family'[s] = family[s]
                                     /\ user'[s] = user[s]
                                     /\ absolute'[s] = absolute[s]
                                     /\ expires'[s] = expires[s]
      BY <1>0, <1>1, CreateKeeps DEF IssueSession
    <2>3. \A s \in Tokens \ {t} : Usable(s)' <=> Usable(s)
      BY <2>1, <2>2 DEF Usable, Minted, Expired, WithinGrace
    <2>4. OnlySparedLive'
      BY <1>0, <2>1, <2>2, <2>3 DEF OnlySparedLive
    <2>5. HeldIsSpared'
      BY <1>0, <2>1, <2>2 DEF HeldIsSpared, RequestsCoherent, Minted
    <2>6. EndedHadTokens'
      BY <1>0, <2>1, <2>2 DEF EndedHadTokens, FamilyOf
    <2> QED BY <2>4, <2>5, <2>6 DEF SInv
  <1>2. ASSUME NEW r \in Requests, NEW t \in Tokens, BeginRefresh(r, t) PROVE SInv'
    <2>1. /\ UNCHANGED <<clock, active, user, family, expires, absolute, revoked,
                         revokedAt, replacedBy, ended, spared>>
          /\ request' = [request EXCEPT ![r] = Request("refresh", t)]
          /\ Request("refresh", t).token = t
          /\ Usable(t)
      BY <1>2 DEF BeginRefresh, Start, Request, Usable, tokenVars
    <2>2. OnlySparedLive' /\ EndedHadTokens'
      BY <1>0, <2>1 DEF OnlySparedLive, EndedHadTokens, FamilyOf, Usable, Minted, Expired, WithinGrace
    <2>3. HeldIsSpared'
      BY <1>0, <2>1 DEF OnlySparedLive, HeldIsSpared, TypeOK
    <2> QED BY <2>2, <2>3 DEF SInv
  <1>3. ASSUME NEW r \in Requests, NEW new \in Tokens, CommitRefresh(r, new) PROVE SInv'
    <2> DEFINE old == request[r].token
               now == request[r].now
    <2>1. /\ request[r].kind = "refresh"
          /\ CreateRefreshToken(new, user[old], family[old], absolute[old], now)
          /\ IF request[r].rotates
               THEN RotateRefreshToken(old, new, now)
               ELSE UNCHANGED <<revoked, revokedAt, replacedBy>>
          /\ spared' = IF old \in spared THEN spared \union {new} ELSE spared
          /\ request' = [request EXCEPT ![r] = NoRequest]
          /\ UNCHANGED <<clock, active, ended>>
      BY <1>3 DEF CommitRefresh, Answer
    <2>2. /\ old \in Tokens /\ family[old] \in Families /\ user[old] \in Users
          /\ absolute[old] \in Nat /\ now \in Nat
      BY <2>1, RequestFacts
    <2>3. ended[family[old]] # "no" => old \in spared
      BY <1>0, <2>1 DEF HeldIsSpared
    <2> HIDE DEF old, now
    <2>4. /\ family[new] = NoFamily /\ family'[new] = family[old]
          /\ \A s \in Tokens \ {new} : /\ family'[s] = family[s]
                                       /\ user'[s] = user[s]
                                       /\ absolute'[s] = absolute[s]
                                       /\ expires'[s] = expires[s]
      BY <1>0, <2>1, <2>2, CreateKeeps
    <2>5. \A s \in Tokens : s # old =>
            revoked'[s] = revoked[s] /\ revokedAt'[s] = revokedAt[s] /\ replacedBy'[s] = replacedBy[s]
      BY <1>0, <2>1, <2>2 DEF RotateRefreshToken, TypeOK
    <2>6. \A s \in Tokens \ {old, new} : Usable(s)' <=> Usable(s)
      BY <2>1, <2>4, <2>5 DEF Usable, Minted, Expired, WithinGrace
    <2>7. OnlySparedLive'
      <3>1. ASSUME NEW s \in Tokens, Usable(s)', ended'[family'[s]] # "no" PROVE s \in spared'
        <4>1. CASE s = old \/ s = new
          BY <2>1, <2>2, <2>3, <2>4, <3>1, <4>1
        <4>2. CASE s # old /\ s # new
          BY <1>0, <2>1, <2>4, <2>6, <3>1, <4>2 DEF OnlySparedLive
        <4> QED BY <4>1, <4>2
      <3> QED BY <3>1 DEF OnlySparedLive
    <2>8. HeldIsSpared'
      <3>1. ASSUME NEW q \in Requests, request'[q].kind = "refresh",
                   ended'[family'[request'[q].token]] # "no"
            PROVE  request'[q].token \in spared'
        <4>1. request'[q] = request[q]
          BY <1>0, <2>1, <3>1 DEF TypeOK, NoRequest
        <4>2. request[q].token \in Tokens /\ request[q].token # new
          BY <1>0, <2>4, <3>1, <4>1 DEF RequestsCoherent, Minted
        <4> QED BY <1>0, <2>1, <2>4, <3>1, <4>1, <4>2 DEF HeldIsSpared
      <3> QED BY <3>1 DEF HeldIsSpared
    <2>9. EndedHadTokens'
      <3>1. \A f \in Families : FamilyOf(f) \subseteq FamilyOf(f)'
        BY <2>4 DEF FamilyOf
      <3> QED BY <1>0, <2>1, <3>1 DEF EndedHadTokens
    <2> QED BY <2>7, <2>8, <2>9 DEF SInv
  <1>4. ASSUME NEW r \in Requests, CommitRevoke(r) PROVE SInv'
    <2> DEFINE f == family[request[r].token]
    <2>1. /\ request[r].kind # "none"
          /\ RevokeRefreshTokenFamily(r)
          /\ ended' = [ended EXCEPT ![f] = request[r].kind]
          /\ spared' = (spared \ FamilyOf(f)) \union Uncaught(r)
          /\ request' = [request EXCEPT ![r] = NoRequest]
          /\ UNCHANGED <<clock, active, user, family, expires, absolute, replacedBy>>
      BY <1>4 DEF CommitRevoke, Answer
    <2>2. /\ f \in Families /\ request[r].token \in FamilyOf(f)
          /\ \A t \in request[r].sees : family[t] = f
      BY <1>0, <2>1, RequestFacts DEF FamilyOf, RequestsCoherent
    <2>3. /\ \A t \in Tokens : revoked'[t] = (revoked[t] \/ t \in request[r].sees)
          /\ \A t \in Tokens : revoked[t] => revokedAt'[t] = revokedAt[t]
      BY <1>0, <2>1, RevokeKeeps
    <2>4. ASSUME NEW t \in Tokens, Usable(t)'
          PROVE  Usable(t) /\ (t \in request[r].sees => revoked[t])
      <3>1. Usable(t)
        <4>1. Minted(t)
          BY <2>1, <2>4 DEF Usable, Minted
        <4>2. clock' >= clock /\ active' \subseteq active
          BY <1>0, <2>1
        <4>3. revoked[t] => revoked'[t] /\ revokedAt'[t] = revokedAt[t]
          BY <2>3
        <4>4. /\ user'[t] = user[t] /\ family'[t] = family[t] /\ expires'[t] = expires[t]
              /\ absolute'[t] = absolute[t] /\ replacedBy'[t] = replacedBy[t]
          BY <2>1
        <4> QED BY <2>4, <4>1, <4>2, <4>3, <4>4, UsableOnlyDecays
      <3>2. ASSUME t \in request[r].sees, ~revoked[t] PROVE FALSE
        <4>1. replacedBy'[t] = NoToken /\ revoked'[t]
          BY <1>0, <2>1, <2>3, <3>2 DEF TrailIntact
        <4> QED BY <2>4, <4>1 DEF Usable, WithinGrace
      <3> QED BY <1>0, <3>1, <3>2 DEF TypeOK
    <2>5. OnlySparedLive'
      <3>1. ASSUME NEW t \in Tokens, Usable(t)', ended'[family[t]] # "no" PROVE t \in spared'
        <4>1. CASE family[t] = f
          <5>1. t \in FamilyOf(f) /\ ((~revoked[t] /\ t \notin request[r].sees) \/ WithinGrace(t))
            BY <1>0, <2>4, <3>1, <4>1 DEF FamilyOf, Usable, TypeOK
          <5> QED BY <2>1, <5>1 DEF Uncaught
        <4>2. CASE family[t] # f
          <5>1. family[t] \in Families /\ ended[family[t]] # "no" /\ t \notin FamilyOf(f)
            BY <1>0, <2>1, <2>2, <2>4, <3>1, <4>2 DEF FamilyOf, Usable, Minted, TypeOK
          <5> QED BY <1>0, <2>1, <2>4, <3>1, <5>1 DEF OnlySparedLive
        <4> QED BY <4>1, <4>2
      <3> QED BY <2>1, <3>1 DEF OnlySparedLive
    <2>6. HeldIsSpared'
      <3>1. ASSUME NEW q \in Requests, request'[q].kind = "refresh",
                   ended'[family[request'[q].token]] # "no"
            PROVE  request'[q].token \in spared'
        <4>1. request'[q] = request[q] /\ request[q].token \in Tokens
              /\ family[request[q].token] \in Families
          BY <1>0, <2>1, <3>1, RequestFacts DEF TypeOK, NoRequest
        <4>2. CASE family[request[q].token] = f
          BY <2>1, <3>1, <4>1, <4>2 DEF Uncaught, FamilyOf
        <4>3. CASE family[request[q].token] # f
          BY <1>0, <2>1, <2>2, <3>1, <4>1, <4>3 DEF HeldIsSpared, FamilyOf, TypeOK
        <4> QED BY <4>2, <4>3
      <3> QED BY <2>1, <3>1 DEF HeldIsSpared
    <2>7. EndedHadTokens'
      <3>1. \A g \in Families : g # f => ended'[g] = ended[g]
        BY <1>0, <2>1, <2>2 DEF TypeOK
      <3>2. \A g \in Families : FamilyOf(g)' = FamilyOf(g)
        BY <2>1 DEF FamilyOf
      <3> QED BY <1>0, <2>2, <3>1, <3>2 DEF EndedHadTokens
    <2> QED BY <2>5, <2>6, <2>7 DEF SInv
  <1>5. ASSUME NEW r \in Requests, NEW t \in Tokens, NEW u \in Users,
               BeginReuse(r, t) \/ BeginLogout(r, t, u)
        PROVE  SInv'
    <2>1. UNCHANGED <<clock, active, user, family, expires, absolute, revoked, revokedAt,
                      replacedBy, ended, spared>>
      BY <1>5 DEF BeginReuse, BeginLogout, Start, tokenVars
    <2>2. \A q \in Requests : request'[q].kind = "refresh" => request'[q] = request[q]
      BY <1>0, <1>5 DEF BeginReuse, BeginLogout, Start, Request, TypeOK
    <2> QED BY <1>0, <2>1, <2>2, DecayKeepsSpared
  <1>6. ASSUME NEW r \in Requests, BeginRevoke(r) \/ Rollback(r) PROVE SInv'
    <2>1. UNCHANGED <<clock, active, user, family, expires, absolute, revoked, revokedAt,
                      replacedBy, ended, spared>>
      BY <1>6 DEF BeginRevoke, Rollback, tokenVars
    <2>2. \A q \in Requests : request'[q].kind = "refresh" => request'[q] = request[q]
      <3>1. CASE BeginRevoke(r)
        BY <1>0, <3>1, RevokeBegins DEF TypeOK
      <3>2. CASE Rollback(r)
        BY <1>0, <3>2 DEF Rollback, Answer, NoRequest, TypeOK
      <3> QED BY <1>6, <3>1, <3>2
    <2> QED BY <1>0, <2>1, <2>2, DecayKeepsSpared
  <1>7. ASSUME Tick \/ (\E u \in Users : Suspend(u)) \/ UNCHANGED vars PROVE SInv'
    <2>1. /\ UNCHANGED <<user, family, expires, absolute, revoked, revokedAt, replacedBy, request,
                         ended, spared>>
          /\ clock' >= clock /\ active' \subseteq active
      BY <1>0, <1>7 DEF Tick, Suspend, vars, tokenVars
    <2> QED BY <2>1, DecayKeepsSpared
  <1> QED
    BY <1>1, <1>2, <1>3, <1>4, <1>5, <1>6, <1>7 DEF Next, RefreshAccessToken, Logout

(* RevokeRefreshTokenFamily, run by a logout or by the detection of a reuse: *)
(* whatever refreshes it races with, the session lives on through nothing  *)
(* but what the revocation could not catch.                                *)
THEOREM EndingCatchesTheRest == Spec => []OnlySparedLive
  <1>1. SInv => OnlySparedLive
    BY DEF SInv
  <1> QED
    BY <1>1, InitIInv, NextIInv, InitSInv, NextSInv, PTL DEF Spec

-----------------------------------------------------------------------------
(* Sessions implements SessionLifecycle.                                   *)

(* The rows of tokens not minted are not touched, and the clock is bounded. *)
FreshTokens == \A t \in Tokens : ~Minted(t) => ~revoked[t]
ClockBounded == clock <= MaxTime
RInv == FreshTokens /\ ClockBounded

LEMMA InitRInv == Init => RInv
  BY SessionsAssumption DEF Init, RInv, FreshTokens, ClockBounded

LEMMA NextRInv == IInv /\ RInv /\ [Next]_vars => RInv'
  <1> SUFFICES ASSUME IInv, RInv, [Next]_vars PROVE RInv'
    OBVIOUS
  <1> USE SessionsAssumption
  <1>0. TypeOK /\ FreshTokens /\ ClockBounded /\ clock \in Nat
    BY DEF IInv, RInv, TypeOK
  <1>1. ASSUME NEW u \in Users, NEW f \in Families, NEW t \in Tokens, IssueSession(u, f, t)
        PROVE  RInv'
    <2>1. \A s \in Tokens \ {t} : family'[s] = family[s]
      BY <1>0, <1>1 DEF IssueSession, CreateRefreshToken, TypeOK
    <2>2. ~revoked[t]
      BY <1>0, <1>1 DEF IssueSession, CreateRefreshToken, FreshTokens
    <2>3. UNCHANGED <<clock, revoked>>
      BY <1>1 DEF IssueSession
    <2> QED BY <1>0, <2>1, <2>2, <2>3 DEF RInv, FreshTokens, ClockBounded, Minted
  <1>2. ASSUME NEW r \in Requests, NEW new \in Tokens, CommitRefresh(r, new) PROVE RInv'
    <2> DEFINE old == request[r].token
               now == request[r].now
    <2>1. /\ request[r].kind = "refresh"
          /\ CreateRefreshToken(new, user[old], family[old], absolute[old], now)
          /\ IF request[r].rotates
               THEN RotateRefreshToken(old, new, now)
               ELSE UNCHANGED <<revoked, revokedAt, replacedBy>>
          /\ clock' = clock
      BY <1>2 DEF CommitRefresh
    <2>2. /\ old \in Tokens /\ family[old] \in Families /\ user[old] \in Users
          /\ absolute[old] \in Nat /\ now \in Nat
      BY <2>1, RequestFacts
    <2> HIDE DEF old, now
    <2>3. family'[new] = family[old] /\ \A s \in Tokens \ {new} : family'[s] = family[s]
      BY <1>0, <2>1, <2>2, CreateKeeps
    <2>4. \A t \in Tokens \ {old} : revoked'[t] = revoked[t]
      BY <1>0, <2>1, <2>2 DEF RotateRefreshToken, TypeOK
    <2>5. ASSUME NEW t \in Tokens, family'[t] = NoFamily PROVE ~revoked'[t]
      <3>1. t # new /\ t # old
        BY <2>2, <2>3, <2>5
      <3> QED BY <1>0, <2>3, <2>4, <2>5, <3>1 DEF FreshTokens, Minted
    <2> QED BY <1>0, <2>1, <2>5 DEF RInv, FreshTokens, ClockBounded, Minted
  <1>3. ASSUME NEW r \in Requests, CommitRevoke(r) PROVE RInv'
    <2>1. /\ request[r].kind # "none" /\ UNCHANGED <<clock, family>>
          /\ RevokeRefreshTokenFamily(r)
      BY <1>3 DEF CommitRevoke
    <2>2. \A t \in Tokens : revoked'[t] = (revoked[t] \/ t \in request[r].sees)
      BY <1>0, <2>1, RevokeKeeps
    <2>3. \A t \in request[r].sees : Minted(t)
      BY <2>1 DEF IInv, RequestsCoherent, Minted
    <2>4. ASSUME NEW t \in Tokens, family[t] = NoFamily PROVE ~revoked'[t]
      BY <1>0, <2>2, <2>3, <2>4 DEF FreshTokens, Minted
    <2> QED BY <1>0, <2>1, <2>4 DEF RInv, FreshTokens, ClockBounded, Minted
  <1>4. ASSUME UNCHANGED <<family, revoked>>, clock' = clock \/ (clock < MaxTime /\ clock' = clock + 1)
        PROVE  RInv'
    BY <1>0, <1>4 DEF RInv, FreshTokens, ClockBounded, Minted
  <1> QED
    BY <1>1, <1>2, <1>3, <1>4
       DEF Next, RefreshAccessToken, Logout, BeginRefresh, BeginReuse, BeginRevoke,
           BeginLogout, Start, Rollback, Tick, Suspend, vars, tokenVars

(* A step that leaves every session its user and its cap, starts none and    *)
(* brings none back ends the open sessions it leaves over, or is a stutter. *)
LEMMA EndStep ==
  ASSUME \A f \in Families : Owners(f)' = Owners(f) /\ Caps(f)' = Caps(f),
         \A f \in Families : FamilyOf(f)' = {} <=> FamilyOf(f) = {},
         \A f \in Families : Over(f) => Over(f)'
  PROVE  Lifecycle!Next
  <1> DEFINE ending == {f \in Families : Phase(f) = "open" /\ Phase(f)' = "over"}
  <1>1. ending \in SUBSET Families /\ \A f \in ending : Phase(f) = "open"
    OBVIOUS
  <1>2. ASSUME NEW f \in Families
        PROVE  Phase(f)' = IF f \in ending THEN "over" ELSE Phase(f)
    <2>1. CASE Phase(f) = "none"
      BY <2>1 DEF Phase, Over
    <2>2. CASE Phase(f) = "over"
      BY <2>2 DEF Phase, Over
    <2>3. CASE Phase(f) = "open"
      BY <2>3 DEF Phase
    <2> QED BY <2>1, <2>2, <2>3 DEF Phase
  <1> HIDE DEF ending
  <1>3. [f \in Families |-> Phase(f)]'
          = [f \in Families |-> IF f \in ending THEN "over" ELSE [g \in Families |-> Phase(g)][f]]
    BY <1>2
  <1>4. UNCHANGED <<[f \in Families |-> Owners(f)], [f \in Families |-> Caps(f)]>>
    OBVIOUS
  <1>5. \A f \in ending : [g \in Families |-> Phase(g)][f] = "open"
    BY <1>1
  <1>6. Lifecycle!End(ending)
    BY <1>3, <1>4, <1>5 DEF Lifecycle!End
  <1> QED BY <1>1, <1>6 DEF Lifecycle!Next

(* A step that opens one session and leaves the others as they are is a     *)
(* login.                                                                  *)
LEMMA LoginStep ==
  ASSUME NEW f \in Families, NEW u \in Users, NEW end \in 0..(MaxTime + AbsoluteTTL),
         Phase(f) = "none", Phase(f)' = "open", Owners(f)' = {u}, Caps(f)' = {end},
         \A g \in Families \ {f} :
           Phase(g)' = Phase(g) /\ Owners(g)' = Owners(g) /\ Caps(g)' = Caps(g)
  PROVE  Lifecycle!Next
  <1>1. [g \in Families |-> Phase(g)]' = [[g \in Families |-> Phase(g)] EXCEPT ![f] = "open"]
    OBVIOUS
  <1>2. [g \in Families |-> Owners(g)]' = [[g \in Families |-> Owners(g)] EXCEPT ![f] = {u}]
    OBVIOUS
  <1>3. [g \in Families |-> Caps(g)]' = [[g \in Families |-> Caps(g)] EXCEPT ![f] = {end}]
    OBVIOUS
  <1>4. [g \in Families |-> Phase(g)][f] = "none"
    OBVIOUS
  <1>5. Lifecycle!Login(f)
    BY <1>1, <1>2, <1>3, <1>4 DEF Lifecycle!Login
  <1> QED BY <1>5 DEF Lifecycle!Next
(* issueSession opens a session: its token can be used at once, and a token  *)
(* of another session does not change.                                     *)
LEMMA IssueIsLogin ==
  ASSUME IInv, RInv, NEW u \in Users, NEW f \in Families, NEW t \in Tokens, IssueSession(u, f, t)
  PROVE  Lifecycle!Next
  <1> USE SessionsAssumption
  <1> DEFINE end == clock + AbsoluteTTL
  <1>0. /\ TypeOK /\ RequestsCoherent /\ FreshTokens /\ clock \in Nat /\ clock <= MaxTime
        /\ FamilyOf(f) = {} /\ u \in active /\ CreateRefreshToken(t, u, f, end, clock)
        /\ UNCHANGED <<clock, active, revoked, revokedAt, replacedBy, request>>
    BY DEF IInv, RInv, ClockBounded, IssueSession, TypeOK
  <1>1. end \in Nat /\ end \in 0..(MaxTime + AbsoluteTTL) /\ clock <= end
    BY <1>0
  <1>2. expires'[t] = Earlier(clock + IdleTTL, end)
    BY <1>0 DEF CreateRefreshToken, TypeOK
  <1>3. clock <= expires'[t]
    BY <1>0, <1>1, <1>2 DEF Earlier
  <1> HIDE DEF end
  <1>4. /\ family[t] = NoFamily
        /\ family'[t] = f /\ user'[t] = u /\ absolute'[t] = end
        /\ \A s \in Tokens \ {t} : /\ family'[s] = family[s]
                                   /\ user'[s] = user[s]
                                   /\ absolute'[s] = absolute[s]
                                   /\ expires'[s] = expires[s]
    BY <1>0, <1>1, CreateKeeps
  <1>5. FamilyOf(f)' = {t}
    BY <1>0, <1>4 DEF FamilyOf
  <1>6. Usable(t)'
    <2>1. ~revoked'[t]
      BY <1>0, <1>4 DEF FreshTokens, Minted
    <2>2. ~(clock' > expires'[t] \/ clock' > absolute'[t])
      <3>1. clock' = clock /\ expires'[t] \in Int /\ absolute'[t] \in Int
        BY <1>0, <1>1, <1>2, <1>4 DEF Earlier
      <3> QED BY <1>0, <1>1, <1>3, <1>4, <3>1
    <2> QED BY <1>0, <1>4, <2>1, <2>2 DEF Usable, Minted, Expired
  <1>7. Phase(f) = "none" /\ Phase(f)' = "open"
    BY <1>0, <1>5, <1>6 DEF Phase, Over
  <1>8. Owners(f)' = {u} /\ Caps(f)' = {end}
    <2>1. Owners(f)' = {user'[s] : s \in FamilyOf(f)'} /\ Caps(f)' = {absolute'[s] : s \in FamilyOf(f)'}
      BY DEF Owners, Caps
    <2> QED BY <1>4, <1>5, <2>1
  <1>9. ASSUME NEW g \in Families \ {f}
        PROVE  Phase(g)' = Phase(g) /\ Owners(g)' = Owners(g) /\ Caps(g)' = Caps(g)
    <2>1. FamilyOf(g)' = FamilyOf(g) /\ t \notin FamilyOf(g)
      BY <1>4, <1>9 DEF FamilyOf
    <2>2. ASSUME NEW s \in FamilyOf(g) PROVE Usable(s)' <=> Usable(s)
      <3>1. s \in Tokens \ {t}
        BY <2>1 DEF FamilyOf
      <3> QED BY <1>0, <1>4, <3>1 DEF Usable, Minted, Expired, WithinGrace
    <2>3. Refreshing(g)' <=> Refreshing(g)
      <3>1. \A r \in Requests : request[r].kind = "refresh" =>
              family'[request[r].token] = family[request[r].token]
        BY <1>0, <1>4 DEF RequestsCoherent, Minted
      <3> QED BY <1>0, <3>1 DEF Refreshing
    <2>4. Phase(g)' = Phase(g)
      <3>1. Over(g)' <=> Over(g)
        BY <2>1, <2>2, <2>3 DEF Over
      <3> QED BY <2>1, <3>1 DEF Phase
    <2>5. Owners(g)' = Owners(g)
      <3>1. Owners(g)' = {user'[s] : s \in FamilyOf(g)'}
        BY DEF Owners
      <3>2. \A s \in FamilyOf(g) : user'[s] = user[s]
        BY <1>4, <2>1 DEF FamilyOf
      <3> QED BY <2>1, <3>1, <3>2 DEF Owners
    <2>6. Caps(g)' = Caps(g)
      <3>1. Caps(g)' = {absolute'[s] : s \in FamilyOf(g)'}
        BY DEF Caps
      <3>2. \A s \in FamilyOf(g) : absolute'[s] = absolute[s]
        BY <1>4, <2>1 DEF FamilyOf
      <3> QED BY <2>1, <3>1, <3>2 DEF Caps
    <2> QED BY <2>4, <2>5, <2>6
  <1> QED BY <1>1, <1>7, <1>8, <1>9, LoginStep

(* A refresh adds to the presented token's session a token of the same user  *)
(* and cap: the session's owner and cap stay what they were.               *)
LEMMA RefreshKeepsSession ==
  ASSUME IInv, NEW r \in Requests, NEW new \in Tokens, CommitRefresh(r, new), NEW f \in Families
  PROVE  /\ Owners(f)' = Owners(f) /\ Caps(f)' = Caps(f)
         /\ FamilyOf(f)' = {} <=> FamilyOf(f) = {}
  <1> USE SessionsAssumption
  <1> DEFINE old == request[r].token
             now == request[r].now
  <1>0. TypeOK
    BY DEF IInv
  <1>1. /\ request[r].kind = "refresh"
        /\ CreateRefreshToken(new, user[old], family[old], absolute[old], now)
    BY DEF CommitRefresh
  <1>2. /\ old \in Tokens /\ family[old] \in Families /\ user[old] \in Users
        /\ absolute[old] \in Nat /\ now \in Nat
    BY <1>1, RequestFacts
  <1> HIDE DEF old, now
  <1>3. /\ family[new] = NoFamily
        /\ family'[new] = family[old] /\ user'[new] = user[old] /\ absolute'[new] = absolute[old]
        /\ \A s \in Tokens \ {new} : /\ family'[s] = family[s]
                                     /\ user'[s] = user[s]
                                     /\ absolute'[s] = absolute[s]
    BY <1>0, <1>1, <1>2, CreateKeeps
  <1>4. FamilyOf(f)' = IF f = family[old] THEN FamilyOf(f) \union {new} ELSE FamilyOf(f)
    BY <1>3 DEF FamilyOf
  <1>5. f = family[old] => old \in FamilyOf(f)
    BY <1>2 DEF FamilyOf
  <1>6. \A s \in FamilyOf(f) : s # new /\ user'[s] = user[s] /\ absolute'[s] = absolute[s]
    BY <1>3 DEF FamilyOf
  <1>7. Owners(f)' = {user'[s] : s \in FamilyOf(f)'} /\ Caps(f)' = {absolute'[s] : s \in FamilyOf(f)'}
    BY DEF Owners, Caps
  <1>8. {user'[s] : s \in FamilyOf(f)'} = {user[s] : s \in FamilyOf(f)}
    BY <1>3, <1>4, <1>5, <1>6
  <1>9. {absolute'[s] : s \in FamilyOf(f)'} = {absolute[s] : s \in FamilyOf(f)}
    BY <1>3, <1>4, <1>5, <1>6
  <1> QED BY <1>4, <1>5, <1>7, <1>8, <1>9 DEF Owners, Caps

(* auth.Service implements SessionLifecycle: whatever refreshes, logouts,    *)
(* reuse detections, clock ticks and suspensions overlap, a session has one *)
(* user and one cap from its login on, and is over once.                   *)
THEOREM SessionsRefine == Spec => ImplementsLifecycle
  <1>1. Init => Lifecycle!Init
    <2> SUFFICES ASSUME Init PROVE Lifecycle!Init
      OBVIOUS
    <2>1. \A f \in Families : FamilyOf(f) = {}
      BY SessionsAssumption DEF Init, FamilyOf
    <2>2. \A f \in Families : Phase(f) = "none" /\ Owners(f) = {} /\ Caps(f) = {}
      BY <2>1 DEF Phase, Owners, Caps
    <2> QED BY <2>2 DEF Lifecycle!Init
  <1>2. IInv /\ IInv' /\ RInv /\ [Next]_vars => [Lifecycle!Next]_(Lifecycle!vars)
    <2> SUFFICES ASSUME IInv, IInv', RInv, [Next]_vars PROVE Lifecycle!Next
      OBVIOUS
    <2>1. \A f \in Families : Over(f) => Over(f)'
      BY OverStaysOver
    <2>2. ASSUME NEW u \in Users, NEW f \in Families, NEW t \in Tokens, IssueSession(u, f, t)
          PROVE  Lifecycle!Next
      BY <2>2, IssueIsLogin
    <2>3. ASSUME NEW r \in Requests, NEW new \in Tokens, CommitRefresh(r, new)
          PROVE  Lifecycle!Next
      <3>1. \A f \in Families : /\ Owners(f)' = Owners(f) /\ Caps(f)' = Caps(f)
                                /\ FamilyOf(f)' = {} <=> FamilyOf(f) = {}
        BY <2>3, RefreshKeepsSession
      <3> QED BY <2>1, <3>1, EndStep
    <2>4. ASSUME UNCHANGED <<user, family, absolute>> PROVE Lifecycle!Next
      <3>1. \A f \in Families : FamilyOf(f)' = FamilyOf(f)
        BY <2>4 DEF FamilyOf
      <3>2. \A f \in Families : Owners(f)' = Owners(f) /\ Caps(f)' = Caps(f)
        BY <2>4, <3>1 DEF Owners, Caps
      <3> QED BY <2>1, <3>1, <3>2, EndStep
    <2> QED
      BY <2>2, <2>3, <2>4
         DEF Next, RefreshAccessToken, Logout, BeginRefresh, BeginReuse, BeginRevoke, BeginLogout,
             CommitRevoke, Start, Rollback, Tick, Suspend, vars, tokenVars
  <1> QED
    BY <1>1, <1>2, InitIInv, NextIInv, InitRInv, NextRInv, PTL
       DEF Spec, ImplementsLifecycle, Lifecycle!Spec
=============================================================================
