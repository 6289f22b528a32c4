------------------------------ MODULE Identity ------------------------------
(***************************************************************************)
(* Who somebody is, and what they may do at an event: four parts that      *)
(* share no state, each on its own.  `part' says which one a behaviour is  *)
(* of, and the variables of the others stay as they are.  EventCrew is one *)
(* of them; the others are instances, and variables with the same name are *)
(* one variable here.                                                      *)
(***************************************************************************)
EXTENDS EventCrew, FiniteSets

CONSTANTS
  None,
  MaxAttempts, MaxSends, OTPTTL, Cooldown, Hour, MaxCodes, CodeTime,       \* OneTimeCode
  Emails, Subs, Google, MaxSecrets,                                        \* Accounts
  Tenants, AccessTokenTTL, MaxSessions, MaxTokens, BrowserTime             \* BrowserSession

(* What the proofs need to know of the constants: limits and lifetimes are   *)
(* numbers, and a server has so many requests at once and no more.          *)
ASSUME CodeAssumption ==
  IsFiniteSet(Requests) /\ {MaxAttempts, OTPTTL, Cooldown, Hour, MaxCodes, CodeTime} \subseteq Nat
ASSUME BrowserAssumption == MaxTokens \in Nat /\ AccessTokenTTL \in Nat

VARIABLES
  part,
  now,                                                   \* OneTimeCode and BrowserSession
  issued,                                                \* OneTimeCode and Accounts
  requests,                                              \* the requests of all but EventCrew
  redis, known, guesses,                                 \* OneTimeCode
  account, social, held, proven, session,                \* Accounts
  member, sessions, tokens, blacklist, jar, signedOut    \* BrowserSession

C == INSTANCE OneTimeCode WITH MaxTime <- CodeTime, request <- requests
A == INSTANCE Accounts WITH request <- requests
B == INSTANCE BrowserSession WITH MaxTime <- BrowserTime, request <- requests

(* What belongs to one part only. *)
crewState == <<peopleVars, assignmentVars, invitationVars, request>>
codeOwn == <<redis, known, guesses>>
accountOwn == <<account, social, held, proven, session>>
browserOwn == <<member, sessions, tokens, blacklist, jar, signedOut>>
shared == <<now, issued, requests>>
allVars == <<part, shared, crewState, codeOwn, accountOwn, browserOwn>>

NoCode == redis = None /\ known = None /\ guesses = None
NoAccount == account = None /\ social = None /\ held = None /\ proven = None /\ session = None
NoBrowser ==
  /\ member = None /\ sessions = None /\ tokens = None
  /\ blacklist = None /\ jar = None /\ signedOut = None

AllInit ==
  /\ part \in {"crew", "code", "account", "browser"}
  /\ Init
  /\ IF part = "code" THEN C!Init ELSE NoCode
  /\ IF part = "account" THEN A!Init ELSE NoAccount
  /\ IF part = "browser" THEN B!Init ELSE NoBrowser
  /\ IF part \in {"code", "browser"} THEN TRUE ELSE now = None
  /\ IF part \in {"code", "account"} THEN TRUE ELSE issued = None
  /\ IF part # "crew" THEN TRUE ELSE requests = None

AllNext ==
  /\ UNCHANGED part
  /\ IF part = "crew" THEN Next ELSE UNCHANGED crewState
  /\ IF part = "code" THEN C!Next ELSE UNCHANGED codeOwn
  /\ IF part = "account" THEN A!Next ELSE UNCHANGED accountOwn
  /\ IF part = "browser" THEN B!Next ELSE UNCHANGED browserOwn
  /\ IF part \in {"code", "browser"} THEN TRUE ELSE UNCHANGED now
  /\ IF part \in {"code", "account"} THEN TRUE ELSE UNCHANGED issued
  /\ IF part # "crew" THEN TRUE ELSE UNCHANGED requests

AllSpec == AllInit /\ [][AllNext]_allVars

(* Each is stated, and explained, in the module of its part. *)
GuessesBounded == part = "code" => C!GuessesBounded
OneAccountPerGoogleIdentity == part = "account" => A!OneAccountPerGoogleIdentity
VerifiedIsProven == part = "account" => A!VerifiedIsProven
SignedOutStaysOut == part = "browser" => B!SignedOutStaysOut
=============================================================================
