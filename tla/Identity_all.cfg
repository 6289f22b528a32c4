\* Two of everything: people, addresses or invitations, requests at once.
SPECIFICATION AllSpec
CONSTANTS
  a1 = a1  a2 = a2  b1 = b1  b2 = b2  c1 = c1  c2 = c2  None = None
  \* EventCrew
  Users <- As
  Invitations <- Bs
  Requests <- Cs
  Capabilities = {"gallery"}
  MaxTime = 1
  NoUser = NoUser
  NoInvitation = NoInvitation
  \* OneTimeCode
  MaxAttempts = 1
  MaxSends = 2
  OTPTTL = 1
  Cooldown = 1
  Hour = 2
  MaxCodes = 2
  CodeTime = 2
  \* Accounts
  Emails <- Bs
  Subs = {"g1"}
  Google <- MCGoogle
  MaxSecrets = 4
  \* BrowserSession
  Tenants = {"t1"}
  AccessTokenTTL = 2
  MaxSessions = 2
  MaxTokens = 2
  BrowserTime = 2
SYMMETRY MCSymmetry
INVARIANTS
  OneAcceptedEach GuessesBounded OneAccountPerGoogleIdentity VerifiedIsProven
  SignedOutStaysOut
PROPERTIES AccessComesFromStaff
CHECK_DEADLOCK FALSE
