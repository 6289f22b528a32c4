SPECIFICATION AllSpec
CONSTANTS
  a1 = a1  a2 = a2  a3 = a3  b1 = b1  b2 = b2  c1 = c1  c2 = c2  None = None
  \* Membership
  Users <- As
  Invitations <- Bs
  Requests <- Cs
  NoUser = NoUser
  NoInvitation = NoInvitation
  \* Listing
  RowIds = {1, 2, 3}
  RowTenants = {"t1"}
  Events = {"e1"}
  Statuses = {"active", "gone"}
  NoFilter = NoFilter
  Filters = {"active", NoFilter}
  Names = {1, 2}
  DefaultPageLimit = 1
  MaxPageLimit = 2
  ListTime = 1
  \* RateLimit
  LimitedRequests = {1, 2, 3}
  Limit = 1
  Window = 2
  LimitTime = 5
  MaxAllowed = 5
  \* Migrations
  Processes = {"old", "new", "branch"}
  Files <- MCFiles
  Versions = {1, 2, 3}
  MaxRuns = 2
  \* Clients
  ClientIds = {"k1"}
  ClientScopes = {"s1", "s2"}
  M2MTTL = 2
  MaxTime = 3
  MaxTokens = 3
  \* Faces
  Owners = {"account", "somebody"}
  TenantOf <- MCTenantOf
  Tenants = {"t1", "t2"}
  Photos = {"p1"}
  InPhoto <- MCInPhoto
  PhotoTenant <- MCPhotoTenant
  MaxFaces = 2
  MaxPoints = 3
  \* Tagging
  Bibs <- Bs
  Tags <- As
  MaxJobs = 2
  \* Templates
  TemplateIds <- As
  Scopes = {"event", "race"}
  MaxVersion = 2
  \* Certificates
  DesignIds = {"t1"}
  Participants <- Bs
  Numbers <- Cs
  Hashes = {"h1"}
  MaxFiles = 2
  \* Fonts
  FontIds <- Bs
  Families = {"x", "y"}
  Styles = {"bold", "regular"}
  FontUsers = {"t"}
  MaxFamilies = 2
  \* Watermarks
  LayerIds <- AsAndBs
  MaxWatermarks = 2
  MaxSaves = 3
SYMMETRY MCSymmetry
INVARIANTS
  OneOwner WalkIsWhole TwoWindowsAtMost MigratedOnce RevokedClientsFade
  FacesAddUp RowsHaveVectors ReviewedIsSettled OneActivePerScope
  ReadyIsItsFile SavesAreWhole OnlyOverlappingMix
PROPERTIES
  OnlyOwnerGrantsAdmin ImplementsWorkspace PeopleHaveTheLastWord
  NamedFontsStay
CHECK_DEADLOCK FALSE
