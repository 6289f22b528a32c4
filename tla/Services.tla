------------------------------ MODULE Services ------------------------------
(***************************************************************************)
(* The services that share no state with one another, each on its own:     *)
(* `part' says which one a behaviour is of, and the variables of the       *)
(* others stay as they are.  Membership is one of them; the others are     *)
(* instances, and variables with the same name are one variable here.      *)
(***************************************************************************)
EXTENDS Membership, Naturals, FiniteSets

CONSTANTS
  None,
  RowIds, RowTenants, Events, Statuses, Filters, NoFilter, \* Listing
  Names,
  DefaultPageLimit, MaxPageLimit, ListTime,
  LimitedRequests, Limit, Window, LimitTime, MaxAllowed,   \* RateLimit
  Processes, Files, Versions, MaxRuns,                     \* Migrations
  ClientIds, ClientScopes, M2MTTL, MaxTime, MaxTokens,     \* Clients
  Owners, TenantOf, Tenants, Photos, InPhoto, PhotoTenant, \* Faces
  MaxFaces, MaxPoints,
  Bibs, Tags, MaxJobs,                                     \* Tagging, and Photos
  TemplateIds, Scopes, MaxVersion,                         \* Templates
  DesignIds, Participants, Numbers, Hashes, MaxFiles,      \* Certificates, and MaxVersion
  FontIds, Families, Styles, FontUsers, MaxFamilies,       \* Fonts
  LayerIds, MaxWatermarks, MaxSaves                        \* Watermarks

(* What the proofs need to know of the constants: limits, lifetimes and row    *)
(* ids are numbers, versions count from 1, the photos' faces and the tags   *)
(* are finitely many, and None is none of the things it stands in for.      *)
ASSUME ListingAssumption ==
  /\ RowIds \subseteq Nat \ {0} /\ ListTime \in Nat /\ Names \subseteq Nat
  /\ DefaultPageLimit \in Nat \ {0} /\ MaxPageLimit \in Nat \ {0}
ASSUME RateLimitAssumption == Limit \in Nat /\ Window \in Nat
ASSUME MigrationsAssumption ==
  MaxRuns \in Nat /\ Versions \subseteq Nat \ {0} /\ Files \in [Processes -> SUBSET Versions]
ASSUME ClientsAssumption == M2MTTL \in Nat /\ MaxTime \in Nat /\ None \notin ClientIds
ASSUME FacesAssumption ==
  /\ MaxFaces \in Nat /\ None \notin Owners
  /\ \A p \in Photos : IsFiniteSet(InPhoto[p])
ASSUME TaggingAssumption == IsFiniteSet(Tags) /\ None \notin Photos
ASSUME TemplatesAssumption ==
  MaxVersion \in Nat /\ None \notin [scope : Scopes, active : BOOLEAN, version : Nat]
ASSUME CertificatesAssumption ==
  /\ None \notin Nat
  /\ None \notin [no : Numbers, template : DesignIds \union {None}, version : Nat,
                  hash : Hashes \union {None}, status : {"ready", "failed"},
                  file : Nat \union {None}]
ASSUME FontsAssumption ==
  None \notin FontIds /\ None \notin [family : Families, files : SUBSET Styles]
ASSUME WatermarksAssumption == MaxSaves \in Nat

VARIABLES
  part,
  now,                                        \* Listing, RateLimit and Clients
  requests,                                   \* the requests of all but Membership
  table, list, cursor, seen, steady, moved,   \* Listing
  redis, allowed,                             \* RateLimit
  recorded, changed, process,                 \* Migrations
  client, grant, token, quiet,                \* Clients
  face, embedding, detection, photos, enrollments, detections, \* Faces
  lastFace, lastPoint, images, touched,
  photo, tag, used, jobs,                     \* Tagging
  job,                                        \* Tagging and Certificates
  template,                                   \* Templates
  version, people, record, drawn,             \* Certificates
  font, gone, needs, saved,                   \* Fonts
  layers, saves, wrote, finished, preceding   \* Watermarks

L == INSTANCE Listing WITH Ids <- RowIds, Tenants <- RowTenants, MaxTime <- ListTime
R == INSTANCE RateLimit WITH Requests <- LimitedRequests, MaxTime <- LimitTime, request <- requests
M == INSTANCE Migrations
O == INSTANCE Clients WITH Scopes <- ClientScopes
F == INSTANCE Faces WITH request <- requests
G == INSTANCE Tagging WITH request <- requests
T == INSTANCE Templates WITH Ids <- TemplateIds, request <- requests
D == INSTANCE Certificates WITH Ids <- DesignIds
W == INSTANCE Fonts WITH Ids <- FontIds, Templates <- FontUsers, request <- requests
K == INSTANCE Watermarks WITH Ids <- LayerIds, request <- requests

(* What belongs to one part only. *)
memberState == <<owner, memberVars, invitationVars, request>>
listOwn == <<table, list, cursor, seen, steady, moved>>
limitOwn == <<redis, allowed>>
migrateOwn == <<recorded, changed, process>>
clientsOwn == <<client, grant, token, quiet>>
facesOwn == <<face, embedding, detection, photos, enrollments, detections,
              lastFace, lastPoint, images, touched>>
tagsOwn == <<photo, tag, used, jobs>>
certificatesOwn == <<version, people, record, drawn>>
fontsOwn == <<font, gone, needs, saved>>
watermarksOwn == <<layers, saves, wrote, finished, preceding>>
shared == <<now, job, requests>>
allVars == <<part, shared, memberState, listOwn, limitOwn, migrateOwn, clientsOwn, facesOwn,
             tagsOwn, template, certificatesOwn, fontsOwn, watermarksOwn>>

NoList ==
  /\ table = None /\ list = None /\ cursor = None /\ seen = None /\ steady = None /\ moved = None
NoLimit == redis = None /\ allowed = None
NoMigrate == recorded = None /\ changed = None /\ process = None
NoClients == client = None /\ grant = None /\ token = None /\ quiet = None
NoFaces ==
  /\ face = None /\ embedding = None /\ detection = None /\ photos = None /\ enrollments = None
  /\ detections = None /\ lastFace = None /\ lastPoint = None /\ images = None /\ touched = None
NoTags == photo = None /\ tag = None /\ used = None /\ jobs = None
NoCertificates == version = None /\ people = None /\ record = None /\ drawn = None
NoFonts == font = None /\ gone = None /\ needs = None /\ saved = None
NoWatermarks ==
  layers = None /\ saves = None /\ wrote = None /\ finished = None /\ preceding = None

Parts == {"members", "list", "limit", "migrate", "clients", "faces", "tags", "templates",
          "certificates", "fonts", "watermarks"}
Timed == {"list", "limit", "clients"}
WithJob == {"tags", "certificates"}
WithRequests == {"limit", "faces", "tags", "templates", "fonts", "watermarks"}

AllInit ==
  /\ part \in Parts
  /\ Init
  /\ IF part = "list" THEN L!Init ELSE NoList
  /\ IF part = "limit" THEN R!Init ELSE NoLimit
  /\ IF part = "migrate" THEN M!Init ELSE NoMigrate
  /\ IF part = "clients" THEN O!Init ELSE NoClients
  /\ IF part = "faces" THEN F!Init ELSE NoFaces
  /\ IF part = "tags" THEN G!Init ELSE NoTags
  /\ IF part = "templates" THEN T!Init ELSE template = None
  /\ IF part = "certificates" THEN D!Init ELSE NoCertificates
  /\ IF part = "fonts" THEN W!Init ELSE NoFonts
  /\ IF part = "watermarks" THEN K!Init ELSE NoWatermarks
  /\ IF part \in Timed THEN TRUE ELSE now = None
  /\ IF part \in WithJob THEN TRUE ELSE job = None
  /\ IF part \in WithRequests THEN TRUE ELSE requests = None

AllNext ==
  /\ UNCHANGED part
  /\ IF part = "members" THEN Next ELSE UNCHANGED memberState
  /\ IF part = "list" THEN L!Next ELSE UNCHANGED listOwn
  /\ IF part = "limit" THEN R!Next ELSE UNCHANGED limitOwn
  /\ IF part = "migrate" THEN M!Next ELSE UNCHANGED migrateOwn
  /\ IF part = "clients" THEN O!Next ELSE UNCHANGED clientsOwn
  /\ IF part = "faces" THEN F!Next ELSE UNCHANGED facesOwn
  /\ IF part = "tags" THEN G!Next ELSE UNCHANGED tagsOwn
  /\ IF part = "templates" THEN T!Next ELSE UNCHANGED template
  /\ IF part = "certificates" THEN D!Next ELSE UNCHANGED certificatesOwn
  /\ IF part = "fonts" THEN W!Next ELSE UNCHANGED fontsOwn
  /\ IF part = "watermarks" THEN K!Next ELSE UNCHANGED watermarksOwn
  /\ IF part \in Timed THEN TRUE ELSE UNCHANGED now
  /\ IF part \in WithJob THEN TRUE ELSE UNCHANGED job
  /\ IF part \in WithRequests THEN TRUE ELSE UNCHANGED requests

AllSpec == AllInit /\ [][AllNext]_allVars

(* Each is stated, and explained, in the module of its part. *)
WalkIsWhole == part = "list" => L!WalkIsWhole
TwoWindowsAtMost == part = "limit" => R!TwoWindowsAtMost
MigratedOnce == part = "migrate" => M!MigratedOnce
RevokedClientsFade == part = "clients" => O!RevokedClientsFade
FacesAddUp == part = "faces" => F!FacesAddUp
RowsHaveVectors == part = "faces" => F!RowsHaveVectors
ReviewedIsSettled == part = "tags" => G!ReviewedIsSettled
PeopleHaveTheLastWord == [][part = "tags" => G!ManualTagsKept]_allVars
OneActivePerScope == part = "templates" => T!OneActivePerScope
ReadyIsItsFile == part = "certificates" => D!ReadyIsItsFile
NamedFontsStay == [][part = "fonts" => W!NamedFontsKept]_allVars
SavesAreWhole == part = "watermarks" => K!SavesAreWhole
OnlyOverlappingMix == part = "watermarks" => K!OnlyOverlappingMix
=============================================================================
