# Racetify API: specifications, model checking and proofs

Racetify is the API of a race-day photo and results service: organizers run
events in a workspace (a *tenant*), photographers upload photos, runners find
and download them. The repository is a Go server (`src/cmd/api`,
`src/internal/...`) with background workers (`src/cmd/worker`) over Postgres,
Redis, an object store and a vector store (Qdrant).

This directory models the parts of it whose correctness depends on what
overlaps with what: the job queue; sessions, sign-up and access tokens;
workspaces and their members; events, their crew, races, teams, participants and imports; photos,
their tags and the faces in them; templates, certificates, fonts, watermarks and printed BIBs;
and the plumbing below them (cursors, rate limits, migrations, keys that expire). Every
definition is translated from the Go source; `PROJECT.json` names the lines each
one stands for (`map`), every run, every property with a mutated definition that
breaks it (`mutants`), the disagreements between code and comments that were met
(`findings`), what is hard to test in this code (`hazards`) and the main theorems.

    tlc -workers 2 -config Sessions_all.cfg MCSessions    # one run
    tlapm SessionsProofs.tla                              # one set of proofs

## The system

A request goes through `net/http`, the middleware (`RequireUserAuth`, then
`RequireTenantForUser`, then `RequireRole`), a handler, a service and a
repository. A service does its work in one or more transactions
(`database.WithTx`, `WithUserTx`, `WithTenantTx`), all READ COMMITTED; the
tenant is a session variable that row-level security reads. Almost nothing is
locked: what a request has read may be stale when it writes, and what protects
the data then is the `WHERE` clause of its UPDATE, a unique key, or nothing.

Work that takes long is a row in `jobs` and an id in a Redis list. Any number of
worker processes pop ids and run the handler of the job's type.

### Inventory

State, operations and hard behaviours of each component, and what makes it
correct. "Module" is where it is modelled; a dash means it is not.

| Component (src/internal/...) | State | Operations | What is hard | Correct when | Module |
|---|---|---|---|---|---|
| Job queue (`jobqueue`) | `jobs` rows, Redis list | Enqueue, Dequeue, Mark*, UpdateProgress, Run | row and list are two stores; updates name a row by id alone; one context for the loop and for every call | delivered to one worker, started once, progress only forward, ended once | JobQueue |
| Worker process (`src/cmd/worker`) | context, loop | start, signal, crash | signal anywhere in a job | stops when told | JobQueue |
| Sessions (`auth`) | `refresh_tokens` | login, refresh, logout, reuse detection | unlocked read-check-rotate, grace window, two clocks | one login has one cap, over is over, logout ends its session only | Sessions |
| Access tokens, cookies (`auth/handler.go`, `middleware/auth.go`) | the browser's cookies, the blacklist in Redis | login, refresh, select a workspace, logout | answers reach a browser in any order and change cookies they were not asked with | signed out stays out | BrowserSession |
| Sign-up, one-time codes (`auth/signup.go`) | Redis keys, users | start, verify, complete | every Redis command is a round trip of its own; GET then DEL is not single use | guesses are bounded | OneTimeCode |
| Accounts, Google sign-in (`auth`) | `users`, social accounts, tokens, states and codes | register, verify, link, exchange | the account is looked up and linked by several reads; a secret may be used twice before it is deleted | one account per Google identity, verified is proven | Accounts |
| Tenants, members (`tenant`) | `tenants`, `tenant_members`, `tenant_invitations` | create, invite, resend, revoke, accept, change role, remove | the actor's role is read by the middleware, the target's in an unlocked SELECT | one owner, admins from the owner only, joining spends an invitation | Membership |
| Tenant middleware (`httpapi/middleware`) | none | RequireTenantForUser, RequireRole, RequireEventAccess | its answer ages during the request | access is what the rows say | Membership, EventCrew, BrowserSession |
| Events (`event/service.go`) | `events` | create, update, status | read, merge, full-row write | no lost update (there are: see below) | - |
| Races (`event/service.go`) | `races` | create, update, delete | the format check counts participants apart from the update; deletion relies on a foreign key | format fixed once used | Registration |
| Event assignments (`event/assignment_*`) | `event_assignments`, `event_invitations` | assign, invite, accept, patch, revoke | account looked up before the transaction; unique key on the row; merge of a patch | access comes from staff, a revocation stands, accepting is all or nothing | EventCrew |
| Participants, teams (`participant`) | `participants`, `teams` | create, patch, delete of each; bulk delete | rules over other rows, read without a lock; merge and full-row write; a deletion in two statements | registrations fit the race, teams their size and category, what is deleted is gone | Registration, RaceRules |
| Imports (`participant/import*.go`) | the same rows | plan a file, apply it | a row finds its participant by one key and writes another; members stay, move and join in file order; rows are written one by one under unique indexes | clashes are seen in the plan, a second import changes nothing, teams stay in order | ImportPlan, RaceRules |
| Gallery (`gallery`) | albums, `photos` | upload URLs, complete, move, delete, thumbnail job | objects confirmed outside the inserting transaction; a client repeats a completion | photos have bytes, no file twice, one job per photo | PhotoUpload |
| Tags (`gallery/tag_*`), bib detection (`bibdetect`) | `photo_tags`, `photos.ocr_status` | add, correct, delete, detect | the batch's transaction stays open while people edit; tags are stored in another one | a photo with a manual tag reads as reviewed; people have the last word | Tagging |
| Object storage (`storage`) | `objects` rows, bytes | provision, put, confirm, generated objects | row and bytes are two stores; two drivers | stored means there are bytes | PhotoUpload, Faces, Certificates |
| Faces (`face`) | faces, embeddings, detections; Qdrant points | enroll, drop, detect, search | Postgres and Qdrant are two stores, neither can undo the other | counts add up, a row has its vector, search finds | Faces |
| Templates (`generator` service) | `generator_templates` | create, update, delete | who holds a scope is turned off by an earlier, unlocked read | one active template per scope | Templates |
| Certificates (`certificate`) | `certificates`, images | save, batch, publish, delete | several runs write one row; an old file is kept when a run fails | ready means this file is what the row describes | Certificates |
| Bib printing (`bibprint`, `generator`) | print jobs, PDFs | start, run | template and participants change between the request and the run | what was asked is printed, once, on sheets that can be cut | BibPrint, SheetLayout |
| Fonts (`fontlib`, `templateassets`) | `fonts`, `font_files` | upload, rename, remove a style or a font; which templates name what | the check uses another connection than the deletion | a font a template names, with the styles it lists, stays | Fonts |
| Watermarks (`watermark`) | one set of rows per event | replace all | the DELETE waits for another save and sees none of its rows | a save is whole or gone, only saves that overlap mix | Watermarks |
| M2M clients (`oauthclient`) | `oauth_clients`, tokens | create, revoke, grant, use | a token outlives its client's revocation, and a grant may overlap it | for one lifetime at most after the last such grant | Clients |
| Rate limiter (`platform/ratelimit`) | a Redis counter | Allow | INCR and EXPIRE are two commands | two windows' worth at most | RateLimit |
| Migrations (`platform/database`) | `schema_migrations` | Migrate | several processes of several builds at once | each migration once, in order | Migrations |
| Pagination (`platform/pagination`) | cursors | eleven lists: by time, and participants by BIB, teams by name | rows come and go between pages, share timestamps, get another BIB or name | nothing twice, nothing skipped, but what was renamed | Listing |
| Redis client (`platform/rediscli`) | list; keys with a deadline | LPUSH, BRPOP, SET, INCR, EXPIRE, DEL | a lost answer, a deadline that is never set | - | JobQueue, RedisKeys |
| Audit log (`audit`) | append-only rows | record | refused by row-level security outside a tenant transaction | nothing lost | - |
| Public portal (`portal`), invitation previews | none | reads | - | - | - |
| Storage and Qdrant clients, HTTP layer, security, configuration | none | I/O, parsing, hashing, wiring | - | - | as environment |

Components interact through the database (Membership's rows are what the
middleware reads for EventCrew and PhotoUpload), through the queue (a completed
upload is a job) and through storage (a photo is a row over an object). A template is what
certificates and prints are made by and what fonts are needed for; each of these modules has as
much of it as they read (its version, its size, the styles it names).

## The modules

| Module | Stands for |
|---|---|
| `JobLifecycle` | abstract specification: what the jobs table promises its clients |
| `JobQueue` | `queue.go`, `repository.go`, `runner.go`, worker `main.go`, the progress reports of a handler; implements `JobLifecycle` |
| `SessionLifecycle` | abstract specification: what a login promises |
| `Sessions` | `issueSession`, `RefreshAccessToken`, `Logout` and their SQL; implements `SessionLifecycle` |
| `BrowserSession` | `auth/handler.go`, `RequireUserAuth`, `SelectTenant`, the blacklist |
| `OneTimeCode` | `auth/signup.go`: the code and its counters |
| `Accounts` | registration, mail verification, `CompleteSignup`, `google_flow.go` |
| `Workspace` | abstract specification: what a tenant promises about who belongs to it |
| `Membership` | `tenant/service.go` and `members.go`, their SQL, `RequireTenantForUser`; implements `Workspace` |
| `EventCrew` | `assignment_service.go`, `assignment_repository.go`, `RequireEventAccess` |
| `PhotoUpload` | the upload half of `gallery`, `storage`, `thumbnail_job.go` |
| `Tagging` | `gallery/tag_service.go`, `tag_repository.go`, `bibdetect` |
| `Faces` | `internal/face` with its Qdrant collections |
| `RaceRules` | `rules.go`, `RaceFormat`: the rules that need no other row |
| `Registration` | `participant/service.go`, the race half of `event/service.go`, their SQL and foreign keys |
| `ImportPlan` | `import.go`, `import_service.go`, the unique indexes their rows meet |
| `Templates` | `generator/service.go`, `repository.go` and the scope index |
| `Certificates` | `certificate/service.go`, `batch.go` |
| `SheetLayout`, `BibPrint` | `generator/layout.go`; `bibprint` and the print order |
| `Fonts` | `fontlib` and the metadata its queries read |
| `Watermarks` | `watermark/service.go` |
| `Clients` | `oauthclient`, `RequireM2MAuth`, `RequireScope` |
| `RedisKeys` | the commands of `rediscli` on keys that expire (operators; used by OneTimeCode, BrowserSession, RateLimit) |
| `RateLimit`, `Migrations`, `Listing` | `ratelimit`, `DB.Migrate`, `pagination` and the lists built on it |
| `Identity` | EventCrew, OneTimeCode, Accounts and BrowserSession, one at a time |
| `Services` | Membership, Listing, RateLimit, Migrations, Clients, Faces, Tagging, Templates, Certificates, Fonts and Watermarks, one at a time |
| `Event` | Registration, ImportPlan and BibPrint, one at a time |
| `MC*` | finite constants and symmetry for TLC |
| `JobQueueProofs`, `SessionsProofs`, `PhotoUploadProofs`, `RegistrationProofs` | theorems of the module they are named after, and the lemmas they rest on |
| `AccessProofs` | theorems of EventCrew, and of the parts of Identity |
| `ServicesProofs` | theorems of Membership, and of Listing, RateLimit, Migrations, Clients, Templates and Watermarks as parts of Services |
| `MediaProofs` | theorems of Faces, Tagging, Certificates and Fonts |
| `EventProofs` | theorems of ImportPlan and BibPrint (with SheetLayout) as parts of Event |

`Services`, `Identity` and `Event` put modules that share no state behind one
specification: `part`, chosen at the start and never changed, says which of them a behaviour is of.
A state of one part has nothing of the others (their variables are `None` or
their initial value), so the state graph is the disjoint union of the parts' own graphs, every
disjunct of which TLC explores, and `part = "x" => X!P` is P of that part. Event
extends Registration, so `RulesKept` is Registration's own. `AllSpec` of Services, Identity
and Event is what the runs check and what the theorems are about, so a theorem about
a part holds of that part's module by itself.

### How a request is modelled

In most modules a request is a record in `request[r]`: a step that
does the reads (and refuses by never being enabled, or by `Rollback`), and a step
that commits the writes, with the calls to Redis, Qdrant or the object store as steps between them. This is what READ COMMITTED gives: writes are invisible
before the commit, and an UPDATE that waited for a row lock evaluates its WHERE
clause again on the committed row - so a condition of the SQL is a guard of the
*commit* step, and a condition of the Go code a guard of the *read* step. A
`Rollback` (`Abandon` in PhotoUpload) may end a request between any two of them:
a refusal, a failed statement, a client that gave up, a dead server.
Where a request is a single statement or a transaction nothing can come between,
it is one action.

Actions whose comment begins "A plausible mistake" are not part of any next-state
relation. They are the mutated forms PROJECT.json refers to: putting one in the
place of the definition after it must break the property named there.

### JobQueue

State: `status`, `progress` (the row), `push` (how far Enqueue is), `list`
(Redis), and per worker `pc`, `held`, `cancelled`, `item`, `flawed`, `outcome`.
Enqueue commits the row (`Insert`) and then pushes (`LPush`; `LPushFails` may or
may not have reached Redis, and the server may die there). A worker polls, takes
an id (`BRPop`), loads the row, marks it processing, runs the handler item by
item with throttled progress reports that ignore their errors, and records the
outcome. A job whose type has no handler fails. `Shutdown` cancels the context
every later call uses, so each of these steps has the failing form that a
cancelled context gives it; `Crash` and `Restart` take the process away.

With `Faults` any Redis or Postgres call may fail, applied or not.
`JobLifecycle` knows only the row: created queued, started once, progress never
back, ended once. `ImplementsLifecycle` is the refinement, with the identity on
`status` and `progress`.

### Sessions

State: the columns of `refresh_tokens` as functions on tokens, the clock, the
active users, the requests in progress, and how each family was ended (history).
`IssueSession` starts a family. A refresh reads the token and decides
(`BeginRefresh` - plain, or within the grace window of a rotated token -, or
`BeginReuse` for a stolen one), then commits: a successor is inserted, and the
token rotated if it was not revoked at the read. Ending a family, for a logout (`BeginLogout`) or
a reuse (`BeginRevoke`), is an UPDATE of several rows, in two steps: `sees` is the
snapshot it begins with - the family's tokens there and not revoked -, and `CommitRevoke` revokes those
of them that are still not revoked. A successor committed in between is in no snapshot and stays.
`spared` (history) has the tokens such an ending could not catch: those successors, a token within
its grace window, one that a refresh in progress has read, and whatever is minted from these. The clock is the server's:
the code compares `time.Now()` taken in Go with stored values, and a request keeps
the time it took at its start. Suspending a user is external to `auth` and is a step.

`SessionLifecycle` knows no tokens: a session is not there, open or over, and has an owner and a
hard cap from its login on. `ImplementsLifecycle` is the refinement. The mapping reads the phase off
the tokens: a family with no token is not there, and one is over when none of its tokens can be
used and no refresh is past its checks (`Over`); owner and cap are those of its tokens. A step of
the clock or a suspension may end several sessions at once.

### Membership

State: the tenant's owner, the status and role of each member, each invitation's
status, invitee, role, inviter and expiry. `RequireTenantForUser` reads the
actor's role and everything after acts with it (`as`). InviteStaff and
RevokeInvitation are single statements; resend, accept, role change and removal
read first and write later.

`Workspace` has the standing of each user - out, or in with a role - and the invitations, and
neither requests nor what they read: the first user in is the owner and stays the owner,
others join by spending an invitation that is pending and theirs, change between admin and staff, and leave.
`ImplementsWorkspace` is the refinement; `Standing` reads a user's standing off the status and
role of the row, and a removal of somebody already removed is a stutter.

### EventCrew

State: who is registered and who is staff (staff reach every event), each
assignment's status, capabilities and expiry, the invitations, the clock. Assigning
looks the address up before the transaction (`BeginAssign`), then either upserts
the row (`CommitAssign`) or sends an invitation (`CommitInvite`), although the
person may have registered meanwhile. Accepting marks the invitation and inserts the
row in one transaction; the unique key on (event, user) refuses a second row.
`MayAct` is `RequireEventAccess`.

### PhotoUpload

State: the object rows and which bytes exist, the photos with their object,
album and thumbnail, the queued batches, requests and workers. `RequestUploadURLs`
provisions objects; with the local driver bytes come through the server
(`PutObject`, `CompletePut`), with r2 they go straight to the bucket
(`PutToBucket`). A completion confirms objects one at a time (`ConfirmStored`,
`MarkStored`), inserts the photos in one transaction and queues one job
(`InsertPhotos`, `EnqueueThumbnailJob`). Moves, deletions and the deletion of
albums come in between. The worker loads a photo, makes its thumbnail, stores it
and records it; failing to store it takes the process down (see the findings).

Abstractions: a presigned URL may be used any time after its issue; an object is
named by the album and file it was issued for; a job is delivered once (that is
JobQueue's `ExclusiveDelivery`); a photo skipped for its format makes
no thumbnail, like one that could not be made. Detection, which reads the same photos, is in
Tagging and Faces.

### Registration

State: each row's life (never created, there, deleted), the format of a race, the
race and category of a team, the race, team, leg and gender of a participant.
`ReadCreateParticipant` and `ReadUpdateParticipant` are the checks of the service
(`InvalidField` is `Input.Validate`, `JoinAllowed` is `checkTeamJoin`), the
`Write...` actions the INSERT or UPDATE with what the database asks of it
(`Accepted`: foreign keys and the unique index on a team's legs). An UPDATE of a row
that is gone changes nothing. Deletions follow ON DELETE CASCADE (`Cascade`,
`Remove`). `DeleteTeam` without its members is `DetachTeamMembers` - which holds
the row locks of the members it saw - and `DropTeam`, whose cascade takes whoever
joined since. A patch is merged onto the row that was read (`Merged`) and every
column is written.

Abstractions: BIB numbers, `ref_id`, names, the bulk status update and the settings of a
loop race tell no property apart; the gender of a participant is always known (it
is required by every operation modelled).

### ImportPlan

A function of the database and a file, in the order of the code: `RowAction` is the
first pass of PlanImport (`FitsRace`, `Repeated`, `Match`, `BibOfAnother`), `Joiners`
is planTeams for one team (`Staying`, `Category`, `Accepted`), `Written` is what
applyPlan leaves after each row, `Applied` the unique indexes it meets on the way. The
state `db` is the database; its one action, `Import`, applies a file or, when an index
refuses a row, rolls the transaction back. The properties are about every
file in every state that imports lead to, so `db` is a way to reach databases with
history, and the quantifiers ask what the next file does.

Abstractions: an import is alone; rows name a race of the event and a valid category;
names, contact data, warnings and the limit on the length of a file are left out; a
dry run changes nothing.

### Who somebody is: OneTimeCode, Accounts, BrowserSession, Clients

*OneTimeCode* is the Redis side of sign-up for one address: keys `otp`, `attempts`, `cooldown`,
`sends`, each with its deadline. A verification reads the code (`ReadCode`), counts the attempt
(`CountAttempt`), compares with what it read, and deletes (`DeleteCode`); a new code is set before
the attempts at the old one are forgotten (`IssueCode`, `ForgetAttempts`). Every step may be
another request's turn, a PEXPIRE or DEL may fail unnoticed. Attempts at one code therefore start
again when the key of the attempts, set before the code, expires first, and whenever a request that
was about to forget them gets there, its own or a late one; and whoever has read the code by the
time it goes compares it once more. With n requests at once and m attempts a code may meet
m * (n + 2) + n guesses: that is the bound of `GuessesBounded`, not the five of the comment.

*Accounts* starts where a code was right: secrets (mail tokens, sign-up tokens, OAuth states, Google
codes, pending sign-ups) are read by one step and deleted by a later one that may fail, so two
requests may use one. What keeps the rows right is UNIQUE (email), UNIQUE (provider, subject) and
the transaction that creates account and link together. Google may report another address for
a subject each time.

*BrowserSession* has one browser's cookies, the access tokens, and the requests of its tabs. A
request takes the cookies along when it leaves, and its answer sets or clears cookies whenever it
arrives. `RefuseRefresh` covers every failure of a refresh. Signing out revokes the family of the
cookie if it is the user's own and writes the blacklist; either may fail unnoticed.

*Clients*: a grant reads the client (`GetByClientID`) and issues the token later, when it may have
been revoked, or fails (`GrantFails`); a request with the token looks at no row. A grant may take
any time. `quiet` (history) is when a client was first revoked with no grant of its in progress.

### Photos: Tagging, Faces

*Tagging*: the tag endpoints read the photo first (`GetPhoto`) and settle its OCR status by what they
read (`settlePending`). The detection job marks all its photos in one transaction that is open until
the batch ends (`MarkPhoto`, `CommitBatch`) and stores each photo's tags in another one that commits
at once (`Detect`), since `WithTenantTx` never joins the transaction of its context. A reading that is
already on the photo aborts that inner transaction (`DetectTaken`). `stateCondition` is the SQL
of the filter photos are listed under.

*Faces*: enrolment inserts or locks the face, writes the vector to Qdrant inside that transaction and
commits (`InsertEmbedding`, `UpsertEnrollment`, `CommitEnrolment`); dropping deletes the points inside
its transaction (`GetFace`, `DropFace`, `DeletePoints`, `CommitDrop`); detection writes
its points one by one and then its rows. A Qdrant call is two Booleans: whether it was done and
whether the caller was told so. A vector is the person it is of; `Search` is a function of rows
and points.

### What is drawn: Templates, Certificates, Fonts, Watermarks, SheetLayout, BibPrint

*Templates*: `Update` reads the row, `Deactivate` turns off the holders of the wanted scope it can
see and keeps them locked, `Write` writes the whole row unless `scopeTaken` - the unique index on
(event, kind, scope) of active templates.

*Certificates*: a record is written by ON CONFLICT DO UPDATE (`Merge`), by clients that drew an image
themselves and by a batch job that read its template once. `drawn` remembers what each file shows.
That a client sends the hash, the version and the participant of the file it drew is an assumption about
clients: the service stores what it is sent (`SaveReady`).

*Fonts*: removing a style or a font counts files (`BeginRemoveFile`), looks for templates that need it
on another connection (`CheckUse`) and deletes (`DeleteFile`, `DeleteFont`); templates are saved without
looking at the library. The queries behind the check see the entries of `metadata.fonts` that have a
key, and the styles these list, possibly none: that is `Needs`. What a job that prints needs besides
(`templateassets/assets.go:58-90`) keeps no font in the library and is not in the model: see "Met
while modelling".

*Watermarks*: a save's DELETE takes its snapshot (`BeginDelete`), waits for a save that is
deleting one of these rows, and deletes those still there (`DeleteAll`), not what the other save has put in
their place; then it inserts its own (`Insert`). `preceding` (history) has, for each save, those that had
committed when its DELETE began.

*SheetLayout* is `layout.go` over half millimetres: `Validate`, `PlaceCells`, `CropMarkLines`. *BibPrint*
checks a request against the template's size, reads the size again in the job (`loadAssets`), then the
participants (`PrintRows`); both may have changed. `PrintOrder`, `SplitParts` and `Pieces` are the order,
the files and the sheets.

### Plumbing: Listing, RateLimit, Migrations, RedisKeys

*Listing* walks one list page by page (`NextPage`) while rows are inserted - with a timestamp taken
before they commit -, updated and deleted; each `List...` operator is the WHERE clause of one of the
eleven repository queries that take `pagination.PageParams` (the portal and the search by face go through
`ListPhotos`), and `Follows` their ORDER BY. Participants go by BIB and teams by name, and `Rename`
edits these during the walk; `moved` (history) has the rows that were. *RateLimit* is INCR and a separate EXPIRE that may be late or never come.
*Migrations* has processes of different builds that read what is recorded once and then apply
one transaction after another. *RedisKeys* has the commands on keys that expire.

## The runs

Each run asks its own question. The instances are small on purpose: the errors
looked for need two requests that overlap, one that is stale, and something
they share. The theorems cover the other sizes. A type invariant is part of each proof's
inductive invariant, and is not run apart from it.

| Run | Instance | Checks | What it shows |
|---|---|---|---|
| `queue_faults` | 2 jobs (one without a handler), 2 workers, 2 items, every failure | `ExclusiveDelivery`, `ImplementsLifecycle` | with lost answers, stops and crashes an id is with one worker and the row goes through its life cycle |
| `queue_stops` | the same, nothing fails but workers are stopped and crash; `FairSpec`, no symmetry | `CompletedIsFullyReported`, `ShutdownCompletes`, `EveryJobEnds` | progress bars end full; a worker told to stop stops; jobs end unless a worker is stopped or dies |
| `sessions_all` | 3 tokens, 2 families of one user, 2 requests, idle 1, cap 2, grace 1, clock to 2 | `FamilyCoherent`, `ImplementsLifecycle`, `OnlySparedLive` | a session has one cap from its login on, over is over, and an ended one lives on only through what its revocation could not catch |
| `sessions_logout` | 1 family, 3 tokens | `LogoutEndsSession`, violated | a token rotated a moment ago survives a logout |
| `photos_all` | 1 file, 2 albums, 2 photo ids, 2 requests, 1 worker, both drivers | `PhotosHaveBytes`, `OneOfEachFile`, `QueuedOnce` | photos have bytes, no album a file twice, one job per photo |
| `photos_batch` | 2 files, 1 album, 1 request | `BatchRunsThrough`, violated | a failed store ends the worker in the middle of a batch |
| `registration_all` | 2 races (individual or loop), 1 team, 2 people, 2 requests | `TeamOfSameRace`, `DetachedStayRegistered` | what overlaps cannot put a person in another race's team, or delete a member who was to be kept |
| `registration_race` | as `registration_all` | `RaceKeepsParticipants`, violated | deleting a race deletes its participants |
| `event_all`, requests | 1 race of any format (team size 2), 2 teams, 3 people, 2 legs, 1 request | `RulesKept` | one request at a time keeps format, team size and category, whichever operations follow each other |
| `event_all`, import | a relay and a loop race with teams of 2, one team name, 3 BIBs, 2 ref_ids, files of up to 2 rows, up to 3 participants | `BibsAndRefsNeverClash`, `SecondImportChangesNothing`, `CleanImportKeepsOrder` | the plan sees every clash of BIBs and ref_ids, a file can be sent again, teams stay in order |
| `event_all`, print | 3 people, a team, BIBs to 3, 2 legs, 2 sizes of template, 2 layouts, files of 2 | `PrintIsRight` | everybody asked for and still there is printed once, teams together, on sheets that can be cut |
| `identity_all`, crew | 2 people, 2 invitations, 1 capability, 2 requests, clock to 1 | `OneAcceptedEach`, `AccessComesFromStaff` | access comes from staff, an invitation ends in one assignment or none |
| `identity_all`, code | 1 attempt, 2 sends, 2 codes, 2 requests, clock to 2 | `GuessesBounded` | guesses at a code are bounded although counting and comparing are separate; by how much depends on the requests at once |
| `identity_all`, account | 2 accounts, 2 addresses, 1 Google identity with either address, 4 secrets, 2 requests | `OneAccountPerGoogleIdentity`, `VerifiedIsProven` | secrets used twice and late do not split an identity or verify what was not proven |
| `identity_all`, browser | 2 users, 1 workspace, 2 sessions, 2 access tokens of 2 ticks, 2 requests, clock to 2 | `SignedOutStaysOut` | a token somebody signed out with stays out for as long as it lives |
| `services_all`, members | 3 users, 2 invitations, 2 requests | `OneOwner`, `OnlyOwnerGrantsAdmin`, `ImplementsWorkspace` | roles come from where they may, people from invitations |
| `services_all`, list | each of the 11 paginated lists, 3 ids, 2 timestamps, BIBs or names, pages of 1 or 2 | `WalkIsWhole` | a walk meets every steady row once, unless its BIB or name is edited meanwhile |
| `services_all`, limit | limit 1, window 2, 3 requests, clock to 5 | `TwoWindowsAtMost` | late and lost EXPIREs never make a window shorter |
| `services_all`, migrate | an old build, a new one, one of a branch, each run twice | `MigratedOnce` | each migration takes effect once |
| `services_all`, clients | 1 client, 2 scopes, lifetime 2, 2 grants, 3 tokens, clock to 3 | `RevokedClientsFade` | a revoked client is out one lifetime after the last grant that overlapped the revocation |
| `services_all`, faces | an account and a tenant's person in 1 photo, another tenant, 2 faces, 3 points, 2 requests | `FacesAddUp`, `RowsHaveVectors` | counts are counts, one face each, committed rows have vectors |
| `services_all`, tags | 1 photo, 2 BIBs, 3 tags, 2 jobs, 2 requests | `ReviewedIsSettled`, `PeopleHaveTheLastWord` | what people say of a photo shows, and stands |
| `services_all`, templates | 3 templates, 2 scopes, 2 edits | `OneActivePerScope` | overlapping edits leave one active template |
| `services_all`, certificates | 1 template of 2 designs, 2 people, 2 numbers, 2 files | `ReadyIsItsFile` | a ready record describes the file it has |
| `services_all`, fonts | 2 fonts, 2 family names, 2 styles, 1 template, 2 changes | `NamedFontsStay` | a font a template names, or a style it lists, goes only through the gap between check and deletion |
| `services_all`, watermarks | 5 ids, 2 layers, 3 saves, 2 at once | `SavesAreWhole`, `OnlyOverlappingMix` | a save is there or gone, and layers of two saves are there together only if they overlapped |
| `faces_search` | 1 account, 1 photo, 1 request | `SearchFindsTheFace`, violated | search asks the wrong collection for the enrolled vector |

Bounds and why they are enough:

- *Two requests.* A race is between a request whose reads are old and one that
  committed since. A finished request frees its slot, so sequences of any length
  occur; only the number in progress at once is bounded.
- *Tokens, invitations, photo ids, jobs* are never reused by the code and are the
  finite resource that ends a behaviour. Three tokens are a token, its successor and a
  sibling or a second session, of one user (that a session has one user among several is
  `SessionsSafety`); two invitations are an old and a new one for
  one person, or one each; two photo ids are a photo and the one that would duplicate it.
- *Clocks* run to `MaxTime`. In `sessions_all` that is past the cap (2) of the
  first login and past the idle time (1) and the grace (1) of its successors. In
  `identity_all` an assignment or invitation can expire.
- *Races, teams and people* as well: three people are one more than a team of two
  holds, two races are the participant's and another. The requests of `event_all` check
  rules that overlapping requests do break (below), so there is one request.
- *Files* have two rows, the least with an order among them, and the database up to
  three participants: a team of two with somebody to move in or a BIB to take over. The
  two ref_ids are a participant's and another's; the relay rows are men's, the loop rows
  women's or, in a mixed team, men's, so that a team of each category is met, and a relay
  row may leave the category to the team's other row.
- *Access tokens*: two are a token and the one that replaces it, or those of two users of one
  browser; the theorem covers longer histories. *Cursors*: three ids on two timestamps
  are two rows that share one and a third that does not, or three that share one; two BIBs or names are a
place to jump from and one to jump to, before the cursor or behind it.
- *Points, files, saves, designs*: one more than a single undisturbed operation needs, so that a
  second operation finds what the first left. Two people in a photo make detection take two
  Qdrant calls, between which anything may happen.
- *Deadlock* is checked in the queue and photo runs. In the others the clock, the ids that
  are never reused or the places run out, and nothing is left to do.
- *Symmetry* is used on sets of ids the specification does not tell apart, and in no
  run with a liveness property.

### Fairness

Only `FairSpec` of JobQueue has any: weak fairness of each pending LPUSH, and of
each worker's own steps. A goroutine that is ready to run is run by the Go
scheduler, BRPOP blocks for 5 seconds at most (`pollBlockDuration`), and a step
that fails is a step too. Nothing is assumed of arrivals, signals, crashes or restarts. So
`EveryJobEnds` excepts states in which a worker is being stopped or is down, and
says nothing of calls that fail (`Faults` is FALSE): an Enqueue whose LPUSH
failed leaves a row queued for ever, which the code's comment admits.

## What was found

Each is a run in which TLC reaches a state (or a step) that a sentence of the
repository rules out.

1. `sessions_logout`: Logout does not touch a token rotated within the grace
   window, and presenting it mints a live token in the ended family.
   `auth/service.go:417-418`: "The whole session (family) ends"; `src/README.md:192-193`
   says the same of it.
2. `photos_batch`: `makeThumbnail` shadows the error of StoreGenerated and then
   dereferences a nil object; `thumbnail_job.go:115-117` says one failing photo
   "does not stop the rest".
3. `registration_race`: DeleteRace is a bare DELETE that cascades;
   `event/repository.go:256-258` says the database refuses it, `participants.race_id`
   being ON DELETE RESTRICT, while `migrations/0007_participants.up.sql:9` has CASCADE.
4. `faces_search`: `pointVector` looks for an enrolled embedding in the collection of the
   detected ones (`face/service.go:497`), finds none and skips it, so a search
   finds nobody, where `face/service.go:418-419` says it finds the photos "whose
   detected faces are similar to at least one of them".

Met while modelling and not made a run of their own:

- BRPOP has removed the id when a SIGTERM cancels the context that the load of the
  row then uses; the job is lost and its row stays queued (worker `main.go:6-7`
  promises a graceful stop).
- `RotateRefreshToken` updates by id without looking at `revoked_at`; both of two
  overlapping refreshes rotate, where `auth/service.go:283-284` says "only one of
  them can win".
- RemoveMember checks a role that a promotion changes before the UPDATE, so an
  admin may remove an admin (`members.go:33` "never another Admin").
- Overlapping requests break the rules the requests of `event_all` check: two people
  who join at once overfill a team, and a race's format changes under somebody who is
  registering. Somebody who joins a team between the two statements of DeleteTeam is
  deleted with it (`participant/service.go:569-570` "they stay registered").
- A patch may move a participant of an individual race into a team race without a
  team, where `participant/service.go:282-283` speaks of participants whose team was
  deleted; and such a participant may be given any leg, because `Validate` stops at
  `team_id`, the complaint that is then waived.
- UpdateRace lets the format of a race change while it has teams, as long as they
  are empty: an individual race may have teams left over.
- An invitation sent before a removal brings the person back, where
  `members.go:98-99` speaks of a fresh one; a request of the removed member that is
  past the middleware still acts (`members.go:99-100`); a link that was looked up
  just before a resend is still accepted (`members.go:118-119`); an admin may
  revoke an invitation that grants admin and may not resend it (`members.go:140-141`).
- UpdateAssignment writes back columns its patch did not name, from an unlocked read:
  the later of two overlapping patches brings back the capabilities or the expiry the
  first one changed (`event/assignment_service.go:171-172` "nil means 'leave
  unchanged'").
- Two members of a relay team who swap legs in one file meet the leg index at the first
  row, and the whole import is aborted, each time it is tried;
  `participant/import_service.go:109-112` says such a violation means a concurrent writer.
- The plan counts a member whom the file registers again by their row alone. When that
  row is refused - a new member's row above it took the last place, or the result would
  break the category - the member stays and was not counted: a loop team ends over its
  size, or a complete mixed team with one gender (`docs/team-loop-participants-plan.md:206`
  "can never have more than `team_size` members"; `import_service.go:36-37` rows with
  errors do not affect the others). `CleanImportKeepsOrder` is about files without errors.
- Two rows for one participant, one by ref_id and one by BIB, are both accepted; the
  second overwrites the first.
- A revoked crew member can never be assigned again: the INSERT meets the unique
  key, while `migrations/0011` speaks of an UPDATE. Nothing calls
  `RevokeEventInvitation`.
- `InsertPhoto` treats "the same file already in the album" as no error only when
  the object is the same; the other unique key (`photos_album_original_uk`), met
  after a move, fails the whole completion.
- An audit row written outside a tenant transaction is refused by row-level
  security (`auth` SelectTenant, `storage` CompleteUpload and CompletePut).
- `runner.go:28-34` and worker `main.go:10-15` say that no handler is registered;
  the header of `thumbnail_job.go` describes OCR that its line 143 says was removed.

- A refresh that is refused, or fails, clears whatever cookies the browser has when the
  answer arrives, a later sign-in's included; a late answer of SwitchTenant puts one user's
  access cookie beside another's refresh cookie. SwitchTenant mints a token
  with its full lifetime without looking at the session it belongs to, and a blacklist write that
  fails is ignored (`SignedOutStaysOut` is about those that succeed).
- A rate-limit key whose EXPIRE fails has no deadline and, once full, stays so.
- The Qdrant deletion of a dropped face is inside the transaction: when the COMMIT after it fails,
  the rows are back without their vectors (`touched`); an enrolment that
  overlaps a drop can leave a vector without a row. The temporary image is deleted with the
  request's own context, so a client that hangs up leaves it, although the
  comment says it goes unconditionally. BulkDeletePhotos never deletes the photos' points.
- `InsertOCRTag` meets a unique key when a person has entered the same BIB meanwhile, and in Postgres
  that aborts the transaction the photo's other tags are in, although
  `tag_repository.go:44-56` speaks of "a graceful skip": the photo is then `processed` with
  none of them. `SetOCRFailed` overwrites a `processed` that a person set.
- Of two overlapping edits of a template the later one writes back what the first one changed, the
  design and its version included. A failed run replaces the hash and template version of a
  certificate and keeps the file an earlier run made. Two overlapping saves of watermarks leave
  the layers of both, also when there were layers before: the second DELETE waits, and then deletes only
  rows it had seen when it began (`watermark/repository.go:97-98`). Two removals of styles can leave a font with none, and overlapping creations
  can pass the limit on fonts.
- `RemoveFile` is "refused while a template still needs it" (`fontlib/service.go:314`), but the query asks
  for listed styles only (`fontlib/repository.go:239-247`), while an entry that lists none needs
  the regular style (`templateassets/assets.go:70-73`): that one can be removed at any time. So can what the
  texts of a design name (`assets.go:78-88`) and what is named by family only. Of these needs `Demand`
  (`repository.go:259-267`) lists neither an entry without styles nor a text's font, though the job is
  refused for them; and an empty key is refused by the one and satisfied by name for the other.
- Participants are listed by BIB, "a stable cursor" (`participant/repository.go:168-169`), and teams
  by name. A row whose BIB or name is edited during a walk jumps over the cursor, and is then missed or
  returned twice. `pagination.go:71` says every paginated table goes by `created_at`.
- An id sent twice to the BIB print is reported as "no longer in the event"; `bibprint` never sets
  `RasterBleedMM`, so images do not reach into the bleed; with a margin under 6 mm
  crop marks are cut off by the paper's edge.

## What is proved

For all values of the constants that satisfy the modules' assumptions, by TLAPS from the
modules as TLC checks them. The assumptions are named `...Assumption`; for the parts that `Services`,
`Identity` and `Event` bring together they are stated there, one for each part. They say that the "no such"
values are not members of their sets, that bounds, limits and lifetimes are naturals, that there is a
user, that page sizes are not 0 and versions count from 1, that a race a file may name has a format
(`ImportAssumption`; `import.go:187-189` refuses a row that names no race of the event), that artwork has a
size, as `generator/svgread.go:181` asks of every file, and a layout whole columns and rows
(`PrintAssumption`), and that what is counted is finite: the
faces in a photo (`FacesAssumption`), the tags (`TaggingAssumption`), the requests in progress at once
(`CodeAssumption`). Nothing else is assumed of the constants, but by `RulesOneAtATime`, whose own
hypothesis (`OneAtATime`) is that `Requests` has one element at most; the other sets may be infinite, and so may
the behaviours. TLC evaluates every assumption on its runs.

| Theorem | States |
|---|---|
| `JobQueueProofs!DeliverySafety` | always `TypeOK`, `ExclusiveDelivery`, `RowMatchesStage` |
| `JobQueueProofs!Refinement` | JobQueue implements JobLifecycle |
| `JobQueueProofs!FullReport` | always `CompletedIsFullyReported` |
| `SessionsProofs!SessionsSafety` | always `TypeOK`, `FamilyCoherent`, `TrailIntact` |
| `SessionsProofs!OverForGood` | `OverIsOver` |
| `SessionsProofs!SessionsRefine` | Sessions implements SessionLifecycle |
| `SessionsProofs!OnlyThisSession` | `OtherSessionsUntouched` |
| `SessionsProofs!EndingCatchesTheRest` | always `OnlySparedLive` |
| `ServicesProofs!OwnerSafety` | Membership: always `TypeOK`, `OneOwner` |
| `ServicesProofs!TenantsRefine` | Membership implements Workspace |
| `ServicesProofs!Joining` | `JoinSpendsInvitation` |
| `ServicesProofs!AdminsFromOwner` | `OnlyOwnerGrantsAdmin` |
| `ServicesProofs!SpentForGood` | `SpentIsSpent` |
| `AccessProofs!CrewSafety` | EventCrew: always `TypeOK`, `OneAcceptedEach` |
| `AccessProofs!Accepting` | `AcceptIsAllOrNothing` |
| `AccessProofs!Revoking` | `RevokedForGood` |
| `AccessProofs!Access` | `AccessComesFromStaff` |
| `PhotoUploadProofs!GallerySafety` | always `TypeOK`, `PhotosHaveBytes` |
| `PhotoUploadProofs!NoFileTwice` | always `OneOfEachFile` |
| `PhotoUploadProofs!ThumbnailSafety` | always `QueuedOnce`, `ThumbnailsStored` |
| `PhotoUploadProofs!Creation` | `CreatedInItsAlbum` |
| `RegistrationProofs!RegistrationSafety` | always `TypeOK`, `TeamOfSameRace` |
| `RegistrationProofs!DetachingKeepsMembers` | `DetachedStayRegistered` |
| `RegistrationProofs!DeletionIsForGood` | `DeletedForGood` |
| `RegistrationProofs!RulesOneAtATime` | with at most one request in progress: always `RulesKept` |
| `AccessProofs!GuessesAreBounded` | OneTimeCode: always `GuessesBounded` |
| `AccessProofs!SignedOut` | BrowserSession: always `SignedOutStaysOut` |
| `AccessProofs!GoogleIdentities` | Accounts: always `OneAccountPerGoogleIdentity` |
| `AccessProofs!VerifiedAddresses` | Accounts: always `VerifiedIsProven` |
| `ServicesProofs!WholeWalk` | Listing: always `WalkIsWhole` |
| `ServicesProofs!TwoWindows` | RateLimit: always `TwoWindowsAtMost` |
| `ServicesProofs!ClientsFade` | Clients: always `RevokedClientsFade` |
| `ServicesProofs!EachMigrationOnce` | Migrations: always `MigratedOnce` |
| `ServicesProofs!WholeSaves` | Watermarks: always `SavesAreWhole` |
| `ServicesProofs!MixedByOverlap` | Watermarks: always `OnlyOverlappingMix` |
| `ServicesProofs!OneActiveTemplate` | Templates: always `OneActivePerScope` |
| `MediaProofs!OneCountedFace` | Faces: always `FacesAddUp` |
| `MediaProofs!VectorsBeforeRows` | Faces: always `RowsHaveVectors` |
| `MediaProofs!ManualStays` | Tagging: always `ReviewedIsSettled` |
| `MediaProofs!PeopleDecideTags` | Tagging: `PeopleHaveTheLastWord` |
| `MediaProofs!ReadyShowsItsRecord` | Certificates: always `ReadyIsItsFile` |
| `MediaProofs!NamedFontsAreThere` | Fonts: `NamedFontsStay` |
| `EventProofs!ImportsNeverClash` | ImportPlan: always `BibsAndRefsNeverClash` |
| `EventProofs!SecondImportsChangeNothing` | ImportPlan: always `SecondImportChangesNothing` |
| `EventProofs!CleanImportsKeepOrder` | ImportPlan: always `CleanImportKeepsOrder` |
| `EventProofs!PrintsAreRight` | BibPrint: always `PrintIsRight` |

Type correctness and the action properties `OverIsOver`, `OtherSessionsUntouched`,
`JoinSpendsInvitation`, `SpentIsSpent`, `RevokedForGood`, `AcceptIsAllOrNothing`,
`CreatedInItsAlbum` and `DeletedForGood` are proved and not run (`OverIsOver`, `JoinSpendsInvitation`
and `SpentIsSpent` are part of what the refinements say, which are run); of the others a run checks
each on a small instance too. All theorems rest on an inductive invariant.

The arguments have one shape. The properties are not inductive, because a step
depends on what its request read earlier; each proof adds what a request in
progress may still rely on, and shows that no step of another takes it away.

- *JobQueue* (`IInv`): an id is in the list only when its Enqueue is done
  (`OwnedByEnqueue`), a worker past BRPOP holds a job (`HoldsWhileWorking`), and the
  reported progress never passes the item the handler is at (`ProgressBehindItem`, which makes
  every report a step forward in the refinement). `FullReport` rests on one more
  (`ReportsAtEnd`): a worker that was not told to stop has reported the last item
  when its handler can return well, and one that was told to stop cannot record it.
- *Sessions* (`IInv`): a request in progress names a minted token
  (`RequestsCoherent`), so its successor joins a family that exists. From there
  `OverForGood` is a case split: a token that cannot be used stays unusable
  (`UsableOnlyDecays`), and a family's new tokens come from a request that
  counts as refreshing it. `EndingCatchesTheRest` adds `SInv`: what a refresh holds of an ended
  family is spared (`HeldIsSpared`), so what it mints is; and it needs `TrailIntact`: a token not revoked
  yet names no successor, so one the UPDATE saw and revokes has no grace. For `SessionsRefine` a step is one of
  two kinds: `IssueSession` opens its session, because the row of a token not minted is
  not revoked (`FreshTokens`), and disturbs no other (`IssueIsLogin`); every other step leaves
  owner and cap as they are - a refresh adds a token with the presented one's
  (`RefreshKeepsSession`) - and what is over stays over, so it ends some open sessions or is a
  stutter (`EndStep`).
- *Membership* (`SoundRequests`): whoever acts as owner is the owner for good;
  the target of a change or a removal is not the owner; a role change is by the
  owner; an acceptance carries the invitee and role of its invitation, which
  never change once sent. With these each commit is a step of Workspace (`TenantsRefine`): the
  checks a request made when it read are the abstract guards, and still hold or are asked again.
- *EventCrew*: the same for assignments and acceptances, with "an accepted
  invitation's invitee has a row" in the place of ownership.
- *PhotoUpload*: rows first (`StorageInv`: a stored object has bytes, and what
  a completion holds ready does too), then `OneOfEachFile`, and for jobs
  (`JobInv`) that the photos a request is about to queue, those in a batch and
  those with a worker are of different photos.
- *Registration* (`SoundRequests`, `Apart`): the row a request has checked names a
  team of its own race or one that is gone by now (`OwnOrGone`), since a team never
  changes race and an id is never reused; the foreign key refuses the second.
  Members a deletion has detached are live and locked by it alone, so its cascade
  passes them. `RulesKept` fails of two requests (see the stale reads above), so its theorem is
  about one: `RulesInv` says of the stored rows that they obey the rules and of the
  request that what it checked still holds. Between its read and its write come only new
  races and the deletions that check nothing and so are one step: they take members away
  (`Thinned`), and a team that suits its category and size suits them with fewer members
  (`FewerSuit`: a mixed team that is no longer complete may have one gender). A new format
  meets a race nobody is in, or is the old one.
- *BrowserSession* (`BrowserInv`): whoever signed out did so with a token that was issued, whose
  expiry never changes, and the blacklist entry has that expiry as its deadline
  (`BlacklistLasts`); so Redis drops it only when the token is refused anyhow.
- *Accounts* (`SecretSound`, `RequestSound`): what a secret stands for - a proven address,
  a linked identity - was true when it was issued and stays true, so it does not matter
  how often or how late it is used. UNIQUE (provider, subject) does the rest.
- *Clients* (`QuietIsOver`, `TokensInTime`): once a client is quiet no grant of it is in progress and
  none begins, so each of its tokens was issued before.
- *Migrations* (`ReadIsRecorded`, `InOrder`): rows are only added, so what a process once read as
  recorded still is, and the primary key refuses a version that is.
- *Watermarks* (`RowsOfDone`, `SavesInProgress`, `DeletesWhole`, `EarlierSeen`): rows are of saves that have
  committed and a save in progress has a number of its own; of another save's rows that are still there, a
  request has seen, and is about to delete, all or none, and all of those that had committed before its
  DELETE began.
- *Templates* (`OneHolder`): the unique index is asked of each row that is written, and turning
  the others off can only help.
- *OneTimeCode* (`CodeInv`): while a code stands, the guesses it met, the attempts left before it is
  destroyed and a full set of attempts for each way they can still start again stay within
  the bound (`AttemptsBounded`): a guess costs an attempt, a restart costs one of the
  requests about to forget attempts or the older key of the attempts. Once the code is gone or replaced,
  each guess costs one of the requests that had read it (`LateBounded`).
- *Listing* (`ListingInv`): a row already returned is not behind the cursor (`ReturnedOnce`), a row
  that was there all along and was not returned is (`RestToCome`); a row written meanwhile
  may be either, and so may one whose BIB or name was edited. The page is the first rows of the order, so its last row is where both go on.
- *RateLimit* (`LimitInv`): the requests let through are kept in order; the last ones, as many as the
  key counts, are of its window, the `Limit` before them at most of the window before
  (`WindowLasts`, `LastWindowOver`), so two of them 2 * `Limit` apart are a window apart
  (`AllowedApart`).
- *Faces* (`FacesInv`): what a request holds of a face it read, locked or is about to insert
  (`HeldFaces`, `NewFaces`, `LocksApart`) and whose points are whose (`PointsApart`). A
  unique index lets one face of an owner through, and the row's lock makes its count the number of its
  points. For `RowsHaveVectors`: a vector precedes its row (`VectorsThere`, `DetectionsThere`).
- *Tagging* (`TaggingInv`): a photo that was settled once stays settled, so a status read as settled
  is right however old (`SettledStays`), a manual tag settles its photo
  (`ManualIsSettled`), and a photo has a BIB once (`BibsOnce`), which is why the detection's insertion
  meets the manual tag of the same BIB and leaves it.
- *Certificates*: `ReadyIsItsFile` is inductive once a file is known to be numbered as it is drawn
  and never drawn over.
- *Fonts* (`NamedOnlySince`): a template that names what a request found unused was saved after it
  looked; the id of a new family is nobody else's until the family is there (`NewIdsAreFree`).
- *ImportPlan* (`DatabaseKept`): in the database BIBs are unique in a race, ref_ids in the event and
  legs in a team (`Database`). The invariant is simple; the work is in what one file does, which is
  a statement about a recursive function over its rows. Such a function is shown to exist
  (`WrittenSteps`), and what holds after row n is proved for every n by taking the least n for
  which it fails (`LeastOne`; no induction theorem is needed). Two facts are carried along the file
  in this way: what is written so far is unique, and every BIB and ref_id in it was there before
  or is of a row already written (`WrittenSoFar`), so a row the plan lets through, which repeats no row
  before it and takes nothing of another's, can be written (`RowIsNobodyElses`; this gives
  `ImportsNeverClash`); and in a file without errors each row has a place of its own that
  holds what the row says (`Placed`). From `Placed`, the second
  import of a file finds each row by the BIB or ref_id the first one left, unchanged; and the
  members of a team after the file are those who stayed and the rows that joined, whose
  number, legs and genders `planTeams` has counted.
- *BibPrint* (`PrintKept`): the job's artwork and layout passed `Validate` (`Asked`), its rows are the
  participants that were asked for and there when they were read (`RowsRead`), and its files are
  `PrintOrder` of these cut into pieces (`FilesRendered`). The properties then follow from four
  groups of lemmas: in a finite strict order, 1 plus the number of those before is a
  one-to-one numbering from 1 (`Rank`); the order by group, leg and BIB is such an order in which teams stay together; pieces of pieces of a
  sequence hold each of its members once and in order; and arithmetic of the grid: the cells
  that `Validate` lets through lie within the margin with their bleed, apart from one another, and no
  crop mark touches a bleed.

`DatabaseKept` and `PrintKept` are definitions of EventProofs; TLC was also asked for them on the
instance of `event_all` before they were proved, and finds no violation.

Model-checked only: liveness (`EveryJobEnds`, `ShutdownCompletes`), which is under
fairness and so beyond TLAPS. Every invariant and every action property a passing run checks, and
all three refinements, are stated by a theorem.

## Not modelled

Request parsing, validation of formats, rendering of PDFs and images, reading of fonts and
SVG, hashing, mail (an invitation or a code is taken to reach its addressee), the contents of
rows no property tells apart, and read-only endpoints. Row-level security is
taken to hold: every module is about one tenant or one event, since every query the
modelled code makes is confined to one.

- *Rows nothing decides by*: an event's own columns, albums and their titles, a tenant's
  status and profile, a user's profile, the publication of certificates (a timestamp the portal
  shows them by). Each is one UPDATE by id.
- *Public portal* and *audit log*: the first reads only, the second is appended to and never read
  by a decision.
- *The cache of fonts, connection pools, encodings, the content of Qdrant's
  filters*: no state that a modelled decision depends on.
- *Import overlapping other requests*: a file is planned and applied in one
  transaction; what stale reads do is shown by Registration.
- *Photos committed whose job was never queued* (`photo_service.go:233`): no later step looks
  for them, so there is nothing to state but that it happens.

## Plan

Done, in this order: 1. JobQueue, which implements JobLifecycle. 2. Sessions. 3. Membership.
4. EventCrew. 5. PhotoUpload. 6. Registration and 7. ImportPlan, over RaceRules. 8. OneTimeCode,
Accounts, BrowserSession. 9. Faces, Tagging, Templates, Certificates, Watermarks, Fonts,
SheetLayout and BibPrint. 10. Migrations, RateLimit, Listing, Clients. 11. SessionLifecycle, which
Sessions implements, and Workspace, which Membership implements. All that a passing run checks but liveness is proved.

Left: imports that overlap each other.
