---------------------------- MODULE PhotoUpload ----------------------------
(***************************************************************************)
(* From a photographer's file to a photo with a thumbnail: gallery.Service *)
(* over storage.Service, the bytes behind it and the job queue.            *)
(*                                                                         *)
(* A file is identified by its name and size, its object by the album it   *)
(* was picked for and the file.  The uploader asks for presigned URLs, PUTs *)
(* the bytes (through this server with the "local" driver, straight to the *)
(* bucket with "r2"), and completes: each object is confirmed on its own,  *)
(* one transaction inserts the photos, and a media.photo_process job is    *)
(* queued if that works.  The worker makes one thumbnail after another     *)
(* while photos are moved and deleted and albums removed.  An URL is taken *)
(* to be usable from its issue on; the completing client names each object *)
(* by the file it was issued for; a job is delivered once (JobQueue).      *)
(***************************************************************************)
EXTENDS Functions

CONSTANTS
  Files,     \* DuplicateKey: a picked file's name and size
  Albums,    \* albums of one event
  Photos,    \* photo ids that can be minted
  Requests,  \* HTTP requests that can be in progress at once
  Workers,   \* cmd/worker processes
  NoAlbum,
  NoObject,
  NoPhoto

Objects == Albums \X Files
AlbumOf(o) == o[1]
FileOf(o) == o[2]

ASSUME PhotoUploadAssumption ==
  /\ NoAlbum \notin Albums
  /\ NoObject \notin Objects
  /\ NoPhoto \notin Photos

VARIABLES
  driver,    \* storage.Config.Driver
  albums,    \* the albums that exist
  object,    \* objects.status of each object, "none" without a row
  bytes,     \* the objects whose bytes are in storage
  photo,     \* each photo id: "none", "present" or "deleted"
  original,  \* photos.original_storage_id
  album,     \* photos.album_id
  thumbnail, \* the photos whose thumbnail_storage_id is set
  thumbs,    \* the photos whose thumbnail is in storage
  queue,     \* the batches waiting as media.photo_process jobs
  queued,    \* the photos any job was ever queued for (a history variable)
  request,
  worker

storageVars == <<driver, object, bytes>>
photoVars == <<albums, photo, original, album, thumbnail>>
jobVars == <<thumbs, queue, queued, worker>>
vars == <<storageVars, photoVars, jobVars, request>>

(* "urls" provisions what is left to do, "put" has written the bytes of     *)
(* marking, "confirm" looks at what is left to do, collects what is ready   *)
(* and, with r2, is about to mark an object stored, "enqueue" has committed *)
(* its photos.                                                             *)
RequestType ==
  [kind : {"none", "urls", "put", "confirm", "enqueue"}, album : Albums \union {NoAlbum},
   todo : SUBSET Objects, ready : SUBSET Objects, marking : Objects \union {NoObject},
   photos : SUBSET Photos]
NoRequest ==
  [kind |-> "none", album |-> NoAlbum, todo |-> {}, ready |-> {}, marking |-> NoObject, photos |-> {}]

(* "loop" is between two photos, "making" has loaded the one it is at,      *)
(* "record" has stored its thumbnail.                                      *)
WorkerType ==
  [stage : {"idle", "loop", "making", "record", "down"}, todo : SUBSET Photos,
   at : Photos \union {NoPhoto}]
Idle == [stage |-> "idle", todo |-> {}, at |-> NoPhoto]

(* One type invariant.  A photo has an original, and an album that exists.   *)
TypeOK ==
  /\ driver \in {"local", "r2"}
  /\ albums \subseteq Albums
  /\ object \in [Objects -> {"none", "pending", "stored"}]
  /\ bytes \subseteq Objects
  /\ photo \in [Photos -> {"none", "present", "deleted"}]
  /\ original \in [Photos -> Objects \union {NoObject}]
  /\ album \in [Photos -> Albums \union {NoAlbum}]
  /\ thumbnail \subseteq Photos
  /\ thumbs \subseteq Photos
  /\ queue \subseteq SUBSET Photos
  /\ queued \subseteq Photos
  /\ request \in [Requests -> RequestType]
  /\ worker \in [Workers -> WorkerType]
  /\ \A p \in Photos : photo[p] = "present" => original[p] \in Objects /\ album[p] \in albums

Init ==
  /\ driver \in {"local", "r2"}
  /\ albums = Albums
  /\ object = [o \in Objects |-> "none"]
  /\ bytes = {}
  /\ photo = [p \in Photos |-> "none"]
  /\ original = [p \in Photos |-> NoObject]
  /\ album = [p \in Photos |-> NoAlbum]
  /\ thumbnail = {}
  /\ thumbs = {}
  /\ queue = {}
  /\ queued = {}
  /\ request = [r \in Requests |-> NoRequest]
  /\ worker = [w \in Workers |-> Idle]

Present == {p \in Photos : photo[p] = "present"}
InAlbum(a, f) == \E p \in Present : album[p] = a /\ FileOf(original[p]) = f

Answer(r) == request' = [request EXCEPT ![r] = NoRequest]

(* A call to Postgres, Redis or the bucket fails, or the server dies: what  *)
(* was committed stays, a job that was to be queued never is.              *)
Abandon(r) ==
  /\ request[r].kind # "none"
  /\ Answer(r)
  /\ UNCHANGED <<storageVars, photoVars, jobVars>>

-----------------------------------------------------------------------------
(* Upload URLs.                                                            *)

RequestUploadURLs(r) ==
  /\ request[r].kind = "none"
  /\ \E a \in albums, files \in SUBSET Files :
       LET todo == {<<a, f>> : f \in {f \in files : ~InAlbum(a, f)}}
       IN  /\ todo # {}
           /\ request' = [request EXCEPT ![r] = [NoRequest EXCEPT !.kind = "urls", !.album = a, !.todo = todo]]
  /\ UNCHANGED <<storageVars, photoVars, jobVars>>

(* The row is created, or reset to pending when the object is already there. *)
ProvisionUpload(r) ==
  /\ request[r].kind = "urls"
  /\ \E o \in request[r].todo :
       /\ object' = [object EXCEPT ![o] = "pending"]
       /\ request' = [request EXCEPT ![r] =
            IF request[r].todo = {o} THEN NoRequest ELSE [request[r] EXCEPT !.todo = request[r].todo \ {o}]]
  /\ UNCHANGED <<driver, bytes, photoVars, jobVars>>

-----------------------------------------------------------------------------
(* The bytes.                                                              *)

(* With r2 the PUT goes to the bucket and this server never sees it.        *)
PutToBucket(o) ==
  /\ driver = "r2"
  /\ object[o] # "none"
  /\ bytes' = bytes \union {o}
  /\ UNCHANGED <<driver, object, photoVars, jobVars, request>>

PutObject(r, o) ==
  /\ driver = "local"
  /\ request[r].kind = "none"
  /\ object[o] # "none"
  /\ bytes' = bytes \union {o}
  /\ request' = [request EXCEPT ![r] = [NoRequest EXCEPT !.kind = "put", !.marking = o]]
  /\ UNCHANGED <<driver, object, photoVars, jobVars>>

CompletePut(r) ==
  /\ request[r].kind = "put"
  /\ object' = [object EXCEPT ![request[r].marking] = "stored"]
  /\ Answer(r)
  /\ UNCHANGED <<driver, bytes, photoVars, jobVars>>

-----------------------------------------------------------------------------
(* Completion.                                                             *)

BeginComplete(r) ==
  /\ request[r].kind = "none"
  /\ \E a \in albums, items \in SUBSET {o \in Objects : object[o] # "none"} :
       /\ items # {}
       /\ request' = [request EXCEPT ![r] = [NoRequest EXCEPT !.kind = "confirm", !.album = a, !.todo = items]]
  /\ UNCHANGED <<storageVars, photoVars, jobVars>>

(* What of a confirmed object CompleteUploads keeps: albumPrefix.           *)
OfAlbum(r, o) == IF AlbumOf(o) = request[r].album THEN {o} ELSE {}

Confirmed(r, o) ==
  request' = [request EXCEPT ![r] =
    [request[r] EXCEPT !.todo = request[r].todo \ {o}, !.ready = request[r].ready \union OfAlbum(r, o)]]

(* A mutant: a pending object is taken for an uploaded one. *)
ConfirmStoredTrusts(r) ==
  /\ request[r].kind = "confirm"
  /\ request[r].marking = NoObject
  /\ \E o \in request[r].todo : Confirmed(r, o)
  /\ UNCHANGED <<storageVars, photoVars, jobVars>>

(* ConfirmStored: a row already stored is good; one still pending is looked *)
(* up in the bucket (r2) and marked if it is there, or else rejected.       *)
ConfirmStored(r) ==
  /\ request[r].kind = "confirm"
  /\ request[r].marking = NoObject
  /\ \E o \in request[r].todo :
       \/ /\ object[o] = "stored"
          /\ Confirmed(r, o)
       \/ /\ object[o] = "pending"
          /\ request' = [request EXCEPT ![r] =
               [request[r] EXCEPT !.todo = request[r].todo \ {o},
                                  !.marking = IF driver = "r2" /\ o \in bytes THEN o ELSE NoObject]]
  /\ UNCHANGED <<storageVars, photoVars, jobVars>>

MarkStored(r) ==
  /\ request[r].kind = "confirm"
  /\ request[r].marking # NoObject
  /\ object' = [object EXCEPT ![request[r].marking] = "stored"]
  /\ request' = [request EXCEPT ![r] =
       [request[r] EXCEPT !.marking = NoObject,
                          !.ready = request[r].ready \union OfAlbum(r, request[r].marking)]]
  /\ UNCHANGED <<driver, bytes, photoVars, jobVars>>

(* The objects no photo has yet: ON CONFLICT (original_storage_id) passes   *)
(* over the others.                                                        *)
Fresh(r) == {o \in request[r].ready : \A p \in Present : original[p] # o}

(* The album must still be there (foreign key) and hold none of the files   *)
(* under another object (photos_album_original_uk), or nothing is inserted. *)
Insert(r, new, of) ==
  /\ request[r].kind = "confirm"
  /\ request[r].todo = {}
  /\ request[r].marking = NoObject
  /\ request[r].album \in albums
  /\ \A o \in Fresh(r) : ~InAlbum(request[r].album, FileOf(o))
  /\ photo' = [p \in Photos |-> IF p \in new THEN "present" ELSE photo[p]]
  /\ original' = [p \in Photos |-> IF p \in new THEN of[p] ELSE original[p]]
  /\ album' = [p \in Photos |-> IF p \in new THEN request[r].album ELSE album[p]]

(* A mutant: the photos found to exist are queued again with the new ones. *)
InsertPhotosRequeues(r) ==
  /\ \E new \in SUBSET {p \in Photos : photo[p] = "none"} :
       /\ \E of \in Bijection(new, Fresh(r)) : Insert(r, new, of)
       /\ request' = [request EXCEPT ![r] = [NoRequest EXCEPT !.kind = "enqueue",
            !.photos = new \union {p \in Present : original[p] \in request[r].ready}]]
  /\ UNCHANGED <<storageVars, albums, thumbnail, jobVars>>

(* The transaction of CompleteUploads. *)
InsertPhotos(r) ==
  /\ \E new \in SUBSET {p \in Photos : photo[p] = "none"} :
       /\ \E of \in Bijection(new, Fresh(r)) : Insert(r, new, of)
       /\ request' = [request EXCEPT ![r] =
            IF new = {} THEN NoRequest ELSE [NoRequest EXCEPT !.kind = "enqueue", !.photos = new]]
  /\ UNCHANGED <<storageVars, albums, thumbnail, jobVars>>

EnqueueThumbnailJob(r) ==
  /\ request[r].kind = "enqueue"
  /\ queue' = queue \union {request[r].photos}
  /\ queued' = queued \union request[r].photos
  /\ Answer(r)
  /\ UNCHANGED <<storageVars, photoVars, thumbs, worker>>

-----------------------------------------------------------------------------
(* The album's keepers.                                                    *)

(* A mutant: the move does not mind a file already in the target. *)
MoveAnyway(ids, target) ==
  /\ target \in albums
  /\ album' = [p \in Photos |-> IF p \in ids \intersect Present THEN target ELSE album[p]]
  /\ UNCHANGED <<storageVars, albums, photo, original, thumbnail, jobVars, request>>

(* All of the photos move, or none when the target would hold a file twice. *)
BulkMovePhotos(ids, target) ==
  LET moved == ids \intersect Present
  IN  /\ target \in albums
      /\ \A p, q \in Present :
           (p \in moved /\ p # q /\ (q \in moved \/ album[q] = target)) =>
             FileOf(original[p]) # FileOf(original[q])
      /\ album' = [p \in Photos |-> IF p \in moved THEN target ELSE album[p]]
      /\ UNCHANGED <<storageVars, albums, photo, original, thumbnail, jobVars, request>>

Remove(ids) ==
  /\ photo' = [p \in Photos |-> IF p \in ids \intersect Present THEN "deleted" ELSE photo[p]]
  /\ original' = [p \in Photos |-> IF p \in ids \intersect Present THEN NoObject ELSE original[p]]
  /\ album' = [p \in Photos |-> IF p \in ids \intersect Present THEN NoAlbum ELSE album[p]]
  /\ thumbnail' = thumbnail \ ids
  /\ UNCHANGED <<storageVars, jobVars, request>>

BulkDeletePhotos(ids) == Remove(ids) /\ UNCHANGED albums

DeleteAlbum(a) ==
  /\ a \in albums
  /\ albums' = albums \ {a}
  /\ Remove({p \in Present : album[p] = a})

-----------------------------------------------------------------------------
(* RunPhotoProcess.                                                        *)

Become(w, stage, at) == worker' = [worker EXCEPT ![w] = [worker[w] EXCEPT !.stage = stage, !.at = at]]

TakeJob(w) ==
  /\ worker[w].stage = "idle"
  /\ \E batch \in queue :
       /\ queue' = queue \ {batch}
       /\ worker' = [worker EXCEPT ![w] = [Idle EXCEPT !.stage = "loop", !.todo = batch]]
  /\ UNCHANGED <<storageVars, photoVars, thumbs, queued, request>>

(* A photo that is gone counts as failed; one with a thumbnail is skipped.  *)
LoadPhoto(w) ==
  /\ worker[w].stage = "loop"
  /\ \E p \in worker[w].todo :
       LET work == p \in Present \ thumbnail
       IN  worker' = [worker EXCEPT ![w] =
             [stage |-> IF work THEN "making" ELSE "loop", todo |-> worker[w].todo \ {p},
              at |-> IF work THEN p ELSE NoPhoto]]
  /\ UNCHANGED <<storageVars, photoVars, thumbs, queue, queued, request>>

(* Reading, decoding or encoding fails, or it is a HEIC file and skipped:    *)
(* the next photo.                                                         *)
MakeFails(w) ==
  /\ worker[w].stage = "making"
  /\ Become(w, "loop", NoPhoto)
  /\ UNCHANGED <<storageVars, photoVars, thumbs, queue, queued, request>>

StoreGenerated(w) ==
  /\ worker[w].stage = "making"
  /\ thumbs' = thumbs \union {worker[w].at}
  /\ Become(w, "record", worker[w].at)
  /\ UNCHANGED <<storageVars, photoVars, queue, queued, request>>

(* makeThumbnail does not look at StoreGenerated's error.  If the next      *)
(* transaction opens, its closure dereferences the nil object: the panic    *)
(* rolls it back and, with no recover in cmd/worker, ends the process.  If  *)
(* it does not open, that is the error returned.                           *)
StoreGeneratedFails(w) ==
  /\ worker[w].stage = "making"
  /\ \/ Become(w, "down", NoPhoto)
     \/ Become(w, "loop", NoPhoto)
  /\ thumbs' \in {thumbs, thumbs \union {worker[w].at}}
  /\ UNCHANGED <<storageVars, photoVars, queue, queued, request>>

(* UpdatePhotoThumbnail: no row, no thumbnail. *)
RecordThumbnail(w) ==
  /\ worker[w].stage = "record"
  /\ thumbnail' = thumbnail \union ({worker[w].at} \intersect Present)
  /\ Become(w, "loop", NoPhoto)
  /\ UNCHANGED <<storageVars, albums, photo, original, album, thumbs, queue, queued, request>>

RecordThumbnailFails(w) ==
  /\ worker[w].stage = "record"
  /\ Become(w, "loop", NoPhoto)
  /\ UNCHANGED <<storageVars, photoVars, thumbs, queue, queued, request>>

FinishJob(w) ==
  /\ worker[w].stage = "loop"
  /\ worker[w].todo = {}
  /\ worker' = [worker EXCEPT ![w] = Idle]
  /\ UNCHANGED <<storageVars, photoVars, thumbs, queue, queued, request>>

(* The process is stopped or killed, and another started: nobody expects    *)
(* the rest of its batch.                                                  *)
Kill(w) ==
  /\ worker[w].stage \notin {"idle", "down"}
  /\ worker' = [worker EXCEPT ![w] = Idle]
  /\ UNCHANGED <<storageVars, photoVars, thumbs, queue, queued, request>>

(* A process that panicked is started again. *)
Restart(w) ==
  /\ worker[w].stage = "down"
  /\ worker' = [worker EXCEPT ![w] = Idle]
  /\ UNCHANGED <<storageVars, photoVars, thumbs, queue, queued, request>>

-----------------------------------------------------------------------------
Serve(r) ==
  \/ RequestUploadURLs(r) \/ ProvisionUpload(r)
  \/ (\E o \in Objects : PutObject(r, o)) \/ CompletePut(r)
  \/ BeginComplete(r) \/ ConfirmStored(r) \/ MarkStored(r) \/ InsertPhotos(r)
  \/ EnqueueThumbnailJob(r) \/ Abandon(r)

RunPhotoProcess(w) ==
  \/ LoadPhoto(w) \/ MakeFails(w) \/ StoreGenerated(w) \/ StoreGeneratedFails(w)
  \/ RecordThumbnail(w) \/ RecordThumbnailFails(w) \/ FinishJob(w)

Next ==
  \/ \E r \in Requests : Serve(r)
  \/ \E o \in Objects : PutToBucket(o)
  \/ \E ids \in SUBSET Photos, a \in Albums : BulkMovePhotos(ids, a)
  \/ \E ids \in SUBSET Photos : BulkDeletePhotos(ids)
  \/ \E a \in Albums : DeleteAlbum(a)
  \/ \E w \in Workers : TakeJob(w) \/ RunPhotoProcess(w) \/ Kill(w) \/ Restart(w)

Spec == Init /\ [][Next]_vars

-----------------------------------------------------------------------------
(* Properties                                                              *)

(* A photo is only ever made of bytes that are in storage, whatever resets  *)
(* its object's row to pending between ConfirmStored and the insertion.     *)
PhotosHaveBytes == \A p \in Present : original[p] \in bytes

(* An album never shows a file twice and no two photos share an original,   *)
(* with completions, moves and deletions in any order.                      *)
OneOfEachFile ==
  \A p, q \in Present :
    p # q => original[p] # original[q] /\ (album[p] = album[q] => FileOf(original[p]) # FileOf(original[q]))

(* CompleteUploads: completing again returns the photo "without queuing a    *)
(* second job for it": a photo is in one batch at most, so no two workers   *)
(* make its thumbnail at once.                                              *)
QueuedOnce ==
  /\ \A r \in Requests :
       /\ request[r].photos \intersect queued = {}
       /\ \A s \in Requests : r # s => request[r].photos \intersect request[s].photos = {}
  /\ \A b, c \in queue : b # c => b \intersect c = {}
  /\ \A w \in Workers : \A b \in queue : (worker[w].todo \union {worker[w].at}) \intersect b = {}

(* A thumbnail the row points to is in storage, whatever failed on the way.  *)
ThumbnailsStored == thumbnail \subseteq thumbs

(* A photo enters the gallery in the album its object was issued for, though *)
(* the storage id is the client's word: albumPrefix in CompleteUploads.     *)
CreatedInItsAlbum ==
  [][\A p \in Photos : photo[p] = "none" /\ photo'[p] = "present" => album'[p] = AlbumOf(original'[p])]_vars

(* thumbnail_job.go: "One photo failing ... is recorded as failed and does   *)
(* not stop the rest": a worker that goes down of itself has none left.     *)
BatchRunsThrough == \A w \in Workers : worker[w].stage = "down" => worker[w].todo = {}
=============================================================================
