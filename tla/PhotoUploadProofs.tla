------------------------- MODULE PhotoUploadProofs -------------------------
(***************************************************************************)
(* Proofs about PhotoUpload, for any files, albums, photos, overlapping    *)
(* requests and workers.                                                   *)
(***************************************************************************)
EXTENDS PhotoUpload, TLAPS

Made == {p \in Photos : photo[p] # "none"}

(* What a request has learnt stays true: bytes and photo ids are only added. *)
SoundRequests ==
  {q \in RequestType :
     /\ q.ready \subseteq bytes
     /\ \A o \in q.ready : AlbumOf(o) = q.album
     /\ q.marking # NoObject => q.marking \in bytes
     /\ q.kind = "put" => q.marking # NoObject
     /\ q.kind # "enqueue" => q.photos = {}
     /\ q.photos \subseteq Made}

(* A worker only handles photos it was given, and has stored what it is     *)
(* about to record.                                                        *)
SoundWorkers ==
  {v \in WorkerType :
     /\ v.todo \subseteq queued
     /\ v.at # NoPhoto => v.at \in queued
     /\ v.stage \in {"making", "record"} => v.at # NoPhoto
     /\ v.stage = "record" => v.at \in thumbs}

RequestsSound == \A r \in Requests : request[r] \in SoundRequests
WorkersSound == \A w \in Workers : worker[w] \in SoundWorkers
RowsSound == \A o \in Objects : object[o] = "stored" => o \in bytes
QueueSound == queued \subseteq Made /\ \A b \in queue : b \subseteq queued

StorageInv == TypeOK /\ PhotosHaveBytes /\ RowsSound /\ RequestsSound
JobInv == QueuedOnce /\ QueueSound /\ WorkersSound /\ ThumbnailsStored
IInv == StorageInv /\ OneOfEachFile /\ JobInv

-----------------------------------------------------------------------------
(* Building blocks.                                                        *)

LEMMA NoRequestSound ==
  /\ NoRequest \in RequestType /\ NoRequest.photos = {}
  /\ NoRequest \in SoundRequests /\ NoRequest \in SoundRequests'
  <1>1. NoRequest \in RequestType
    BY DEF NoRequest, RequestType
  <1> QED BY <1>1 DEF NoRequest, SoundRequests

LEMMA IdleSound == Idle \in WorkerType /\ Idle \in SoundWorkers
  <1>1. Idle \in WorkerType
    BY DEF Idle, WorkerType
  <1> QED BY <1>1 DEF Idle, SoundWorkers

LEMMA InitIInv == Init => IInv
  <1> SUFFICES ASSUME Init PROVE IInv
    OBVIOUS
  <1>1. TypeOK
    BY NoRequestSound, IdleSound DEF Init, TypeOK
  <1>2. PhotosHaveBytes /\ RowsSound /\ OneOfEachFile
    BY DEF Init, PhotosHaveBytes, RowsSound, OneOfEachFile, Present
  <1>3. RequestsSound /\ WorkersSound
    BY NoRequestSound, IdleSound DEF Init, RequestsSound, WorkersSound
  <1>4. QueuedOnce /\ QueueSound /\ ThumbnailsStored
    BY DEF Init, QueuedOnce, QueueSound, ThumbnailsStored, NoRequest
  <1> QED BY <1>1, <1>2, <1>3, <1>4 DEF IInv, StorageInv, JobInv

(* Requests stay sound, whatever else a step does, while bytes stay in       *)
(* storage and ids stay used; workers, while jobs and thumbnails stay.      *)
LEMMA RequestsMonotone ==
  ASSUME bytes \subseteq bytes', Made \subseteq Made'
  PROVE  SoundRequests \subseteq SoundRequests'
  BY DEF SoundRequests

LEMMA WorkersMonotone ==
  ASSUME queued \subseteq queued', thumbs \subseteq thumbs'
  PROVE  SoundWorkers \subseteq SoundWorkers'
  BY DEF SoundWorkers

(* One request moves on. *)
LEMMA RequestKeeps ==
  ASSUME TypeOK, RequestsSound, NEW r \in Requests, NEW q \in SoundRequests',
         SoundRequests \subseteq SoundRequests',
         request' = [request EXCEPT ![r] = q]
  PROVE  request' \in [Requests -> RequestType] /\ RequestsSound'
  <1>1. q \in RequestType
    BY DEF SoundRequests
  <1>2. request' \in [Requests -> RequestType]
    BY <1>1 DEF TypeOK
  <1>3. \A s \in Requests : request'[s] \in SoundRequests'
    BY DEF TypeOK, RequestsSound
  <1> QED BY <1>2, <1>3 DEF RequestsSound

(* The batches stay apart when one request moves on without photos, or with *)
(* photos no job and no other request has.                                 *)
LEMMA BatchesApart ==
  ASSUME IInv, NEW r \in Requests, NEW q \in RequestType,
         request' = [request EXCEPT ![r] = q],
         q.photos \intersect queued = {},
         \A s \in Requests : s # r => q.photos \intersect request[s].photos = {},
         UNCHANGED <<queue, queued, worker>>
  PROVE  QueuedOnce'
  <1>1. request'[r] = q /\ \A s \in Requests : s # r => request'[s] = request[s]
    BY DEF IInv, StorageInv, TypeOK
  <1>2. \A s \in Requests : request'[s].photos \intersect queued = {}
    BY <1>1 DEF IInv, JobInv, QueuedOnce
  <1>3. \A s, t \in Requests : s # t => request'[s].photos \intersect request'[t].photos = {}
    BY <1>1 DEF IInv, JobInv, QueuedOnce
  <1> QED BY <1>2, <1>3 DEF IInv, JobInv, QueuedOnce

(* A step of a request that changes no row and no job. *)
LEMMA RequestStepKeeps ==
  ASSUME IInv, NEW r \in Requests, NEW q \in SoundRequests,
         q.photos = {},
         request' = [request EXCEPT ![r] = q],
         UNCHANGED <<storageVars, photoVars, jobVars>>
  PROVE  IInv'
  <1> USE DEF storageVars, photoVars, jobVars
  <1>1. SoundRequests \subseteq SoundRequests' /\ SoundWorkers \subseteq SoundWorkers'
    BY RequestsMonotone, WorkersMonotone DEF Made
  <1>2. q \in RequestType /\ q \in SoundRequests'
    BY <1>1 DEF SoundRequests
  <1>3. request' \in [Requests -> RequestType] /\ RequestsSound'
    BY <1>1, <1>2, RequestKeeps DEF IInv, StorageInv
  <1>4. TypeOK'
    BY <1>3 DEF IInv, StorageInv, TypeOK
  <1>5. PhotosHaveBytes' /\ RowsSound' /\ OneOfEachFile'
    BY DEF IInv, StorageInv, PhotosHaveBytes, RowsSound, OneOfEachFile, Present
  <1>6. QueuedOnce'
    BY <1>2, BatchesApart
  <1>7. QueueSound' /\ WorkersSound' /\ ThumbnailsStored'
    BY <1>1 DEF IInv, JobInv, QueueSound, WorkersSound, ThumbnailsStored, Made
  <1> QED BY <1>3, <1>4, <1>5, <1>6, <1>7 DEF IInv, StorageInv, JobInv

-----------------------------------------------------------------------------
(* Requests.                                                               *)

LEMMA AbandonKeeps == ASSUME IInv, NEW r \in Requests, Abandon(r) PROVE IInv'
  BY NoRequestSound, RequestStepKeeps DEF Abandon, Answer, NoRequest

LEMMA RequestUploadURLsKeeps == ASSUME IInv, NEW r \in Requests, RequestUploadURLs(r) PROVE IInv'
  <1>1. PICK a \in albums, files \in SUBSET Files :
          request' = [request EXCEPT ![r] = [NoRequest EXCEPT !.kind = "urls", !.album = a,
                        !.todo = {<<a, f>> : f \in {f \in files : ~InAlbum(a, f)}}]]
    BY DEF RequestUploadURLs
  <1> DEFINE todo == {<<a, f>> : f \in {f \in files : ~InAlbum(a, f)}}
             q == [NoRequest EXCEPT !.kind = "urls", !.album = a, !.todo = todo]
  <1>2. a \in Albums
    BY DEF IInv, StorageInv, TypeOK
  <1>3. todo \subseteq Objects
    BY <1>2 DEF Objects
  <1> HIDE DEF todo
  <1>4. q \in RequestType /\ q.ready = {} /\ q.photos = {} /\ q.marking = NoObject /\ q.kind = "urls"
    BY <1>2, <1>3 DEF NoRequest, RequestType
  <1>5. q \in SoundRequests
    BY <1>4 DEF SoundRequests
  <1> QED BY <1>1, <1>4, <1>5, RequestStepKeeps DEF RequestUploadURLs, todo

LEMMA BeginCompleteKeeps == ASSUME IInv, NEW r \in Requests, BeginComplete(r) PROVE IInv'
  <1>1. PICK a \in albums, items \in SUBSET Objects :
          request' = [request EXCEPT ![r] = [NoRequest EXCEPT !.kind = "confirm", !.album = a, !.todo = items]]
    BY DEF BeginComplete
  <1> DEFINE q == [NoRequest EXCEPT !.kind = "confirm", !.album = a, !.todo = items]
  <1>2. a \in Albums
    BY DEF IInv, StorageInv, TypeOK
  <1>3. q \in RequestType /\ q.ready = {} /\ q.photos = {} /\ q.marking = NoObject /\ q.kind = "confirm"
    BY <1>2 DEF NoRequest, RequestType
  <1>4. q \in SoundRequests
    BY <1>3 DEF SoundRequests
  <1> QED BY <1>1, <1>3, <1>4, RequestStepKeeps DEF BeginComplete

(* A step of a request on the rows of objects: what is stored has its bytes. *)
LEMMA ObjectStepKeeps ==
  ASSUME IInv, NEW r \in Requests, NEW q \in SoundRequests', q.photos = {},
         request' = [request EXCEPT ![r] = q],
         bytes \subseteq bytes', bytes' \subseteq Objects,
         object' \in [Objects -> {"none", "pending", "stored"}],
         RowsSound',
         UNCHANGED <<driver, photoVars, jobVars>>
  PROVE  IInv'
  <1> USE DEF photoVars, jobVars
  <1>1. SoundRequests \subseteq SoundRequests' /\ SoundWorkers \subseteq SoundWorkers'
    BY RequestsMonotone, WorkersMonotone DEF Made
  <1>2. q \in RequestType
    BY DEF SoundRequests
  <1>3. request' \in [Requests -> RequestType] /\ RequestsSound'
    BY <1>1, RequestKeeps DEF IInv, StorageInv
  <1>4. TypeOK'
    BY <1>3 DEF IInv, StorageInv, TypeOK
  <1>5. PhotosHaveBytes' /\ OneOfEachFile'
    BY DEF IInv, StorageInv, PhotosHaveBytes, OneOfEachFile, Present
  <1>6. QueuedOnce'
    BY <1>2, BatchesApart
  <1>7. QueueSound' /\ WorkersSound' /\ ThumbnailsStored'
    BY <1>1 DEF IInv, JobInv, QueueSound, WorkersSound, ThumbnailsStored, Made
  <1> QED BY <1>3, <1>4, <1>5, <1>6, <1>7 DEF IInv, StorageInv, JobInv

LEMMA ProvisionUploadKeeps == ASSUME IInv, NEW r \in Requests, ProvisionUpload(r) PROVE IInv'
  <1>1. PICK o \in request[r].todo :
          /\ object' = [object EXCEPT ![o] = "pending"]
          /\ request' = [request EXCEPT ![r] =
               IF request[r].todo = {o} THEN NoRequest ELSE [request[r] EXCEPT !.todo = request[r].todo \ {o}]]
    BY DEF ProvisionUpload
  <1>2. UNCHANGED <<driver, bytes, photoVars, jobVars>>
    BY DEF ProvisionUpload
  <1> DEFINE s == [request[r] EXCEPT !.todo = request[r].todo \ {o}]
             q == IF request[r].todo = {o} THEN NoRequest ELSE s
  <1>3. request[r] \in SoundRequests /\ request[r].kind = "urls"
    BY DEF IInv, StorageInv, RequestsSound, ProvisionUpload
  <1>4. s \in RequestType
    BY <1>3 DEF SoundRequests, RequestType
  <1>5. /\ s.ready = request[r].ready /\ s.album = request[r].album
        /\ s.marking = request[r].marking /\ s.kind = "urls" /\ s.photos = request[r].photos
    BY <1>3, <1>4 DEF SoundRequests, RequestType
  <1>6. s \in SoundRequests
    BY <1>3, <1>4, <1>5 DEF SoundRequests
  <1> QED
    <2>1. SoundRequests \subseteq SoundRequests'
      BY <1>2, RequestsMonotone DEF Made, photoVars
    <2>2. q \in SoundRequests'
      BY <1>6, <2>1, NoRequestSound
    <2>3. object' \in [Objects -> {"none", "pending", "stored"}] /\ RowsSound'
      BY <1>1, <1>2, <1>3 DEF IInv, StorageInv, TypeOK, RowsSound, SoundRequests, RequestType
    <2>4. q.photos = {}
      BY <1>3, <1>5, NoRequestSound DEF SoundRequests, NoRequest
    <2> QED BY <1>1, <1>2, <2>2, <2>3, <2>4, ObjectStepKeeps DEF IInv, StorageInv, TypeOK

LEMMA PutToBucketKeeps == ASSUME IInv, NEW o \in Objects, PutToBucket(o) PROVE IInv'
  <1> USE DEF PutToBucket, photoVars, jobVars
  <1>1. SoundRequests \subseteq SoundRequests' /\ SoundWorkers \subseteq SoundWorkers'
    BY RequestsMonotone, WorkersMonotone DEF Made
  <1>2. TypeOK'
    BY DEF IInv, StorageInv, TypeOK
  <1>3. PhotosHaveBytes' /\ RowsSound' /\ OneOfEachFile' /\ RequestsSound'
    BY <1>1 DEF IInv, StorageInv, PhotosHaveBytes, RowsSound, OneOfEachFile, RequestsSound, Present
  <1>4. QueuedOnce' /\ QueueSound' /\ WorkersSound' /\ ThumbnailsStored'
    BY <1>1 DEF IInv, JobInv, QueuedOnce, QueueSound, WorkersSound, ThumbnailsStored, Made
  <1> QED BY <1>2, <1>3, <1>4 DEF IInv, StorageInv, JobInv

LEMMA PutObjectKeeps ==
  ASSUME IInv, NEW r \in Requests, NEW o \in Objects, PutObject(r, o) PROVE IInv'
  <1> DEFINE q == [NoRequest EXCEPT !.kind = "put", !.marking = o]
  <1>1. q \in RequestType /\ q.ready = {} /\ q.photos = {} /\ q.marking = o /\ q.kind = "put"
    BY NoRequestSound DEF NoRequest, RequestType
  <1>2. o \in bytes' /\ o # NoObject
    BY PhotoUploadAssumption DEF PutObject
  <1>3. q \in SoundRequests'
    BY <1>1, <1>2 DEF SoundRequests
  <1>4. RowsSound'
    BY DEF PutObject, IInv, StorageInv, RowsSound
  <1>5. /\ bytes \subseteq bytes' /\ bytes' \subseteq Objects
        /\ object' \in [Objects -> {"none", "pending", "stored"}]
    BY DEF PutObject, IInv, StorageInv, TypeOK
  <1>6. request' = [request EXCEPT ![r] = q] /\ UNCHANGED <<driver, photoVars, jobVars>>
    BY DEF PutObject
  <1> HIDE DEF q
  <1> QED BY <1>1, <1>3, <1>4, <1>5, <1>6, ObjectStepKeeps

LEMMA CompletePutKeeps == ASSUME IInv, NEW r \in Requests, CompletePut(r) PROVE IInv'
  <1>1. request[r] \in SoundRequests /\ request[r].kind = "put"
    BY DEF IInv, StorageInv, RequestsSound, CompletePut
  <1>2. request[r].marking \in bytes
    BY <1>1 DEF SoundRequests
  <1>3. object' \in [Objects -> {"none", "pending", "stored"}] /\ RowsSound'
    BY <1>2 DEF CompletePut, IInv, StorageInv, TypeOK, RowsSound
  <1> QED BY <1>3, NoRequestSound, ObjectStepKeeps DEF CompletePut, Answer, IInv, StorageInv, TypeOK

LEMMA ConfirmStoredKeeps == ASSUME IInv, NEW r \in Requests, ConfirmStored(r) PROVE IInv'
  <1>1. request[r] \in SoundRequests /\ request[r] \in RequestType /\ request[r].kind = "confirm"
    BY DEF IInv, StorageInv, RequestsSound, ConfirmStored, SoundRequests
  <1>2. UNCHANGED <<storageVars, photoVars, jobVars>>
    BY DEF ConfirmStored
  <1>3. ASSUME NEW o \in request[r].todo, object[o] = "stored", Confirmed(r, o)
        PROVE  IInv'
    <2> DEFINE q == [request[r] EXCEPT !.todo = request[r].todo \ {o},
                                       !.ready = request[r].ready \union OfAlbum(r, o)]
    <2>1. o \in Objects /\ o \in bytes
      BY <1>1, <1>3 DEF RequestType, IInv, StorageInv, RowsSound
    <2>2. OfAlbum(r, o) \subseteq bytes /\ OfAlbum(r, o) \subseteq Objects
      BY <2>1 DEF OfAlbum
    <2>3. \A x \in OfAlbum(r, o) : AlbumOf(x) = request[r].album
      BY DEF OfAlbum
    <2>4. q \in RequestType
      BY <1>1, <2>2 DEF RequestType
    <2>5. /\ q.ready = request[r].ready \union OfAlbum(r, o) /\ q.album = request[r].album
          /\ q.marking = request[r].marking /\ q.kind = "confirm" /\ q.photos = request[r].photos
      BY <1>1 DEF RequestType
    <2>6. q \in SoundRequests /\ q.photos = {}
      BY <1>1, <2>2, <2>3, <2>4, <2>5 DEF SoundRequests
    <2> QED BY <1>2, <1>3, <2>6, RequestStepKeeps DEF Confirmed
  <1>4. ASSUME NEW o \in request[r].todo, NEW m \in {o, NoObject}, m # NoObject => m \in bytes,
               request' = [request EXCEPT ![r] =
                 [request[r] EXCEPT !.todo = request[r].todo \ {o}, !.marking = m]]
        PROVE  IInv'
    <2> DEFINE q == [request[r] EXCEPT !.todo = request[r].todo \ {o}, !.marking = m]
    <2>1. o \in Objects
      BY <1>1 DEF RequestType
    <2>2. q \in RequestType
      BY <1>1, <2>1 DEF RequestType
    <2>3. /\ q.ready = request[r].ready /\ q.album = request[r].album
          /\ q.marking = m /\ q.kind = "confirm" /\ q.photos = request[r].photos
      BY <1>1 DEF RequestType
    <2>4. q \in SoundRequests /\ q.photos = {}
      BY <1>1, <1>4, <2>2, <2>3 DEF SoundRequests
    <2> QED BY <1>2, <1>4, <2>4, RequestStepKeeps
  <1>5. PICK o \in request[r].todo :
          \/ object[o] = "stored" /\ Confirmed(r, o)
          \/ request' = [request EXCEPT ![r] =
               [request[r] EXCEPT !.todo = request[r].todo \ {o},
                                  !.marking = IF driver = "r2" /\ o \in bytes THEN o ELSE NoObject]]
    BY DEF ConfirmStored
  <1>6. CASE object[o] = "stored" /\ Confirmed(r, o)
    BY <1>3, <1>6
  <1>7. CASE request' = [request EXCEPT ![r] =
               [request[r] EXCEPT !.todo = request[r].todo \ {o},
                                  !.marking = IF driver = "r2" /\ o \in bytes THEN o ELSE NoObject]]
    <2> DEFINE m == IF driver = "r2" /\ o \in bytes THEN o ELSE NoObject
    <2>1. m \in {o, NoObject} /\ (m # NoObject => m \in bytes)
      OBVIOUS
    <2> HIDE DEF m
    <2>2. request' = [request EXCEPT ![r] =
            [request[r] EXCEPT !.todo = request[r].todo \ {o}, !.marking = m]]
      BY <1>7 DEF m
    <2> QED BY <2>1, <2>2, <1>4
  <1> QED BY <1>5, <1>6, <1>7

LEMMA MarkStoredKeeps == ASSUME IInv, NEW r \in Requests, MarkStored(r) PROVE IInv'
  <1>1. request[r] \in SoundRequests /\ request[r] \in RequestType /\ request[r].kind = "confirm"
    BY DEF IInv, StorageInv, RequestsSound, MarkStored, SoundRequests
  <1> DEFINE o == request[r].marking
             q == [request[r] EXCEPT !.marking = NoObject, !.ready = request[r].ready \union OfAlbum(r, o)]
  <1>2. o \in Objects /\ o \in bytes
    BY <1>1 DEF SoundRequests, MarkStored, RequestType
  <1>3. OfAlbum(r, o) \subseteq bytes /\ OfAlbum(r, o) \subseteq Objects
    BY <1>2 DEF OfAlbum
  <1>4. \A x \in OfAlbum(r, o) : AlbumOf(x) = request[r].album
    BY DEF OfAlbum
  <1>5. q \in RequestType
    BY <1>1, <1>3 DEF RequestType
  <1>6. /\ q.ready = request[r].ready \union OfAlbum(r, o) /\ q.album = request[r].album
        /\ q.marking = NoObject /\ q.kind = "confirm" /\ q.photos = request[r].photos
    BY <1>1 DEF RequestType
  <1>7. q \in SoundRequests /\ q.photos = {}
    BY <1>1, <1>3, <1>4, <1>5, <1>6 DEF SoundRequests
  <1>8. q \in SoundRequests'
    BY <1>7, RequestsMonotone DEF MarkStored, photoVars, Made
  <1>9. object' \in [Objects -> {"none", "pending", "stored"}] /\ RowsSound'
    BY <1>2 DEF MarkStored, IInv, StorageInv, TypeOK, RowsSound
  <1> QED BY <1>7, <1>8, <1>9, ObjectStepKeeps DEF MarkStored, IInv, StorageInv, TypeOK

(* The insertion.  The new photos' originals are confirmed objects of the    *)
(* album, one each, that no photo had.                                     *)
LEMMA InsertPhotosKeeps == ASSUME IInv, NEW r \in Requests, InsertPhotos(r) PROVE IInv'
  <1> DEFINE q(new) == IF new = {} THEN NoRequest ELSE [NoRequest EXCEPT !.kind = "enqueue", !.photos = new]
  <1>1. PICK new \in SUBSET {p \in Photos : photo[p] = "none"} :
          /\ \E of \in Bijection(new, Fresh(r)) : Insert(r, new, of)
          /\ request' = [request EXCEPT ![r] = q(new)]
    BY DEF InsertPhotos
  <1>2. PICK of \in Bijection(new, Fresh(r)) : Insert(r, new, of)
    BY <1>1
  <1>3. UNCHANGED <<storageVars, albums, thumbnail, jobVars>>
    BY DEF InsertPhotos
  <1>4. of \in [new -> Fresh(r)] /\ \A p, s \in new : of[p] = of[s] => p = s
    BY DEF Bijection, Injection, IsInjective
  <1>5. request[r] \in SoundRequests /\ request[r] \in RequestType
    BY DEF IInv, StorageInv, RequestsSound, SoundRequests
  <1>6. \A p \in new : /\ of[p] \in Objects /\ of[p] \in bytes
                       /\ AlbumOf(of[p]) = request[r].album
                       /\ \A s \in Present : original[s] # of[p]
    BY <1>4, <1>5 DEF Fresh, SoundRequests, RequestType
  <1>7. \A p \in new : ~InAlbum(request[r].album, FileOf(of[p]))
    BY <1>2, <1>4 DEF Insert
  <1>8. request[r].album \in albums /\ albums \subseteq Albums
    BY <1>2 DEF Insert, IInv, StorageInv, TypeOK
  <1>9. new \subseteq Photos /\ new \intersect Made = {} /\ Present' = Present \union new /\ Made' = Made \union new
    BY <1>2 DEF Insert, Made, Present
  <1>10. \A p \in new : original'[p] = of[p] /\ album'[p] = request[r].album
    BY <1>2, <1>9 DEF Insert
  <1>11. \A p \in Present : p \notin new /\ original'[p] = original[p] /\ album'[p] = album[p]
    BY <1>2, <1>9 DEF Insert, Made, Present
  <1>12. q(new) \in RequestType /\ q(new) \in SoundRequests' /\ q(new).photos = new
    <2>1. CASE new = {}
      <3>1. q(new) = NoRequest
        BY <2>1
      <3> QED BY <2>1, <3>1, NoRequestSound
    <2>2. CASE new # {}
      <3>1. q(new) = [NoRequest EXCEPT !.kind = "enqueue", !.photos = new]
        BY <2>2
      <3>2. /\ q(new) \in RequestType /\ q(new).ready = {} /\ q(new).photos = new
            /\ q(new).marking = NoObject /\ q(new).kind = "enqueue"
        BY <3>1, <1>9, NoRequestSound DEF NoRequest, RequestType
      <3> HIDE DEF q
      <3> QED BY <3>2, <1>9 DEF SoundRequests
    <2> QED BY <2>1, <2>2
  <1> HIDE DEF q
  <1>13. SoundRequests \subseteq SoundRequests' /\ SoundWorkers \subseteq SoundWorkers'
    BY <1>3, <1>9, RequestsMonotone, WorkersMonotone DEF storageVars, jobVars
  <1>14. request' \in [Requests -> RequestType] /\ RequestsSound'
    BY <1>1, <1>12, <1>13, RequestKeeps DEF IInv, StorageInv
  <1>15. photo' \in [Photos -> {"none", "present", "deleted"}]
    BY <1>2 DEF Insert, IInv, StorageInv, TypeOK
  <1>16. original' \in [Photos -> Objects \union {NoObject}] /\ album' \in [Photos -> Albums \union {NoAlbum}]
    BY <1>2, <1>6, <1>8 DEF Insert, IInv, StorageInv, TypeOK
  <1>17. \A p \in Photos : photo'[p] = "present" => original'[p] \in Objects /\ album'[p] \in albums'
    BY <1>3, <1>6, <1>8, <1>9, <1>10, <1>11 DEF Present, IInv, StorageInv, TypeOK
  <1>18. TypeOK'
    BY <1>3, <1>14, <1>15, <1>16, <1>17 DEF IInv, StorageInv, TypeOK, storageVars, jobVars
  <1>19. PhotosHaveBytes' /\ RowsSound'
    BY <1>3, <1>6, <1>9, <1>10, <1>11 DEF PhotosHaveBytes, RowsSound, IInv, StorageInv, storageVars
  <1>20. OneOfEachFile'
    <2>1. \A p \in new, s \in Present :
             original'[p] # original'[s] /\ (album'[p] = album'[s] => FileOf(original'[p]) # FileOf(original'[s]))
      BY <1>6, <1>7, <1>10, <1>11 DEF InAlbum
    <2>2. \A p, s \in new : p # s =>
             original'[p] # original'[s] /\ FileOf(original'[p]) # FileOf(original'[s])
      <3>1. \A x, y \in Objects : AlbumOf(x) = AlbumOf(y) /\ FileOf(x) = FileOf(y) => x = y
        BY DEF Objects, AlbumOf, FileOf
      <3> QED BY <3>1, <1>4, <1>6, <1>10
    <2>3. \A p, s \in Present : p # s =>
             original'[p] # original'[s] /\ (album'[p] = album'[s] => FileOf(original'[p]) # FileOf(original'[s]))
      BY <1>11 DEF IInv, OneOfEachFile
    <2> QED BY <2>1, <2>2, <2>3, <1>9 DEF OneOfEachFile
  <1>21. QueuedOnce'
    <2>1. new \intersect queued = {} /\ \A s \in Requests : new \intersect request[s].photos = {}
      BY <1>9 DEF IInv, StorageInv, JobInv, QueueSound, RequestsSound, SoundRequests
    <2>2. /\ q(new).photos \intersect queued = {}
          /\ \A s \in Requests : s # r => q(new).photos \intersect request[s].photos = {}
      BY <2>1, <1>12
    <2>3. UNCHANGED <<queue, queued, worker>>
      BY <1>3 DEF jobVars
    <2>4. q(new) \in RequestType /\ request' = [request EXCEPT ![r] = q(new)]
      BY <1>1, <1>12
    <2> QED BY <2>2, <2>3, <2>4, BatchesApart
  <1>22. QueueSound' /\ WorkersSound' /\ ThumbnailsStored'
    BY <1>3, <1>9, <1>13 DEF IInv, JobInv, QueueSound, WorkersSound, ThumbnailsStored, jobVars
  <1> QED BY <1>14, <1>18, <1>19, <1>20, <1>21, <1>22 DEF IInv, StorageInv, JobInv

LEMMA EnqueueThumbnailJobKeeps ==
  ASSUME IInv, NEW r \in Requests, EnqueueThumbnailJob(r) PROVE IInv'
  <1> DEFINE batch == request[r].photos
  <1>1. /\ queue' = queue \union {batch} /\ queued' = queued \union batch
        /\ request' = [request EXCEPT ![r] = NoRequest]
        /\ UNCHANGED <<driver, object, bytes, albums, photo, original, album, thumbnail, thumbs, worker>>
    BY DEF EnqueueThumbnailJob, Answer, storageVars, photoVars
  <1>2. batch \subseteq Made /\ batch \subseteq Photos /\ batch \intersect queued = {}
    BY DEF IInv, StorageInv, JobInv, RequestsSound, SoundRequests, QueuedOnce, Made
  <1> HIDE DEF batch
  <1>3. SoundRequests \subseteq SoundRequests' /\ SoundWorkers \subseteq SoundWorkers' /\ Made' = Made
    BY <1>1, RequestsMonotone, WorkersMonotone DEF Made
  <1>4. request' \in [Requests -> RequestType] /\ RequestsSound'
    BY <1>1, <1>3, NoRequestSound, RequestKeeps DEF IInv, StorageInv
  <1>5. TypeOK'
    BY <1>1, <1>2, <1>4 DEF IInv, StorageInv, TypeOK
  <1>6. PhotosHaveBytes' /\ RowsSound' /\ OneOfEachFile'
    BY <1>1 DEF IInv, StorageInv, PhotosHaveBytes, RowsSound, OneOfEachFile, Present
  <1>7. QueueSound' /\ WorkersSound' /\ ThumbnailsStored'
    BY <1>1, <1>2, <1>3 DEF IInv, JobInv, QueueSound, WorkersSound, ThumbnailsStored
  <1>8. QueuedOnce'
    <2>1. request'[r].photos = {} /\ \A s \in Requests : s # r => request'[s] = request[s]
      BY <1>1, NoRequestSound DEF IInv, StorageInv, TypeOK
    <2>2. \A s \in Requests : s # r => request[s].photos \intersect batch = {}
      BY DEF batch, IInv, JobInv, QueuedOnce
    <2>3. \A s \in Requests : request'[s].photos \intersect queued' = {}
      BY <1>1, <2>1, <2>2 DEF IInv, JobInv, QueuedOnce
    <2>4. \A s, t \in Requests : s # t => request'[s].photos \intersect request'[t].photos = {}
      BY <2>1 DEF IInv, JobInv, QueuedOnce
    <2>5. \A b \in queue : b \intersect batch = {}
      BY <1>2 DEF IInv, JobInv, QueueSound
    <2>6. \A b, c \in queue' : b # c => b \intersect c = {}
      BY <1>1, <2>5 DEF IInv, JobInv, QueuedOnce
    <2>7. \A w \in Workers : (worker[w].todo \union {worker[w].at}) \intersect batch = {}
      BY <1>2, PhotoUploadAssumption DEF IInv, JobInv, WorkersSound, SoundWorkers
    <2>8. \A w \in Workers : \A b \in queue' : (worker'[w].todo \union {worker'[w].at}) \intersect b = {}
      BY <1>1, <2>7 DEF IInv, JobInv, QueuedOnce
    <2> QED BY <2>3, <2>4, <2>6, <2>8 DEF QueuedOnce
  <1> QED BY <1>4, <1>5, <1>6, <1>7, <1>8 DEF IInv, StorageInv, JobInv

-----------------------------------------------------------------------------
(* The album's keepers.                                                    *)

LEMMA BulkMovePhotosKeeps ==
  ASSUME IInv, NEW ids \in SUBSET Photos, NEW target \in Albums, BulkMovePhotos(ids, target)
  PROVE  IInv'
  <1> DEFINE moved == ids \intersect Present
  <1>1. /\ target \in albums
        /\ \A p, q \in Present :
             (p \in moved /\ p # q /\ (q \in moved \/ album[q] = target)) =>
               FileOf(original[p]) # FileOf(original[q])
        /\ album' = [p \in Photos |-> IF p \in moved THEN target ELSE album[p]]
        /\ UNCHANGED <<driver, object, bytes, albums, photo, original, thumbnail, thumbs, queue, queued, worker, request>>
    BY DEF BulkMovePhotos, storageVars, jobVars
  <1>2. SoundRequests \subseteq SoundRequests' /\ SoundWorkers \subseteq SoundWorkers'
        /\ Made' = Made /\ Present' = Present
    BY <1>1, RequestsMonotone, WorkersMonotone DEF Made, Present
  <1>3. TypeOK'
    BY <1>1 DEF IInv, StorageInv, TypeOK
  <1>4. PhotosHaveBytes' /\ RowsSound' /\ RequestsSound'
    BY <1>1, <1>2 DEF IInv, StorageInv, PhotosHaveBytes, RowsSound, RequestsSound
  <1>5. QueuedOnce' /\ QueueSound' /\ WorkersSound' /\ ThumbnailsStored'
    BY <1>1, <1>2 DEF IInv, JobInv, QueuedOnce, QueueSound, WorkersSound, ThumbnailsStored
  <1>6. OneOfEachFile'
    <2>1. \A p \in Present : album'[p] = IF p \in moved THEN target ELSE album[p]
      BY <1>1 DEF Present
    <2> HIDE DEF moved
    <2> QED BY <1>1, <1>2, <2>1 DEF IInv, OneOfEachFile
  <1> QED BY <1>3, <1>4, <1>5, <1>6 DEF IInv, StorageInv, JobInv

LEMMA RemoveKeeps ==
  ASSUME IInv, NEW ids \in SUBSET Photos, Remove(ids), albums' \subseteq albums,
         \A p \in Present : album[p] \notin albums' => p \in ids
  PROVE  IInv'
  <1>1. /\ UNCHANGED <<driver, object, bytes, thumbs, queue, queued, worker, request>>
        /\ thumbnail' = thumbnail \ ids
    BY DEF Remove, storageVars, jobVars
  <1>2. Made' = Made /\ Present' = Present \ ids
    BY DEF Remove, Made, Present
  <1>3. \A p \in Present' : original'[p] = original[p] /\ album'[p] = album[p]
    BY DEF Remove, Present
  <1>4. SoundRequests \subseteq SoundRequests' /\ SoundWorkers \subseteq SoundWorkers'
    BY <1>1, <1>2, RequestsMonotone, WorkersMonotone
  <1>5. /\ photo' \in [Photos -> {"none", "present", "deleted"}]
        /\ original' \in [Photos -> Objects \union {NoObject}]
        /\ album' \in [Photos -> Albums \union {NoAlbum}]
    BY DEF Remove, IInv, StorageInv, TypeOK
  <1>6. \A p \in Photos : photo'[p] = "present" => original'[p] \in Objects /\ album'[p] \in albums'
    BY <1>2, <1>3 DEF Present, IInv, StorageInv, TypeOK
  <1>7. TypeOK'
    BY <1>1, <1>5, <1>6 DEF IInv, StorageInv, TypeOK
  <1>8. PhotosHaveBytes' /\ RowsSound' /\ RequestsSound' /\ OneOfEachFile'
    BY <1>1, <1>2, <1>3, <1>4
    DEF IInv, StorageInv, PhotosHaveBytes, RowsSound, RequestsSound, OneOfEachFile
  <1>9. QueuedOnce' /\ QueueSound' /\ WorkersSound' /\ ThumbnailsStored'
    BY <1>1, <1>2, <1>4 DEF IInv, JobInv, QueuedOnce, QueueSound, WorkersSound, ThumbnailsStored
  <1> QED BY <1>7, <1>8, <1>9 DEF IInv, StorageInv, JobInv

LEMMA DeleteAlbumKeeps == ASSUME IInv, NEW a \in Albums, DeleteAlbum(a) PROVE IInv'
  <1> DEFINE ids == {p \in Present : album[p] = a}
  <1>1. ids \subseteq Photos
    BY DEF Present
  <1>2. \A p \in Present : album[p] \notin albums' => p \in ids
    BY DEF DeleteAlbum, Present, IInv, StorageInv, TypeOK
  <1>3. Remove(ids) /\ albums' \subseteq albums
    BY DEF DeleteAlbum
  <1> HIDE DEF ids
  <1> QED BY <1>1, <1>2, <1>3, RemoveKeeps

LEMMA BulkDeletePhotosKeeps == ASSUME IInv, NEW ids \in SUBSET Photos, BulkDeletePhotos(ids) PROVE IInv'
  <1>1. \A p \in Present : album[p] \notin albums' => p \in ids
    BY DEF BulkDeletePhotos, Present, IInv, StorageInv, TypeOK
  <1> QED BY <1>1, RemoveKeeps DEF BulkDeletePhotos

-----------------------------------------------------------------------------
(* Workers.                                                                *)

(* A worker moves on with photos that are in no job of the queue. *)
LEMMA WorkerStepKeeps ==
  ASSUME IInv, NEW w \in Workers, NEW v \in SoundWorkers',
         worker' = [worker EXCEPT ![w] = v],
         queue' \subseteq queue, thumbs \subseteq thumbs', thumbs' \subseteq Photos,
         thumbnail' \subseteq thumbs',
         \A b \in queue' : (v.todo \union {v.at}) \intersect b = {},
         UNCHANGED <<storageVars, albums, photo, original, album, queued, request>>
  PROVE  IInv'
  <1> USE DEF storageVars
  <1>1. SoundRequests \subseteq SoundRequests' /\ SoundWorkers \subseteq SoundWorkers' /\ Made' = Made
    BY RequestsMonotone, WorkersMonotone DEF Made
  <1>2. v \in WorkerType
    BY DEF SoundWorkers
  <1>3. /\ worker' \in [Workers -> WorkerType] /\ worker'[w] = v
        /\ \A u \in Workers : u # w => worker'[u] = worker[u]
    BY <1>2 DEF IInv, StorageInv, TypeOK
  <1>4. TypeOK'
    BY <1>3 DEF IInv, StorageInv, TypeOK
  <1>5. PhotosHaveBytes' /\ RowsSound' /\ OneOfEachFile' /\ RequestsSound'
    BY <1>1 DEF IInv, StorageInv, PhotosHaveBytes, RowsSound, OneOfEachFile, RequestsSound, Present
  <1>6. QueueSound' /\ ThumbnailsStored' /\ WorkersSound'
    BY <1>1, <1>3 DEF IInv, JobInv, QueueSound, ThumbnailsStored, WorkersSound
  <1>7. QueuedOnce'
    BY <1>3 DEF IInv, JobInv, QueuedOnce
  <1> QED BY <1>4, <1>5, <1>6, <1>7 DEF IInv, StorageInv, JobInv

(* It keeps some of its batch, and is at one of it or at none. *)
LEMMA BatchStepKeeps ==
  ASSUME IInv, NEW w \in Workers, NEW v \in WorkerType,
         worker' = [worker EXCEPT ![w] = v],
         v.todo \subseteq worker[w].todo,
         v.at \in worker[w].todo \union {worker[w].at, NoPhoto},
         v.stage \in {"making", "record"} => v.at # NoPhoto,
         v.stage = "record" => v.at \in thumbs',
         thumbs \subseteq thumbs', thumbs' \subseteq Photos, thumbnail' \subseteq thumbs',
         UNCHANGED <<storageVars, albums, photo, original, album, queue, queued, request>>
  PROVE  IInv'
  <1>1. worker[w] \in SoundWorkers
    BY DEF IInv, JobInv, WorkersSound
  <1>2. v \in SoundWorkers'
    BY <1>1 DEF SoundWorkers
  <1>3. \A b \in queue : NoPhoto \notin b
    BY PhotoUploadAssumption DEF IInv, StorageInv, TypeOK
  <1>4. \A b \in queue : (v.todo \union {v.at}) \intersect b = {}
    BY <1>3 DEF IInv, JobInv, QueuedOnce
  <1> QED BY <1>2, <1>4, WorkerStepKeeps

LEMMA TakeJobKeeps == ASSUME IInv, NEW w \in Workers, TakeJob(w) PROVE IInv'
  <1>1. PICK batch \in queue :
          /\ queue' = queue \ {batch}
          /\ worker' = [worker EXCEPT ![w] = [Idle EXCEPT !.stage = "loop", !.todo = batch]]
    BY DEF TakeJob
  <1> DEFINE v == [Idle EXCEPT !.stage = "loop", !.todo = batch]
  <1>2. batch \subseteq Photos /\ batch \subseteq queued
    BY DEF IInv, StorageInv, JobInv, TypeOK, QueueSound
  <1>3. v \in WorkerType /\ v.todo = batch /\ v.at = NoPhoto /\ v.stage = "loop"
    BY <1>2 DEF Idle, WorkerType
  <1>7. worker' = [worker EXCEPT ![w] = v]
    BY <1>1
  <1> HIDE DEF v
  <1>4. v \in SoundWorkers'
    BY <1>2, <1>3 DEF SoundWorkers, TakeJob
  <1>5. \A b \in queue' : (v.todo \union {v.at}) \intersect b = {}
    BY <1>1, <1>3, PhotoUploadAssumption DEF IInv, StorageInv, TypeOK, JobInv, QueuedOnce
  <1>6. /\ UNCHANGED <<storageVars, albums, photo, original, album, queued, request>>
        /\ queue' \subseteq queue /\ thumbs \subseteq thumbs'
        /\ thumbs' \subseteq Photos /\ thumbnail' \subseteq thumbs'
    BY DEF TakeJob, photoVars, IInv, StorageInv, TypeOK, JobInv, ThumbnailsStored
  <1> QED BY <1>4, <1>5, <1>6, <1>7, WorkerStepKeeps

LEMMA LoadPhotoKeeps == ASSUME IInv, NEW w \in Workers, LoadPhoto(w) PROVE IInv'
  <1>1. PICK p \in worker[w].todo : \E v \in
          {[stage |-> "making", todo |-> worker[w].todo \ {p}, at |-> p],
           [stage |-> "loop", todo |-> worker[w].todo \ {p}, at |-> NoPhoto]} :
             worker' = [worker EXCEPT ![w] = v]
    BY DEF LoadPhoto
  <1>2. PICK v \in {[stage |-> "making", todo |-> worker[w].todo \ {p}, at |-> p],
                    [stage |-> "loop", todo |-> worker[w].todo \ {p}, at |-> NoPhoto]} :
             worker' = [worker EXCEPT ![w] = v]
    BY <1>1
  <1>3. worker[w].todo \subseteq Photos
    BY DEF IInv, StorageInv, TypeOK, WorkerType
  <1>4. /\ v \in WorkerType /\ v.todo \subseteq worker[w].todo
        /\ v.at \in worker[w].todo \union {NoPhoto}
        /\ v.stage \in {"making", "record"} => v.at # NoPhoto
        /\ v.stage # "record"
    BY <1>3, PhotoUploadAssumption DEF WorkerType
  <1>5. /\ UNCHANGED <<storageVars, albums, photo, original, album, queue, queued, request, thumbs, thumbnail>>
        /\ thumbs \subseteq Photos /\ thumbnail \subseteq thumbs
    BY DEF LoadPhoto, photoVars, IInv, StorageInv, JobInv, TypeOK, ThumbnailsStored
  <1> QED BY <1>2, <1>4, <1>5, BatchStepKeeps

(* A worker with another stage, at the same photo or at none. *)
LEMMA BecomeKeeps ==
  ASSUME IInv, NEW w \in Workers,
         NEW stage \in {"loop", "record", "down"}, NEW at \in {worker[w].at, NoPhoto},
         Become(w, stage, at),
         stage = "record" => at \in thumbs' /\ at # NoPhoto,
         thumbs \subseteq thumbs', thumbs' \subseteq Photos, thumbnail' \subseteq thumbs',
         UNCHANGED <<storageVars, albums, photo, original, album, queue, queued, request>>
  PROVE  IInv'
  <1> DEFINE v == [worker[w] EXCEPT !.stage = stage, !.at = at]
  <1>1. worker[w] \in WorkerType
    BY DEF IInv, StorageInv, TypeOK
  <1>2. v \in WorkerType /\ v.stage = stage /\ v.at = at /\ v.todo = worker[w].todo
    BY <1>1 DEF WorkerType
  <1>3. worker' = [worker EXCEPT ![w] = v]
    BY DEF Become
  <1> HIDE DEF v
  <1> QED BY <1>2, <1>3, BatchStepKeeps

LEMMA ThumbStepsKeep ==
  ASSUME IInv, NEW w \in Workers,
         MakeFails(w) \/ StoreGenerated(w) \/ StoreGeneratedFails(w) \/ RecordThumbnail(w) \/ RecordThumbnailFails(w)
  PROVE  IInv'
  <1> USE DEF photoVars
  <1>1. worker[w] \in SoundWorkers /\ worker[w] \in WorkerType /\ thumbs \subseteq Photos /\ thumbnail \subseteq thumbs
    BY DEF IInv, StorageInv, JobInv, TypeOK, WorkersSound, ThumbnailsStored
  <1>2. worker[w].stage \in {"making", "record"} => worker[w].at \in Photos /\ worker[w].at # NoPhoto
    BY <1>1 DEF SoundWorkers, WorkerType
  <1>3. CASE MakeFails(w)
    BY <1>1, <1>3, BecomeKeeps DEF MakeFails
  <1>4. CASE StoreGenerated(w)
    BY <1>1, <1>2, <1>4, BecomeKeeps DEF StoreGenerated
  <1>5. CASE StoreGeneratedFails(w)
    <2>1. /\ thumbs \subseteq thumbs' /\ thumbs' \subseteq Photos
          /\ UNCHANGED <<storageVars, albums, photo, original, album, thumbnail, queue, queued, request>>
      BY <1>1, <1>2, <1>5 DEF StoreGeneratedFails
    <2>2. Become(w, "down", NoPhoto) \/ Become(w, "loop", NoPhoto)
      BY <1>5 DEF StoreGeneratedFails
    <2> QED BY <1>1, <2>1, <2>2, BecomeKeeps
  <1>6. CASE RecordThumbnail(w)
    <2>1. thumbnail' \subseteq thumbs
      BY <1>1, <1>6 DEF RecordThumbnail, SoundWorkers
    <2> QED BY <1>1, <1>6, <2>1, BecomeKeeps DEF RecordThumbnail
  <1>7. CASE RecordThumbnailFails(w)
    BY <1>1, <1>7, BecomeKeeps DEF RecordThumbnailFails
  <1> QED BY <1>3, <1>4, <1>5, <1>6, <1>7

LEMMA IdleStepsKeep ==
  ASSUME IInv, NEW w \in Workers, FinishJob(w) \/ Kill(w) \/ Restart(w) PROVE IInv'
  <1>1. worker' = [worker EXCEPT ![w] = Idle]
    BY DEF FinishJob, Kill, Restart
  <1>2. /\ UNCHANGED <<storageVars, albums, photo, original, album, queue, queued, request, thumbs, thumbnail>>
        /\ thumbs \subseteq Photos /\ thumbnail \subseteq thumbs
    BY DEF FinishJob, Kill, Restart, photoVars, IInv, StorageInv, JobInv, TypeOK, ThumbnailsStored
  <1>3. Idle.todo = {} /\ Idle.at = NoPhoto /\ Idle.stage = "idle"
    BY DEF Idle
  <1> QED BY <1>1, <1>2, <1>3, IdleSound, BatchStepKeeps

-----------------------------------------------------------------------------
LEMMA NextIInv == IInv /\ [Next]_vars => IInv'
  <1> SUFFICES ASSUME IInv, [Next]_vars PROVE IInv'
    OBVIOUS
  <1>1. ASSUME NEW r \in Requests, Serve(r) PROVE IInv'
    BY <1>1, RequestUploadURLsKeeps, ProvisionUploadKeeps, PutObjectKeeps, CompletePutKeeps,
       BeginCompleteKeeps, ConfirmStoredKeeps, MarkStoredKeeps, InsertPhotosKeeps,
       EnqueueThumbnailJobKeeps, AbandonKeeps DEF Serve
  <1>2. ASSUME NEW w \in Workers, TakeJob(w) \/ RunPhotoProcess(w) \/ Kill(w) \/ Restart(w) PROVE IInv'
    BY <1>2, TakeJobKeeps, LoadPhotoKeeps, ThumbStepsKeep, IdleStepsKeep DEF RunPhotoProcess
  <1>3. CASE UNCHANGED vars
    <2>1. RequestsSound' /\ WorkersSound'
      BY <1>3 DEF vars, storageVars, photoVars, jobVars, IInv, StorageInv, JobInv,
         RequestsSound, WorkersSound, SoundRequests, SoundWorkers, Made
    <2> QED BY <1>3, <2>1 DEF vars, storageVars, photoVars, jobVars, IInv, StorageInv, JobInv,
         TypeOK, PhotosHaveBytes, RowsSound, OneOfEachFile, QueuedOnce, QueueSound, ThumbnailsStored, Present, Made
  <1> QED BY <1>1, <1>2, <1>3, PutToBucketKeeps, BulkMovePhotosKeeps, BulkDeletePhotosKeeps, DeleteAlbumKeeps
      DEF Next

-----------------------------------------------------------------------------
(* The gallery only ever shows photos whose bytes are in storage, however     *)
(* uploads, completions, moves and deletions overlap.                      *)
THEOREM GallerySafety == Spec => [](TypeOK /\ PhotosHaveBytes)
  <1>1. IInv => TypeOK /\ PhotosHaveBytes
    BY DEF IInv, StorageInv
  <1> QED BY <1>1, InitIInv, NextIInv, PTL DEF Spec

(* No object is shown twice, and no file twice in an album: what              *)
(* photos_album_original_uk and InsertPhoto's look at it are for.            *)
THEOREM NoFileTwice == Spec => []OneOfEachFile
  <1>1. IInv => OneOfEachFile
    BY DEF IInv, StorageInv
  <1> QED BY <1>1, InitIInv, NextIInv, PTL DEF Spec

(* No photo is ever in two thumbnail jobs, and a thumbnail that a photo      *)
(* points to has been stored, whatever fails or dies.                      *)
THEOREM ThumbnailSafety == Spec => [](QueuedOnce /\ ThumbnailsStored)
  <1>1. IInv => QueuedOnce /\ ThumbnailsStored
    BY DEF IInv, JobInv
  <1> QED BY <1>1, InitIInv, NextIInv, PTL DEF Spec

(* Of all steps only the insertion makes photos, in the album of their       *)
(* objects: ConfirmStored kept no object of another.                       *)
THEOREM Creation == Spec => CreatedInItsAlbum
  <1> DEFINE A == \A p \in Photos : photo[p] = "none" /\ photo'[p] = "present" => album'[p] = AlbumOf(original'[p])
  <1>1. ASSUME IInv, NEW r \in Requests, InsertPhotos(r) PROVE A
    <2>0. PICK new \in SUBSET {p \in Photos : photo[p] = "none"} :
            \E of \in Bijection(new, Fresh(r)) : Insert(r, new, of)
      BY <1>1 DEF InsertPhotos
    <2>1. PICK of \in Bijection(new, Fresh(r)) : Insert(r, new, of)
      BY <2>0
    <2>2. of \in [new -> Fresh(r)]
      BY DEF Bijection, Injection
    <2>3. request[r] \in SoundRequests
      BY <1>1 DEF IInv, StorageInv, RequestsSound
    <2>4. \A p \in new : AlbumOf(of[p]) = request[r].album
      BY <2>2, <2>3 DEF Fresh, SoundRequests
    <2>5. \A p \in Photos : photo[p] = "none" /\ photo'[p] = "present" =>
             p \in new /\ album'[p] = request[r].album /\ original'[p] = of[p]
      BY <2>1 DEF Insert
    <2> QED BY <2>4, <2>5
  <1>2. ASSUME NEW ids \in SUBSET Photos, Remove(ids) PROVE A
    BY <1>2 DEF Remove, Present
  <1>3. ASSUME UNCHANGED photo PROVE A
    BY <1>3
  <1>4. IInv /\ [Next]_vars => [A]_vars
    <2> SUFFICES ASSUME IInv, Next PROVE A
      OBVIOUS
    <2> HIDE DEF A
    <2>1. ASSUME NEW r \in Requests, Serve(r) PROVE A
      <3>1. CASE InsertPhotos(r)
        BY <1>1, <3>1
      <3>2. CASE ~InsertPhotos(r)
        BY <2>1, <3>2, <1>3 DEF Serve, RequestUploadURLs, ProvisionUpload, PutObject, CompletePut, BeginComplete,
           ConfirmStored, MarkStored, EnqueueThumbnailJob, Abandon, photoVars
      <3> QED BY <3>1, <3>2
    <2>2. ASSUME NEW w \in Workers, TakeJob(w) \/ RunPhotoProcess(w) \/ Kill(w) \/ Restart(w) PROVE A
      BY <2>2, <1>3 DEF TakeJob, RunPhotoProcess, LoadPhoto, MakeFails, StoreGenerated, StoreGeneratedFails,
         RecordThumbnail, RecordThumbnailFails, FinishJob, Kill, Restart, photoVars
    <2>3. ASSUME NEW o \in Objects, PutToBucket(o) PROVE A
      BY <2>3, <1>3 DEF PutToBucket, photoVars
    <2>4. ASSUME NEW ids \in SUBSET Photos, NEW a \in Albums, BulkMovePhotos(ids, a) PROVE A
      BY <2>4, <1>3 DEF BulkMovePhotos
    <2>5. ASSUME NEW ids \in SUBSET Photos, BulkDeletePhotos(ids) PROVE A
      BY <2>5, <1>2 DEF BulkDeletePhotos
    <2>6. ASSUME NEW a \in Albums, DeleteAlbum(a) PROVE A
      <3>1. {p \in Present : album[p] = a} \in SUBSET Photos
        BY DEF Present
      <3> QED BY <2>6, <3>1, <1>2 DEF DeleteAlbum
    <2> QED BY <2>1, <2>2, <2>3, <2>4, <2>5, <2>6 DEF Next
  <1>5. Spec => [][A]_vars
    BY <1>4, InitIInv, NextIInv, PTL DEF Spec
  <1> QED BY <1>5 DEF CreatedInItsAlbum
=============================================================================
