------------------------------- MODULE Faces -------------------------------
(***************************************************************************)
(* Face enrolment, detection and search (internal/face): rows in Postgres, *)
(* vectors in two Qdrant collections.  No transaction spans the two: a     *)
(* vector is written or deleted while the transaction that owns its row is *)
(* open, and that transaction may still be rolled back; a Qdrant call that *)
(* fails may have done its work.                                           *)
(*                                                                         *)
(* A vector is the person it is of, and is similar to vectors of the same  *)
(* person.  Faces and points get ids that are never used again.            *)
(***************************************************************************)
EXTENDS Naturals, FiniteSets

CONSTANTS
  Owners,            \* subjects: accounts, and what tenants call their own people
  TenantOf,          \* owner -> its tenant, None for an account
  Tenants,
  Photos, InPhoto,   \* photo -> the people the detector sees in it
  PhotoTenant,       \* photo -> tenant; one event each
  Requests,
  MaxFaces, MaxPoints,   \* bounds on the ids given out
  None

VARIABLES
  face,        \* faces: owner (None: no such row), embedding_count
  embedding,   \* face_embeddings: <<point, face>>
  detection,   \* photo_face_detections: <<point, photo>>
  photos,      \* the photos there are
  enrollments, \* Qdrant's face_enrollment: <<point, face>>
  detections,  \* Qdrant's face_detection: point, photo, person
  lastFace, lastPoint,
  images,      \* temporary images in storage: the requests that put them there
  request,     \* requests and jobs in progress
  touched      \* faces some of whose vectors Qdrant was told to delete (history)

rows == <<face, embedding, detection, photos>>
qdrant == <<enrollments, detections>>
ids == <<lastFace, lastPoint>>
vars == <<rows, qdrant, ids, images, request, touched>>

NoFace == [owner |-> None, count |-> 0]
NoRequest == [at |-> "idle", by |-> None, owner |-> None, face |-> 0, count |-> 0,
              photo |-> None, points |-> {}]
FaceIds == 1..MaxFaces

Init ==
  /\ face = [f \in FaceIds |-> NoFace]
  /\ embedding = {} /\ detection = {}
  /\ photos = Photos
  /\ enrollments = {} /\ detections = {}
  /\ lastFace = 0 /\ lastPoint = 0
  /\ images = {}
  /\ request = [r \in Requests |-> NoRequest]
  /\ touched = {}

At(r, step) == request[r].at = step
Goto(r, step) == request' = [request EXCEPT ![r].at = step]
Exists(f) == f \in FaceIds /\ face[f].owner # None
FaceOf(owner) == {f \in FaceIds : face[f].owner = owner}
PointsOf(f) == {e[1] : e \in {x \in embedding : x[2] = f}}

(* A row written in a transaction that is open: nobody else gets past it. *)
Locked(owner) ==
  \E r \in Requests : request[r].owner = owner
    /\ request[r].at \in {"point", "commit enrolment", "delete", "commit drop"}
LockedPhoto(p) ==
  \E r \in Requests : request[r].photo = p /\ request[r].at \in {"upsert", "commit detections"}
-----------------------------------------------------------------------------
(* Enrolment (Enroll of an account, EnrollByRef of a tenant's person), with  *)
(* consent and one image, which the embedding service fetches from storage. *)
(* The owner's face is looked up ...                                        *)
Enroll(r, owner) ==
  /\ At(r, "idle") /\ r \notin images
  /\ images' = images \union {r}
  /\ \E f \in IF FaceOf(owner) = {} THEN {0} ELSE FaceOf(owner) :
       request' = [request EXCEPT ![r] = [NoRequest EXCEPT !.at = "insert", !.owner = owner,
         !.face = f, !.count = IF f = 0 THEN 0 ELSE face[f].count]]
  /\ UNCHANGED <<rows, qdrant, ids, touched>>

(* ... inserted if there was none (faces_user_uk and faces_tenant_ref_uk let *)
(* one through), or locked by the UPDATE if it is still there ...            *)
InsertEmbedding(r) ==
  LET owner == request[r].owner  f == request[r].face IN
  /\ At(r, "insert")
  /\ ~Locked(owner)
  /\ lastPoint < MaxPoints
  /\ IF f = 0 THEN FaceOf(owner) = {} /\ lastFace < MaxFaces ELSE Exists(f)
  /\ lastPoint' = lastPoint + 1
  /\ lastFace' = IF f = 0 THEN lastFace + 1 ELSE lastFace
  /\ request' = [request EXCEPT ![r].at = "point", ![r].points = {lastPoint + 1},
       ![r].face = IF f = 0 THEN lastFace + 1 ELSE f]
  /\ UNCHANGED <<rows, qdrant, images, touched>>

(* ... the vector goes to Qdrant, and an error rolls the rows back.  A      *)
(* plausible mistake first: the error is ignored.                           *)
UpsertIgnored(r, done, ok) ==
  /\ At(r, "point")
  /\ enrollments' = IF done THEN enrollments \union (request[r].points \X {request[r].face})
                    ELSE enrollments
  /\ Goto(r, "commit enrolment")
  /\ UNCHANGED <<rows, detections, ids, images, touched>>
UpsertEnrollment(r, done, ok) ==
  /\ At(r, "point")
  /\ done \/ ~ok
  /\ enrollments' = IF done THEN enrollments \union (request[r].points \X {request[r].face})
                    ELSE enrollments
  /\ Goto(r, IF ok THEN "commit enrolment" ELSE "clean up")
  /\ UNCHANGED <<rows, detections, ids, images, touched>>

(* embedding_count + 1 in SQL.  A plausible mistake: the count as it was read. *)
CountAsRead(r) == request[r].count + 1
IncrementEmbeddingCount(r) == face[request[r].face].count + 1

CommitEnrolment(r) ==
  LET f == request[r].face IN
  /\ At(r, "commit enrolment")
  /\ face' = [face EXCEPT ![f] =
       [owner |-> request[r].owner, count |-> IncrementEmbeddingCount(r)]]
  /\ embedding' = embedding \union (request[r].points \X {f})
  /\ Goto(r, "clean up")
  /\ UNCHANGED <<detection, photos, qdrant, ids, images, touched>>

(* ... and the image is deleted, unless the request's context is over. *)
cleanup(r, deleted) ==
  /\ At(r, "clean up")
  /\ images' = IF deleted THEN images \ {r} ELSE images
  /\ request' = [request EXCEPT ![r] = NoRequest]
  /\ UNCHANGED <<rows, qdrant, ids, touched>>
-----------------------------------------------------------------------------
(* What row-level security shows to a transaction of `tenant' (None: WithTx). *)
Visible(tenant, owner) == TenantOf[owner] \in {None, tenant}

(* DropOwnFace by an account, DropFaceByRef by a client of a tenant. *)
Callers == {o \in Owners : TenantOf[o] = None} \union Tenants
(* Faces of accounts are shown to every tenant, but only dropped by their own. *)
ownerCheck(by, owner) ==
  IF by \in Tenants THEN Visible(by, owner) /\ TenantOf[owner] # None ELSE by = owner

(* dropFace: the embeddings that can be seen, and their points ... *)
GetFace(r, by, f) ==
  /\ At(r, "idle") /\ Exists(f)
  /\ ownerCheck(by, face[f].owner)
  /\ request' = [request EXCEPT ![r] = [NoRequest EXCEPT !.at = "drop", !.by = by,
       !.owner = face[f].owner, !.face = f, !.points = PointsOf(f)]]
  /\ UNCHANGED <<rows, qdrant, ids, images, touched>>

(* ... the face, once nobody else has it, with what joined it meanwhile ... *)
DropFace(r) ==
  /\ At(r, "drop")
  /\ ~Locked(request[r].owner) /\ Exists(request[r].face)
  /\ Goto(r, "delete")
  /\ UNCHANGED <<rows, qdrant, ids, images, touched>>

(* ... the points, and an error rolls the rows back ... *)
DeletePoints(r, done, ok) ==
  LET points == request[r].points IN
  /\ At(r, "delete")
  /\ done \/ ~ok
  /\ enrollments' = IF done THEN {e \in enrollments : e[1] \notin points} ELSE enrollments
  /\ touched' = IF done THEN touched \union {request[r].face} ELSE touched
  /\ IF ok THEN Goto(r, "commit drop") ELSE request' = [request EXCEPT ![r] = NoRequest]
  /\ UNCHANGED <<rows, detections, ids, images>>

(* ... and ON DELETE CASCADE. *)
CommitDrop(r) ==
  LET f == request[r].face IN
  /\ At(r, "commit drop")
  /\ face' = [face EXCEPT ![f] = NoFace]
  /\ embedding' = {e \in embedding : e[2] # f}
  /\ request' = [request EXCEPT ![r] = NoRequest]
  /\ UNCHANGED <<detection, photos, qdrant, ids, images, touched>>
-----------------------------------------------------------------------------
(* The media.face_detect job, photo by photo: rows and points, one by one. *)
detectPhoto(r, p) ==
  /\ At(r, "idle") /\ p \in photos /\ InPhoto[p] # {}
  /\ lastPoint + Cardinality(InPhoto[p]) <= MaxPoints
  /\ lastPoint' = lastPoint + Cardinality(InPhoto[p])
  /\ request' = [request EXCEPT ![r] = [NoRequest EXCEPT !.at = "upsert", !.photo = p,
       !.points = (lastPoint + 1)..lastPoint']]
  /\ UNCHANGED <<rows, qdrant, lastFace, images, touched>>

UpsertDetection(r, done, ok) ==
  LET p == request[r].photo
      upserted == {x \in detections : x.point \in request[r].points}
      left == request[r].points \ {x.point : x \in upserted}
      persons == InPhoto[p] \ {x.person : x \in upserted} IN
  /\ At(r, "upsert")
  /\ done \/ ~ok
  /\ detections' = IF done THEN detections \union
       {[point |-> CHOOSE n \in left : \A k \in left : n <= k, photo |-> p,
         person |-> CHOOSE x \in persons : TRUE]} ELSE detections
  /\ IF ~ok THEN request' = [request EXCEPT ![r] = NoRequest]
     ELSE IF Cardinality(left) = 1 THEN Goto(r, "commit detections") ELSE UNCHANGED request
  /\ UNCHANGED <<rows, enrollments, ids, images, touched>>

CommitDetections(r) ==
  /\ At(r, "commit detections")
  /\ detection' = detection \union (request[r].points \X {request[r].photo})
  /\ request' = [request EXCEPT ![r] = NoRequest]
  /\ UNCHANGED <<face, embedding, photos, qdrant, ids, images, touched>>

(* A photo goes with its rows; its points stay in Qdrant (module PhotoUpload). *)
DeletePhotos(p) ==
  /\ p \in photos /\ ~LockedPhoto(p)
  /\ photos' = photos \ {p}
  /\ detection' = {d \in detection : d[2] # p}
  /\ UNCHANGED <<face, embedding, qdrant, ids, images, request, touched>>

(* A statement or COMMIT fails, the service sees no face, the client or the *)
(* process is gone: what is open is rolled back.                            *)
Rollback(r) ==
  /\ ~At(r, "idle")
  /\ request' = [request EXCEPT ![r] =
       IF r \in images /\ request[r].at # "clean up"
       THEN [NoRequest EXCEPT !.at = "clean up"] ELSE NoRequest]
  /\ UNCHANGED <<rows, qdrant, ids, images, touched>>

Enrolling(r) ==
  \/ InsertEmbedding(r) \/ CommitEnrolment(r)
  \/ \E o \in Owners : Enroll(r, o)
  \/ \E done, ok \in BOOLEAN : UpsertEnrollment(r, done, ok)
  \/ \E deleted \in BOOLEAN : cleanup(r, deleted)

Dropping(r) ==
  \/ DropFace(r) \/ CommitDrop(r)
  \/ \E by \in Callers, f \in FaceIds : GetFace(r, by, f)
  \/ \E done, ok \in BOOLEAN : DeletePoints(r, done, ok)

Detecting(r) ==
  \/ CommitDetections(r)
  \/ \E p \in Photos : detectPhoto(r, p)
  \/ \E done, ok \in BOOLEAN : UpsertDetection(r, done, ok)

Next ==
  \/ \E r \in Requests : Enrolling(r) \/ Dropping(r) \/ Detecting(r) \/ Rollback(r)
  \/ \E p \in Photos : DeletePhotos(p)

Spec == Init /\ [][Next]_vars
-----------------------------------------------------------------------------
(* The vector of an enrolled point is asked for in face_detection. *)
pointVector(point) == {x.person : x \in {y \in detections : y.point = point}}
Seen(p) == {x.person : x \in {y \in detections : y.photo = p}}

(* Search: the photos of the tenant's event with somebody similar to one of *)
(* the face's embeddings that has a vector, as far as they still exist.     *)
Search(tenant, f) ==
  {p \in photos : PhotoTenant[p] = tenant /\ \E point \in PointsOf(f) :
     \E person \in pointVector(point) : person \in Seen(p)}
-----------------------------------------------------------------------------
(* embedding_count is a copy: it stays the number of the face's embeddings, *)
(* and nobody has two faces, however enrolments and drops overlap.           *)
FacesAddUp ==
  /\ \A f \in FaceIds : Exists(f) => face[f].count = Cardinality(PointsOf(f))
  /\ \A o \in Owners : Cardinality(FaceOf(o)) <= 1

(* A row that commits has its vector in Qdrant, so it can be found, until    *)
(* somebody asks for its face to be dropped.  (A drop that fails after Qdrant *)
(* has deleted the points leaves rows without any.)                          *)
RowsHaveVectors ==
  /\ \A e \in embedding : e \in enrollments \/ e[2] \in touched
  /\ \A d \in detection : \E x \in detections : x.point = d[1] /\ x.photo = d[2]

(* "Search resolves faceID's enrolled embeddings, finds gallery photos whose *)
(* detected faces are similar to at least one of them" (face/service.go:418): *)
(* whoever is enrolled is found in a photo of the event they are detected in. *)
SearchFindsTheFace ==
  \A f \in FaceIds, p \in photos :
    Exists(f) /\ (\E e \in embedding : e[2] = f /\ e \in enrollments)
      /\ Visible(PhotoTenant[p], face[f].owner) /\ face[f].owner \in Seen(p)
    => p \in Search(PhotoTenant[p], f)
=============================================================================
