---------------------------- MODULE MediaProofs -----------------------------
(***************************************************************************)
(* Proofs about what a photo and a document go through in module Services: *)
(* tagging, certificates, fonts and faces, for any sets and bounds.        *)
(***************************************************************************)
EXTENDS ServicesProofs

(* The cardinality an instance speaks of is the one of FiniteSets.          *)
LEMMA TagCardinality == \A S : G!Cardinality(S) = Cardinality(S)
  BY DEF G!Cardinality, Cardinality
LEMMA DrawnCardinality == \A S : D!Cardinality(S) = Cardinality(S)
  BY DEF D!Cardinality, Cardinality
LEMMA FaceCardinality == \A S : F!Cardinality(S) = Cardinality(S)
  BY DEF F!Cardinality, Cardinality
-----------------------------------------------------------------------------
(* Tagging.  What a request read as settled still is, and a photo with a     *)
(* manual tag is; a tag's id is used, and a photo has a BIB once.            *)

Photographed == [status : {"pending", "processed", "failed", "gone"}, thumb : BOOLEAN]
TagRows == [photo : Photos, bib : Bibs, source : {"ocr", "manual"}, sure : BOOLEAN]
Marks == UNION {[S -> {"processed", "failed"}] : S \in SUBSET Photos}
Detections == [left : SUBSET Photos, at : Photos \union {None}, inserted : BOOLEAN,
               marked : Marks, running : BOOLEAN]

TaggingTypeOK ==
  /\ photo \in [Photos -> Photographed]
  /\ tag \in [Tags -> {G!NoTag} \union TagRows]
  /\ used \subseteq Tags
  /\ requests \in [Requests ->
       [kind : {"none", "add", "update", "delete"}, photo : Photos \union {None},
        status : {"pending", "processed", "failed", "gone"}]]
  /\ job \in Detections

RequestsHavePhotos ==
  \A r \in Requests : requests[r].kind # "none" => requests[r].photo \in Photos

Settled(p) == photo[p].status # "pending"

SettledStays ==
  \A r \in Requests : requests[r].kind # "none" /\ requests[r].status # "pending" =>
    Settled(requests[r].photo)

ManualIsSettled == \A t \in Tags : tag[t].source = "manual" => Settled(tag[t].photo)

TagsAreUsed == \A t \in Tags : tag[t] # G!NoTag => t \in used

BibsOnce ==
  \A s, t \in Tags : s # t /\ tag[s].photo \in Photos /\ tag[s].photo = tag[t].photo =>
    tag[s].bib # tag[t].bib

TaggingInv ==
  TaggingTypeOK /\ RequestsHavePhotos /\ SettledStays /\ ManualIsSettled /\ TagsAreUsed /\ BibsOnce

(* A row is a tag of its photo; none is of no photo. *)
LEMMA TagsOnPhotos ==
  ASSUME TaggingInv, NEW t \in Tags
  PROVE  /\ tag[t] # G!NoTag <=> tag[t].photo \in Photos
         /\ tag[t] # G!NoTag <=> tag[t] \in TagRows
         /\ tag[t].source = "manual" => tag[t] # G!NoTag
         /\ \A p \in Photos : t \in G!TagsOn(p) <=> tag[t].photo = p
  <1>1. G!NoTag.photo = None /\ G!NoTag.source = "ocr"
    BY DEF G!NoTag
  <1>2. tag[t] \in {G!NoTag} \union TagRows
    BY DEF TaggingInv, TaggingTypeOK
  <1>3. tag[t] \in TagRows => tag[t].photo \in Photos
    BY DEF TagRows
  <1> QED BY <1>1, <1>2, <1>3, TaggingAssumption DEF G!TagsOn

LEMMA NoJobIsOne == G!NoJob \in Detections
  <1>1. G!NoJob.marked \in [{} -> {"processed", "failed"}]
    BY DEF G!NoJob
  <1>2. G!NoJob.marked \in Marks
    BY <1>1 DEF Marks
  <1> QED BY <1>2 DEF G!NoJob, Detections

LEMMA TaggingInit == G!Init => TaggingInv
  <1> SUFFICES ASSUME G!Init PROVE TaggingInv
    OBVIOUS
  <1>1. TaggingTypeOK
    BY NoJobIsOne DEF G!Init, G!NoRequest, TaggingTypeOK, Photographed
  <1>2. RequestsHavePhotos /\ SettledStays
    BY DEF G!Init, G!NoRequest, RequestsHavePhotos, SettledStays
  <1>3. ManualIsSettled /\ TagsAreUsed
    BY DEF G!Init, G!NoTag, ManualIsSettled, TagsAreUsed
  <1>4. BibsOnce
    BY TaggingAssumption DEF G!Init, G!NoTag, BibsOnce
  <1> QED BY <1>1, <1>2, <1>3, <1>4 DEF TaggingInv

(* No photo is pending again. *)
PhotosSettle == photo' \in [Photos -> Photographed] /\ \A p \in Photos : Settled(p) => Settled(p)'

LEMMA PhotosUnchanged == TaggingInv /\ UNCHANGED photo => PhotosSettle
  BY DEF PhotosSettle, Settled, TaggingInv, TaggingTypeOK

LEMMA RequestsEnd ==
  ASSUME TaggingInv, PhotosSettle, UNCHANGED requests \/ \E r \in Requests : G!Answer(r)
  PROVE  /\ requests' \in [Requests ->
              [kind : {"none", "add", "update", "delete"}, photo : Photos \union {None},
               status : {"pending", "processed", "failed", "gone"}]]
         /\ RequestsHavePhotos' /\ SettledStays'
  <1>1. /\ \A r \in Requests : requests'[r] = requests[r] \/ requests'[r] = G!NoRequest
        /\ requests' \in [Requests ->
             [kind : {"none", "add", "update", "delete"}, photo : Photos \union {None},
              status : {"pending", "processed", "failed", "gone"}]]
    BY DEF TaggingInv, TaggingTypeOK, G!Answer, G!NoRequest
  <1>2. G!NoRequest.kind = "none"
    BY DEF G!NoRequest
  <1> QED
    BY <1>1, <1>2 DEF TaggingInv, RequestsHavePhotos, SettledStays, PhotosSettle

(* The tags stay as they are. *)
LEMMA SettledKeeps ==
  ASSUME TaggingInv, PhotosSettle, UNCHANGED <<tag, used>>, job' \in Detections,
         UNCHANGED requests \/ \E r \in Requests : G!Answer(r)
  PROVE  TaggingInv'
  <1>1. TaggingTypeOK' /\ RequestsHavePhotos' /\ SettledStays'
    BY RequestsEnd DEF TaggingInv, TaggingTypeOK, PhotosSettle
  <1>2. ManualIsSettled'
    BY TagsOnPhotos DEF TaggingInv, ManualIsSettled, PhotosSettle
  <1>3. TagsAreUsed' /\ BibsOnce'
    BY DEF TaggingInv, TagsAreUsed, BibsOnce
  <1> QED BY <1>1, <1>2, <1>3 DEF TaggingInv

(* By what it read, or by its own hand. *)
LEMMA PendingSettles ==
  ASSUME TaggingInv, NEW r \in Requests, requests[r].kind # "none", G!settlePending(r)
  PROVE  PhotosSettle /\ photo'[requests[r].photo].status # "pending"
  <1> DEFINE p == requests[r].photo
  <1>1. p \in Photos /\ photo \in [Photos -> Photographed]
    BY DEF TaggingInv, TaggingTypeOK, RequestsHavePhotos
  <1>2. CASE requests[r].status = "pending"
    <2>1. photo' = [photo EXCEPT ![p].status = "processed"]
      BY <1>2 DEF G!settlePending
    <2> HIDE DEF p
    <2>2. [photo[p] EXCEPT !.status = "processed"] = [status |-> "processed", thumb |-> photo[p].thumb]
      BY <1>1 DEF Photographed
    <2>3. photo' = [photo EXCEPT ![p] = [status |-> "processed", thumb |-> photo[p].thumb]]
      BY <1>1, <2>1, <2>2
    <2>4. [status |-> "processed", thumb |-> photo[p].thumb] \in Photographed
      BY <1>1 DEF Photographed
    <2> QED BY <1>1, <2>3, <2>4 DEF PhotosSettle, Settled, p
  <1>3. CASE requests[r].status # "pending"
    <2>1. photo' = photo
      BY <1>3 DEF G!settlePending
    <2> QED BY <1>1, <1>3, <2>1 DEF TaggingInv, SettledStays, PhotosSettle, Settled
  <1> QED BY <1>2, <1>3

LEMMA ReadingsApart ==
  ASSUME NEW ids \in SUBSET Tags, NEW found, G!Cardinality(ids) = G!Cardinality(found),
         NEW which \in [ids -> found], \A b \in found : \E t \in ids : which[t] = b,
         NEW s \in ids, NEW t \in ids, which[s] = which[t]
  PROVE  s = t
  <1>1. IsFiniteSet(ids) /\ Cardinality(ids) = Cardinality(found)
    BY TaggingAssumption, TagCardinality, FS_Subset
  <1>2. which \in Surjection(ids, found)
    BY DEF Surjection
  <1>3. which \in Injection(ids, found)
    BY <1>1, <1>2, FS_SurjSameCardinalityImpliesInj
  <1> QED BY <1>3 DEF Injection, IsInjective

(* A person's tag: added, or the one that was at t. *)
ManualTag(p, b) == [photo |-> p, bib |-> b, source |-> "manual", sure |-> FALSE]

LEMMA ManualKeeps ==
  ASSUME TaggingInv, NEW r \in Requests, requests[r].kind # "none", NEW t \in Tags, NEW b \in Bibs,
         \A s \in Tags \ {t} : tag[s].photo = requests[r].photo => tag[s].bib # b,
         tag' = [tag EXCEPT ![t] = ManualTag(requests[r].photo, b)],
         used' = used \union {t},
         G!settlePending(r), G!Answer(r), UNCHANGED job
  PROVE  TaggingInv'
  <1> DEFINE p == requests[r].photo
             new == ManualTag(p, b)
  <1>1. p \in Photos /\ tag \in [Tags -> {G!NoTag} \union TagRows]
    BY DEF TaggingInv, TaggingTypeOK, RequestsHavePhotos
  <1>2. PhotosSettle /\ photo'[p].status # "pending"
    BY PendingSettles
  <1>3. new \in TagRows /\ new.photo = p /\ new.bib = b
    BY <1>1 DEF TagRows, ManualTag
  <1>4. tag'[t] = new /\ \A s \in Tags \ {t} : tag'[s] = tag[s]
    BY <1>1
  <1> HIDE DEF p, new
  <1>5. TaggingTypeOK' /\ RequestsHavePhotos' /\ SettledStays'
    BY <1>1, <1>2, <1>3, RequestsEnd DEF TaggingInv, TaggingTypeOK, PhotosSettle, p, new
  <1>6. ManualIsSettled'
    <2> SUFFICES ASSUME NEW s \in Tags, tag'[s].source = "manual"
                 PROVE  photo'[tag'[s].photo].status # "pending"
      BY DEF ManualIsSettled, Settled
    <2>1. CASE s = t
      BY <1>2, <1>3, <1>4, <2>1
    <2>2. CASE s # t
      BY <1>2, <1>4, <2>2, TagsOnPhotos DEF TaggingInv, ManualIsSettled, PhotosSettle, Settled
    <2> QED BY <2>1, <2>2
  <1>7. TagsAreUsed'
    BY <1>4 DEF TaggingInv, TagsAreUsed
  <1>8. BibsOnce'
    BY <1>3, <1>4 DEF TaggingInv, BibsOnce, p
  <1> QED BY <1>5, <1>6, <1>7, <1>8 DEF TaggingInv

(* Tags that go leave what is left as it was. *)
LEMMA FewerTagsKeep ==
  ASSUME TaggingInv, PhotosSettle, tag' \in [Tags -> {G!NoTag} \union TagRows],
         \A t \in Tags : tag'[t] = tag[t] \/ tag'[t] = G!NoTag,
         UNCHANGED <<used, job>>, UNCHANGED requests \/ \E r \in Requests : G!Answer(r)
  PROVE  TaggingInv'
  <1>1. G!NoTag.photo = None /\ G!NoTag.source = "ocr"
    BY DEF G!NoTag
  <1>2. TaggingTypeOK' /\ RequestsHavePhotos' /\ SettledStays'
    BY RequestsEnd DEF TaggingInv, TaggingTypeOK, PhotosSettle
  <1>3. ManualIsSettled'
    BY <1>1, TagsOnPhotos DEF TaggingInv, ManualIsSettled, PhotosSettle, Settled
  <1>4. TagsAreUsed'
    BY DEF TaggingInv, TagsAreUsed
  <1>5. BibsOnce'
    BY <1>1, TaggingAssumption DEF TaggingInv, BibsOnce
  <1> QED BY <1>2, <1>3, <1>4, <1>5 DEF TaggingInv

LEMMA TaggingNext == TaggingInv /\ [G!Next]_(G!vars) => TaggingInv'
  <1> SUFFICES ASSUME TaggingInv, [G!Next]_(G!vars) PROVE TaggingInv'
    OBVIOUS
  <1>0. /\ photo \in [Photos -> Photographed] /\ job \in Detections
        /\ tag \in [Tags -> {G!NoTag} \union TagRows]
    BY DEF TaggingInv, TaggingTypeOK
  <1>1. ASSUME NEW r \in Requests, NEW kind \in {"add", "update", "delete"}, NEW p \in Photos,
               G!GetPhoto(r, kind, p)
        PROVE  TaggingInv'
    <2> DEFINE new == [kind |-> kind, photo |-> p, status |-> photo[p].status]
    <2>1. /\ requests' = [requests EXCEPT ![r] = new]
          /\ UNCHANGED <<photo, tag, used, job>>
      BY <1>1 DEF G!GetPhoto
    <2>2. new.kind = kind /\ new.photo = p /\ new.status = photo[p].status
          /\ photo[p].status \in {"pending", "processed", "failed", "gone"}
      BY <1>0 DEF Photographed
    <2>3. TaggingTypeOK'
      BY <2>1, <2>2 DEF TaggingInv, TaggingTypeOK
    <2> HIDE DEF new
    <2>4. RequestsHavePhotos' /\ SettledStays'
      BY <2>1, <2>2 DEF TaggingInv, TaggingTypeOK, RequestsHavePhotos, SettledStays, Settled
    <2>5. ManualIsSettled' /\ TagsAreUsed' /\ BibsOnce'
      BY <2>1 DEF TaggingInv, ManualIsSettled, TagsAreUsed, BibsOnce, Settled
    <2> QED BY <2>3, <2>4, <2>5 DEF TaggingInv
  <1>2. ASSUME NEW r \in Requests, NEW t \in Tags, NEW b \in Bibs, G!AddTag(r, t, b)
        PROVE  TaggingInv'
    <2>1. /\ requests[r].kind = "add" /\ b \notin G!BibsOn(requests[r].photo)
          /\ tag' = [tag EXCEPT ![t] = ManualTag(requests[r].photo, b)]
          /\ used' = used \union {t} /\ G!settlePending(r) /\ G!Answer(r) /\ UNCHANGED job
      BY <1>2 DEF G!AddTag, ManualTag
    <2>2. \A s \in Tags \ {t} : tag[s].photo = requests[r].photo => tag[s].bib # b
      BY <2>1 DEF G!BibsOn, G!TagsOn
    <2> QED BY <2>1, <2>2, ManualKeeps
  <1>3. ASSUME NEW r \in Requests, NEW t \in Tags, NEW b \in Bibs, G!UpdateTag(r, t, b)
        PROVE  TaggingInv'
    <2> DEFINE p == requests[r].photo
    <2>1. /\ requests[r].kind = "update" /\ tag[t].photo = p
          /\ b = tag[t].bib \/ b \notin G!BibsOn(p)
          /\ tag' = [tag EXCEPT ![t].bib = b, ![t].source = "manual", ![t].sure = FALSE]
          /\ used' = used /\ G!settlePending(r) /\ G!Answer(r) /\ UNCHANGED job
      BY <1>3 DEF G!UpdateTag, G!TagsOn
    <2>2. p \in Photos
      BY <2>1 DEF TaggingInv, RequestsHavePhotos
    <2>3. tag[t] \in TagRows /\ t \in used
      BY <2>1, <2>2, TagsOnPhotos DEF TaggingInv, TagsAreUsed
    <2> HIDE DEF p
    <2>4. [[[tag[t] EXCEPT !.bib = b] EXCEPT !.source = "manual"] EXCEPT !.sure = FALSE] = ManualTag(p, b)
      <3> DEFINE no == FALSE
      <3>1. no \in BOOLEAN
        OBVIOUS
      <3> HIDE DEF no
      <3> DEFINE one == [tag[t] EXCEPT !.bib = b]
                 two == [one EXCEPT !.source = "manual"]
      <3>2. one \in [photo : {p}, bib : {b}, source : {"ocr", "manual"}, sure : BOOLEAN]
        BY <2>1, <2>3 DEF TagRows
      <3> HIDE DEF one
      <3>3. two \in [photo : {p}, bib : {b}, source : {"manual"}, sure : BOOLEAN]
        BY <3>2
      <3> HIDE DEF two
      <3>4. [two EXCEPT !.sure = no] = [photo |-> p, bib |-> b, source |-> "manual", sure |-> no]
        BY <3>1, <3>3
      <3> QED BY <3>4 DEF ManualTag, no, one, two
    <2>5. tag' = [tag EXCEPT ![t] = ManualTag(p, b)]
      BY <1>0, <2>1, <2>4
    <2>6. \A s \in Tags \ {t} : tag[s].photo = p => tag[s].bib # b
      BY <2>1, <2>2 DEF G!BibsOn, G!TagsOn, TaggingInv, BibsOnce
    <2>7. used' = used \union {t}
      BY <2>1, <2>3
    <2> QED BY <2>1, <2>5, <2>6, <2>7, ManualKeeps DEF p
  <1>4. ASSUME NEW r \in Requests, NEW t \in Tags, G!DeleteTag(r, t) PROVE TaggingInv'
    <2>1. /\ tag' = [tag EXCEPT ![t] = G!NoTag] /\ G!Answer(r) /\ UNCHANGED <<photo, used, job>>
      BY <1>4 DEF G!DeleteTag
    <2> QED BY <1>0, <2>1, PhotosUnchanged, FewerTagsKeep
  <1>5. ASSUME NEW r \in Requests, G!Rollback(r) PROVE TaggingInv'
    BY <1>0, <1>5, PhotosUnchanged, SettledKeeps DEF G!Rollback
  <1>6. ASSUME NEW p \in Photos, NEW field,
               photo' = [photo EXCEPT ![p] = field], field \in Photographed,
               field.status # "pending" \/ field.status = photo[p].status
        PROVE  PhotosSettle
    BY <1>0, <1>6 DEF PhotosSettle, Settled
  <1>7. ASSUME NEW p \in Photos, G!DeletePhoto(p) PROVE TaggingInv'
    <2> DEFINE gone1 == [status |-> "gone", thumb |-> photo[p].thumb]
    <2>1. /\ photo' = [photo EXCEPT ![p].status = "gone"]
          /\ tag' = [t \in Tags |-> IF t \in G!TagsOn(p) THEN G!NoTag ELSE tag[t]]
          /\ UNCHANGED <<used, requests, job>>
      BY <1>7 DEF G!DeletePhoto
    <2>2. [photo[p] EXCEPT !.status = "gone"] = gone1 /\ gone1 \in Photographed /\ gone1.status = "gone"
      BY <1>0 DEF Photographed
    <2>3. photo' = [photo EXCEPT ![p] = gone1]
      BY <1>0, <2>1, <2>2
    <2> HIDE DEF gone1
    <2>4. PhotosSettle
      BY <1>6, <2>2, <2>3
    <2> QED BY <1>0, <2>1, <2>4, FewerTagsKeep
  <1>8. ASSUME NEW p \in Photos, G!UpdatePhotoThumbnail(p) PROVE TaggingInv'
    <2> DEFINE thumbed == [status |-> photo[p].status, thumb |-> TRUE]
    <2>1. photo' = [photo EXCEPT ![p].thumb = TRUE] /\ UNCHANGED <<tag, used, requests, job>>
      BY <1>8 DEF G!UpdatePhotoThumbnail
    <2>2. /\ [photo[p] EXCEPT !.thumb = TRUE] = thumbed /\ thumbed \in Photographed
          /\ thumbed.status = photo[p].status
      <3> DEFINE yes == TRUE
      <3>1. yes \in BOOLEAN
        OBVIOUS
      <3> HIDE DEF yes
      <3>2. [photo[p] EXCEPT !.thumb = yes] = [status |-> photo[p].status, thumb |-> yes]
        BY <1>0, <3>1 DEF Photographed
      <3> QED BY <1>0, <3>1, <3>2 DEF Photographed, yes
    <2>3. photo' = [photo EXCEPT ![p] = thumbed]
      BY <1>0, <2>1, <2>2
    <2> HIDE DEF thumbed
    <2>4. PhotosSettle
      BY <1>6, <2>2, <2>3
    <2> QED BY <1>0, <2>1, <2>4, SettledKeeps
  <1>9. CASE G!RunBibDetect
    <2>1. G!NoJob.marked = << >> /\ [G!NoJob EXCEPT !.left = Photos, !.running = TRUE] \in Detections
      BY NoJobIsOne DEF G!NoJob, Detections
    <2> QED BY <1>9, <2>1, PhotosUnchanged, SettledKeeps DEF G!RunBibDetect
  <1>10. ASSUME NEW p \in Photos, NEW inserted \in BOOLEAN, G!Took(p, inserted) PROVE job' \in Detections
    BY <1>0, <1>10 DEF G!Took, Detections
  <1>11. ASSUME NEW p \in Photos, G!DetectNothing(p) PROVE TaggingInv'
    BY <1>10, <1>11, PhotosUnchanged, SettledKeeps DEF G!DetectNothing
  <1>12. ASSUME NEW p \in Photos, NEW inserted \in BOOLEAN, G!DetectTaken(p, inserted) PROVE TaggingInv'
    BY <1>10, <1>12, PhotosUnchanged, SettledKeeps DEF G!DetectTaken
  <1>13. ASSUME NEW p \in Photos, NEW ids \in SUBSET Tags, NEW found \in SUBSET Bibs,
                NEW sure \in BOOLEAN, G!Detect(p, ids, found, sure)
         PROVE  TaggingInv'
    <2>1. PICK which \in [ids -> found] :
            /\ \A b \in found : \E t \in ids : which[t] = b
            /\ tag' = [t \in Tags |-> IF t \in ids THEN [photo |-> p, bib |-> which[t],
                                                        source |-> "ocr", sure |-> sure]
                                      ELSE tag[t]]
      BY <1>13 DEF G!Detect
    <2>2. /\ found \intersect G!BibsOn(p) = {} /\ ids \intersect used = {}
          /\ G!Cardinality(ids) = G!Cardinality(found)
          /\ used' = used \union ids /\ G!Took(p, TRUE) /\ UNCHANGED <<photo, requests>>
      BY <1>13 DEF G!Detect
    <2>3. job' \in Detections
      BY <1>10, <2>2
    <2>4. \A t \in ids : /\ tag'[t] \in TagRows /\ tag'[t].photo = p /\ tag'[t].bib = which[t]
                         /\ tag'[t].source = "ocr"
      BY <2>1 DEF TagRows
    <2>5. \A t \in Tags \ ids : tag'[t] = tag[t]
      BY <2>1
    <2>6. tag' \in [Tags -> {G!NoTag} \union TagRows]
      BY <1>0, <2>1, <2>4, <2>5
    <2>7. TaggingTypeOK' /\ RequestsHavePhotos' /\ SettledStays'
      BY <2>2, <2>3, <2>6 DEF TaggingInv, TaggingTypeOK, RequestsHavePhotos, SettledStays, Settled
    <2>8. ManualIsSettled' /\ TagsAreUsed'
      BY <2>2, <2>4, <2>5 DEF TaggingInv, ManualIsSettled, TagsAreUsed, Settled
    <2>9. BibsOnce'
      <3> SUFFICES ASSUME NEW s \in Tags, NEW t \in Tags, s # t,
                          tag'[s].photo \in Photos, tag'[s].photo = tag'[t].photo,
                          tag'[s].bib = tag'[t].bib
                   PROVE  FALSE
        BY DEF BibsOnce
      <3>1. CASE s \in ids /\ t \in ids
        BY <2>1, <2>2, <2>4, <3>1, ReadingsApart
      <3>2. CASE s \in ids /\ t \notin ids
        BY <2>2, <2>4, <2>5, <3>2 DEF G!BibsOn, G!TagsOn
      <3>3. CASE s \notin ids /\ t \in ids
        BY <2>2, <2>4, <2>5, <3>3 DEF G!BibsOn, G!TagsOn
      <3>4. CASE s \notin ids /\ t \notin ids
        BY <2>5, <3>4 DEF TaggingInv, BibsOnce
      <3> QED BY <3>1, <3>2, <3>3, <3>4
    <2> QED BY <2>7, <2>8, <2>9 DEF TaggingInv
  <1>14. CASE G!MarkPhoto
    <2> DEFINE mark == IF job.inserted THEN "processed" ELSE "failed"
               marks == IF photo[job.at].status = "gone" THEN job.marked
                        ELSE [p \in DOMAIN job.marked \union {job.at} |->
                                IF p # job.at THEN job.marked[p] ELSE mark]
    <2>1. job.at \in Photos /\ job.marked \in Marks
      BY <1>0, <1>14 DEF G!MarkPhoto, Detections
    <2>2. job' = [job EXCEPT !.at = None, !.marked = marks] /\ UNCHANGED <<photo, tag, used, requests>>
      BY <1>14 DEF G!MarkPhoto, G!Marked
    <2>3. marks \in Marks
      <3>1. PICK S \in SUBSET Photos : job.marked \in [S -> {"processed", "failed"}]
        BY <2>1 DEF Marks
      <3>2. CASE photo[job.at].status = "gone"
        BY <2>1, <3>2
      <3>3. CASE photo[job.at].status # "gone"
        <4>1. marks \in [S \union {job.at} -> {"processed", "failed"}]
          BY <3>1, <3>3
        <4> HIDE DEF marks
        <4> QED BY <2>1, <4>1 DEF Marks
      <3> QED BY <3>2, <3>3
    <2> HIDE DEF marks
    <2>4. job' \in Detections
      BY <1>0, <2>2, <2>3 DEF Detections
    <2> QED BY <2>2, <2>4, PhotosUnchanged, SettledKeeps
  <1>15. CASE G!CommitBatch
    <2>1. /\ photo' = [p \in Photos |-> IF p \in DOMAIN job.marked
                                         THEN [photo[p] EXCEPT !.status = job.marked[p]] ELSE photo[p]]
          /\ job' = G!NoJob /\ UNCHANGED <<tag, used, requests>>
      BY <1>15 DEF G!CommitBatch, G!Marked
    <2>2. ASSUME NEW p \in DOMAIN job.marked PROVE job.marked[p] \in {"processed", "failed"}
      <3>1. PICK S \in SUBSET Photos : job.marked \in [S -> {"processed", "failed"}]
        BY <1>0 DEF Detections, Marks
      <3> QED BY <3>1
    <2>3. PhotosSettle
      <3>1. \A p \in Photos : p \in DOMAIN job.marked =>
              photo'[p] = [status |-> job.marked[p], thumb |-> photo[p].thumb]
        BY <1>0, <2>1 DEF Photographed
      <3>2. \A p \in Photos : p \notin DOMAIN job.marked => photo'[p] = photo[p]
        BY <2>1
      <3>3. \A p \in Photos : photo'[p] \in Photographed /\ (Settled(p) => Settled(p)')
        <4> SUFFICES ASSUME NEW p \in Photos
                     PROVE  photo'[p] \in Photographed /\ (Settled(p) => photo'[p].status # "pending")
          BY DEF Settled
        <4>1. CASE p \in DOMAIN job.marked
          <5>1. photo'[p] = [status |-> job.marked[p], thumb |-> photo[p].thumb]
            BY <3>1, <4>1
          <5>2. photo[p].thumb \in BOOLEAN /\ job.marked[p] \in {"processed", "failed"}
            BY <1>0, <2>2, <4>1 DEF Photographed
          <5> QED BY <5>1, <5>2 DEF Photographed
        <4>2. CASE p \notin DOMAIN job.marked
          BY <1>0, <3>2, <4>2 DEF Settled
        <4> QED BY <4>1, <4>2
      <3> QED BY <2>1, <3>3 DEF PhotosSettle
    <2> QED BY <2>1, <2>3, NoJobIsOne, SettledKeeps
  <1>16. CASE G!AbandonBatch
    BY <1>16, NoJobIsOne, PhotosUnchanged, SettledKeeps DEF G!AbandonBatch
  <1>17. CASE UNCHANGED G!vars
    BY <1>0, <1>17, PhotosUnchanged, SettledKeeps DEF G!vars
  <1> QED
    BY <1>1, <1>2, <1>3, <1>4, <1>5, <1>7, <1>8, <1>9, <1>11, <1>12, <1>13, <1>14, <1>15, <1>16, <1>17
       DEF G!Next, G!People, G!Job

(* The only hands that change a manual tag.                                  *)
LEMMA PeopleDecide ==
  ASSUME TaggingInv, TaggingInv', [G!Next]_(G!vars)
  PROVE  G!ManualTagsKept
  <1> SUFFICES ASSUME NEW t \in Tags, tag[t].source = "manual", tag'[t] # tag[t]
               PROVE  \/ \E r \in Requests : requests[r].kind \in {"update", "delete"}
                             /\ requests[r].photo = tag[t].photo /\ requests'[r] = G!NoRequest
                      \/ photo'[tag[t].photo].status = "gone"
    <2>1. ASSUME NEW t \in Tags, tag[t].source = "manual", tag'[t] = tag[t],
                 NEW s \in G!TagsOn(tag[t].photo)', s # t
          PROVE  tag'[s].bib # tag[t].bib
      <3>1. tag[t].photo \in Photos /\ s \in Tags /\ tag'[s].photo = tag'[t].photo
        BY <2>1, TagsOnPhotos DEF G!TagsOn
      <3> QED BY <2>1, <3>1 DEF TaggingInv, BibsOnce
    <2> QED BY <2>1 DEF G!ManualTagsKept
  <1>1. t \in used /\ tag[t].photo \in Photos /\ tag \in [Tags -> {G!NoTag} \union TagRows]
    BY TagsOnPhotos DEF TaggingInv, TagsAreUsed, TaggingTypeOK
  <1>2. ASSUME NEW r \in Requests, G!Answer(r) PROVE requests'[r] = G!NoRequest
    BY <1>2 DEF G!Answer, TaggingInv, TaggingTypeOK
  <1>3. ASSUME NEW r \in Requests, NEW s \in Tags, NEW b \in Bibs, G!AddTag(r, s, b) PROVE FALSE
    BY <1>1, <1>3 DEF G!AddTag
  <1>4. ASSUME NEW r \in Requests, NEW s \in Tags,
               G!DeleteTag(r, s) \/ \E b \in Bibs : G!UpdateTag(r, s, b)
        PROVE  /\ requests[r].kind \in {"update", "delete"} /\ requests[r].photo = tag[t].photo
               /\ requests'[r] = G!NoRequest
    <2>1. /\ requests[r].kind \in {"update", "delete"} /\ tag[s].photo = requests[r].photo
          /\ G!Answer(r) /\ \A q \in Tags \ {s} : tag'[q] = tag[q]
      BY <1>1, <1>4 DEF G!DeleteTag, G!UpdateTag, G!TagsOn
    <2>2. s = t
      BY <2>1
    <2> QED BY <1>2, <2>1, <2>2
  <1>5. ASSUME NEW p \in Photos, G!DeletePhoto(p) PROVE photo'[tag[t].photo].status = "gone"
    <2>1. t \in G!TagsOn(p)
      BY <1>5 DEF G!DeletePhoto
    <2>2. tag[t].photo = p
      BY <2>1 DEF G!TagsOn
    <2>3. photo' = [photo EXCEPT ![p].status = "gone"] /\ photo \in [Photos -> Photographed]
      BY <1>5 DEF G!DeletePhoto, TaggingInv, TaggingTypeOK
    <2> QED BY <2>2, <2>3 DEF Photographed
  <1>6. ASSUME NEW p \in Photos, NEW ids \in SUBSET Tags, NEW found \in SUBSET Bibs,
               NEW sure \in BOOLEAN, G!Detect(p, ids, found, sure)
        PROVE  FALSE
    BY <1>1, <1>6 DEF G!Detect
  <1>7. ASSUME UNCHANGED tag PROVE FALSE
    BY <1>7
  <1> QED
    BY <1>3, <1>4, <1>5, <1>6, <1>7
       DEF G!Next, G!People, G!Job, G!GetPhoto, G!Rollback, G!UpdatePhotoThumbnail, G!RunBibDetect,
           G!MarkPhoto, G!CommitBatch, G!AbandonBatch, G!DetectNothing, G!DetectTaken, G!vars

(* One of its tags is manual: it is listed under one state, by what people   *)
(* and the job have read on it.                                              *)
LEMMA ListedOnce ==
  ASSUME TaggingInv, NEW t \in Tags, tag[t].source = "manual"
  PROVE  \E s \in {"review", "verified", "auto"} :
           {x \in G!States : G!stateCondition(x, tag[t].photo)} = {s}
  <1> DEFINE p == tag[t].photo
             c == G!Counts(p)
             review == {x \in G!TagsOn(p) : tag[x].source = "ocr" /\ ~tag[x].sure}
             manual == {x \in G!TagsOn(p) : tag[x].source = "manual"}
  <1>1. photo[p].status # "pending"
    BY DEF TaggingInv, ManualIsSettled, Settled
  <1>2. /\ IsFiniteSet(G!TagsOn(p)) /\ review \subseteq G!TagsOn(p) /\ manual \subseteq G!TagsOn(p)
        /\ t \in manual
    BY TaggingAssumption, FS_Subset DEF G!TagsOn
  <1>3. c.n = Cardinality(G!TagsOn(p)) /\ c.review = Cardinality(review) /\ c.manual = Cardinality(manual)
    BY TagCardinality DEF G!Counts
  <1> HIDE DEF review, manual, c
  <1>4. /\ IsFiniteSet(review) /\ IsFiniteSet(manual)
        /\ Cardinality(manual) <= Cardinality(G!TagsOn(p))
    BY <1>2, FS_Subset
  <1>5. c.n \in Nat /\ c.review \in Nat /\ c.manual \in Nat
    BY <1>2, <1>3, <1>4, FS_CardinalityType
  <1>6. c.manual > 0 /\ c.manual <= c.n
    BY <1>2, <1>3, <1>4, <1>5, FS_EmptySet
  <1> HIDE DEF p
  <1>7. /\ ~G!stateCondition("preparing", p) /\ ~G!stateCondition("detecting", p)
        /\ ~G!stateCondition("failed", p) /\ ~G!stateCondition("no_bib", p)
        /\ G!stateCondition("review", p) <=> c.review > 0
        /\ G!stateCondition("verified", p) <=> c.review = 0 /\ c.n > 0 /\ c.manual = c.n
        /\ G!stateCondition("auto", p) <=> c.review = 0 /\ c.n > 0 /\ c.manual < c.n
    BY <1>1, <1>5, <1>6 DEF G!stateCondition, c
  <1>8. CASE c.review > 0
    <2>1. \A x \in G!States : G!stateCondition(x, p) <=> x = "review"
      BY <1>5, <1>7, <1>8 DEF G!States
    <2>2. {x \in G!States : G!stateCondition(x, p)} = {"review"}
      BY <2>1 DEF G!States
    <2> QED BY <2>2 DEF p
  <1>9. CASE c.review = 0 /\ c.manual = c.n
    <2>1. \A x \in G!States : G!stateCondition(x, p) <=> x = "verified"
      BY <1>5, <1>6, <1>7, <1>9 DEF G!States
    <2>2. {x \in G!States : G!stateCondition(x, p)} = {"verified"}
      BY <2>1 DEF G!States
    <2> QED BY <2>2 DEF p
  <1>10. CASE c.review = 0 /\ c.manual < c.n
    <2>1. \A x \in G!States : G!stateCondition(x, p) <=> x = "auto"
      BY <1>5, <1>6, <1>7, <1>10 DEF G!States
    <2>2. {x \in G!States : G!stateCondition(x, p)} = {"auto"}
      BY <2>1 DEF G!States
    <2> QED BY <2>2 DEF p
  <1> QED BY <1>5, <1>6, <1>8, <1>9, <1>10

LEMMA TaggingStep ==
  part = "tags" /\ [AllNext]_allVars => part' = "tags" /\ [G!Next]_(G!vars)
  BY DEF AllNext, allVars, shared, tagsOwn, G!vars

(* What every step of the part keeps, and what none may do to a person's tags. *)
LEMMA TaggingKept ==
  /\ AllInit => (part = "tags" => TaggingInv)
  /\ (part = "tags" => TaggingInv) /\ [AllNext]_allVars =>
       /\ (part = "tags" => TaggingInv)'
       /\ [part = "tags" => G!ManualTagsKept]_allVars
  BY TaggingInit, TaggingStep, TaggingNext, PeopleDecide DEF AllInit, AllNext, allVars

(* However the two transactions of a batch overlap with what people enter,   *)
(* a photo with a manual tag is listed under one state, which says that it    *)
(* was looked at and has tags (settlePending, stateCondition).             *)
THEOREM ManualStays == AllSpec => []ReviewedIsSettled
  <1> DEFINE Kept == part = "tags" => TaggingInv
  <1>1. Kept => ReviewedIsSettled
    BY ListedOnce DEF ReviewedIsSettled, G!ReviewedIsSettled
  <1> QED BY <1>1, TaggingKept, PTL DEF AllSpec

(* A tag a person entered stays, alone with its BIB, until a person changes   *)
(* it or the photo goes: InsertOCRTag and UNIQUE (photo, bib) see to it.      *)
THEOREM PeopleDecideTags == AllSpec => PeopleHaveTheLastWord
  BY TaggingKept, PTL DEF AllSpec, PeopleHaveTheLastWord
-----------------------------------------------------------------------------
(* Certificates.  Files are numbered as they are drawn, and never drawn over. *)

FilesDrawn == Cardinality(DOMAIN drawn)
Images == [of : Participants, hash : Hashes \union {None}, version : Nat]
Certificate ==
  [no : Numbers, template : DesignIds \union {None}, version : Nat,
   hash : Hashes \union {None}, status : {"ready", "failed"}, file : Nat \union {None}]

CertificatesTypeOK ==
  /\ version \in [DesignIds -> Nat]
  /\ record \in [Participants -> {None} \union Certificate]
  /\ FilesDrawn \in Nat /\ DOMAIN drawn = 1..FilesDrawn
  /\ \A f \in 1..FilesDrawn : drawn[f] \in Images
  /\ job \in [template : DesignIds \union {None}, version : Nat, left : SUBSET Participants]

CertificatesInv == CertificatesTypeOK /\ D!ReadyIsItsFile

LEMMA CertificatesInit == D!Init => CertificatesInv
  <1> SUFFICES ASSUME D!Init PROVE CertificatesInv
    OBVIOUS
  <1>1. DOMAIN drawn = {} /\ FilesDrawn = 0
    BY FS_EmptySet DEF D!Init, FilesDrawn
  <1>2. CertificatesTypeOK
    BY <1>1 DEF D!Init, D!NoJob, CertificatesTypeOK
  <1>3. D!ReadyIsItsFile
    BY DEF D!Init, D!ReadyIsItsFile
  <1> QED BY <1>2, <1>3 DEF CertificatesInv

(* A record that is `ready' and saved now shows the file it names.           *)
Matches(p, new) ==
  new.status = "ready" => /\ new.file \in D!Drawings
                          /\ drawn[new.file] = [of |-> p, hash |-> new.hash, version |-> new.version]

LEMMA MergeMatches ==
  ASSUME CertificatesInv, NEW p \in Participants, NEW new \in Certificate, Matches(p, new)
  PROVE  D!Merge(p, new) \in Certificate /\ Matches(p, D!Merge(p, new))
  <1> USE CertificatesAssumption DEF CertificatesInv
  <1>1. CASE record[p] = None
    BY <1>1 DEF D!Merge
  <1>2. CASE record[p] # None
    <2> DEFINE old == record[p]
               file == IF new.file = None THEN old.file ELSE new.file
    <2>1. old \in Certificate
      BY <1>2 DEF CertificatesTypeOK
    <2>2. D!Merge(p, new) = [new EXCEPT !.no = old.no, !.file = file]
      BY <1>2 DEF D!Merge
    <2> HIDE DEF file
    <2>3. D!Merge(p, new) = [no |-> old.no, template |-> new.template, version |-> new.version,
                             hash |-> new.hash, status |-> new.status, file |-> file]
      BY <2>2 DEF Certificate
    <2>4. file \in Nat \union {None}
      BY <2>1 DEF Certificate, file
    <2>5. D!Merge(p, new) \in Certificate
      BY <2>1, <2>3, <2>4 DEF Certificate
    <2>6. new.status = "ready" => new.file # None
      BY DEF Matches, D!Drawings, CertificatesTypeOK
    <2>7. Matches(p, D!Merge(p, new))
      BY <2>3, <2>6 DEF Matches, file
    <2> QED BY <2>5, <2>7
  <1> QED BY <1>1, <1>2

(* One participant's record is written, or not; everything else about records stays. *)
LEMMA UpsertKeeps ==
  ASSUME CertificatesInv, NEW p \in Participants, NEW new \in Certificate,
         Matches(p, new), D!Upsert(p, new), UNCHANGED <<version, drawn>>,
         job' \in [template : DesignIds \union {None}, version : Nat, left : SUBSET Participants]
  PROVE  CertificatesInv'
  <1> DEFINE merged == D!Merge(p, new)
  <1>1. merged \in Certificate /\ Matches(p, merged)
    BY MergeMatches
  <1>2. record' = [record EXCEPT ![p] = merged]
    BY DEF D!Upsert
  <1> HIDE DEF merged
  <1>3. CertificatesTypeOK'
    BY <1>1, <1>2 DEF CertificatesInv, CertificatesTypeOK, FilesDrawn
  <1>4. D!ReadyIsItsFile'
    BY <1>1, <1>2 DEF CertificatesInv, CertificatesTypeOK, D!ReadyIsItsFile, D!Drawings, Matches
  <1> QED BY <1>3, <1>4 DEF CertificatesInv

(* A new file, whose number no record has. *)
LEMMA StoredKeeps ==
  ASSUME CertificatesInv, NEW p \in Participants, NEW h \in Hashes \union {None}, NEW v \in Nat,
         D!Stored(p, h, v)
  PROVE  /\ DOMAIN drawn' = 1..(FilesDrawn + 1) /\ FilesDrawn' = FilesDrawn + 1
         /\ \A f \in 1..FilesDrawn : drawn'[f] = drawn[f]
         /\ drawn'[FilesDrawn + 1] = [of |-> p, hash |-> h, version |-> v]
  <1> DEFINE n == FilesDrawn
             image == [of |-> p, hash |-> h, version |-> v]
  <1>1. n \in Nat /\ DOMAIN drawn = 1..n
    BY DEF CertificatesInv, CertificatesTypeOK
  <1>2. drawn' = [f \in 1..(n + 1) |-> IF f \in 1..n THEN drawn[f] ELSE image]
    BY <1>1, DrawnCardinality DEF D!Stored, D!Drawings, FilesDrawn
  <1> HIDE DEF image, n
  <1>3. DOMAIN drawn' = 1..(n + 1)
    BY <1>2
  <1>4. FilesDrawn' = n + 1
    BY <1>1, <1>3, FS_Interval DEF FilesDrawn
  <1>5. drawn'[n + 1] = image /\ \A f \in 1..n : drawn'[f] = drawn[f]
    BY <1>1, <1>2
  <1> QED BY <1>3, <1>4, <1>5 DEF n, image

LEMMA CertificatesNext == CertificatesInv /\ [D!Next]_(D!vars) => CertificatesInv'
  <1> SUFFICES ASSUME CertificatesInv, [D!Next]_(D!vars) PROVE CertificatesInv'
    OBVIOUS
  <1> DEFINE Jobs == [template : DesignIds \union {None}, version : Nat, left : SUBSET Participants]
  <1>0. /\ version \in [DesignIds -> Nat] /\ job \in Jobs /\ D!NoJob \in Jobs
        /\ \A t \in DesignIds : version[t] \in Nat
        /\ job.version \in Nat /\ job.template \in DesignIds \union {None}
    BY DEF CertificatesInv, CertificatesTypeOK, D!NoJob
  <1>1. ASSUME NEW t \in DesignIds, D!NewDesign(t) PROVE CertificatesInv'
    BY <1>0, <1>1 DEF D!NewDesign, CertificatesInv, CertificatesTypeOK, FilesDrawn, D!ReadyIsItsFile, D!Drawings
  <1>2. ASSUME NEW t \in DesignIds, D!DeleteTemplate(t) PROVE CertificatesInv'
    <2> DEFINE forget(p) == [record[p] EXCEPT !.template = None]
    <2>1. /\ version' = [version EXCEPT ![t] = MaxVersion + 1]
          /\ UNCHANGED <<drawn, job>>
          /\ record' = [p \in Participants |->
               IF record[p] # None /\ record[p].template = t THEN forget(p) ELSE record[p]]
      BY <1>2 DEF D!DeleteTemplate
    <2>2. ASSUME NEW p \in Participants, record[p] # None
          PROVE  /\ forget(p) \in Certificate /\ forget(p).status = record[p].status
                 /\ forget(p).file = record[p].file /\ forget(p).hash = record[p].hash
                 /\ forget(p).version = record[p].version
      <3>1. record[p] \in Certificate
        BY <2>2 DEF CertificatesInv, CertificatesTypeOK
      <3> QED BY <3>1 DEF Certificate
    <2> HIDE DEF forget
    <2>3. version' \in [DesignIds -> Nat]
      BY <1>0, <2>1, TemplatesAssumption
    <2>4. CertificatesTypeOK'
      BY <2>1, <2>2, <2>3 DEF CertificatesInv, CertificatesTypeOK, FilesDrawn
    <2>5. D!ReadyIsItsFile'
      BY <2>1, <2>2 DEF CertificatesInv, D!ReadyIsItsFile, D!Drawings
    <2> QED BY <2>4, <2>5 DEF CertificatesInv
  <1>3. ASSUME NEW p \in Participants, NEW no \in D!NumbersFor(p), NEW t \in DesignIds \union {None},
               NEW f \in D!Drawings, D!SaveReady(p, no, t, f)
        PROVE  CertificatesInv'
    <2> DEFINE new == D!Record(no, t, drawn[f].version, drawn[f].hash, "ready", f)
    <2>1. no \in Numbers
      BY DEF D!NumbersFor, CertificatesInv, CertificatesTypeOK, Certificate
    <2>2. drawn[f] \in Images /\ f \in Nat /\ drawn[f].of = p
      BY <1>3 DEF D!SaveReady, D!Drawings, CertificatesInv, CertificatesTypeOK
    <2>3. new \in Certificate
      BY <2>1, <2>2 DEF D!Record, Certificate, Images
    <2>4. Matches(p, new)
      BY <2>2 DEF Matches, D!Record, Images
    <2>5. D!Upsert(p, new) /\ UNCHANGED <<version, drawn, job>>
      BY <1>3 DEF D!SaveReady
    <2> HIDE DEF new
    <2> QED BY <1>0, <2>3, <2>4, <2>5, UpsertKeeps
  <1>4. ASSUME NEW p \in Participants, NEW no \in D!NumbersFor(p), NEW t \in DesignIds \union {None},
               NEW h \in Hashes \union {None}, D!SaveFailed(p, no, t, h)
        PROVE  CertificatesInv'
    <2> DEFINE v == IF t = None THEN 0 ELSE version[t]
               new == D!Record(no, t, v, h, "failed", None)
    <2>1. no \in Numbers
      BY DEF D!NumbersFor, CertificatesInv, CertificatesTypeOK, Certificate
    <2>2. v \in Nat
      BY <1>0
    <2>3. D!Upsert(p, new) /\ UNCHANGED <<version, drawn, job>>
      BY <1>4 DEF D!SaveFailed
    <2> HIDE DEF v
    <2>4. new \in Certificate /\ Matches(p, new)
      BY <2>1, <2>2 DEF D!Record, Certificate, Matches
    <2> HIDE DEF new
    <2> QED BY <1>0, <2>3, <2>4, UpsertKeeps
  <1>5. ASSUME NEW p \in Participants, NEW h \in Hashes \union {None}, NEW v \in Nat, D!Stored(p, h, v),
               UNCHANGED <<version, record>>, job' \in Jobs
        PROVE  CertificatesInv'
    <2>0. [of |-> p, hash |-> h, version |-> v] \in Images
      BY DEF Images
    <2>1. /\ DOMAIN drawn' = 1..(FilesDrawn + 1) /\ FilesDrawn' = FilesDrawn + 1
          /\ \A f \in 1..FilesDrawn : drawn'[f] = drawn[f]
          /\ drawn'[FilesDrawn + 1] = [of |-> p, hash |-> h, version |-> v]
          /\ FilesDrawn \in Nat
      BY <1>5, StoredKeeps DEF CertificatesInv, CertificatesTypeOK
    <2>2. CertificatesTypeOK'
      BY <1>5, <2>0, <2>1 DEF CertificatesInv, CertificatesTypeOK
    <2>3. D!ReadyIsItsFile'
      BY <1>5, <2>1 DEF CertificatesInv, CertificatesTypeOK, D!ReadyIsItsFile, D!Drawings
    <2> QED BY <2>2, <2>3 DEF CertificatesInv
  <1>6. ASSUME NEW p \in Participants, NEW h \in Hashes \union {None}, NEW t \in DesignIds,
               D!UploadImage(p, h, t)
        PROVE  CertificatesInv'
    BY <1>0, <1>5, <1>6 DEF D!UploadImage
  <1>7. ASSUME NEW p \in Participants, D!DeleteCertificate(p) \/ D!DeleteParticipant(p)
        PROVE  CertificatesInv'
    <2>1. record' = [record EXCEPT ![p] = None] /\ UNCHANGED <<version, drawn, job>>
      BY <1>7 DEF D!DeleteCertificate, D!DeleteParticipant
    <2>2. CertificatesTypeOK'
      BY <2>1 DEF CertificatesInv, CertificatesTypeOK, FilesDrawn
    <2>3. D!ReadyIsItsFile'
      BY <2>1 DEF CertificatesInv, CertificatesTypeOK, D!ReadyIsItsFile, D!Drawings
    <2> QED BY <2>2, <2>3 DEF CertificatesInv
  <1>8. ASSUME NEW p \in Participants, D!Next1(p) PROVE job' \in Jobs
    BY <1>0, <1>8 DEF D!Next1
  <1>9. ASSUME NEW p \in Participants, NEW h \in Hashes \union {None}, NEW no \in D!NumbersFor(p),
               D!MakeOne(p, no, h)
        PROVE  CertificatesInv'
    <2> DEFINE file == D!Cardinality(D!Drawings) + 1
               new == D!Record(no, job.template, job.version, h, "ready", file)
    <2>1. /\ D!Stored(p, h, job.version) /\ UNCHANGED version /\ job' \in Jobs
          /\ D!Upsert(p, new) \/ UNCHANGED record
      BY <1>8, <1>9 DEF D!MakeOne
    <2>2. CASE UNCHANGED record
      BY <1>0, <1>5, <2>1, <2>2
    <2>3. CASE D!Upsert(p, new)
      <3>1. file = FilesDrawn + 1 /\ FilesDrawn \in Nat
        BY DrawnCardinality DEF D!Drawings, FilesDrawn, CertificatesInv, CertificatesTypeOK
      <3>2. no \in Numbers
        BY DEF D!NumbersFor, CertificatesInv, CertificatesTypeOK, Certificate
      <3>3. new \in Certificate
        BY <1>0, <3>1, <3>2 DEF D!Record, Certificate
      <3>4. /\ new.status = "ready" /\ new.file = FilesDrawn + 1 /\ new.hash = h
            /\ new.version = job.version
        BY <3>1 DEF D!Record
      <3> HIDE DEF new, file
      <3> DEFINE merged == D!Merge(p, new)
      <3>5. merged \in Certificate /\ merged.status = "ready" /\ merged.file = FilesDrawn + 1
            /\ merged.hash = h /\ merged.version = job.version
        <4>1. CASE record[p] = None
          BY <3>3, <3>4, <4>1 DEF D!Merge
        <4>2. CASE record[p] # None
          <5>1. record[p] \in Certificate
            BY <4>2 DEF CertificatesInv, CertificatesTypeOK
          <5>2. new.file # None
            BY <3>1, <3>4, CertificatesAssumption
          <5>3. merged = [no |-> record[p].no, template |-> new.template, version |-> new.version,
                          hash |-> new.hash, status |-> new.status, file |-> new.file]
            BY <3>3, <4>2, <5>2 DEF D!Merge, Certificate
          <5> HIDE DEF merged
          <5> QED BY <3>3, <3>4, <5>1, <5>3 DEF Certificate
        <4> QED BY <4>1, <4>2
      <3>6. record' = [record EXCEPT ![p] = merged]
        BY <2>3 DEF D!Upsert
      <3> HIDE DEF merged
      <3>7. [of |-> p, hash |-> h, version |-> job.version] \in Images
        BY <1>0 DEF Images
      <3>10. /\ DOMAIN drawn' = 1..(FilesDrawn + 1) /\ FilesDrawn' = FilesDrawn + 1
             /\ \A f \in 1..FilesDrawn : drawn'[f] = drawn[f]
             /\ drawn'[FilesDrawn + 1] = [of |-> p, hash |-> h, version |-> job.version]
             /\ FilesDrawn \in Nat
        BY <1>0, <2>1, <3>1, StoredKeeps
      <3>8. CertificatesTypeOK'
        <4>1. \A f \in 1..(FilesDrawn + 1) : drawn'[f] \in Images
          BY <3>7, <3>10 DEF CertificatesInv, CertificatesTypeOK
        <4>2. record' \in [Participants -> {None} \union Certificate]
          BY <3>5, <3>6 DEF CertificatesInv, CertificatesTypeOK
        <4> QED BY <1>0, <2>1, <3>10, <4>1, <4>2 DEF CertificatesTypeOK
      <3>9. D!ReadyIsItsFile'
        <4> SUFFICES ASSUME NEW q \in Participants, record'[q] # None, record'[q].status = "ready"
                     PROVE  /\ record'[q].file \in DOMAIN drawn'
                            /\ drawn'[record'[q].file] =
                                 [of |-> q, hash |-> record'[q].hash, version |-> record'[q].version]
          BY DEF D!ReadyIsItsFile, D!Drawings
        <4>1. CASE q = p
          <5>1. record'[q] = merged
            BY <3>6, <4>1 DEF CertificatesInv, CertificatesTypeOK
          <5>2. record'[q].file = FilesDrawn + 1 /\ FilesDrawn + 1 \in DOMAIN drawn'
            BY <3>5, <3>10, <5>1
          <5>3. drawn'[FilesDrawn + 1] =
                  [of |-> q, hash |-> record'[q].hash, version |-> record'[q].version]
            BY <3>5, <3>10, <4>1, <5>1
          <5> QED BY <5>2, <5>3
        <4>2. CASE q # p
          <5>1. record'[q] = record[q]
            BY <3>6, <4>2 DEF CertificatesInv, CertificatesTypeOK
          <5> QED BY <3>10, <5>1
                  DEF CertificatesInv, CertificatesTypeOK, D!ReadyIsItsFile, D!Drawings
        <4> QED BY <4>1, <4>2
      <3> QED BY <3>8, <3>9 DEF CertificatesInv
    <2> QED BY <2>1, <2>2, <2>3
  <1>10. ASSUME NEW p \in Participants, NEW h \in Hashes \union {None}, NEW no \in D!NumbersFor(p),
                D!MakeOneFails(p, no, h)
         PROVE  CertificatesInv'
    <2> DEFINE new == D!Record(no, job.template, job.version, h, "failed", None)
    <2>1. /\ UNCHANGED <<version, drawn>> /\ job' \in Jobs
          /\ D!Upsert(p, new) \/ UNCHANGED record
      BY <1>8, <1>10 DEF D!MakeOneFails
    <2>2. no \in Numbers
      BY DEF D!NumbersFor, CertificatesInv, CertificatesTypeOK, Certificate
    <2>3. new \in Certificate /\ Matches(p, new)
      BY <1>0, <2>2 DEF D!Record, Certificate, Matches
    <2> HIDE DEF new
    <2>4. CASE UNCHANGED record
      BY <2>1, <2>4 DEF CertificatesInv, CertificatesTypeOK, FilesDrawn, D!ReadyIsItsFile, D!Drawings
    <2>5. CASE D!Upsert(p, new)
      BY <2>1, <2>3, <2>5, UpsertKeeps
    <2> QED BY <2>1, <2>4, <2>5
  <1>11. ASSUME UNCHANGED <<version, record, drawn>>, job' \in Jobs PROVE CertificatesInv'
    BY <1>11 DEF CertificatesInv, CertificatesTypeOK, FilesDrawn, D!ReadyIsItsFile, D!Drawings
  <1>12. ASSUME NEW t \in DesignIds, D!StartBatch(t) PROVE CertificatesInv'
    BY <1>0, <1>11, <1>12 DEF D!StartBatch
  <1>13. CASE D!JobEnds
    BY <1>0, <1>11, <1>13 DEF D!JobEnds
  <1>14. CASE UNCHANGED D!vars
    BY <1>0, <1>11, <1>14 DEF D!vars
  <1>15. ASSUME NEW p \in Participants, D!Save(p) PROVE CertificatesInv'
    BY <1>3, <1>4, <1>6, <1>7, <1>15 DEF D!Save
  <1> QED BY <1>1, <1>2, <1>9, <1>10, <1>12, <1>13, <1>14, <1>15 DEF D!Next, D!Batch

LEMMA CertificatesStep ==
  part = "certificates" /\ [AllNext]_allVars => part' = "certificates" /\ [D!Next]_(D!vars)
  BY DEF AllNext, allVars, shared, certificatesOwn, D!vars

(* Whichever batch runs and saves wrote the record in turn, a certificate     *)
(* that is ready shows what its record says (makeOne, Upsert).              *)
THEOREM ReadyShowsItsRecord == AllSpec => []ReadyIsItsFile
  <1> DEFINE Kept == part = "certificates" => CertificatesInv
  <1>1. Kept => ReadyIsItsFile
    BY DEF CertificatesInv, ReadyIsItsFile
  <1>2. Kept /\ [AllNext]_allVars => Kept'
    BY CertificatesStep, CertificatesNext DEF AllNext, allVars
  <1>3. AllInit => Kept
    BY CertificatesInit DEF AllInit
  <1> QED BY <1>1, <1>2, <1>3, PTL DEF AllSpec
-----------------------------------------------------------------------------
(* Fonts.  The id a new family gets is nobody else's until the family is      *)
(* there; and every template that names what a request found unused was      *)
(* saved after it looked.                                                  *)

FontsTypeOK ==
  /\ font \in [FontIds -> {None} \union [family : Families, files : SUBSET Styles]]
  /\ requests \in [Requests ->
       [at : {"idle", "create", "remove", "delete", "remove now", "delete now"},
        id : FontIds \union {None}, style : Styles \union {None}, family : Families \union {None}]]
  /\ \A r \in Requests : W!At(r, "create") =>
       requests[r].id \in FontIds /\ requests[r].family \in Families /\ requests[r].style \in Styles
  /\ DOMAIN saved = Requests /\ DOMAIN needs = FontUsers

NewIdsAreFree ==
  \A r \in Requests : W!At(r, "create") =>
    /\ font[requests[r].id] = None
    /\ \A q \in Requests \ {r} : requests[q].id # requests[r].id

(* What InUse looks for, once a request has looked. *)
NamesWhatGoes(r, n) ==
  \/ W!At(r, "delete now") /\ n.key = requests[r].id
  \/ W!At(r, "remove now") /\ n.key = requests[r].id /\ requests[r].style \in n.styles

LEMMA SameRequest ==
  ASSUME NEW r \in Requests, NEW n, requests'[r] = requests[r]
  PROVE  NamesWhatGoes(r, n)' <=> NamesWhatGoes(r, n)
  BY DEF NamesWhatGoes, W!At

NamedOnlySince ==
  \A r \in Requests, t \in FontUsers :
    (\E n \in needs[t] : NamesWhatGoes(r, n)) => t \in saved[r]

FontsInv == FontsTypeOK /\ NewIdsAreFree /\ NamedOnlySince

LEMMA FontsInit == W!Init => FontsInv
  BY DEF W!Init, W!NoRequest, W!At, FontsInv, FontsTypeOK, NewIdsAreFree, NamesWhatGoes, NamedOnlySince

(* A request that is not about to take anything away finds nothing in the way. *)
LEMMA FontsRequestLeaves ==
  ASSUME FontsInv, NEW r \in Requests, UNCHANGED <<needs, saved>>,
         requests'[r].at \notin {"remove now", "delete now"}, \A q \in Requests \ {r} : requests'[q] = requests[q]
  PROVE  NamedOnlySince'
  <1> SUFFICES ASSUME NEW q \in Requests, NEW t \in FontUsers, NEW n \in needs[t], NamesWhatGoes(q, n)'
               PROVE  t \in saved[q]
    BY DEF NamedOnlySince, NamesWhatGoes, W!At
  <1>1. q # r
    BY DEF NamesWhatGoes, W!At
  <1>2. NamesWhatGoes(q, n)
    BY <1>1 DEF NamesWhatGoes, W!At
  <1> QED BY <1>2 DEF FontsInv, NamedOnlySince

(* A request that ends, or goes on to look. *)
LEMMA FontsRequestEnds ==
  ASSUME FontsInv, NEW r \in Requests,
         UNCHANGED <<font, needs, saved>>, W!Answer(r)
  PROVE  FontsInv'
  <1> USE DEF FontsInv
  <1>1. requests' = [requests EXCEPT ![r] = W!NoRequest] /\ W!NoRequest.at = "idle" /\ W!NoRequest.id = None
    BY DEF W!Answer, W!NoRequest
  <1>2. FontsTypeOK'
    BY <1>1 DEF FontsTypeOK, W!At, W!NoRequest
  <1>3. NewIdsAreFree'
    BY <1>1, FontsAssumption DEF FontsTypeOK, NewIdsAreFree, W!At
  <1>4. NamedOnlySince'
    <2>1. requests'[r].at = "idle" /\ \A q \in Requests \ {r} : requests'[q] = requests[q]
      BY <1>1 DEF FontsTypeOK
    <2> QED BY <2>1, FontsRequestLeaves
  <1> QED BY <1>2, <1>3, <1>4

LEMMA FontsRequestBegins ==
  ASSUME FontsInv, NEW r \in Requests, NEW f \in FontIds, NEW style \in Styles \union {None},
         NEW step \in {"remove", "delete"},
         W!Begin(r, step, f, style, None), f \in W!Library,
         UNCHANGED <<font, needs, saved>>
  PROVE  FontsInv'
  <1> USE DEF FontsInv
  <1>1. /\ requests' = [requests EXCEPT ![r] =
             [at |-> step, id |-> f, style |-> style, family |-> None]]
        /\ font[f] # None
    BY DEF W!Begin, W!Library
  <1>2. requests'[r].at = step /\ requests'[r].id = f /\ \A q \in Requests \ {r} : requests'[q] = requests[q]
    BY <1>1 DEF FontsTypeOK
  <1>3. FontsTypeOK'
    BY <1>1, <1>2 DEF FontsTypeOK, W!At
  <1>4. NewIdsAreFree'
    BY <1>1, <1>2 DEF NewIdsAreFree, W!At
  <1>5. NamedOnlySince'
    BY <1>2, FontsRequestLeaves
  <1> QED BY <1>3, <1>4, <1>5

(* A font that is there changes. *)
LEMMA FontsChange ==
  ASSUME FontsInv, NEW f \in FontIds, font[f] # None,
         NEW new \in {None} \union [family : Families, files : SUBSET Styles],
         font' = [font EXCEPT ![f] = new], UNCHANGED <<needs, requests, saved>>
  PROVE  FontsInv'
  <1> USE DEF FontsInv
  <1>1. FontsTypeOK'
    BY DEF FontsTypeOK, W!At
  <1>2. NewIdsAreFree'
    BY DEF FontsTypeOK, NewIdsAreFree, W!At
  <1>3. NamedOnlySince'
    BY DEF NamedOnlySince, NamesWhatGoes, W!At
  <1> QED BY <1>1, <1>2, <1>3

LEMMA FontsNext == FontsInv /\ [W!Next]_(W!vars) => FontsInv'
  <1> SUFFICES ASSUME FontsInv, [W!Next]_(W!vars) PROVE FontsInv'
    OBVIOUS
  <1> USE FontsAssumption DEF FontsInv
  <1>1. ASSUME NEW t \in FontUsers, NEW n, W!SaveTemplate(t, n) PROVE FontsInv'
    <2>1. FontsTypeOK' /\ NewIdsAreFree'
      BY <1>1 DEF W!SaveTemplate, W!At, FontsTypeOK, NewIdsAreFree
    <2>2. NamedOnlySince'
      BY <1>1 DEF W!SaveTemplate, W!At, FontsTypeOK, NamesWhatGoes, NamedOnlySince
    <2> QED BY <2>1, <2>2
  <1>2. ASSUME NEW r \in Requests, NEW f \in FontIds, NEW style \in Styles, NEW family \in Families,
               W!BeginCreate(r, f, family, style)
        PROVE  FontsInv'
    <2>1. /\ requests' = [requests EXCEPT ![r] =
               [at |-> "create", id |-> f, style |-> style, family |-> family]]
          /\ font[f] = None /\ \A q \in Requests : requests[q].id # f
          /\ UNCHANGED <<font, needs, saved>>
      BY <1>2 DEF W!BeginCreate, W!Begin, W!Library
    <2>2. /\ requests'[r] = [at |-> "create", id |-> f, style |-> style, family |-> family]
          /\ \A q \in Requests \ {r} : requests'[q] = requests[q]
      BY <2>1 DEF FontsTypeOK
    <2>3. FontsTypeOK'
      BY <2>1, <2>2 DEF FontsTypeOK, W!At
    <2>4. NewIdsAreFree'
      BY <2>1, <2>2 DEF NewIdsAreFree, W!At
    <2>5. ASSUME NEW q \in Requests, NEW t \in FontUsers, NEW n \in needs[t], NamesWhatGoes(q, n)'
          PROVE  t \in saved[q]
      <3>1. requests'[r].at = "create"
        BY <2>2
      <3>2. q # r
        BY <2>5, <3>1 DEF NamesWhatGoes, W!At
      <3>3. requests'[q] = requests[q]
        BY <2>2, <3>2
      <3>4. NamesWhatGoes(q, n)
        BY <2>5, <3>3, SameRequest
      <3> QED BY <3>4 DEF NamedOnlySince
    <2>6. NamedOnlySince'
      BY <2>1, <2>5 DEF NamedOnlySince
    <2> QED BY <2>3, <2>4, <2>6
  <1>3. ASSUME NEW r \in Requests, W!CommitCreate(r) PROVE FontsInv'
    <2> DEFINE f == requests[r].id
               new == [family |-> requests[r].family, files |-> {requests[r].style}]
    <2>1. /\ W!At(r, "create")
          /\ font' = [font EXCEPT ![f] = new]
          /\ requests' = [requests EXCEPT ![r] = W!NoRequest]
          /\ UNCHANGED <<needs, saved>>
      BY <1>3 DEF W!CommitCreate, W!Answer
    <2>2. new \in [family : Families, files : SUBSET Styles] /\ f \in FontIds
      BY <2>1 DEF FontsTypeOK
    <2> HIDE DEF new
    <2>3. FontsTypeOK'
      BY <2>1, <2>2 DEF FontsTypeOK, W!At, W!NoRequest
    <2>4. NewIdsAreFree'
      <3> SUFFICES ASSUME NEW q \in Requests, requests'[q].at = "create"
                   PROVE  /\ font'[requests'[q].id] = None
                          /\ \A p \in Requests \ {q} : requests'[p].id # requests'[q].id
        BY DEF NewIdsAreFree, W!At
      <3>1. q # r /\ requests'[q] = requests[q] /\ requests'[r].id = None
        BY <2>1 DEF FontsTypeOK, W!NoRequest
      <3>2. requests[q].id \in FontIds /\ requests[q].id # f /\ font[requests[q].id] = None
        BY <3>1 DEF FontsTypeOK, NewIdsAreFree, W!At
      <3>3. font'[requests[q].id] = None
        BY <2>1, <3>2 DEF FontsTypeOK
      <3> QED BY <2>1, <3>1, <3>2, <3>3 DEF FontsTypeOK, NewIdsAreFree, W!At
    <2>5. NamedOnlySince'
      <3>1. requests'[r].at = "idle" /\ \A q \in Requests \ {r} : requests'[q] = requests[q]
        BY <2>1 DEF FontsTypeOK, W!NoRequest
      <3> QED BY <2>1, <3>1, FontsRequestLeaves
    <2> QED BY <2>3, <2>4, <2>5
  <1>4. ASSUME NEW f \in FontIds, NEW family \in Families, W!Update(f, family) PROVE FontsInv'
    <2> DEFINE new == [family |-> family, files |-> font[f].files]
    <2>1. /\ font[f] # None /\ font' = [font EXCEPT ![f].family = family]
          /\ UNCHANGED <<needs, requests, saved>>
      BY <1>4 DEF W!Update, W!Library
    <2>2. font[f] \in [family : Families, files : SUBSET Styles]
      BY <2>1 DEF FontsTypeOK
    <2>3. new \in [family : Families, files : SUBSET Styles] /\ [font[f] EXCEPT !.family = family] = new
      BY <2>2
    <2>4. font' = [font EXCEPT ![f] = new]
      BY <2>1, <2>3 DEF FontsTypeOK
    <2> HIDE DEF new
    <2> QED BY <2>1, <2>3, <2>4, FontsChange
  <1>5. ASSUME NEW f \in FontIds, NEW style \in Styles, W!PutFile(f, style) PROVE FontsInv'
    <2> DEFINE new == [family |-> font[f].family, files |-> font[f].files \union {style}]
    <2>1. /\ font[f] # None /\ font' = [font EXCEPT ![f].files = @ \union {style}]
          /\ UNCHANGED <<needs, requests, saved>>
      BY <1>5 DEF W!PutFile, W!Library
    <2>2. font[f] \in [family : Families, files : SUBSET Styles]
      BY <2>1 DEF FontsTypeOK
    <2>3. new \in [family : Families, files : SUBSET Styles] /\ [font[f] EXCEPT !.files = font[f].files \union {style}] = new
      BY <2>2
    <2>4. font' = [font EXCEPT ![f] = new]
      BY <2>1, <2>3 DEF FontsTypeOK
    <2> HIDE DEF new
    <2> QED BY <2>1, <2>3, <2>4, FontsChange
  <1>6. ASSUME NEW r \in Requests, NEW f \in FontIds, NEW style \in Styles, W!BeginRemoveFile(r, f, style)
        PROVE  FontsInv'
    BY <1>6, FontsRequestBegins DEF W!BeginRemoveFile
  <1>7. ASSUME NEW r \in Requests, NEW f \in FontIds, W!BeginDelete(r, f) PROVE FontsInv'
    BY <1>7, FontsRequestBegins DEF W!BeginDelete
  <1>8. ASSUME NEW r \in Requests, W!CheckUse(r) PROVE FontsInv'
    <2>1. /\ requests[r].at \in {"remove", "delete"}
          /\ \A t \in FontUsers : \A n \in needs[t] :
               n.key = requests[r].id => requests[r].at = "remove" /\ requests[r].style \notin n.styles
          /\ requests' = [requests EXCEPT ![r].at = IF requests[r].at = "remove" THEN "remove now" ELSE "delete now"]
          /\ saved' = [saved EXCEPT ![r] = {}]
          /\ UNCHANGED <<font, needs>>
      BY <1>8 DEF W!CheckUse, W!InUse, W!At
    <2> DEFINE looked == [requests[r] EXCEPT !.at = IF requests[r].at = "remove" THEN "remove now" ELSE "delete now"]
    <2>0. /\ looked.at \in {"remove now", "delete now"} /\ looked.id = requests[r].id
          /\ looked \in [at : {"idle", "create", "remove", "delete", "remove now", "delete now"},
                     id : FontIds \union {None}, style : Styles \union {None}, family : Families \union {None}]
          /\ requests' = [requests EXCEPT ![r] = looked]
      BY <2>1 DEF FontsTypeOK
    <2> HIDE DEF looked
    <2>moved. /\ requests'[r] = looked /\ \A q \in Requests \ {r} : requests'[q] = requests[q]
            /\ font' = font /\ needs' = needs /\ DOMAIN saved' = DOMAIN saved
      BY <2>0, <2>1 DEF FontsTypeOK
    <2>2. FontsTypeOK'
      <3>1. requests' \in [Requests ->
              [at : {"idle", "create", "remove", "delete", "remove now", "delete now"},
               id : FontIds \union {None}, style : Styles \union {None}, family : Families \union {None}]]
        BY <2>0 DEF FontsTypeOK
      <3>2. \A q \in Requests : requests'[q].at = "create" =>
              requests'[q].id \in FontIds /\ requests'[q].family \in Families /\ requests'[q].style \in Styles
        BY <2>0, <2>moved DEF FontsTypeOK, W!At
      <3>3. /\ font' \in [FontIds -> {None} \union [family : Families, files : SUBSET Styles]]
            /\ DOMAIN saved' = Requests /\ DOMAIN needs' = FontUsers
        BY <2>moved DEF FontsTypeOK
      <3> HIDE DEF FontsInv
      <3> QED BY <3>1, <3>2, <3>3 DEF FontsTypeOK, W!At
    <2>3. NewIdsAreFree'
      <3> SUFFICES ASSUME NEW q \in Requests, requests'[q].at = "create"
                   PROVE  /\ font[requests'[q].id] = None
                          /\ \A p \in Requests \ {q} : requests'[p].id # requests'[q].id
        BY <2>moved DEF NewIdsAreFree, W!At
      <3>1. q # r /\ requests'[q] = requests[q]
        BY <2>0, <2>moved
      <3>2. /\ font[requests[q].id] = None
            /\ \A p \in Requests \ {q} : requests[p].id # requests[q].id
        BY <3>1 DEF NewIdsAreFree, W!At
      <3>3. \A p \in Requests : requests'[p].id = requests[p].id
        BY <2>0, <2>moved
      <3> QED BY <3>1, <3>2, <3>3
    <2>4. \A n : ~(\E t \in FontUsers : n \in needs[t] /\ NamesWhatGoes(r, n)')
      BY <2>1 DEF FontsTypeOK, NamesWhatGoes, W!At
    <2>5. \A q \in Requests \ {r} : requests'[q] = requests[q] /\ saved'[q] = saved[q]
      BY <2>1 DEF FontsTypeOK
    <2>6. \A n : \A q \in Requests \ {r} : NamesWhatGoes(q, n)' <=> NamesWhatGoes(q, n)
      BY <2>5, SameRequest
    <2>7. NamedOnlySince'
      BY <2>1, <2>4, <2>5, <2>6 DEF NamedOnlySince
    <2> QED BY <2>2, <2>3, <2>7
  <1>9. ASSUME NEW r \in Requests, NEW f \in FontIds, font[f] # None,
               NEW new \in {None} \union [family : Families, files : SUBSET Styles],
               font' = [font EXCEPT ![f] = new], W!Answer(r), UNCHANGED <<needs, saved>>
        PROVE  FontsInv'
    <2>1. /\ requests' = [requests EXCEPT ![r] = W!NoRequest]
          /\ W!NoRequest.at = "idle" /\ W!NoRequest.id = None
      BY <1>9 DEF W!Answer, W!NoRequest
    <2>2. FontsTypeOK'
      <3>1. font' \in [FontIds -> {None} \union [family : Families, files : SUBSET Styles]]
        BY <1>9 DEF FontsTypeOK
      <3>2. FontsTypeOK /\ W!NoRequest \in
              [at : {"idle", "create", "remove", "delete", "remove now", "delete now"},
               id : FontIds \union {None}, style : Styles \union {None}, family : Families \union {None}]
        BY DEF W!NoRequest
      <3> HIDE DEF FontsInv
      <3>3. \A q \in Requests : requests'[q].at = "create" => requests'[q] = requests[q]
        BY <2>1, <3>2 DEF FontsTypeOK
      <3>4. requests' \in [Requests ->
              [at : {"idle", "create", "remove", "delete", "remove now", "delete now"},
               id : FontIds \union {None}, style : Styles \union {None}, family : Families \union {None}]]
        BY <2>1, <3>2 DEF FontsTypeOK
      <3> QED BY <1>9, <3>1, <3>2, <3>3, <3>4 DEF FontsTypeOK, W!At
    <2>3. NewIdsAreFree'
      <3>1. requests'[r].at = "idle" /\ requests'[r].id = None
            /\ \A q \in Requests \ {r} : requests'[q] = requests[q]
        BY <2>1 DEF FontsTypeOK
      <3> SUFFICES ASSUME NEW q \in Requests, requests'[q].at = "create"
                   PROVE  /\ font'[requests'[q].id] = None
                          /\ \A p \in Requests \ {q} : requests'[p].id # requests'[q].id
        BY DEF NewIdsAreFree, W!At
      <3>2. q # r /\ requests'[q] = requests[q] /\ requests[q].at = "create"
        BY <3>1
      <3>3. /\ requests[q].id \in FontIds /\ font[requests[q].id] = None
            /\ \A p \in Requests \ {q} : requests[p].id # requests[q].id
        BY <3>2 DEF FontsTypeOK, NewIdsAreFree, W!At
      <3>4. font'[requests[q].id] = None
        BY <1>9, <3>3 DEF FontsTypeOK
      <3>5. requests[q].id # None
        BY <3>3, FontsAssumption
      <3> QED BY <3>1, <3>2, <3>3, <3>4, <3>5
    <2>4. /\ requests'[r].at = "idle" /\ \A q \in Requests \ {r} : requests'[q] = requests[q]
          /\ UNCHANGED <<needs, saved>>
      BY <1>9, <2>1 DEF FontsTypeOK
    <2>5. NamedOnlySince'
      BY <2>4, FontsRequestLeaves
    <2> QED BY <2>2, <2>3, <2>5
  <1>10. ASSUME NEW r \in Requests, W!DeleteFile(r) \/ W!DeleteFont(r) PROVE FontsInv'
    <2> DEFINE f == requests[r].id
               less == [family |-> font[f].family, files |-> font[f].files \ {requests[r].style}]
    <2>1. /\ f \in FontIds /\ font[f] # None /\ W!Answer(r) /\ UNCHANGED <<needs, saved>>
          /\ \/ font' = [font EXCEPT ![f].files = @ \ {requests[r].style}]
             \/ font' = [font EXCEPT ![f] = None]
      BY <1>10 DEF W!DeleteFile, W!DeleteFont, W!Library
    <2>2. font[f] \in [family : Families, files : SUBSET Styles]
      BY <2>1 DEF FontsTypeOK
    <2> HIDE DEF f
    <2>3. /\ less \in [family : Families, files : SUBSET Styles]
          /\ [font[f] EXCEPT !.files = font[f].files \ {requests[r].style}] = less
      BY <2>2
    <2>4. font' = [font EXCEPT ![f] = less] \/ font' = [font EXCEPT ![f] = None]
      BY <2>1, <2>3 DEF FontsTypeOK
    <2> HIDE DEF less
    <2> QED BY <1>9, <2>1, <2>3, <2>4
  <1>11. ASSUME NEW r \in Requests, W!Rollback(r) PROVE FontsInv'
    BY <1>11, FontsRequestEnds DEF W!Rollback
  <1>12. CASE UNCHANGED W!vars
    <2>1. UNCHANGED <<font, needs, requests, saved>>
      BY <1>12 DEF W!vars
    <2>2. FontsTypeOK'
      BY <2>1 DEF FontsTypeOK, W!At
    <2>3. NewIdsAreFree'
      BY <2>1 DEF NewIdsAreFree, W!At
    <2>4. NamedOnlySince'
      BY <2>1 DEF NamedOnlySince, NamesWhatGoes, W!At
    <2> QED BY <2>2, <2>3, <2>4
  <1> QED
    BY <1>1, <1>2, <1>3, <1>4, <1>5, <1>6, <1>7, <1>8, <1>9, <1>10, <1>11, <1>12
       DEF W!Next, W!ChangeLibrary

(* Only a request that has looked takes a font or a style away. *)
LEMMA FontsAreTaken == FontsInv /\ [W!Next]_(W!vars) => W!NamedFontsKept
  <1> SUFFICES ASSUME FontsInv, [W!Next]_(W!vars),
                      NEW f \in FontIds, NEW t \in FontUsers, NEW n \in needs[t], n.key = f,
                      \/ f \in W!Library /\ f \notin W!Library'
                      \/ \E style \in n.styles : W!Has(f, style) /\ ~W!Has(f, style)'
               PROVE  \E r \in Requests : requests[r].id = f /\ t \in saved[r] /\ requests'[r] = W!NoRequest
    BY DEF W!NamedFontsKept
  <1> USE FontsAssumption DEF FontsInv, W!Has, W!Library
  <1>1. /\ font'[f] # font[f] /\ font[f] # None
        /\ font'[f] # None => \E style \in n.styles :
             style \in font[f].files /\ style \notin font'[f].files
    OBVIOUS
  <1>2. ASSUME NEW r \in Requests, W!DeleteFile(r) PROVE requests[r].id = f /\ t \in saved[r] /\ requests'[r] = W!NoRequest
    <2>1. requests[r].id = f /\ requests[r].style \in n.styles
      <3>1. /\ font[requests[r].id] \in [family : Families, files : SUBSET Styles]
            /\ font' = [font EXCEPT ![requests[r].id].files = @ \ {requests[r].style}]
        BY <1>2 DEF W!DeleteFile, FontsTypeOK
      <3>2. requests[r].id = f
        BY <1>1, <3>1 DEF FontsTypeOK
      <3>3. font'[f] = [family |-> font[f].family, files |-> font[f].files \ {requests[r].style}]
        <4>1. [font[f] EXCEPT !.files = font[f].files \ {requests[r].style}]
                = [family |-> font[f].family, files |-> font[f].files \ {requests[r].style}]
          BY <3>1, <3>2
        <4> QED BY <3>1, <3>2, <4>1 DEF FontsTypeOK
      <3>4. font'[f].files = font[f].files \ {requests[r].style} /\ font'[f] # None
        BY <3>1, <3>2, <3>3
      <3> QED BY <1>1, <3>2, <3>4
    <2>2. W!At(r, "remove now") /\ requests' = [requests EXCEPT ![r] = W!NoRequest]
      BY <1>2 DEF W!DeleteFile, W!Answer
    <2> QED BY <2>1, <2>2 DEF FontsTypeOK, NamedOnlySince, NamesWhatGoes
  <1>3. ASSUME NEW r \in Requests, W!DeleteFont(r) PROVE requests[r].id = f /\ t \in saved[r] /\ requests'[r] = W!NoRequest
    <2>1. requests[r].id = f
      BY <1>3, <1>1 DEF W!DeleteFont, FontsTypeOK
    <2>2. W!At(r, "delete now") /\ requests' = [requests EXCEPT ![r] = W!NoRequest]
      BY <1>3 DEF W!DeleteFont, W!Answer
    <2> QED BY <2>1, <2>2 DEF FontsTypeOK, NamedOnlySince, NamesWhatGoes
  <1>4. ASSUME NEW r \in Requests, W!CommitCreate(r) PROVE FALSE
    <2>1. requests[r].id # f
      BY <1>4 DEF W!CommitCreate, NewIdsAreFree
    <2> QED BY <1>1, <1>4, <2>1 DEF W!CommitCreate, FontsTypeOK
  <1>5. ASSUME NEW g \in FontIds, NEW family \in Families, W!Update(g, family) PROVE FALSE
    <2>1. /\ font[g] \in [family : Families, files : SUBSET Styles] /\ W!Update(g, family)
          /\ \A h \in FontIds \ {g} : font'[h] = font[h]
      BY <1>5 DEF W!Update, FontsTypeOK
    <2> DEFINE new == [family |-> family, files |-> font[g].files]
    <2>2. new \in [family : Families, files : SUBSET Styles] /\ [font[g] EXCEPT !.family = family] = new
      BY <2>1
    <2>3. font'[g] = new /\ new # None
      BY <2>1, <2>2 DEF W!Update, FontsTypeOK
    <2>4. font'[g] # None /\ font[g].files \subseteq font'[g].files
      BY <2>1, <2>3
    <2> QED BY <1>1, <2>1, <2>4
  <1>6. ASSUME NEW g \in FontIds, NEW s \in Styles, W!PutFile(g, s) PROVE FALSE
    <2>1. /\ font[g] \in [family : Families, files : SUBSET Styles] /\ W!PutFile(g, s)
          /\ \A h \in FontIds \ {g} : font'[h] = font[h]
      BY <1>6 DEF W!PutFile, FontsTypeOK
    <2> DEFINE new == [family |-> font[g].family, files |-> font[g].files \union {s}]
    <2>2. new \in [family : Families, files : SUBSET Styles] /\ [font[g] EXCEPT !.files = font[g].files \union {s}] = new
      BY <2>1
    <2>3. font'[g] = new /\ new # None
      BY <2>1, <2>2 DEF W!PutFile, FontsTypeOK
    <2>4. font'[g] # None /\ font[g].files \subseteq font'[g].files
      BY <2>1, <2>3
    <2> QED BY <1>1, <2>1, <2>4
  <1>7. ASSUME UNCHANGED font PROVE FALSE
    BY <1>1, <1>7
  <1> QED
    BY <1>2, <1>3, <1>4, <1>5, <1>6, <1>7
       DEF W!Next, W!ChangeLibrary, W!SaveTemplate, W!BeginCreate, W!BeginRemoveFile, W!BeginDelete,
           W!CheckUse, W!Rollback, W!vars

LEMMA FontsStep ==
  part = "fonts" /\ [AllNext]_allVars => part' = "fonts" /\ [W!Next]_(W!vars)
  BY DEF AllNext, allVars, shared, fontsOwn, W!vars

(* RemoveFile and Delete look for uses on another connection than they delete *)
(* by: a font that a template names, and a style it lists, go only if the     *)
(* template was saved after the look.                                      *)
THEOREM NamedFontsAreThere == AllSpec => NamedFontsStay
  <1> DEFINE Kept == part = "fonts" => FontsInv
  <1>1. Kept /\ [AllNext]_allVars => Kept' /\ [part = "fonts" => W!NamedFontsKept]_allVars
    BY FontsStep, FontsNext, FontsAreTaken DEF AllNext, allVars
  <1>2. AllInit => Kept
    BY FontsInit DEF AllInit
  <1> QED BY <1>1, <1>2, PTL DEF AllSpec, NamedFontsStay
-----------------------------------------------------------------------------
(* Faces.  An owner's rows are changed by one request at a time; a request    *)
(* that enrols or detects has points of its own, which nobody else knows     *)
(* until their rows are committed.                                         *)

Steps == {"idle", "insert", "point", "commit enrolment", "clean up", "drop", "delete", "commit drop",
          "upsert", "commit detections"}
Enrolling == {"point", "commit enrolment"}
Removing == {"delete", "commit drop"}
Detecting == {"upsert", "commit detections"}
Dropping == {"drop"} \union Removing

FaceRequests(f, p) ==
  [at : Steps, by : F!Callers \union {None}, owner : Owners \union {None}, face : 0..f, count : Nat,
   photo : Photos \union {None}, points : SUBSET (1..p)]

FacesTypeOK ==
  /\ lastFace \in 0..MaxFaces /\ lastPoint \in Nat
  /\ face \in [F!FaceIds -> [owner : Owners \union {None}, count : Nat]]
  /\ \A f \in F!FaceIds : face[f].owner = None => face[f].count = 0
  /\ \A f \in F!FaceIds : face[f].owner # None => f <= lastFace
  /\ embedding \subseteq (1..lastPoint) \X F!FaceIds /\ IsFiniteSet(embedding)
  /\ \A x \in detections : x.point \in 1..lastPoint
  /\ requests \in [Requests -> FaceRequests(lastFace, lastPoint)]

RowsOfFaces == \A e \in embedding : face[e[2]].owner # None
OneFaceEach ==
  \A f, g \in F!FaceIds : face[f].owner # None /\ face[f].owner = face[g].owner => f = g
CountsAddUp ==
  \A f \in F!FaceIds : face[f].owner # None => face[f].count = Cardinality(F!PointsOf(f))

(* The face a request has read is its owner's or gone, the one it has locked  *)
(* its owner's, or new: then there is no other, and nobody knows of it.      *)
HeldFaces ==
  \A r \in Requests : LET at == requests[r].at  f == requests[r].face  o == requests[r].owner IN
    /\ at \in {"insert"} \union Enrolling \union Dropping => o \in Owners
    /\ at \in Enrolling \union Dropping => f # 0
    /\ at \in {"insert", "drop"} /\ f # 0 => face[f].owner \in {o, None}
    /\ at \in Removing => face[f].owner = o
    /\ at \in Enrolling => \/ face[f].owner = o
                           \/ face[f].owner = None /\ \A g \in F!FaceIds : face[g].owner # o

NewFaces ==
  \A r, q \in Requests :
    r # q /\ requests[r].at \in Enrolling /\ face[requests[r].face].owner = None =>
      requests[q].face # requests[r].face

LocksApart ==
  \A r, q \in Requests :
    r # q /\ requests[r].at \in Enrolling \union Removing /\ requests[q].at \in Enrolling \union Removing =>
      requests[r].owner # requests[q].owner

PointsApart ==
  /\ \A r \in Requests : requests[r].at \in Enrolling \union Detecting =>
       /\ \A q \in Requests \ {r} : requests[q].points \intersect requests[r].points = {}
       /\ \A e \in embedding : e[1] \notin requests[r].points
  /\ \A r \in Requests : requests[r].at \in Dropping =>
       \A e \in embedding : e[1] \in requests[r].points => e[2] = requests[r].face
  /\ \A d, e \in embedding : d[1] = e[1] => d = e
  /\ \A r \in Requests : requests[r].at \in Enrolling => \E n \in 1..lastPoint : requests[r].points = {n}

VectorsThere ==
  /\ \A e \in embedding : e \in enrollments \/ e[2] \in touched
  /\ \A r \in Requests : requests[r].at = "commit enrolment" =>
       requests[r].points \X {requests[r].face} \subseteq enrollments

Upserted(n) == \E x \in detections : x.point = n
DetectionsThere ==
  /\ \A d \in detection : \E x \in detections : x.point = d[1] /\ x.photo = d[2]
  /\ \A r \in Requests : requests[r].at \in Detecting =>
       \A x \in detections : x.point \in requests[r].points => x.photo = requests[r].photo
  /\ \A r \in Requests : requests[r].at = "upsert" => \E n \in requests[r].points : ~Upserted(n)
  /\ \A r \in Requests : requests[r].at = "commit detections" => \A n \in requests[r].points : Upserted(n)

OwnersInv == FacesTypeOK /\ RowsOfFaces /\ OneFaceEach /\ CountsAddUp /\ HeldFaces /\ NewFaces /\ LocksApart
FacesInv == OwnersInv /\ PointsApart /\ VectorsThere /\ DetectionsThere

LEMMA NobodyAsks == /\ \A f, p \in Nat : F!NoRequest \in FaceRequests(f, p)
                    /\ F!NoRequest.at = "idle" /\ F!NoRequest.by = None /\ F!NoRequest.owner = None
                    /\ F!NoRequest.face = 0 /\ F!NoRequest.count = 0 /\ F!NoRequest.photo = None
                    /\ F!NoRequest.points = {}
  BY DEF F!NoRequest, FaceRequests, Steps

LEMMA FacesInit == F!Init => FacesInv
  <1> SUFFICES ASSUME F!Init PROVE FacesInv
    OBVIOUS
  <1>1. FacesTypeOK
    BY FacesAssumption, NobodyAsks, FS_EmptySet DEF F!Init, F!NoFace, FacesTypeOK
  <1>2. RowsOfFaces /\ OneFaceEach /\ CountsAddUp
    BY DEF F!Init, F!NoFace, RowsOfFaces, OneFaceEach, CountsAddUp
  <1>3. HeldFaces /\ NewFaces /\ LocksApart
    BY NobodyAsks DEF F!Init, HeldFaces, NewFaces, LocksApart, Enrolling, Removing, Dropping
  <1>4. PointsApart /\ VectorsThere /\ DetectionsThere
    BY NobodyAsks DEF F!Init, PointsApart, VectorsThere, DetectionsThere, Enrolling, Removing, Dropping,
                      Detecting
  <1> QED BY <1>1, <1>2, <1>3, <1>4 DEF FacesInv, OwnersInv

(* A request goes on, and no row of a face changes: what it has to know by then. *)
KnowsItsFace(r, new) ==
  LET at == new.at  f == new.face  o == new.owner IN
  /\ at \in {"insert"} \union Enrolling \union Dropping => o \in Owners
  /\ at \in Enrolling \union Dropping => f # 0
  /\ at \in {"insert", "drop"} /\ f # 0 => face[f].owner \in {o, None}
  /\ at \in Removing => face[f].owner = o
  /\ at \in Enrolling =>
       \/ requests[r].at \in Enrolling /\ f = requests[r].face /\ o = requests[r].owner
       \/ face[f].owner = o
       \/ f > lastFace /\ \A g \in F!FaceIds : face[g].owner # o
  /\ at \in Enrolling \union Removing =>
       \A q \in Requests \ {r} : requests[q].at \in Enrolling \union Removing => requests[q].owner # o
  /\ f = requests[r].face \/ f = 0 \/ f > lastFace \/ face[f].owner # None

KnowsItsPoints(r, new) ==
  /\ new.at \in Enrolling \union Detecting =>
       \/ requests[r].at \in Enrolling \union Detecting /\ new.points = requests[r].points
       \/ \A n \in new.points : n > lastPoint
  /\ new.at \in Dropping => \A e \in embedding : e[1] \in new.points => e[2] = new.face
  /\ \/ new.points \subseteq requests[r].points
     \/ \A n \in new.points : \E e \in embedding : e[1] = n
     \/ \A n \in new.points : n > lastPoint
  /\ new.at \in Enrolling => \E n \in 1..lastPoint' : new.points = {n}

LEMMA RequestMoves ==
  ASSUME FacesInv, NEW r \in Requests, NEW new \in FaceRequests(lastFace', lastPoint'),
         requests' = [requests EXCEPT ![r] = new], UNCHANGED <<face, embedding>>,
         lastFace' \in lastFace..MaxFaces, lastPoint' \in Nat, lastPoint \in 0..lastPoint',
         \A x \in detections' : x.point \in 1..lastPoint',
         KnowsItsFace(r, new), KnowsItsPoints(r, new)
  PROVE  OwnersInv' /\ PointsApart'
  <1> USE DEF FacesInv, OwnersInv
  <1>1. requests'[r] = new /\ \A q \in Requests \ {r} : requests'[q] = requests[q]
    BY DEF FacesTypeOK
  <1>2. FaceRequests(lastFace, lastPoint) \subseteq FaceRequests(lastFace', lastPoint')
    BY DEF FacesTypeOK, FaceRequests
  <1>3. FacesTypeOK'
    <2>1. requests' \in [Requests -> FaceRequests(lastFace', lastPoint')]
      BY <1>2 DEF FacesTypeOK
    <2>2. lastFace' \in 0..MaxFaces /\ lastFace <= lastFace' /\ lastFace \in Nat /\ lastFace' \in Nat
      BY FacesAssumption DEF FacesTypeOK
    <2>3. \A f \in F!FaceIds : face'[f].owner # None => f <= lastFace'
      BY <2>2, FacesAssumption DEF FacesTypeOK, F!FaceIds
    <2>4. embedding' \subseteq (1..lastPoint') \X F!FaceIds
      <3>1. 1..lastPoint \subseteq 1..lastPoint'
        BY DEF FacesTypeOK
      <3> QED BY <3>1 DEF FacesTypeOK
    <2> QED BY <2>1, <2>2, <2>3, <2>4 DEF FacesTypeOK
  <1>4. RowsOfFaces' /\ OneFaceEach' /\ CountsAddUp'
    BY DEF RowsOfFaces, OneFaceEach, CountsAddUp, F!PointsOf
  <1>5. /\ \A q \in Requests : /\ requests[q].face \in 0..lastFace
                              /\ requests[q].points \subseteq 1..lastPoint
        /\ new.face \in 0..lastFace'
        /\ \A f \in F!FaceIds : face[f].owner # None => f <= lastFace
        /\ \A e \in embedding : e[1] \in 1..lastPoint
        /\ lastFace \in Nat /\ lastPoint \in Nat
    BY FacesAssumption DEF FacesTypeOK, FaceRequests
  <1>6. new.face > lastFace => new.face \in F!FaceIds /\ face[new.face].owner = None
    BY <1>5, FacesAssumption DEF F!FaceIds
  <1>7. HeldFaces'
    BY <1>1, <1>6 DEF HeldFaces, KnowsItsFace
  <1>8. NewFaces'
    <2>1. ASSUME NEW p \in Requests, NEW q \in Requests, p # q, requests'[p].at \in Enrolling,
                 face[requests'[p].face].owner = None
          PROVE  requests'[q].face # requests'[p].face
      <3>0. \A x \in Requests : requests[x].at \in Enrolling =>
              requests[x].face # 0 /\ requests[x].owner # None
        BY FacesAssumption DEF HeldFaces
      <3>1. CASE p = r
        <4>1. new.face # 0 /\ new.owner # None /\ requests'[q] = requests[q] /\ new.at \in Enrolling
          BY <1>1, <2>1, <3>1, FacesAssumption DEF KnowsItsFace
        <4>2. CASE requests[r].at \in Enrolling /\ new.face = requests[r].face
          BY <1>1, <2>1, <3>1, <4>1, <4>2 DEF NewFaces
        <4>3. CASE new.face > lastFace
          BY <1>1, <1>5, <2>1, <3>1, <4>1, <4>3
        <4> QED BY <1>1, <2>1, <3>1, <4>1, <4>2, <4>3 DEF KnowsItsFace
      <3>2. CASE q = r
        <4>1. requests'[p] = requests[p] /\ requests[p].at \in Enrolling
              /\ face[requests[p].face].owner = None /\ requests[p].face # 0
          BY <1>1, <2>1, <3>0, <3>2
        <4>2. CASE new.face = requests[r].face
          BY <1>1, <2>1, <3>2, <4>1, <4>2 DEF NewFaces
        <4>3. CASE new.face > lastFace
          BY <1>1, <1>5, <3>2, <4>1, <4>3
        <4>4. CASE new.face = 0 \/ face[new.face].owner # None
          BY <1>1, <3>2, <4>1, <4>4
        <4> QED BY <4>2, <4>3, <4>4 DEF KnowsItsFace
      <3>3. CASE p # r /\ q # r
        BY <1>1, <2>1, <3>3 DEF NewFaces
      <3> QED BY <3>1, <3>2, <3>3
    <2> QED BY <2>1 DEF NewFaces
  <1>9. LocksApart'
    BY <1>1 DEF LocksApart, KnowsItsFace
  <1>10. PointsApart'
    <2>1. ASSUME NEW q \in Requests, requests'[q].at \in Enrolling \union Detecting
          PROVE  /\ \A p \in Requests \ {q} : requests'[p].points \intersect requests'[q].points = {}
                 /\ \A e \in embedding : e[1] \notin requests'[q].points
      <3>1. CASE q = r
        BY <1>1, <1>5, <2>1, <3>1 DEF PointsApart, KnowsItsPoints
      <3>2. CASE q # r
        BY <1>1, <1>5, <2>1, <3>2 DEF PointsApart, KnowsItsPoints
      <3> QED BY <3>1, <3>2
    <2>2. ASSUME NEW q \in Requests, requests'[q].at \in Dropping
          PROVE  \A e \in embedding : e[1] \in requests'[q].points => e[2] = requests'[q].face
      BY <1>1, <2>2 DEF PointsApart, KnowsItsPoints
    <2>3. ASSUME NEW q \in Requests, requests'[q].at \in Enrolling
          PROVE  \E n \in 1..lastPoint' : requests'[q].points = {n}
      BY <1>1, <1>5, <2>3 DEF PointsApart, KnowsItsPoints
    <2> QED BY <2>1, <2>2, <2>3 DEF PointsApart
  <1> QED BY <1>3, <1>4, <1>7, <1>8, <1>9, <1>10

(* The same of vectors, when no row changes. *)
KnowsItsVectors(r, new) ==
  /\ new.at = "commit enrolment" => new.points \X {new.face} \subseteq enrollments'
  /\ new.at \in Detecting => \A x \in detections' : x.point \in new.points => x.photo = new.photo
  /\ new.at = "upsert" => \E n \in new.points : ~Upserted(n)'
  /\ new.at = "commit detections" => \A n \in new.points : Upserted(n)'

LEMMA VectorsMove ==
  ASSUME FacesInv, NEW r \in Requests, NEW new,
         requests' = [requests EXCEPT ![r] = new], UNCHANGED <<embedding, detection>>,
         touched \subseteq touched',
         \A e \in enrollments \ enrollments' :
           /\ e \in embedding => e[2] \in touched'
           /\ \A q \in Requests \ {r} : requests[q].at = "commit enrolment" => e[1] \notin requests[q].points,
         detections \subseteq detections',
         \A x \in detections' \ detections, q \in Requests \ {r} :
           requests[q].at \in Detecting => x.point \notin requests[q].points,
         KnowsItsVectors(r, new)
  PROVE  VectorsThere' /\ DetectionsThere'
  <1> USE DEF FacesInv, OwnersInv
  <1>1. requests'[r] = new /\ \A q \in Requests \ {r} : requests'[q] = requests[q]
    BY DEF FacesTypeOK
  <1>2. \A e \in embedding : e \in enrollments' \/ e[2] \in touched'
    BY DEF VectorsThere
  <1>3. ASSUME NEW q \in Requests, requests'[q].at = "commit enrolment"
        PROVE  requests'[q].points \X {requests'[q].face} \subseteq enrollments'
    <2>1. CASE q = r
      BY <1>1, <1>3, <2>1 DEF KnowsItsVectors
    <2>2. CASE q # r
      <3> SUFFICES ASSUME NEW e \in requests[q].points \X {requests[q].face} PROVE e \in enrollments'
        BY <1>1, <2>2
      <3>1. e \in enrollments /\ e[1] \in requests[q].points /\ requests[q].at = "commit enrolment"
        BY <1>1, <1>3, <2>2 DEF VectorsThere
      <3> QED BY <2>2, <3>1
    <2> QED BY <2>1, <2>2
  <1>4. VectorsThere'
    BY <1>2, <1>3 DEF VectorsThere
  <1>5. \A d \in detection : \E x \in detections' : x.point = d[1] /\ x.photo = d[2]
    BY DEF DetectionsThere
  <1>6. ASSUME NEW q \in Requests, requests'[q].at \in Detecting
        PROVE  \A x \in detections' : x.point \in requests'[q].points => x.photo = requests'[q].photo
    <2>1. CASE q = r
      BY <1>1, <1>6, <2>1 DEF KnowsItsVectors
    <2>2. CASE q # r
      <3>1. requests'[q] = requests[q] /\ requests[q].at \in Detecting
        BY <1>1, <1>6, <2>2
      <3>2. \A x \in detections : x.point \in requests[q].points => x.photo = requests[q].photo
        BY <3>1 DEF DetectionsThere
      <3>3. \A x \in detections' \ detections : x.point \notin requests[q].points
        BY <2>2, <3>1
      <3> QED BY <3>1, <3>2, <3>3
    <2> QED BY <2>1, <2>2
  <1>7. ASSUME NEW q \in Requests, requests'[q].at = "upsert"
        PROVE  \E n \in requests'[q].points : ~Upserted(n)'
    <2>1. CASE q = r
      BY <1>1, <1>7, <2>1 DEF KnowsItsVectors
    <2>2. CASE q # r
      <3>1. requests'[q] = requests[q] /\ requests[q].at = "upsert"
        BY <1>1, <1>7, <2>2
      <3>2. PICK n \in requests[q].points : ~Upserted(n)
        BY <3>1 DEF DetectionsThere
      <3>3. \A x \in detections' \ detections : x.point # n
        BY <2>2, <3>1, <3>2 DEF Detecting
      <3> QED BY <3>1, <3>2, <3>3 DEF Upserted
    <2> QED BY <2>1, <2>2
  <1>8. ASSUME NEW q \in Requests, requests'[q].at = "commit detections"
        PROVE  \A n \in requests'[q].points : Upserted(n)'
    <2>1. CASE q = r
      BY <1>1, <1>8, <2>1 DEF KnowsItsVectors
    <2>2. CASE q # r
      BY <1>1, <1>8, <2>2 DEF DetectionsThere, Upserted
    <2> QED BY <2>1, <2>2
  <1>9. DetectionsThere'
    BY <1>5, <1>6, <1>7, <1>8 DEF DetectionsThere
  <1> QED BY <1>4, <1>9

LEMMA FaceNumbers ==
  ASSUME FacesInv
  PROVE  /\ lastFace \in Nat /\ lastFace \in lastFace..MaxFaces /\ MaxFaces \in Nat
         /\ lastPoint \in Nat /\ lastPoint \in 0..lastPoint
         /\ \A x \in detections : x.point \in 1..lastPoint
         /\ \A r \in Requests : /\ requests[r] \in FaceRequests(lastFace, lastPoint)
                               /\ requests[r].face \in 0..lastFace
                               /\ requests[r].points \subseteq 1..lastPoint
         /\ \A e \in embedding : e[1] \in 1..lastPoint /\ e[2] \in F!FaceIds
         /\ \A f \in F!FaceIds : face[f].owner # None => f <= lastFace
  BY FacesAssumption DEF FacesInv, OwnersInv, FacesTypeOK, FaceRequests

LEMMA AtStep ==
  ASSUME NEW f, NEW p, NEW q \in FaceRequests(f, p), NEW step
  PROVE  [q EXCEPT !.at = step] =
           [at |-> step, by |-> q.by, owner |-> q.owner, face |-> q.face, count |-> q.count,
            photo |-> q.photo, points |-> q.points]
  BY DEF FaceRequests

LEMMA AsksToEnrol ==
  ASSUME NEW o, NEW f, NEW c
  PROVE  [F!NoRequest EXCEPT !.at = "insert", !.owner = o, !.face = f, !.count = c] =
           [at |-> "insert", by |-> None, owner |-> o, face |-> f, count |-> c, photo |-> None, points |-> {}]
  <1> DEFINE q == F!NoRequest
             new == [q EXCEPT !.at = "insert", !.owner = o, !.face = f, !.count = c]
  <1>1. q \in FaceRequests(0, 0)
    BY NobodyAsks
  <1>2. q.by = None /\ q.owner = None /\ q.face = 0 /\ q.count = 0 /\ q.photo = None /\ q.points = {}
    BY NobodyAsks
  <1> HIDE DEF q
  <1>3. new \in [at : {"insert"}, by : {q.by}, owner : {o}, face : {f}, count : {c}, photo : {q.photo}, points : {q.points}]
    BY <1>1 DEF FaceRequests
  <1> HIDE DEF new
  <1>4. new = [at |-> "insert", by |-> None, owner |-> o, face |-> f, count |-> c, photo |-> None, points |-> {}]
    BY <1>2, <1>3
  <1> QED BY <1>4 DEF new, q

LEMMA AsksToDetect ==
  ASSUME NEW p, NEW x
  PROVE  [F!NoRequest EXCEPT !.at = "upsert", !.photo = p, !.points = x] =
           [at |-> "upsert", by |-> None, owner |-> None, face |-> 0, count |-> 0, photo |-> p, points |-> x]
  <1> DEFINE q == F!NoRequest
             new == [q EXCEPT !.at = "upsert", !.photo = p, !.points = x]
  <1>1. q \in FaceRequests(0, 0)
    BY NobodyAsks
  <1>2. q.by = None /\ q.owner = None /\ q.face = 0 /\ q.count = 0 /\ q.photo = None /\ q.points = {}
    BY NobodyAsks
  <1> HIDE DEF q
  <1>3. new \in [at : {"upsert"}, by : {q.by}, owner : {q.owner}, face : {q.face}, count : {q.count}, photo : {p}, points : {x}]
    BY <1>1 DEF FaceRequests
  <1> HIDE DEF new
  <1>4. new = [at |-> "upsert", by |-> None, owner |-> None, face |-> 0, count |-> 0, photo |-> p, points |-> x]
    BY <1>2, <1>3
  <1> QED BY <1>4 DEF new, q

LEMMA HasImageToDelete ==
         [F!NoRequest EXCEPT !.at = "clean up"] =
           [at |-> "clean up", by |-> None, owner |-> None, face |-> 0, count |-> 0, photo |-> None, points |-> {}]
  <1> DEFINE q == F!NoRequest
             new == [q EXCEPT !.at = "clean up"]
  <1>1. q \in FaceRequests(0, 0)
    BY NobodyAsks
  <1>2. q.by = None /\ q.owner = None /\ q.face = 0 /\ q.count = 0 /\ q.photo = None /\ q.points = {}
    BY NobodyAsks
  <1> HIDE DEF q
  <1>3. new \in [at : {"clean up"}, by : {q.by}, owner : {q.owner}, face : {q.face}, count : {q.count}, photo : {q.photo}, points : {q.points}]
    BY <1>1 DEF FaceRequests
  <1> HIDE DEF new
  <1>4. new = [at |-> "clean up", by |-> None, owner |-> None, face |-> 0, count |-> 0, photo |-> None, points |-> {}]
    BY <1>2, <1>3
  <1> QED BY <1>4 DEF new, q

LEMMA GetsPoint ==
  ASSUME NEW f, NEW p, NEW q \in FaceRequests(f, p), NEW step, NEW x, NEW g
  PROVE  [q EXCEPT !.at = step, !.points = x, !.face = g] =
           [at |-> step, by |-> q.by, owner |-> q.owner, face |-> g,
            count |-> q.count, photo |-> q.photo, points |-> x]
  <1> DEFINE new == [q EXCEPT !.at = step, !.points = x, !.face = g]
  <1>1. new \in [at : {step}, by : {q.by}, owner : {q.owner}, face : {g},
               count : {q.count}, photo : {q.photo}, points : {x}]
    BY DEF FaceRequests
  <1> HIDE DEF new
  <1>2. new = [at |-> step, by |-> q.by, owner |-> q.owner, face |-> g,
               count |-> q.count, photo |-> q.photo, points |-> x]
    BY <1>1
  <1> QED BY <1>2 DEF new

(* The request r at its next step. *)
OnTo(r, step) ==
  [at |-> step, by |-> requests[r].by, owner |-> requests[r].owner, face |-> requests[r].face,
   count |-> requests[r].count, photo |-> requests[r].photo, points |-> requests[r].points]

LEMMA GoesOn ==
  ASSUME FacesInv, NEW r \in Requests, NEW step \in Steps
  PROVE  /\ OnTo(r, step) \in FaceRequests(lastFace, lastPoint)
         /\ F!Goto(r, step) => requests' = [requests EXCEPT ![r] = OnTo(r, step)]
  <1>1. /\ requests[r] \in FaceRequests(lastFace, lastPoint)
        /\ requests \in [Requests -> FaceRequests(lastFace, lastPoint)]
    BY FaceNumbers DEF FacesInv, OwnersInv, FacesTypeOK
  <1>2. [requests[r] EXCEPT !.at = step] = OnTo(r, step)
    BY <1>1, AtStep, Zenon DEF OnTo
  <1>3. OnTo(r, step) \in FaceRequests(lastFace, lastPoint)
    BY <1>1 DEF FaceRequests, OnTo
  <1> QED BY <1>1, <1>2, <1>3 DEF F!Goto

LEMMA OnToIsSame ==
  \A r, step :
    /\ OnTo(r, step).at = step /\ OnTo(r, step).owner = requests[r].owner
    /\ OnTo(r, step).face = requests[r].face /\ OnTo(r, step).photo = requests[r].photo
    /\ OnTo(r, step).points = requests[r].points
  BY DEF OnTo

(* A request goes on, or ends, and no row changes. *)
LEMMA FacesMove ==
  ASSUME FacesInv, NEW r \in Requests, NEW new \in FaceRequests(lastFace, lastPoint),
         requests' = [requests EXCEPT ![r] = new],
         UNCHANGED <<face, embedding, detection, lastFace, lastPoint>>,
         touched \subseteq touched',
         \A e \in enrollments \ enrollments' :
           /\ e \in embedding => e[2] \in touched'
           /\ \A q \in Requests \ {r} : requests[q].at = "commit enrolment" => e[1] \notin requests[q].points,
         detections \subseteq detections',
         \A x \in detections' \ detections : x.point \in 1..lastPoint,
         \A x \in detections' \ detections, q \in Requests \ {r} :
           requests[q].at \in Detecting => x.point \notin requests[q].points,
         KnowsItsFace(r, new), KnowsItsPoints(r, new), KnowsItsVectors(r, new)
  PROVE  FacesInv'
  <1>1. /\ lastFace \in Nat /\ MaxFaces \in Nat /\ lastFace \in lastFace..MaxFaces
        /\ lastPoint \in Nat /\ lastPoint \in 0..lastPoint
        /\ \A x \in detections : x.point \in 1..lastPoint
    BY FaceNumbers
  <1>2. lastFace' = lastFace /\ lastPoint' = lastPoint
    OBVIOUS
  <1>3. FaceRequests(lastFace', lastPoint') = FaceRequests(lastFace, lastPoint)
    BY <1>2
  <1>4. lastFace' \in lastFace..MaxFaces /\ lastPoint' \in Nat /\ lastPoint \in 0..lastPoint'
    BY <1>1, <1>2, Zenon
  <1>5. \A x \in detections' : x.point \in 1..lastPoint'
    BY <1>1, <1>2
  <1>6. new \in FaceRequests(lastFace', lastPoint')
    BY <1>3
  <1>7. OwnersInv' /\ PointsApart'
    BY <1>4, <1>5, <1>6, RequestMoves
  <1>8. VectorsThere' /\ DetectionsThere'
    BY VectorsMove
  <1> QED BY <1>7, <1>8 DEF FacesInv

EndKnows(r, new) ==
  /\ new.at \in {"idle", "clean up"} /\ new.face \in {0, requests[r].face}
  /\ new.points \subseteq requests[r].points

LEMMA EndKnowsAll ==
  ASSUME FacesInv, NEW r \in Requests, NEW new, EndKnows(r, new)
  PROVE  KnowsItsFace(r, new) /\ KnowsItsPoints(r, new) /\ KnowsItsVectors(r, new)
  BY DEF EndKnows, KnowsItsFace, KnowsItsPoints, KnowsItsVectors, Enrolling, Removing, Dropping, Detecting

LEMMA NobodyEnds ==
  ASSUME FacesInv, NEW r \in Requests
  PROVE  F!NoRequest \in FaceRequests(lastFace, lastPoint) /\ EndKnows(r, F!NoRequest)
  BY NobodyAsks, FaceNumbers DEF EndKnows

LEMMA FacesRollback ==
  ASSUME FacesInv, NEW r \in Requests, F!Rollback(r)
  PROVE  FacesInv'
  <1> DEFINE new == IF r \in images /\ requests[r].at # "clean up"
                    THEN [F!NoRequest EXCEPT !.at = "clean up"] ELSE F!NoRequest
  <1>1. /\ new \in FaceRequests(lastFace, lastPoint) /\ new.at \in {"idle", "clean up"}
        /\ new.face = 0 /\ new.points = {}
    <2> DEFINE asks == [F!NoRequest EXCEPT !.at = "clean up"]
    <2>1. lastFace \in Nat /\ lastPoint \in Nat
      BY FaceNumbers
    <2>2. asks \in FaceRequests(lastFace, lastPoint) /\ asks.at = "clean up" /\ asks.face = 0
          /\ asks.points = {}
      <3> DEFINE x == [at |-> "clean up", by |-> None, owner |-> None, face |-> 0, count |-> 0,
                       photo |-> None, points |-> {}]
      <3>1. asks = x
        BY HasImageToDelete
      <3>2. x \in FaceRequests(lastFace, lastPoint) /\ x.at = "clean up" /\ x.face = 0 /\ x.points = {}
        BY <2>1 DEF FaceRequests, Steps
      <3> HIDE DEF asks, x
      <3> QED BY <3>1, <3>2
    <2> HIDE DEF asks
    <2> QED BY <2>1, <2>2, NobodyAsks DEF asks
  <1>2. /\ requests' = [requests EXCEPT ![r] = new]
        /\ UNCHANGED <<face, embedding, detection, enrollments, detections, touched, lastFace, lastPoint>>
    BY DEF F!Rollback, F!rows, F!qdrant, F!ids
  <1> HIDE DEF new
  <1>3. KnowsItsFace(r, new) /\ KnowsItsPoints(r, new) /\ KnowsItsVectors(r, new)
    BY <1>1, EndKnowsAll DEF EndKnows
  <1> QED BY <1>1, <1>2, <1>3, FacesMove

LEMMA FacesCleanup ==
  ASSUME FacesInv, NEW r \in Requests, NEW deleted \in BOOLEAN, F!cleanup(r, deleted)
  PROVE  FacesInv'
  <1> DEFINE new == F!NoRequest
  <1>1. /\ requests' = [requests EXCEPT ![r] = new]
        /\ UNCHANGED <<face, embedding, detection, enrollments, detections, touched, lastFace, lastPoint>>
    BY DEF F!cleanup, F!rows, F!qdrant, F!ids
  <1>2. new \in FaceRequests(lastFace, lastPoint) /\ EndKnows(r, new)
    BY NobodyEnds
  <1> HIDE DEF new
  <1>3. KnowsItsFace(r, new) /\ KnowsItsPoints(r, new) /\ KnowsItsVectors(r, new)
    BY <1>2, EndKnowsAll
  <1> QED BY <1>1, <1>2, <1>3, FacesMove

(* Enrolment up to the commit. *)
LEMMA FacesEnroll ==
  ASSUME FacesInv, NEW r \in Requests, NEW o \in Owners, F!Enroll(r, o)
  PROVE  FacesInv'
  <1>1. PICK f \in IF F!FaceOf(o) = {} THEN {0} ELSE F!FaceOf(o) :
          requests' = [requests EXCEPT ![r] = [F!NoRequest EXCEPT !.at = "insert", !.owner = o,
                        !.face = f, !.count = IF f = 0 THEN 0 ELSE face[f].count]]
    BY DEF F!Enroll
  <1> DEFINE c == IF f = 0 THEN 0 ELSE face[f].count
             new == [at |-> "insert", by |-> None, owner |-> o, face |-> f, count |-> c,
                     photo |-> None, points |-> {}]
  <1>2. UNCHANGED <<face, embedding, detection, enrollments, detections, touched, lastFace, lastPoint>>
    BY DEF F!Enroll, F!rows, F!qdrant, F!ids
  <1>3. f # 0 => f \in F!FaceIds /\ face[f].owner = o /\ face[f].owner # None
    BY <1>1, FacesAssumption DEF F!FaceOf
  <1>4. f \in 0..lastFace /\ c \in Nat
    <2>1. face \in [F!FaceIds -> [owner : Owners \union {None}, count : Nat]]
      BY DEF FacesInv, OwnersInv, FacesTypeOK
    <2>2. CASE f = 0
      BY <2>2, FaceNumbers
    <2>3. CASE f # 0
      BY <1>3, <2>1, <2>3, FaceNumbers DEF F!FaceIds
    <2> QED BY <2>2, <2>3
  <1>5. requests' = [requests EXCEPT ![r] = new]
    <2> HIDE DEF c
    <2>1. requests' = [requests EXCEPT ![r] = [F!NoRequest EXCEPT !.at = "insert", !.owner = o,
                        !.face = f, !.count = c]]
      BY <1>1 DEF c
    <2> QED BY <2>1, AsksToEnrol
  <1>6. new \in FaceRequests(lastFace, lastPoint)
    BY <1>4 DEF FaceRequests, Steps
  <1>7. KnowsItsFace(r, new)
    BY <1>3 DEF KnowsItsFace, Enrolling, Dropping, Removing
  <1>8. KnowsItsPoints(r, new) /\ KnowsItsVectors(r, new)
    BY DEF KnowsItsPoints, KnowsItsVectors, Enrolling, Dropping, Removing, Detecting
  <1> HIDE DEF new
  <1> QED BY <1>2, <1>5, <1>6, <1>7, <1>8, FacesMove

LEMMA FacesInsert ==
  ASSUME FacesInv, NEW r \in Requests, F!InsertEmbedding(r)
  PROVE  FacesInv'
  <1> DEFINE q == requests[r]
             f == IF q.face = 0 THEN lastFace + 1 ELSE q.face
             new == [at |-> "point", by |-> q.by, owner |-> q.owner, face |-> f, count |-> q.count,
                     photo |-> q.photo, points |-> {lastPoint + 1}]
  <1>0. /\ q \in FaceRequests(lastFace, lastPoint) /\ q.face \in 0..lastFace
        /\ lastFace \in Nat /\ MaxFaces \in Nat /\ lastFace <= MaxFaces /\ lastPoint \in Nat
        /\ \A x \in detections : x.point \in 1..lastPoint
        /\ requests \in [Requests -> FaceRequests(lastFace, lastPoint)]
    BY FaceNumbers DEF FacesInv, OwnersInv, FacesTypeOK
  <1>1. /\ q.at = "insert" /\ ~F!Locked(q.owner)
        /\ IF q.face = 0 THEN F!FaceOf(q.owner) = {} /\ lastFace < MaxFaces
                         ELSE q.face \in F!FaceIds /\ face[q.face].owner # None
        /\ lastPoint' = lastPoint + 1
        /\ lastFace' = IF q.face = 0 THEN lastFace + 1 ELSE lastFace
        /\ UNCHANGED <<face, embedding, detection, enrollments, detections, touched>>
    BY DEF F!InsertEmbedding, F!At, F!Exists, F!rows, F!qdrant
  <1>2. requests' = [requests EXCEPT ![r] = new]
    <2>1. requests' = [requests EXCEPT ![r].at = "point", ![r].points = {lastPoint + 1}, ![r].face = f]
      BY DEF F!InsertEmbedding
    <2>2. [q EXCEPT !.at = "point", !.points = {lastPoint + 1}, !.face = f] = new
      <3> HIDE DEF q, f
      <3> QED BY <1>0, GetsPoint, Zenon
    <2> QED BY <1>0, <2>1, <2>2
  <1>3. lastPoint' \in Nat /\ lastPoint \in 0..lastPoint' /\ lastPoint + 1 \in 1..lastPoint'
        /\ \A x \in detections' : x.point \in 1..lastPoint'
    BY <1>0, <1>1
  <1>4. lastFace' \in lastFace..MaxFaces /\ f \in 0..lastFace' /\ f # 0
        /\ (f = q.face \/ f > lastFace)
    BY <1>0, <1>1
  <1>5. new \in FaceRequests(lastFace', lastPoint')
    BY <1>0, <1>3, <1>4 DEF FaceRequests, Steps
  <1>6. q.owner \in Owners /\ (q.face # 0 => face[q.face].owner \in {q.owner, None})
    BY <1>1 DEF FacesInv, OwnersInv, HeldFaces
  <1>7. \A p \in Requests : requests[p].at \in Enrolling \union Removing => requests[p].owner # q.owner
    BY <1>1 DEF F!Locked, Enrolling, Removing
  <1>8. \/ face[f].owner = q.owner
        \/ f > lastFace /\ \A g \in F!FaceIds : face[g].owner # q.owner
    BY <1>0, <1>1, <1>6 DEF F!FaceOf
  <1>9. KnowsItsFace(r, new)
    BY <1>4, <1>6, <1>7, <1>8 DEF KnowsItsFace, Enrolling, Dropping, Removing
  <1>10. KnowsItsPoints(r, new)
    <2>1. /\ new.at \in Enrolling /\ new.at \notin Dropping /\ new.points = {lastPoint + 1}
          /\ \A n \in new.points : n > lastPoint
      BY <1>0 DEF Enrolling, Dropping, Removing
    <2>2. \E n \in 1..lastPoint' : new.points = {n}
      BY <1>3
    <2> HIDE DEF new
    <2> QED BY <2>1, <2>2 DEF KnowsItsPoints
  <1>11. KnowsItsVectors(r, new)
    BY DEF KnowsItsVectors, Detecting
  <1> HIDE DEF new
  <1>12. OwnersInv' /\ PointsApart'
    BY <1>1, <1>2, <1>3, <1>4, <1>5, <1>9, <1>10, RequestMoves
  <1>13. VectorsThere' /\ DetectionsThere'
    BY <1>1, <1>2, <1>11, VectorsMove
  <1> QED BY <1>12, <1>13 DEF FacesInv

LEMMA FacesUpsert ==
  ASSUME FacesInv, NEW r \in Requests, NEW done \in BOOLEAN, NEW ok \in BOOLEAN,
         F!UpsertEnrollment(r, done, ok)
  PROVE  FacesInv'
  <1>1. /\ requests[r].at = "point" /\ (done \/ ~ok)
        /\ enrollments \subseteq enrollments'
        /\ done => requests[r].points \X {requests[r].face} \subseteq enrollments'
        /\ F!Goto(r, IF ok THEN "commit enrolment" ELSE "clean up")
        /\ UNCHANGED <<face, embedding, detection, detections, touched, lastFace, lastPoint>>
    BY DEF F!UpsertEnrollment, F!At, F!rows, F!ids
  <1> DEFINE step == IF ok THEN "commit enrolment" ELSE "clean up"
  <1>2. step \in Steps /\ F!Goto(r, step)
    BY <1>1 DEF Steps
  <1> DEFINE new == OnTo(r, step)
  <1>3. /\ new \in FaceRequests(lastFace, lastPoint) /\ requests' = [requests EXCEPT ![r] = new]
        /\ new.at = step
        /\ new.owner = requests[r].owner /\ new.face = requests[r].face
        /\ new.photo = requests[r].photo /\ new.points = requests[r].points
    BY <1>2, GoesOn, OnToIsSame
  <1> HIDE DEF new
  <1>4. CASE ok
    <2>1. KnowsItsFace(r, new)
      <3>1. new.at \in Enrolling /\ new.at \notin {"insert", "drop"} \union Removing
            /\ requests[r].at \in Enrolling
        BY <1>1, <1>3, <1>4 DEF Enrolling, Removing
      <3>2. requests[r].owner \in Owners /\ requests[r].face # 0
        BY <3>1 DEF FacesInv, OwnersInv, HeldFaces
      <3>3. \A q \in Requests \ {r} : requests[q].at \in Enrolling \union Removing =>
                                       requests[q].owner # requests[r].owner
        BY <3>1 DEF FacesInv, OwnersInv, LocksApart
      <3> QED BY <1>3, <3>1, <3>2, <3>3 DEF KnowsItsFace
    <2>2. KnowsItsPoints(r, new)
      BY <1>1, <1>3, <1>4 DEF FacesInv, PointsApart, KnowsItsPoints, Enrolling, Dropping, Removing,
                              Detecting
    <2>3. KnowsItsVectors(r, new)
      BY <1>1, <1>3, <1>4 DEF KnowsItsVectors, Detecting
    <2> QED BY <1>1, <1>3, <2>1, <2>2, <2>3, FacesMove
  <1>5. CASE ~ok
    <2>1. KnowsItsFace(r, new) /\ KnowsItsPoints(r, new) /\ KnowsItsVectors(r, new)
      BY <1>3, <1>5, EndKnowsAll DEF EndKnows
    <2> QED BY <1>1, <1>3, <2>1, FacesMove
  <1> QED BY <1>4, <1>5

(* Dropping up to the commit. *)
LEMMA FacesGetFace ==
  ASSUME FacesInv, NEW r \in Requests, NEW by \in F!Callers, NEW f \in F!FaceIds, F!GetFace(r, by, f)
  PROVE  FacesInv'
  <1>0. PICK o, points : o = face[f].owner /\ points = F!PointsOf(f)
    OBVIOUS
  <1> DEFINE new == [at |-> "drop", by |-> by, owner |-> o, face |-> f, count |-> 0,
                     photo |-> None, points |-> points]
  <1>1. /\ o # None
        /\ requests' = [requests EXCEPT ![r] = [F!NoRequest EXCEPT !.at = "drop", !.by = by,
                          !.owner = o, !.face = f, !.points = points]]
        /\ UNCHANGED <<face, embedding, detection, enrollments, detections, touched, lastFace, lastPoint>>
    BY <1>0 DEF F!GetFace, F!Exists, F!rows, F!qdrant, F!ids
  <1>2. requests' = [requests EXCEPT ![r] = new]
    <2>1. requests' = [requests EXCEPT ![r] = [F!NoRequest EXCEPT !.at = "drop", !.by = by,
                        !.owner = o, !.face = f, !.points = points]]
      BY <1>1
    <2> DEFINE q == F!NoRequest
               asks == [q EXCEPT !.at = "drop", !.by = by, !.owner = o, !.face = f, !.points = points]
    <2>2. q \in FaceRequests(0, 0) /\ q.count = 0 /\ q.photo = None
      BY NobodyAsks
    <2> HIDE DEF q
    <2>3. asks \in [at : {"drop"}, by : {by}, owner : {o}, face : {f}, count : {q.count},
                    photo : {q.photo}, points : {points}]
      BY <2>2 DEF FaceRequests
    <2> HIDE DEF asks
    <2>4. asks = new
      BY <2>2, <2>3
    <2> QED BY <2>1, <2>4 DEF asks, q
  <1>3. o \in Owners
    BY <1>0, <1>1 DEF FacesInv, OwnersInv, FacesTypeOK
  <1>4. f \in 0..lastFace /\ f # 0
    BY <1>0, <1>1, FaceNumbers, FacesAssumption DEF F!FaceIds
  <1>5. points \subseteq 1..lastPoint
    BY <1>0, FaceNumbers DEF F!PointsOf
  <1>6. new \in FaceRequests(lastFace, lastPoint)
    BY <1>3, <1>4, <1>5 DEF FaceRequests, Steps
  <1>7. KnowsItsFace(r, new)
    BY <1>0, <1>1, <1>3, <1>4 DEF KnowsItsFace, Enrolling, Dropping, Removing
  <1>8. /\ \A e \in embedding : e[1] \in points => e[2] = f
        /\ \A n \in points : \E e \in embedding : e[1] = n
    BY <1>0 DEF FacesInv, PointsApart, F!PointsOf
  <1>9. KnowsItsPoints(r, new)
    BY <1>8 DEF KnowsItsPoints, Enrolling, Dropping, Removing, Detecting
  <1>10. KnowsItsVectors(r, new)
    BY DEF KnowsItsVectors, Detecting
  <1> HIDE DEF new
  <1> QED BY <1>1, <1>2, <1>6, <1>7, <1>9, <1>10, FacesMove

LEMMA FacesDropFace ==
  ASSUME FacesInv, NEW r \in Requests, F!DropFace(r)
  PROVE  FacesInv'
  <1>1. /\ requests[r].at = "drop" /\ ~F!Locked(requests[r].owner) /\ face[requests[r].face].owner # None
        /\ F!Goto(r, "delete")
        /\ UNCHANGED <<face, embedding, detection, enrollments, detections, touched, lastFace, lastPoint>>
    BY DEF F!DropFace, F!At, F!Exists, F!rows, F!qdrant, F!ids
  <1>2. "delete" \in Steps
    BY DEF Steps
  <1> DEFINE new == OnTo(r, "delete")
  <1>3. /\ new \in FaceRequests(lastFace, lastPoint) /\ requests' = [requests EXCEPT ![r] = new]
        /\ new.at = "delete"
        /\ new.owner = requests[r].owner /\ new.face = requests[r].face
        /\ new.photo = requests[r].photo /\ new.points = requests[r].points
    BY <1>1, <1>2, GoesOn, OnToIsSame
  <1> HIDE DEF new
  <1>4. \A p \in Requests : requests[p].at \in Enrolling \union Removing => requests[p].owner # requests[r].owner
    BY <1>1 DEF F!Locked, Enrolling, Removing
  <1>5. /\ requests[r].owner \in Owners /\ requests[r].face # 0
        /\ face[requests[r].face].owner = requests[r].owner
    BY <1>1 DEF FacesInv, OwnersInv, HeldFaces, Dropping
  <1>6. KnowsItsFace(r, new)
    BY <1>3, <1>4, <1>5 DEF KnowsItsFace, Enrolling, Dropping, Removing
  <1>7. KnowsItsPoints(r, new)
    BY <1>1, <1>3 DEF FacesInv, PointsApart, KnowsItsPoints, Enrolling, Dropping, Removing, Detecting
  <1>8. KnowsItsVectors(r, new)
    BY <1>3 DEF KnowsItsVectors, Detecting
  <1> QED BY <1>1, <1>3, <1>6, <1>7, <1>8, FacesMove

LEMMA FacesDeletePoints ==
  ASSUME FacesInv, NEW r \in Requests, NEW done \in BOOLEAN, NEW ok \in BOOLEAN,
         F!DeletePoints(r, done, ok)
  PROVE  FacesInv'
  <1> DEFINE points == requests[r].points
  <1>1. /\ requests[r].at = "delete"
        /\ enrollments' = IF done THEN {e \in enrollments : e[1] \notin points} ELSE enrollments
        /\ touched' = IF done THEN touched \union {requests[r].face} ELSE touched
        /\ IF ok THEN F!Goto(r, "commit drop") ELSE requests' = [requests EXCEPT ![r] = F!NoRequest]
        /\ UNCHANGED <<face, embedding, detection, detections, lastFace, lastPoint>>
    BY DEF F!DeletePoints, F!At, F!rows, F!ids
  <1>2. \A e \in enrollments \ enrollments' : done /\ e[1] \in points
    BY <1>1
  <1>3. \A e \in embedding : e[1] \in points => e[2] = requests[r].face
    BY <1>1 DEF FacesInv, PointsApart, Dropping, Removing
  <1>4. \A e \in enrollments \ enrollments' :
          /\ e \in embedding => e[2] \in touched'
          /\ \A q \in Requests \ {r} : requests[q].at = "commit enrolment" => e[1] \notin requests[q].points
    <2> SUFFICES ASSUME NEW e \in enrollments \ enrollments'
                 PROVE  /\ e \in embedding => e[2] \in touched'
                        /\ \A q \in Requests \ {r} : requests[q].at = "commit enrolment" => e[1] \notin requests[q].points
      OBVIOUS
    <2>1. e \in embedding => e[2] \in touched'
      BY <1>1, <1>2, <1>3
    <2>2. ASSUME NEW q \in Requests \ {r}, requests[q].at = "commit enrolment" PROVE e[1] \notin requests[q].points
      <3>1. requests[r].points \intersect requests[q].points = {}
        BY <2>2 DEF FacesInv, PointsApart, Enrolling
      <3> QED BY <1>2, <3>1
    <2> QED BY <2>1, <2>2
  <1>5. touched \subseteq touched'
    BY <1>1
  <1>6. CASE ok
    <2>0. "commit drop" \in Steps
      BY DEF Steps
    <2>1. F!Goto(r, "commit drop")
      BY <1>1, <1>6
    <2> DEFINE new == OnTo(r, "commit drop")
    <2>2. /\ new \in FaceRequests(lastFace, lastPoint) /\ requests' = [requests EXCEPT ![r] = new]
          /\ new.at = "commit drop"
          /\ new.owner = requests[r].owner /\ new.face = requests[r].face
          /\ new.photo = requests[r].photo /\ new.points = requests[r].points
      BY <2>0, <2>1, GoesOn, OnToIsSame
    <2> HIDE DEF new
    <2>3. KnowsItsFace(r, new)
      <3>1. /\ requests[r].owner \in Owners /\ requests[r].face # 0
            /\ face[requests[r].face].owner = requests[r].owner
        BY <1>1 DEF FacesInv, OwnersInv, HeldFaces, Dropping, Removing
      <3>2. \A q \in Requests \ {r} : requests[q].at \in Enrolling \union Removing =>
                                       requests[q].owner # requests[r].owner
        BY <1>1 DEF FacesInv, OwnersInv, LocksApart, Removing
      <3>3. new.at \in Dropping \intersect Removing /\ new.at \notin {"insert", "drop"} \union Enrolling
        BY <2>2 DEF Dropping, Removing, Enrolling
      <3> QED BY <2>2, <3>1, <3>2, <3>3 DEF KnowsItsFace
    <2>4. KnowsItsPoints(r, new)
      BY <1>3, <2>2 DEF KnowsItsPoints, Enrolling, Dropping, Removing, Detecting
    <2>5. KnowsItsVectors(r, new)
      BY <2>2 DEF KnowsItsVectors, Detecting
    <2> QED BY <1>1, <1>4, <1>5, <2>2, <2>3, <2>4, <2>5, FacesMove
  <1>7. CASE ~ok
    <2> DEFINE new == F!NoRequest
    <2>1. requests' = [requests EXCEPT ![r] = new] /\ new \in FaceRequests(lastFace, lastPoint)
          /\ EndKnows(r, new)
      BY <1>1, <1>7, NobodyEnds
    <2> HIDE DEF new
    <2>2. KnowsItsFace(r, new) /\ KnowsItsPoints(r, new) /\ KnowsItsVectors(r, new)
      BY <2>1, EndKnowsAll
    <2> QED BY <1>1, <1>4, <1>5, <2>1, <2>2, FacesMove
  <1> QED BY <1>6, <1>7

(* Detection, and what is committed. *)
LEMMA FacesDetect ==
  ASSUME FacesInv, NEW r \in Requests, NEW p \in Photos, F!detectPhoto(r, p)
  PROVE  FacesInv'
  <1> DEFINE n == Cardinality(InPhoto[p])
             points == (lastPoint + 1)..lastPoint'
             new == [at |-> "upsert", by |-> None, owner |-> None, face |-> 0, count |-> 0,
                     photo |-> p, points |-> points]
  <1>1. /\ InPhoto[p] # {} /\ lastPoint' = lastPoint + n
        /\ requests' = [requests EXCEPT ![r] =
                         [F!NoRequest EXCEPT !.at = "upsert", !.photo = p, !.points = points]]
        /\ UNCHANGED <<face, embedding, detection, enrollments, detections, touched, lastFace>>
    BY FaceCardinality DEF F!detectPhoto, F!rows, F!qdrant
  <1>2. n \in Nat /\ n # 0
    BY <1>1, FacesAssumption, FS_CardinalityType, FS_EmptySet
  <1>3. /\ lastFace \in Nat /\ MaxFaces \in Nat /\ lastFace <= MaxFaces /\ lastPoint \in Nat
        /\ \A x \in detections : x.point \in 1..lastPoint
    BY FaceNumbers
  <1> HIDE DEF n
  <1>4. lastPoint' \in Nat /\ lastPoint + 1 <= lastPoint'
    BY <1>1, <1>2, <1>3
  <1>5. lastPoint \in 0..lastPoint' /\ lastPoint + 1 \in points /\ points \subseteq 1..lastPoint'
        /\ \A i \in points : i > lastPoint
    BY <1>3, <1>4
  <1>6. lastFace' \in lastFace..MaxFaces /\ lastFace' \in Nat
    BY <1>1, <1>3
  <1>7. \A x \in detections' : x.point \in 1..lastPoint' /\ x.point \notin points
    BY <1>1, <1>3, <1>4
  <1>8. requests' = [requests EXCEPT ![r] = new]
    <2>1. requests' = [requests EXCEPT ![r] =
                         [F!NoRequest EXCEPT !.at = "upsert", !.photo = p, !.points = points]]
      BY <1>1
    <2> HIDE DEF points
    <2> QED BY <2>1, AsksToDetect
  <1> HIDE DEF points
  <1>9. new \in FaceRequests(lastFace', lastPoint')
    BY <1>5, <1>6 DEF FaceRequests, Steps
  <1>10. KnowsItsFace(r, new)
    BY DEF KnowsItsFace, Enrolling, Dropping, Removing
  <1>11. KnowsItsPoints(r, new)
    BY <1>5 DEF KnowsItsPoints, Enrolling, Dropping, Removing, Detecting
  <1>12. KnowsItsVectors(r, new)
    BY <1>5, <1>7 DEF KnowsItsVectors, Detecting, Upserted
  <1> HIDE DEF new
  <1>13. OwnersInv' /\ PointsApart'
    BY <1>1, <1>4, <1>5, <1>6, <1>7, <1>8, <1>9, <1>10, <1>11, RequestMoves
  <1>14. VectorsThere' /\ DetectionsThere'
    BY <1>1, <1>8, <1>12, VectorsMove
  <1> QED BY <1>13, <1>14 DEF FacesInv

LEMMA FacesUpsertDetection ==
  ASSUME FacesInv, NEW r \in Requests, NEW done \in BOOLEAN, NEW ok \in BOOLEAN,
         F!UpsertDetection(r, done, ok)
  PROVE  FacesInv'
  <1> DEFINE points == requests[r].points
             upserted == {x \in detections : x.point \in points}
             left == points \ {x.point : x \in upserted}
             persons == InPhoto[requests[r].photo] \ {x.person : x \in upserted}
             n == CHOOSE i \in left : \A k \in left : i <= k
             one == [point |-> n, photo |-> requests[r].photo, person |-> CHOOSE x \in persons : TRUE]
  <1>1. /\ requests[r].at = "upsert" /\ (done \/ ~ok)
        /\ detections' = IF done THEN detections \union {one} ELSE detections
        /\ IF ~ok THEN requests' = [requests EXCEPT ![r] = F!NoRequest]
           ELSE IF Cardinality(left) = 1 THEN F!Goto(r, "commit detections") ELSE UNCHANGED requests
        /\ UNCHANGED <<face, embedding, detection, enrollments, touched, lastFace, lastPoint>>
    BY FaceCardinality DEF F!UpsertDetection, F!At, F!rows, F!ids
  <1>2. points \subseteq 1..lastPoint /\ lastPoint \in Nat /\ requests[r] \in FaceRequests(lastFace, lastPoint)
    BY FaceNumbers
  <1>3. \A i \in points : i \in left <=> ~Upserted(i)
    BY DEF Upserted
  <1>4. left # {} /\ left \subseteq points
    BY <1>1, <1>3 DEF FacesInv, DetectionsThere
  <1>5. left \subseteq Nat /\ IsFiniteSet(left)
    <2>1. IsFiniteSet(1..lastPoint)
      BY <1>2, FS_Interval
    <2>2. 1..lastPoint \subseteq Nat
      BY <1>2
    <2> HIDE DEF left
    <2> QED BY <1>2, <1>4, <2>1, <2>2, FS_Subset
  <1>6. n \in left
    <2> HIDE DEF left
    <2>1. \E i \in left : \A k \in left : i <= k
      BY <1>4, <1>5, LeastOne
    <2> QED BY <2>1
  <1>7. one.point = n /\ one.photo = requests[r].photo
    OBVIOUS
  <1> HIDE DEF one, n, persons, left, upserted
  <1>8. n \in points /\ n \in 1..lastPoint
    BY <1>2, <1>4, <1>6
  <1>9. detections \subseteq detections' /\ \A x \in detections' \ detections : x.point = n
    BY <1>1, <1>7
  <1>10. \A q \in Requests \ {r} : requests[q].at \in Detecting => n \notin requests[q].points
    BY <1>8 DEF FacesInv, PointsApart
  <1>11. \A x \in detections' : x.point \in points => x.photo = requests[r].photo
    BY <1>1, <1>7 DEF FacesInv, DetectionsThere, Detecting
  <1>12. \A e \in enrollments \ enrollments' : FALSE
    BY <1>1
  <1>13. /\ \A x \in detections' \ detections : x.point \in 1..lastPoint
         /\ \A x \in detections' \ detections, q \in Requests \ {r} :
               requests[q].at \in Detecting => x.point \notin requests[q].points
    BY <1>8, <1>9, <1>10
  <1>14. ok => \A i \in points : Upserted(i)' <=> Upserted(i) \/ i = n
    BY <1>1, <1>7 DEF Upserted
  <1>15. CASE ~ok
    <2> DEFINE new == F!NoRequest
    <2>1. requests' = [requests EXCEPT ![r] = new] /\ new \in FaceRequests(lastFace, lastPoint)
          /\ EndKnows(r, new)
      BY <1>1, <1>15, NobodyEnds
    <2> HIDE DEF new
    <2>2. KnowsItsFace(r, new) /\ KnowsItsPoints(r, new) /\ KnowsItsVectors(r, new)
      BY <2>1, EndKnowsAll
    <2> QED BY <1>1, <1>9, <1>12, <1>13, <2>1, <2>2, FacesMove
  <1>16. CASE ok /\ Cardinality(left) = 1
    <2> DEFINE new == OnTo(r, "commit detections")
    <2>0. "commit detections" \in Steps
      BY DEF Steps
    <2>1. F!Goto(r, "commit detections")
      BY <1>1, <1>16
    <2>2. /\ new \in FaceRequests(lastFace, lastPoint) /\ requests' = [requests EXCEPT ![r] = new]
          /\ new.at = "commit detections"
          /\ new.owner = requests[r].owner /\ new.face = requests[r].face
          /\ new.photo = requests[r].photo /\ new.points = points
      BY <2>0, <2>1, GoesOn, OnToIsSame
    <2> HIDE DEF new
    <2>3. left = {n}
      <3>1. PICK i : left = {i}
        BY <1>5, <1>16, FS_Singleton
      <3> QED BY <1>6, <3>1
    <2>4. \A i \in points : Upserted(i)'
      BY <1>3, <1>14, <1>16, <2>3
    <2>5. KnowsItsFace(r, new)
      BY <2>2 DEF KnowsItsFace, Enrolling, Dropping, Removing
    <2>6. KnowsItsPoints(r, new)
      BY <1>1, <2>2 DEF KnowsItsPoints, Enrolling, Dropping, Removing, Detecting
    <2>7. KnowsItsVectors(r, new)
      BY <1>11, <2>2, <2>4 DEF KnowsItsVectors, Detecting
    <2> QED BY <1>1, <1>9, <1>12, <1>13, <2>2, <2>5, <2>6, <2>7, FacesMove
  <1>17. CASE ok /\ Cardinality(left) # 1
    <2> DEFINE new == requests[r]
    <2>1. requests' = [requests EXCEPT ![r] = new]
      BY <1>1, <1>17 DEF FacesInv, OwnersInv, FacesTypeOK
    <2>2. \E i \in left : i # n
      <3>1. left # {n}
        BY <1>17, FS_Singleton
      <3> QED BY <1>6, <3>1
    <2>3. \E i \in points : ~Upserted(i)'
      BY <1>3, <1>4, <1>14, <1>17, <2>2
    <2>4. new.at = "upsert" /\ new.points = points /\ new.photo = requests[r].photo /\ new.face = requests[r].face
      BY <1>1
    <2>5. new \in FaceRequests(lastFace, lastPoint)
      BY <1>2
    <2> HIDE DEF new
    <2>6. KnowsItsFace(r, new)
      BY <2>4 DEF KnowsItsFace, Enrolling, Dropping, Removing
    <2>7. KnowsItsPoints(r, new)
      BY <1>1, <2>4 DEF KnowsItsPoints, Enrolling, Dropping, Removing, Detecting
    <2>8. KnowsItsVectors(r, new)
      BY <1>11, <2>3, <2>4 DEF KnowsItsVectors, Detecting
    <2> QED BY <1>1, <1>9, <1>12, <1>13, <2>1, <2>5, <2>6, <2>7, <2>8, FacesMove
  <1> QED BY <1>15, <1>16, <1>17

(* What is known of detections stays so when a request that is not one ends. *)
LEMMA DetectionsStay ==
  ASSUME FacesInv, NEW r \in Requests, UNCHANGED <<detection, detections>>,
         requests'[r].at \notin Detecting, \A q \in Requests \ {r} : requests'[q] = requests[q]
  PROVE  DetectionsThere'
  <1>1. ASSUME NEW q \in Requests, requests'[q].at \in Detecting
        PROVE  requests'[q] = requests[q]
    BY <1>1
  <1>2. \A q \in Requests : requests'[q].at \in {"upsert", "commit detections"} =>
          requests'[q].at \in Detecting
    BY DEF Detecting
  <1>3. detections' = detections /\ detection' = detection
    OBVIOUS
  <1>4. \A d \in detection' : \E x \in detections' : x.point = d[1] /\ x.photo = d[2]
    BY <1>3 DEF FacesInv, DetectionsThere
  <1>5. ASSUME NEW q \in Requests, requests'[q].at \in Detecting
        PROVE  \A x \in detections' : x.point \in requests'[q].points => x.photo = requests'[q].photo
    <2>1. \A x \in detections : x.point \in requests[q].points => x.photo = requests[q].photo
      BY <1>1, <1>5 DEF FacesInv, DetectionsThere
    <2> QED BY <1>1, <1>3, <1>5, <2>1
  <1>6. ASSUME NEW q \in Requests, requests'[q].at = "upsert"
        PROVE  \E m \in requests'[q].points : ~Upserted(m)'
    <2>1. requests'[q] = requests[q]
      BY <1>1, <1>2, <1>6
    <2>2. \E m \in requests[q].points : ~Upserted(m)
      BY <1>6, <2>1 DEF FacesInv, DetectionsThere
    <2> QED BY <1>3, <2>1, <2>2 DEF Upserted
  <1>7. ASSUME NEW q \in Requests, requests'[q].at = "commit detections"
        PROVE  \A m \in requests'[q].points : Upserted(m)'
    <2>1. requests'[q] = requests[q]
      BY <1>1, <1>2, <1>7
    <2>2. \A m \in requests[q].points : Upserted(m)
      BY <1>7, <2>1 DEF FacesInv, DetectionsThere
    <2> QED BY <1>3, <2>1, <2>2 DEF Upserted
  <1> QED BY <1>4, <1>5, <1>6, <1>7 DEF DetectionsThere

LEMMA FacesCommitEnrolment ==
  ASSUME FacesInv, NEW r \in Requests, F!CommitEnrolment(r)
  PROVE  FacesInv'
  <1> USE DEF FacesInv, OwnersInv
  <1>0. PICK f, o : f = requests[r].face /\ o = requests[r].owner
    OBVIOUS
  <1> DEFINE row == [owner |-> o, count |-> face[f].count + 1]
             new == OnTo(r, "clean up")
  <1>1. /\ requests[r].at = "commit enrolment" /\ F!Goto(r, "clean up")
        /\ face' = [face EXCEPT ![f] = row]
        /\ embedding' = embedding \union (requests[r].points \X {f})
        /\ UNCHANGED <<detection, enrollments, detections, touched, lastFace, lastPoint>>
    BY <1>0 DEF F!CommitEnrolment, F!IncrementEmbeddingCount, F!At, F!qdrant, F!ids
  <1>2. /\ new \in FaceRequests(lastFace, lastPoint) /\ requests' = [requests EXCEPT ![r] = new]
        /\ new.at = "clean up" /\ new.owner = o /\ new.face = f /\ new.points = requests[r].points
    <2>1. "clean up" \in Steps
      BY DEF Steps
    <2> QED BY <1>0, <1>1, <2>1, GoesOn, OnToIsSame
  <1> HIDE DEF new
  <1>3. requests'[r] = new /\ \A q \in Requests \ {r} : requests'[q] = requests[q]
    BY <1>2 DEF FacesTypeOK
  <1>4. f \in F!FaceIds /\ f <= lastFace /\ f # 0 /\ o \in Owners /\ o # None
    <2>1. f # 0 /\ o \in Owners
      BY <1>0, <1>1 DEF HeldFaces, Enrolling
    <2>2. f \in 0..lastFace /\ lastFace \in Nat /\ MaxFaces \in Nat /\ lastFace \in lastFace..MaxFaces
      BY <1>0, FaceNumbers
    <2> QED BY <2>1, <2>2, FacesAssumption DEF F!FaceIds
  <1>5. \/ face[f].owner = o
        \/ face[f].owner = None /\ \A g \in F!FaceIds : face[g].owner # o
    BY <1>0, <1>1 DEF HeldFaces, Enrolling
  <1>6. PICK n \in 1..lastPoint : requests[r].points = {n}
    BY <1>1 DEF PointsApart, Enrolling
  <1>7. /\ embedding' = embedding \union {<<n, f>>}
        /\ \A e \in embedding : e[1] # n
    <2>1. {n} \X {f} = {<<n, f>>}
      OBVIOUS
    <2>2. \A e \in embedding : e[1] \notin requests[r].points
      BY <1>1 DEF PointsApart, Enrolling
    <2> QED BY <1>1, <1>6, <2>1, <2>2
  <1>8. face \in [F!FaceIds -> [owner : Owners \union {None}, count : Nat]]
    BY DEF FacesTypeOK
  <1>9. row \in [owner : Owners \union {None}, count : Nat] /\ row.owner = o /\ row.count = face[f].count + 1
    BY <1>4, <1>8
  <1> HIDE DEF row
  <1>10. /\ face'[f] = row /\ \A g \in F!FaceIds \ {f} : face'[g] = face[g]
         /\ face' \in [F!FaceIds -> [owner : Owners \union {None}, count : Nat]]
    BY <1>1, <1>4, <1>8, <1>9
  <1>11. FacesTypeOK'
    <2>1. requests' \in [Requests -> FaceRequests(lastFace', lastPoint')]
      BY <1>1, <1>2 DEF FacesTypeOK
    <2>2. \A g \in F!FaceIds : (face'[g].owner = None => face'[g].count = 0)
                             /\ (face'[g].owner # None => g <= lastFace')
      BY <1>1, <1>4, <1>9, <1>10 DEF FacesTypeOK
    <2>3. embedding' \subseteq (1..lastPoint') \X F!FaceIds /\ IsFiniteSet(embedding')
      <3>1. IsFiniteSet(embedding')
        BY <1>7, FS_AddElement DEF FacesTypeOK
      <3>2. embedding' \subseteq (1..lastPoint') \X F!FaceIds
        <4>1. lastPoint' = lastPoint /\ <<n, f>> \in (1..lastPoint) \X F!FaceIds
          BY <1>1, <1>4, <1>6
        <4>2. embedding \subseteq (1..lastPoint) \X F!FaceIds
          BY DEF FacesTypeOK
        <4> QED BY <1>7, <4>1, <4>2
      <3> QED BY <3>1, <3>2
    <2> QED BY <1>1, <1>10, <2>1, <2>2, <2>3 DEF FacesTypeOK
  <1>12. RowsOfFaces'
    BY <1>4, <1>7, <1>9, <1>10, FaceNumbers DEF RowsOfFaces
  <1>13. OneFaceEach'
    BY <1>4, <1>5, <1>9, <1>10 DEF OneFaceEach
  <1>14. CountsAddUp'
    <2> SUFFICES ASSUME NEW g \in F!FaceIds, face'[g].owner # None
                 PROVE  face'[g].count = Cardinality(F!PointsOf(g)')
      BY DEF CountsAddUp
    <2>1. CASE g # f
      <3>1. F!PointsOf(g)' = F!PointsOf(g)
        BY <1>7, <2>1 DEF F!PointsOf
      <3> QED BY <1>10, <2>1, <3>1 DEF CountsAddUp
    <2>2. CASE g = f
      <3>1. F!PointsOf(f)' = F!PointsOf(f) \union {n} /\ n \notin F!PointsOf(f)
        <4>1. ASSUME NEW i PROVE i \in F!PointsOf(f)' <=> i \in F!PointsOf(f) \/ i = n
          <5>1. i \in F!PointsOf(f)' <=> \E e \in embedding' : e[2] = f /\ e[1] = i
            BY DEF F!PointsOf
          <5>2. i \in F!PointsOf(f) <=> \E e \in embedding : e[2] = f /\ e[1] = i
            BY DEF F!PointsOf
          <5>3. <<n, f>>[1] = n /\ <<n, f>>[2] = f
            OBVIOUS
          <5> QED BY <1>7, <5>1, <5>2, <5>3
        <4>2. n \notin F!PointsOf(f)
          BY <1>7 DEF F!PointsOf
        <4> QED BY <4>1, <4>2
      <3>2. IsFiniteSet(F!PointsOf(f))
        <4>1. IsFiniteSet(1..lastPoint)
          BY FaceNumbers, FS_Interval
        <4>2. F!PointsOf(f) \subseteq 1..lastPoint
          BY FaceNumbers DEF F!PointsOf
        <4> QED BY <4>1, <4>2, FS_Subset
      <3>3. Cardinality(F!PointsOf(f)') = Cardinality(F!PointsOf(f)) + 1
        BY <3>1, <3>2, FS_AddElement
      <3>4. face[f].count = Cardinality(F!PointsOf(f))
        <4>1. CASE face[f].owner = None
          <5>1. F!PointsOf(f) = {}
            BY <4>1 DEF RowsOfFaces, F!PointsOf
          <5> QED BY <1>4, <4>1, <5>1, FS_EmptySet DEF FacesTypeOK
        <4>2. CASE face[f].owner # None
          BY <1>4, <4>2 DEF CountsAddUp
        <4> QED BY <4>1, <4>2
      <3>5. face'[f].count = face[f].count + 1
        BY <1>9, <1>10
      <3>6. F!PointsOf(g)' = F!PointsOf(f)'
        BY <2>2
      <3> QED BY <2>2, <3>3, <3>4, <3>5, <3>6
    <2> QED BY <2>1, <2>2
  (* The faces other requests know. *)
  <1>15. ASSUME NEW q \in Requests \ {r}
         PROVE  /\ face[f].owner = None => requests[q].face # f
                /\ requests[q].at \in Enrolling \union Removing => requests[q].owner # o
    BY <1>0, <1>1, <1>5 DEF NewFaces, LocksApart, Enrolling
  <1>16. HeldFaces'
    <2> SUFFICES ASSUME NEW q \in Requests
                 PROVE  /\ requests'[q].at \in {"insert"} \union Enrolling \union Dropping =>
                             requests'[q].owner \in Owners
                        /\ requests'[q].at \in Enrolling \union Dropping => requests'[q].face # 0
                        /\ requests'[q].at \in {"insert", "drop"} /\ requests'[q].face # 0 =>
                             face'[requests'[q].face].owner \in {requests'[q].owner, None}
                        /\ requests'[q].at \in Removing => face'[requests'[q].face].owner = requests'[q].owner
                        /\ requests'[q].at \in Enrolling =>
                             \/ face'[requests'[q].face].owner = requests'[q].owner
                             \/ /\ face'[requests'[q].face].owner = None
                                /\ \A g \in F!FaceIds : face'[g].owner # requests'[q].owner
      BY DEF HeldFaces
    <2>1. CASE q = r
      BY <1>2, <1>3, <2>1 DEF Enrolling, Removing, Dropping
    <2>2. CASE q # r
      <3>1. requests'[q] = requests[q] /\ requests[q].face \in 0..lastFace
        BY <1>3, <2>2, FaceNumbers
      <3>2. requests[q].face = 0 \/ requests[q].face \in F!FaceIds
        BY <3>1, FaceNumbers DEF F!FaceIds
      <3>3. requests[q].face \in F!FaceIds => face'[requests[q].face].owner = face[requests[q].face].owner
        BY <1>5, <1>9, <1>10, <1>15, <2>2
      <3>4. requests[q].at \in Enrolling => \A g \in F!FaceIds : face'[g].owner = requests[q].owner
                                                              => face[g].owner = requests[q].owner
        BY <1>9, <1>10, <1>15, <2>2
      <3>5. requests[q].at \in Enrolling \union Dropping => requests[q].face # 0
        BY DEF HeldFaces
      <3> DEFINE at == requests[q].at  h == requests[q].face  w == requests[q].owner
      <3>6. /\ at \in {"insert"} \union Enrolling \union Dropping => w \in Owners
            /\ at \in {"insert", "drop"} /\ h # 0 => face[h].owner \in {w, None}
            /\ at \in Removing => face[h].owner = w
            /\ at \in Enrolling => \/ face[h].owner = w
                                   \/ face[h].owner = None /\ \A g \in F!FaceIds : face[g].owner # w
        BY DEF HeldFaces
      <3>7. Removing \subseteq Dropping
        BY DEF Dropping
      <3>8. h # 0 => face'[h].owner = face[h].owner
        BY <3>2, <3>3
      <3>9. /\ at \in Enrolling \union Dropping => h # 0
            /\ at \in Enrolling => \A g \in F!FaceIds : face'[g].owner = w => face[g].owner = w
        BY <3>4, <3>5
      <3>10. requests'[q].at = at /\ requests'[q].face = h /\ requests'[q].owner = w
        BY <3>1
      <3> HIDE DEF at, h, w
      <3>11. CASE at \in Enrolling
        <4>1. \/ face'[h].owner = w
              \/ face'[h].owner = None /\ \A g \in F!FaceIds : face'[g].owner # w
          BY <3>6, <3>8, <3>9, <3>11
        <4>2. at \notin {"insert", "drop"} /\ at \notin Removing
          BY <3>11 DEF Enrolling, Removing
        <4>3. w \in Owners /\ h # 0
          BY <3>6, <3>9, <3>11
        <4>4. /\ requests'[q].owner \in Owners /\ requests'[q].face # 0
              /\ requests'[q].at \notin {"insert", "drop"} /\ requests'[q].at \notin Removing
          BY <3>10, <4>2, <4>3
        <4>5. \/ face'[requests'[q].face].owner = requests'[q].owner
              \/ /\ face'[requests'[q].face].owner = None
                 /\ \A g \in F!FaceIds : face'[g].owner # requests'[q].owner
          BY <3>10, <4>1
        <4> QED BY <4>4, <4>5
      <3>12. CASE at \notin Enrolling
        BY <3>6, <3>7, <3>8, <3>9, <3>10, <3>12
      <3> QED BY <3>11, <3>12
    <2> QED BY <2>1, <2>2
  <1>17. NewFaces'
    <2> SUFFICES ASSUME NEW p \in Requests, NEW q \in Requests, p # q, requests'[p].at \in Enrolling,
                        face'[requests'[p].face].owner = None
                 PROVE  requests'[q].face # requests'[p].face
      BY DEF NewFaces
    <2>1. p # r /\ requests'[p] = requests[p] /\ requests[p].face \in F!FaceIds
      <3>1. p # r /\ requests'[p] = requests[p]
        BY <1>2, <1>3 DEF Enrolling
      <3>2. requests[p].face # 0
        BY <3>1 DEF HeldFaces
      <3>3. requests[p].face \in 0..lastFace /\ lastFace \in Nat /\ MaxFaces \in Nat
            /\ lastFace \in lastFace..MaxFaces
        BY FaceNumbers
      <3> QED BY <3>1, <3>2, <3>3 DEF F!FaceIds
    <2>2. requests[p].face # f /\ face[requests[p].face].owner = None
      BY <1>4, <1>9, <1>10, <2>1
    <2>3. CASE q = r
      <3>1. requests'[q].face = f
        BY <1>2, <1>3, <2>3
      <3> QED BY <2>1, <2>2, <3>1
    <2>4. CASE q # r
      <3>1. requests'[q] = requests[q]
        BY <1>3, <2>4
      <3>2. requests[p].at \in Enrolling
        BY <2>1
      <3> QED BY <2>1, <2>2, <3>1, <3>2 DEF NewFaces
    <2> QED BY <2>3, <2>4
  <1>18. LocksApart'
    <2>1. \A q \in Requests : requests'[q].at \in Enrolling \union Removing =>
                              q # r /\ requests'[q] = requests[q]
      BY <1>2, <1>3 DEF Enrolling, Removing
    <2>2. LocksApart
      OBVIOUS
    <2> HIDE DEF FacesInv, OwnersInv
    <2> QED BY <2>1, <2>2 DEF LocksApart
  <1>19. PointsApart'
    <2>1. ASSUME NEW q \in Requests, requests'[q].at \in Enrolling \union Detecting
          PROVE  /\ \A p \in Requests \ {q} : requests'[p].points \intersect requests'[q].points = {}
                 /\ \A e \in embedding' : e[1] \notin requests'[q].points
      <3>1. q # r /\ requests'[q] = requests[q]
        BY <1>2, <1>3, <2>1 DEF Enrolling, Detecting
      <3>2. requests[r].points \intersect requests[q].points = {}
        BY <2>1, <3>1 DEF PointsApart
      <3>3. \A p \in Requests \ {q} : requests'[p].points = requests[p].points
        BY <1>2, <1>3
      <3> QED BY <1>6, <1>7, <2>1, <3>1, <3>2, <3>3 DEF PointsApart
    <2>2. ASSUME NEW q \in Requests, requests'[q].at \in Dropping
          PROVE  \A e \in embedding' : e[1] \in requests'[q].points => e[2] = requests'[q].face
      <3>1. q # r /\ requests'[q] = requests[q]
        BY <1>2, <1>3, <2>2 DEF Dropping, Removing
      <3>2. n \notin requests[q].points
        BY <1>1, <1>6, <3>1 DEF PointsApart, Enrolling
      <3> QED BY <1>7, <2>2, <3>1, <3>2 DEF PointsApart
    <2>3. \A d, e \in embedding' : d[1] = e[1] => d = e
      BY <1>7 DEF PointsApart
    <2>4. ASSUME NEW q \in Requests, requests'[q].at \in Enrolling
          PROVE  \E m \in 1..lastPoint' : requests'[q].points = {m}
      <3>1. q # r /\ requests'[q] = requests[q] /\ requests[q].at \in Enrolling
        BY <1>2, <1>3, <2>4 DEF Enrolling
      <3>2. \E m \in 1..lastPoint : requests[q].points = {m}
        BY <3>1 DEF PointsApart
      <3>3. lastPoint' = lastPoint
        BY <1>1
      <3> QED BY <3>1, <3>2, <3>3
    <2> QED BY <2>1, <2>2, <2>3, <2>4 DEF PointsApart
  <1>20. VectorsThere'
    <2>1. <<n, f>> \in enrollments
      BY <1>0, <1>1, <1>6 DEF VectorsThere
    <2>2. \A e \in embedding' : e \in enrollments' \/ e[2] \in touched'
      BY <1>1, <1>7, <2>1 DEF VectorsThere
    <2>3. ASSUME NEW q \in Requests, requests'[q].at = "commit enrolment"
          PROVE  requests'[q].points \X {requests'[q].face} \subseteq enrollments'
      BY <1>1, <1>2, <1>3, <2>3 DEF VectorsThere
    <2> QED BY <2>2, <2>3 DEF VectorsThere
  <1>21. DetectionsThere'
    BY <1>1, <1>2, <1>3, DetectionsStay DEF Detecting
  <1> QED BY <1>11, <1>12, <1>13, <1>14, <1>16, <1>17, <1>18, <1>19, <1>20, <1>21

LEMMA FacesCommitDrop ==
  ASSUME FacesInv, NEW r \in Requests, F!CommitDrop(r)
  PROVE  FacesInv'
  <1> USE DEF FacesInv, OwnersInv
  <1>0. PICK f, o, none : f = requests[r].face /\ o = requests[r].owner /\ none = F!NoFace
    OBVIOUS
  <1> DEFINE new == F!NoRequest
  <1>1. /\ requests[r].at = "commit drop" /\ requests' = [requests EXCEPT ![r] = new]
        /\ face' = [face EXCEPT ![f] = none]
        /\ embedding' = {e \in embedding : e[2] # f}
        /\ UNCHANGED <<detection, enrollments, detections, touched, lastFace, lastPoint>>
    BY <1>0 DEF F!CommitDrop, F!At, F!qdrant, F!ids
  <1>2. /\ new \in FaceRequests(lastFace, lastPoint)
        /\ new.at = "idle" /\ new.face = 0 /\ new.points = {}
    BY NobodyEnds, NobodyAsks
  <1> HIDE DEF new
  <1>3. requests'[r] = new /\ \A q \in Requests \ {r} : requests'[q] = requests[q]
    BY <1>1 DEF FacesTypeOK
  <1>4. f # 0 /\ o \in Owners /\ face[f].owner = o /\ o # None
    BY <1>0, <1>1, FacesAssumption DEF HeldFaces, Removing, Dropping
  <1>5. f \in F!FaceIds /\ f <= lastFace
    <2>1. f \in 0..lastFace /\ lastFace \in Nat /\ MaxFaces \in Nat /\ lastFace \in lastFace..MaxFaces
      BY <1>0, FaceNumbers
    <2> QED BY <1>4, <2>1 DEF F!FaceIds
  <1>6. face \in [F!FaceIds -> [owner : Owners \union {None}, count : Nat]]
    BY DEF FacesTypeOK
  <1>7. none \in [owner : Owners \union {None}, count : Nat] /\ none.owner = None /\ none.count = 0
    BY <1>0 DEF F!NoFace
  <1>8. /\ face'[f] = none /\ \A g \in F!FaceIds \ {f} : face'[g] = face[g]
        /\ face' \in [F!FaceIds -> [owner : Owners \union {None}, count : Nat]]
    BY <1>1, <1>5, <1>6, <1>7
  <1>9. FacesTypeOK'
    <2>1. requests' \in [Requests -> FaceRequests(lastFace', lastPoint')]
      BY <1>1, <1>2 DEF FacesTypeOK
    <2>2. \A g \in F!FaceIds : (face'[g].owner = None => face'[g].count = 0)
                             /\ (face'[g].owner # None => g <= lastFace')
      BY <1>1, <1>5, <1>7, <1>8 DEF FacesTypeOK
    <2>3. embedding' \subseteq (1..lastPoint') \X F!FaceIds
      BY <1>1 DEF FacesTypeOK
    <2>4. IsFiniteSet(embedding')
      BY <1>1, FS_Subset DEF FacesTypeOK
    <2> QED BY <1>1, <1>8, <2>1, <2>2, <2>3, <2>4 DEF FacesTypeOK
  <1>10. RowsOfFaces'
    BY <1>1, <1>8, FaceNumbers DEF RowsOfFaces
  <1>11. OneFaceEach'
    BY <1>7, <1>8 DEF OneFaceEach
  <1>12. CountsAddUp'
    <2> SUFFICES ASSUME NEW g \in F!FaceIds, face'[g].owner # None
                 PROVE  face'[g].count = Cardinality(F!PointsOf(g)')
      BY DEF CountsAddUp
    <2>1. g # f
      BY <1>7, <1>8
    <2>2. F!PointsOf(g)' = F!PointsOf(g)
      BY <1>1, <2>1 DEF F!PointsOf
    <2> QED BY <1>8, <2>1, <2>2 DEF CountsAddUp
  <1>13. ASSUME NEW q \in Requests \ {r}, requests[q].at \in Enrolling \union Removing
         PROVE  requests[q].owner # o
    BY <1>0, <1>1, <1>13 DEF LocksApart, Removing
  <1>14. ASSUME NEW q \in Requests \ {r}, requests[q].at \in Enrolling \union Removing
         PROVE  requests[q].face # f
    <2>1. face[requests[q].face].owner \in {requests[q].owner, None}
      BY <1>14 DEF HeldFaces
    <2> QED BY <1>4, <1>13, <1>14, <2>1
  <1>15. HeldFaces'
    <2> SUFFICES ASSUME NEW q \in Requests
                 PROVE  /\ requests'[q].at \in {"insert"} \union Enrolling \union Dropping =>
                             requests'[q].owner \in Owners
                        /\ requests'[q].at \in Enrolling \union Dropping => requests'[q].face # 0
                        /\ requests'[q].at \in {"insert", "drop"} /\ requests'[q].face # 0 =>
                             face'[requests'[q].face].owner \in {requests'[q].owner, None}
                        /\ requests'[q].at \in Removing => face'[requests'[q].face].owner = requests'[q].owner
                        /\ requests'[q].at \in Enrolling =>
                             \/ face'[requests'[q].face].owner = requests'[q].owner
                             \/ /\ face'[requests'[q].face].owner = None
                                /\ \A g \in F!FaceIds : face'[g].owner # requests'[q].owner
      BY DEF HeldFaces
    <2>1. CASE q = r
      BY <1>2, <1>3, <2>1 DEF Enrolling, Removing, Dropping
    <2>2. CASE q # r
      <3> DEFINE at == requests[q].at  h == requests[q].face  w == requests[q].owner
      <3>1. requests'[q].at = at /\ requests'[q].face = h /\ requests'[q].owner = w
        BY <1>3, <2>2
      <3>2. h = 0 \/ h \in F!FaceIds
        <4>1. h \in 0..lastFace /\ lastFace \in Nat /\ MaxFaces \in Nat /\ lastFace \in lastFace..MaxFaces
          BY FaceNumbers
        <4> QED BY <4>1 DEF F!FaceIds
      <3>3. /\ at \in {"insert"} \union Enrolling \union Dropping => w \in Owners
            /\ at \in Enrolling \union Dropping => h # 0
            /\ at \in {"insert", "drop"} /\ h # 0 => face[h].owner \in {w, None}
            /\ at \in Removing => face[h].owner = w
            /\ at \in Enrolling => \/ face[h].owner = w
                                   \/ face[h].owner = None /\ \A g \in F!FaceIds : face[g].owner # w
        BY DEF HeldFaces
      <3>4. at \in Enrolling \union Removing => h # f
        BY <1>14, <2>2
      <3>5. Removing \subseteq Dropping
        BY DEF Dropping
      <3>6. h # 0 => face'[h].owner = IF h = f THEN None ELSE face[h].owner
        BY <1>7, <1>8, <3>2
      <3>7. w \in Owners => w # None
        BY FacesAssumption
      <3> HIDE DEF at, h, w
      <3>8. CASE at \in Enrolling
        <4>1. h # 0 /\ h # f /\ w \in Owners /\ w # None /\ face'[h].owner = face[h].owner
          BY <3>3, <3>4, <3>6, <3>7, <3>8
        <4>2. \A g \in F!FaceIds : face'[g].owner = w => face[g].owner = w
          BY <1>7, <1>8, <4>1
        <4>3. \/ face'[h].owner = w
              \/ face'[h].owner = None /\ \A g \in F!FaceIds : face'[g].owner # w
          BY <3>3, <3>8, <4>1, <4>2
        <4>4. at \notin {"insert", "drop"} /\ at \notin Removing
          BY <3>8 DEF Enrolling, Removing
        <4>5. /\ requests'[q].owner \in Owners /\ requests'[q].face # 0
              /\ requests'[q].at \notin {"insert", "drop"} /\ requests'[q].at \notin Removing
          BY <3>1, <4>1, <4>4
        <4>6. \/ face'[requests'[q].face].owner = requests'[q].owner
              \/ /\ face'[requests'[q].face].owner = None
                 /\ \A g \in F!FaceIds : face'[g].owner # requests'[q].owner
          BY <3>1, <4>3
        <4> QED BY <4>5, <4>6
      <3>9. CASE at \notin Enrolling
        BY <3>1, <3>3, <3>4, <3>5, <3>6, <3>9
      <3> QED BY <3>8, <3>9
    <2> QED BY <2>1, <2>2
  <1>16. NewFaces'
    <2> SUFFICES ASSUME NEW p \in Requests, NEW q \in Requests, p # q, requests'[p].at \in Enrolling,
                        face'[requests'[p].face].owner = None
                 PROVE  requests'[q].face # requests'[p].face
      BY DEF NewFaces
    <2>1. p # r /\ requests'[p] = requests[p]
      BY <1>2, <1>3 DEF Enrolling
    <2>2. requests[p].face # 0 /\ requests[p].face # f
      BY <1>14, <2>1 DEF HeldFaces
    <2>3. requests[p].face \in F!FaceIds
      <3>1. requests[p].face \in 0..lastFace /\ lastFace \in Nat /\ MaxFaces \in Nat
            /\ lastFace \in lastFace..MaxFaces
        BY FaceNumbers
      <3> QED BY <2>2, <3>1 DEF F!FaceIds
    <2>4. face[requests[p].face].owner = None
      BY <1>8, <2>1, <2>2, <2>3
    <2>5. CASE q = r
      BY <1>2, <1>3, <2>1, <2>2, <2>5
    <2>6. CASE q # r
      BY <1>3, <2>1, <2>4, <2>6 DEF NewFaces
    <2> QED BY <2>5, <2>6
  <1>17. LocksApart'
    BY <1>2, <1>3 DEF LocksApart, Enrolling, Removing
  <1>18. PointsApart'
    <2>1. ASSUME NEW q \in Requests, requests'[q].at \in Enrolling \union Detecting
          PROVE  /\ \A p \in Requests \ {q} : requests'[p].points \intersect requests'[q].points = {}
                 /\ \A e \in embedding' : e[1] \notin requests'[q].points
      <3>1. q # r /\ requests'[q] = requests[q]
        BY <1>2, <1>3, <2>1 DEF Enrolling, Detecting
      <3>2. \A p \in Requests \ {q} : requests'[p].points \subseteq requests[p].points
        BY <1>2, <1>3
      <3> QED BY <1>1, <2>1, <3>1, <3>2 DEF PointsApart
    <2>2. ASSUME NEW q \in Requests, requests'[q].at \in Dropping
          PROVE  \A e \in embedding' : e[1] \in requests'[q].points => e[2] = requests'[q].face
      <3>1. q # r /\ requests'[q] = requests[q]
        BY <1>2, <1>3, <2>2 DEF Dropping, Removing
      <3> QED BY <1>1, <2>2, <3>1 DEF PointsApart
    <2>3. \A d, e \in embedding' : d[1] = e[1] => d = e
      BY <1>1 DEF PointsApart
    <2>4. ASSUME NEW q \in Requests, requests'[q].at \in Enrolling
          PROVE  \E m \in 1..lastPoint' : requests'[q].points = {m}
      <3>1. q # r /\ requests'[q] = requests[q]
        BY <1>2, <1>3, <2>4 DEF Enrolling
      <3> QED BY <1>1, <2>4, <3>1 DEF PointsApart
    <2> QED BY <2>1, <2>2, <2>3, <2>4 DEF PointsApart
  <1>19. VectorsThere'
    <2>1. \A e \in embedding' : e \in enrollments' \/ e[2] \in touched'
      BY <1>1 DEF VectorsThere
    <2>2. ASSUME NEW q \in Requests, requests'[q].at = "commit enrolment"
          PROVE  requests'[q].points \X {requests'[q].face} \subseteq enrollments'
      <3>1. requests'[q] = requests[q]
        BY <1>2, <1>3, <2>2
      <3>2. requests[q].points \X {requests[q].face} \subseteq enrollments
        BY <2>2, <3>1 DEF VectorsThere
      <3> QED BY <1>1, <3>1, <3>2
    <2> QED BY <2>1, <2>2 DEF VectorsThere
  <1>20. DetectionsThere'
    BY <1>1, <1>2, <1>3, DetectionsStay DEF Detecting
  <1> QED BY <1>9, <1>10, <1>11, <1>12, <1>15, <1>16, <1>17, <1>18, <1>19, <1>20

LEMMA FacesCommitDetections ==
  ASSUME FacesInv, NEW r \in Requests, F!CommitDetections(r)
  PROVE  FacesInv'
  <1> DEFINE new == F!NoRequest
  <1>1. /\ requests[r].at = "commit detections" /\ requests' = [requests EXCEPT ![r] = new]
        /\ detection' = detection \union (requests[r].points \X {requests[r].photo})
        /\ UNCHANGED <<face, embedding, enrollments, detections, touched, lastFace, lastPoint>>
    BY DEF F!CommitDetections, F!At, F!qdrant, F!ids
  <1>2. new \in FaceRequests(lastFace, lastPoint) /\ EndKnows(r, new)
    BY NobodyEnds
  <1>3. new.at = "idle"
    BY NobodyAsks
  <1> HIDE DEF new
  <1>4. KnowsItsFace(r, new) /\ KnowsItsPoints(r, new)
    BY <1>2, EndKnowsAll
  <1>5. /\ lastFace \in Nat /\ MaxFaces \in Nat /\ lastFace \in lastFace..MaxFaces
        /\ lastPoint \in Nat /\ lastPoint \in 0..lastPoint
        /\ \A x \in detections : x.point \in 1..lastPoint
    BY FaceNumbers
  <1>6. lastFace' \in lastFace..MaxFaces /\ lastPoint' \in Nat /\ lastPoint \in 0..lastPoint'
    BY <1>1, <1>5, Zenon
  <1>7. \A x \in detections' : x.point \in 1..lastPoint'
    BY <1>1, <1>5
  <1>8. new \in FaceRequests(lastFace', lastPoint')
    BY <1>1, <1>2
  <1>9. OwnersInv' /\ PointsApart'
    BY <1>1, <1>4, <1>6, <1>7, <1>8, RequestMoves
  <1>10. requests'[r] = new /\ \A q \in Requests \ {r} : requests'[q] = requests[q]
    BY <1>1 DEF FacesInv, OwnersInv, FacesTypeOK
  <1>11. VectorsThere'
    BY <1>1, <1>3, <1>10 DEF FacesInv, VectorsThere
  <1>12. DetectionsThere'
    <2>1. ASSUME NEW d \in detection' PROVE \E x \in detections' : x.point = d[1] /\ x.photo = d[2]
      <3>1. CASE d \in detection
        BY <1>1, <3>1 DEF FacesInv, DetectionsThere
      <3>2. CASE d \in requests[r].points \X {requests[r].photo}
        <4>1. d[1] \in requests[r].points /\ d[2] = requests[r].photo
          BY <3>2
        <4>2. PICK x \in detections : x.point = d[1]
          BY <1>1, <4>1 DEF FacesInv, DetectionsThere, Upserted
        <4>3. x.photo = requests[r].photo
          BY <1>1, <4>1, <4>2 DEF FacesInv, DetectionsThere, Detecting
        <4> QED BY <1>1, <4>1, <4>2, <4>3
      <3> QED BY <1>1, <3>1, <3>2
    <2>2. ASSUME NEW q \in Requests, requests'[q].at \in Detecting
          PROVE  q # r /\ requests'[q] = requests[q]
      BY <1>3, <1>10, <2>2 DEF Detecting
    <2>3. ASSUME NEW q \in Requests, requests'[q].at \in Detecting
          PROVE  \A x \in detections' : x.point \in requests'[q].points => x.photo = requests'[q].photo
      <3>1. requests'[q] = requests[q] /\ requests[q].at \in Detecting
        BY <2>2, <2>3
      <3>2. \A x \in detections : x.point \in requests[q].points => x.photo = requests[q].photo
        BY <3>1 DEF FacesInv, DetectionsThere
      <3> QED BY <1>1, <3>1, <3>2
    <2>4. ASSUME NEW q \in Requests, requests'[q].at = "upsert"
          PROVE  \E n \in requests'[q].points : ~Upserted(n)'
      BY <1>1, <2>2, <2>4 DEF FacesInv, DetectionsThere, Upserted, Detecting
    <2>5. ASSUME NEW q \in Requests, requests'[q].at = "commit detections"
          PROVE  \A n \in requests'[q].points : Upserted(n)'
      BY <1>1, <2>2, <2>5 DEF FacesInv, DetectionsThere, Upserted, Detecting
    <2> QED BY <2>1, <2>3, <2>4, <2>5 DEF DetectionsThere
  <1> QED BY <1>9, <1>11, <1>12 DEF FacesInv

(* A step that changes no more than which photos there are, and their rows.  *)
LEMMA FacesRest ==
  ASSUME FacesInv, detection' \subseteq detection,
         UNCHANGED <<face, embedding, enrollments, detections, lastFace, lastPoint, requests, touched>>
  PROVE  FacesInv'
  <1>1. FacesTypeOK'
    BY DEF FacesInv, OwnersInv, FacesTypeOK
  <1>2. RowsOfFaces' /\ OneFaceEach' /\ CountsAddUp'
    BY DEF FacesInv, OwnersInv, RowsOfFaces, OneFaceEach, CountsAddUp, F!PointsOf
  <1>3. HeldFaces' /\ NewFaces' /\ LocksApart'
    BY DEF FacesInv, OwnersInv, HeldFaces, NewFaces, LocksApart
  <1>4. PointsApart' /\ VectorsThere'
    BY DEF FacesInv, PointsApart, VectorsThere
  <1>5. DetectionsThere'
    BY DEF FacesInv, DetectionsThere, Upserted
  <1> QED BY <1>1, <1>2, <1>3, <1>4, <1>5 DEF FacesInv, OwnersInv

LEMMA FacesNext == FacesInv /\ [F!Next]_(F!vars) => FacesInv'
  <1> SUFFICES ASSUME FacesInv, [F!Next]_(F!vars) PROVE FacesInv'
    OBVIOUS
  <1>1. ASSUME NEW r \in Requests, F!Enrolling(r) PROVE FacesInv'
    BY <1>1, FacesInsert, FacesCommitEnrolment, FacesEnroll, FacesUpsert, FacesCleanup DEF F!Enrolling
  <1>2. ASSUME NEW r \in Requests, F!Dropping(r) PROVE FacesInv'
    BY <1>2, FacesDropFace, FacesCommitDrop, FacesGetFace, FacesDeletePoints DEF F!Dropping
  <1>3. ASSUME NEW r \in Requests, F!Detecting(r) PROVE FacesInv'
    BY <1>3, FacesCommitDetections, FacesDetect, FacesUpsertDetection DEF F!Detecting
  <1>4. ASSUME NEW r \in Requests, F!Rollback(r) PROVE FacesInv'
    BY <1>4, FacesRollback
  <1>5. ASSUME NEW p \in Photos, F!DeletePhotos(p) PROVE FacesInv'
    BY <1>5, FacesRest DEF F!DeletePhotos, F!qdrant, F!ids
  <1>6. CASE UNCHANGED F!vars
    BY <1>6, FacesRest DEF F!vars, F!rows, F!qdrant, F!ids
  <1> QED BY <1>1, <1>2, <1>3, <1>4, <1>5, <1>6 DEF F!Next

LEMMA FacesStep ==
  part = "faces" /\ [AllNext]_allVars => part' = "faces" /\ [F!Next]_(F!vars)
  BY DEF AllNext, allVars, shared, facesOwn, F!vars, F!rows, F!qdrant, F!ids

FacesKept == part = "faces" => FacesInv

LEMMA FacesAreKept == AllSpec => []FacesKept
  <1>1. FacesKept /\ [AllNext]_allVars => FacesKept'
    BY FacesStep, FacesNext DEF AllNext, allVars, FacesKept
  <1>2. AllInit => FacesKept
    BY FacesInit DEF AllInit, FacesKept
  <1> QED BY <1>1, <1>2, PTL DEF AllSpec

(* InsertFace and IncrementEmbeddingCount: one face an owner, and its count  *)
(* that of its rows, however enrolments and drops overlap.                   *)
THEOREM OneCountedFace == AllSpec => []FacesAddUp
  <1>1. FacesKept => FacesAddUp
    <2> SUFFICES ASSUME FacesInv PROVE F!FacesAddUp
      BY DEF FacesKept, FacesAddUp
    <2>1. ASSUME NEW f \in F!FaceIds, F!Exists(f)
          PROVE  face[f].count = F!Cardinality(F!PointsOf(f))
      BY <2>1, FaceCardinality DEF FacesInv, OwnersInv, CountsAddUp, F!Exists
    <2>2. ASSUME NEW o \in Owners PROVE F!Cardinality(F!FaceOf(o)) <= 1
      <3>1. \A f, g \in F!FaceOf(o) : f = g
        BY FacesAssumption DEF FacesInv, OwnersInv, OneFaceEach, F!FaceOf
      <3>2. CASE F!FaceOf(o) = {}
        BY <3>2, FaceCardinality, FS_EmptySet
      <3>3. CASE F!FaceOf(o) # {}
        <4>1. PICK f : F!FaceOf(o) = {f}
          BY <3>1, <3>3
        <4> QED BY <4>1, FaceCardinality, FS_Singleton
      <3> QED BY <3>2, <3>3
    <2> QED BY <2>1, <2>2 DEF F!FacesAddUp
  <1> QED BY <1>1, FacesAreKept, PTL

(* Enroll and detectPhoto: a committed row's vector is in Qdrant, until        *)
(* somebody asks for its face to be dropped, whatever calls are lost.         *)
THEOREM VectorsBeforeRows == AllSpec => []RowsHaveVectors
  <1>1. FacesKept => RowsHaveVectors
    BY DEF FacesKept, FacesInv, VectorsThere, DetectionsThere, RowsHaveVectors, F!RowsHaveVectors
  <1> QED BY <1>1, FacesAreKept, PTL
=============================================================================
