------------------------------ MODULE Tagging -------------------------------
(***************************************************************************)
(* The BIB tags of photos: what people add, correct and delete             *)
(* (gallery/tag_service.go) while the detection job reads numbers off the  *)
(* pictures (bibdetect), and the state filter a photo is listed under.     *)
(*                                                                         *)
(* Every transaction is READ COMMITTED, so a handler may act on an         *)
(* ocr_status that has changed.  The job marks its photos in one           *)
(* transaction that stays open for the whole batch, and stores the tags of *)
(* each photo in another, committed at once: WithTenantTx never joins the  *)
(* transaction its context carries.                                        *)
(***************************************************************************)
EXTENDS Naturals, FiniteSets

CONSTANTS
  Photos, Bibs,
  Tags,      \* ids of tags, never used again
  Requests,
  MaxJobs,   \* detection jobs over all the photos
  None

VARIABLES
  photo,   \* photos: ocr_status ("gone": deleted), and whether there is a thumbnail
  tag,     \* photo_tags
  used,    \* the ids of tags given out
  request, \* the tag requests in progress, past GetPhoto
  job,     \* the detection job: photos left, the one it is at, and what it marked
  jobs     \* detection jobs so far

vars == <<photo, tag, used, request, job, jobs>>

NoTag == [photo |-> None, bib |-> None, source |-> "ocr", sure |-> FALSE]
NoRequest == [kind |-> "none", photo |-> None, status |-> "gone"]
NoJob == [left |-> {}, at |-> None, inserted |-> FALSE, marked |-> <<>>, running |-> FALSE]

Init ==
  /\ photo = [p \in Photos |-> [status |-> "pending", thumb |-> FALSE]]
  /\ tag = [t \in Tags |-> NoTag]
  /\ used = {}
  /\ request = [r \in Requests |-> NoRequest]
  /\ job = NoJob
  /\ jobs = 0

TagsOn(p) == {t \in Tags : tag[t].photo = p}
BibsOn(p) == {tag[t].bib : t \in TagsOn(p)}
Marked == DOMAIN job.marked     \* their rows are locked until the job commits
Answer(r) == request' = [request EXCEPT ![r] = NoRequest]
-----------------------------------------------------------------------------
(* People.                                                                 *)

(* GetPhoto, the read every tag endpoint starts from. *)
GetPhoto(r, kind, p) ==
  /\ request[r] = NoRequest
  /\ photo[p].status # "gone"
  /\ request' = [request EXCEPT ![r] = [kind |-> kind, photo |-> p, status |-> photo[p].status]]
  /\ UNCHANGED <<photo, tag, used, job, jobs>>

(* A plausible mistake: a photo is settled only if detection has failed. *)
SettleFailedOnly(r) ==
  LET p == request[r].photo
  IN IF request[r].status = "failed"
     THEN /\ p \notin Marked
          /\ photo' = [photo EXCEPT ![p].status = "processed"]
     ELSE UNCHANGED photo

(* By the status GetPhoto read; the UPDATE waits for a job that marked it. *)
settlePending(r) ==
  LET p == request[r].photo
  IN IF request[r].status = "pending"
     THEN /\ p \notin Marked
          /\ photo' = [photo EXCEPT ![p].status = "processed"]
     ELSE UNCHANGED photo

(* A BIB is once on a photo (photo_tags_photo_bib_uk). *)
AddTag(r, t, b) ==
  LET p == request[r].photo
  IN /\ request[r].kind = "add"
     /\ photo[p].status # "gone"
     /\ t \notin used
     /\ b \notin BibsOn(p)
     /\ tag' = [tag EXCEPT ![t] = [photo |-> p, bib |-> b, source |-> "manual", sure |-> FALSE]]
     /\ used' = used \union {t}
     /\ settlePending(r)
     /\ Answer(r)
     /\ UNCHANGED <<job, jobs>>

(* Confirming it, with the BIB it has, or correcting it: manual from now on. *)
UpdateTag(r, t, b) ==
  LET p == request[r].photo
  IN /\ request[r].kind = "update"
     /\ t \in TagsOn(p)
     /\ b = tag[t].bib \/ b \notin BibsOn(p)
     /\ tag' = [tag EXCEPT ![t].bib = b, ![t].source = "manual", ![t].sure = FALSE]
     /\ settlePending(r)
     /\ Answer(r)
     /\ UNCHANGED <<used, job, jobs>>

DeleteTag(r, t) ==
  /\ request[r].kind = "delete"
  /\ t \in TagsOn(request[r].photo)
  /\ tag' = [tag EXCEPT ![t] = NoTag]
  /\ Answer(r)
  /\ UNCHANGED <<photo, used, job, jobs>>

(* A BIB taken, a row gone, a statement that fails: all of it is undone. *)
Rollback(r) ==
  /\ request[r] # NoRequest
  /\ Answer(r)
  /\ UNCHANGED <<photo, tag, used, job, jobs>>

(* Its tags go with it; the DELETE waits for a job that marked it. *)
DeletePhoto(p) ==
  /\ photo[p].status # "gone"
  /\ p \notin Marked
  /\ photo' = [photo EXCEPT ![p].status = "gone"]
  /\ tag' = [t \in Tags |-> IF t \in TagsOn(p) THEN NoTag ELSE tag[t]]
  /\ UNCHANGED <<used, request, job, jobs>>

(* The thumbnail job stores one. *)
UpdatePhotoThumbnail(p) ==
  /\ photo[p].status # "gone"
  /\ p \notin Marked
  /\ photo' = [photo EXCEPT ![p].thumb = TRUE]
  /\ UNCHANGED <<tag, used, request, job, jobs>>
-----------------------------------------------------------------------------
(* The detection job.                                                      *)

RunBibDetect ==
  /\ ~job.running /\ jobs < MaxJobs
  /\ job' = [NoJob EXCEPT !.left = Photos, !.running = TRUE]
  /\ jobs' = jobs + 1
  /\ UNCHANGED <<photo, tag, used, request>>

Took(p, inserted) ==
  job' = [job EXCEPT !.left = @ \ {p}, !.at = p, !.inserted = inserted]

(* The photo is gone, there is no link to it, the service does not answer or *)
(* sees nothing.                                                           *)
DetectNothing(p) ==
  /\ job.at = None /\ p \in job.left
  /\ Took(p, FALSE)
  /\ UNCHANGED <<photo, tag, used, request, jobs>>

(* A plausible mistake: ON CONFLICT DO UPDATE, the reading over what is there. *)
DetectUpserts(p, ids, found, sure) ==
  LET old == {t \in TagsOn(p) : tag[t].bib \in found}
  IN /\ job.at = None /\ p \in job.left /\ photo[p].status # "gone"
     /\ found # {} /\ found \subseteq BibsOn(p)
     /\ tag' = [t \in Tags |-> IF t \in old THEN [tag[t] EXCEPT !.source = "ocr", !.sure = sure]
                               ELSE tag[t]]
     /\ Took(p, TRUE)
     /\ UNCHANGED <<photo, used, request, jobs>>

(* BIBs the photo does not have yet. *)
Detect(p, ids, found, sure) ==
  /\ job.at = None /\ p \in job.left /\ photo[p].status # "gone"
  /\ found # {} /\ found \intersect BibsOn(p) = {}
  /\ ids \intersect used = {} /\ Cardinality(ids) = Cardinality(found)
  /\ \E which \in [ids -> found] :
       /\ \A b \in found : \E t \in ids : which[t] = b
       /\ tag' = [t \in Tags |-> IF t \in ids THEN [photo |-> p, bib |-> which[t],
                                                    source |-> "ocr", sure |-> sure]
                                 ELSE tag[t]]
  /\ used' = used \union ids
  /\ Took(p, TRUE)
  /\ UNCHANGED <<photo, request, jobs>>

(* One that it has, or the same one twice: the unique key aborts the inner   *)
(* transaction, so nothing is stored, and every later statement and the      *)
(* commit fail; `inserted' counts the readings before that one all the same. *)
DetectTaken(p, inserted) ==
  /\ job.at = None /\ p \in job.left /\ photo[p].status # "gone"
  /\ inserted \/ BibsOn(p) # {}
  /\ Took(p, inserted)
  /\ UNCHANGED <<photo, tag, used, request, jobs>>

(* SetOCRStatus or SetOCRFailed, in the outer transaction; no row, no mark. *)
MarkPhoto ==
  /\ job.at # None
  /\ job' = [job EXCEPT !.at = None, !.marked =
       IF photo[job.at].status = "gone" THEN @
       ELSE [p \in Marked \union {job.at} |->
               IF p # job.at THEN @[p] ELSE IF job.inserted THEN "processed" ELSE "failed"]]
  /\ UNCHANGED <<photo, tag, used, request, jobs>>

CommitBatch ==
  /\ job.running /\ job.left = {} /\ job.at = None
  /\ photo' = [p \in Photos |-> IF p \in Marked THEN [photo[p] EXCEPT !.status = job.marked[p]]
                                ELSE photo[p]]
  /\ job' = NoJob
  /\ UNCHANGED <<tag, used, request, jobs>>

(* Shutdown, crash, a commit that fails: the marks are lost, the tags are not. *)
AbandonBatch ==
  /\ job.running
  /\ job' = NoJob
  /\ UNCHANGED <<photo, tag, used, request, jobs>>
-----------------------------------------------------------------------------
People(r) ==
  \/ \E kind \in {"add", "update", "delete"}, p \in Photos : GetPhoto(r, kind, p)
  \/ \E t \in Tags, b \in Bibs : AddTag(r, t, b) \/ UpdateTag(r, t, b)
  \/ \E t \in Tags : DeleteTag(r, t)
  \/ Rollback(r)

Job ==
  \/ RunBibDetect \/ MarkPhoto \/ CommitBatch \/ AbandonBatch
  \/ \E p \in Photos :
       \/ DetectNothing(p)
       \/ \E inserted \in BOOLEAN : DetectTaken(p, inserted)
       \/ \E ids \in SUBSET Tags, found \in SUBSET Bibs, sure \in BOOLEAN :
            Detect(p, ids, found, sure)

Next ==
  \/ \E r \in Requests : People(r)
  \/ \E p \in Photos : DeletePhoto(p) \/ UpdatePhotoThumbnail(p)
  \/ Job

Spec == Init /\ [][Next]_vars
-----------------------------------------------------------------------------
(* The state filter of ListPhotos, a condition in SQL.                     *)
States == {"preparing", "detecting", "review", "verified", "auto", "failed", "no_bib"}

Counts(p) ==
  [n |-> Cardinality(TagsOn(p)),
   review |-> Cardinality({t \in TagsOn(p) : tag[t].source = "ocr" /\ ~tag[t].sure}),
   manual |-> Cardinality({t \in TagsOn(p) : tag[t].source = "manual"})]

stateCondition(s, p) ==
  LET status == photo[p].status
      settled == status # "pending"
      c == Counts(p)
  IN CASE s = "preparing" -> ~settled /\ ~photo[p].thumb
       [] s = "detecting" -> ~settled /\ photo[p].thumb
       [] s = "review"    -> settled /\ c.review > 0
       [] s = "verified"  -> settled /\ c.review = 0 /\ c.n > 0 /\ c.manual = c.n
       [] s = "auto"      -> settled /\ c.review = 0 /\ c.n > 0 /\ c.manual < c.n
       [] s = "failed"    -> status = "failed" /\ c.n = 0
       [] s = "no_bib"    -> status = "processed" /\ c.n = 0
-----------------------------------------------------------------------------
(* Properties                                                              *)

(* "A manually reviewed photo must read as reviewed" (settlePending): whoever *)
(* commits first, handler or batch, a photo with a manual tag is listed under *)
(* one state, and it is not one of those still under way, or of no tags.      *)
ReviewedIsSettled ==
  \A t \in Tags : tag[t].source = "manual" =>
    \E s \in {"review", "verified", "auto"} :
      {x \in States : stateCondition(x, tag[t].photo)} = {s}

(* What a person said of a photo stays until a person takes it back: the job *)
(* never changes a manual tag, nor puts its own reading of that BIB next to it. *)
ManualTagsKept ==
  \A t \in Tags : tag[t].source = "manual" =>
    \/ tag'[t] = tag[t] /\ \A s \in TagsOn(tag[t].photo)' :
                             s # t => tag'[s].bib # tag[t].bib
    \/ \E r \in Requests : request[r].kind \in {"update", "delete"}
                           /\ request[r].photo = tag[t].photo /\ request'[r] = NoRequest
    \/ photo'[tag[t].photo].status = "gone"
PeopleHaveTheLastWord == [][ManualTagsKept]_vars
=============================================================================
