---------------------------- MODULE Certificates ----------------------------
(***************************************************************************)
(* The certificates of an event's participants (internal/certificate),     *)
(* saved one by one by a client that drew the image, or made by a batch    *)
(* job.  The job reads its template once and writes that version into      *)
(* every record, however long it runs; a template (module Templates) is    *)
(* here its id and how many designs it has had.  Whether the event's        *)
(* certificates are published is read by the portal only and left out.     *)
(***************************************************************************)
EXTENDS Naturals, FiniteSets

CONSTANTS
  Ids,           \* of templates
  Participants,
  Numbers,       \* certificate numbers
  Hashes,        \* fingerprints of the values on a certificate; None: not given
  MaxVersion, MaxFiles,   \* bounds
  None

VARIABLES
  version,   \* designs of a template so far; 0: not yet, MaxVersion + 1: deleted
  people,    \* the participants there are
  record,    \* certificates: one per participant or None
  drawn,     \* objects: file -> whose certificate it is and what it shows (history)
  job        \* the batch job in progress

vars == <<version, people, record, drawn, job>>

NoJob == [template |-> None, version |-> 0, left |-> {}]

Init ==
  /\ version = [t \in Ids |-> 0]
  /\ people = Participants
  /\ record = [p \in Participants |-> None]
  /\ drawn = <<>>
  /\ job = NoJob

There == {t \in Ids : version[t] \in 1..MaxVersion}

(* generator.Service's part: a template, a new design of it, its deletion.   *)
(* Records made from it forget which it was (ON DELETE SET NULL).          *)
NewDesign(t) ==
  /\ version[t] < MaxVersion
  /\ version' = [version EXCEPT ![t] = @ + 1]
  /\ UNCHANGED <<people, record, drawn, job>>

DeleteTemplate(t) ==
  /\ t \in There
  /\ version' = [version EXCEPT ![t] = MaxVersion + 1]
  /\ record' = [p \in Participants |->
       IF record[p] # None /\ record[p].template = t
       THEN [record[p] EXCEPT !.template = None] ELSE record[p]]
  /\ UNCHANGED <<people, drawn, job>>
-----------------------------------------------------------------------------
(* Certificates.                                                           *)

Drawings == DOMAIN drawn

(* An image drawn from a version of a template with the values of a hash, and *)
(* stored under an id of its own.                                          *)
Stored(p, h, v) ==
  drawn' = [f \in 1..(Cardinality(Drawings) + 1) |->
              IF f \in Drawings THEN drawn[f] ELSE [of |-> p, hash |-> h, version |-> v]]

NumberTaken(p, no) == \E q \in Participants \ {p} : record[q] # None /\ record[q].no = no

(* A plausible mistake: a missing hash leaves the old one. *)
MergeKeepsHash(p, new) ==
  IF record[p] = None THEN new
  ELSE [new EXCEPT !.no = record[p].no,
                   !.file = IF new.file = None THEN record[p].file ELSE new.file,
                   !.hash = IF new.hash = None THEN record[p].hash ELSE new.hash]

(* ON CONFLICT (participant_id) DO UPDATE. *)
Merge(p, new) ==
  IF record[p] = None THEN new
  ELSE [new EXCEPT !.no = record[p].no,
                   !.file = IF new.file = None THEN record[p].file ELSE new.file]

(* The participant and the template are of the event when it commits (foreign *)
(* keys), and nobody else has the number it inserts.                       *)
Upsert(p, new) ==
  /\ p \in people
  /\ new.template \in There \union {None}
  /\ record[p] = None => ~NumberTaken(p, new.no)
  /\ record' = [record EXCEPT ![p] = Merge(p, new)]

Record(no, t, v, h, status, file) ==
  [no |-> no, template |-> t, version |-> v, hash |-> h, status |-> status, file |-> file]

(* A client saves the image it drew, from the template as it was then ...    *)
(* The service stores the file, version and hash it is sent: that the file   *)
(* is the participant's, and that the other two are those it was drawn       *)
(* with, is assumed of the client and checked nowhere.                      *)
SaveReady(p, no, t, file) ==
  /\ drawn[file].of = p
  /\ Upsert(p, Record(no, t, drawn[file].version, drawn[file].hash, "ready", file))
  /\ UNCHANGED <<version, people, drawn, job>>

(* ... or that it could not draw it. *)
SaveFailed(p, no, t, h) ==
  /\ Upsert(p, Record(no, t, IF t = None THEN 0 ELSE version[t], h, "failed", None))
  /\ UNCHANGED <<version, people, drawn, job>>

(* The client draws it and uploads it. *)
UploadImage(p, h, t) ==
  /\ Cardinality(Drawings) < MaxFiles
  /\ t \in There
  /\ Stored(p, h, version[t])
  /\ UNCHANGED <<version, people, record, job>>

DeleteCertificate(p) ==
  /\ record[p] # None
  /\ record' = [record EXCEPT ![p] = None]
  /\ UNCHANGED <<version, people, drawn, job>>

(* participant: the record goes with them. *)
DeleteParticipant(p) ==
  /\ p \in people
  /\ people' = people \ {p}
  /\ record' = [record EXCEPT ![p] = None]
  /\ UNCHANGED <<version, drawn, job>>
-----------------------------------------------------------------------------
(* The batch job.                                                          *)

(* StartBatch and the job's own loadAssets: the template as it is now. *)
StartBatch(t) ==
  /\ job = NoJob
  /\ t \in There
  /\ job' = [template |-> t, version |-> version[t], left |-> Participants]
  /\ UNCHANGED <<version, people, record, drawn>>

Next1(p) == job' = IF job.left = {p} THEN NoJob ELSE [job EXCEPT !.left = @ \ {p}]

(* makeOne draws and stores the image; the record, if it can be written.    *)
MakeOne(p, no, h) ==
  LET file == Cardinality(Drawings) + 1
      new == Record(no, job.template, job.version, h, "ready", file)
  IN /\ p \in job.left
     /\ Cardinality(Drawings) < MaxFiles
     /\ Stored(p, h, job.version)
     /\ \/ Upsert(p, new)
        \/ UNCHANGED record
     /\ Next1(p)
     /\ UNCHANGED <<version, people>>

(* It cannot be drawn or stored: recorded as failed, if that can be written. *)
MakeOneFails(p, no, h) ==
  /\ p \in job.left
  /\ \/ Upsert(p, Record(no, job.template, job.version, h, "failed", None))
     \/ UNCHANGED record
  /\ Next1(p)
  /\ UNCHANGED <<version, people, drawn>>

(* Shutdown, crash. *)
JobEnds ==
  /\ job # NoJob
  /\ job' = NoJob
  /\ UNCHANGED <<version, people, record, drawn>>
-----------------------------------------------------------------------------
(* The number a request asks for is used while the participant has none. *)
NumbersFor(p) == IF record[p] = None THEN Numbers ELSE {record[p].no}

Save(p) ==
  \/ \E no \in NumbersFor(p), t \in Ids \union {None} :
       \/ \E f \in Drawings : SaveReady(p, no, t, f)
       \/ \E h \in Hashes \union {None} : SaveFailed(p, no, t, h)
  \/ \E h \in Hashes \union {None}, t \in Ids : UploadImage(p, h, t)
  \/ DeleteCertificate(p) \/ DeleteParticipant(p)

Batch ==
  \/ \E t \in Ids : StartBatch(t)
  \/ \E p \in Participants, h \in Hashes \union {None} : \E no \in NumbersFor(p) :
       MakeOne(p, no, h) \/ MakeOneFails(p, no, h)
  \/ JobEnds

Next ==
  \/ \E t \in Ids : NewDesign(t) \/ DeleteTemplate(t)
  \/ \E p \in Participants : Save(p)
  \/ Batch

Spec == Init /\ [][Next]_vars
-----------------------------------------------------------------------------
(* Properties                                                              *)

(* A certificate that is `ready' is the image its record describes: drawn for *)
(* this participant, with the values of data_hash and by the version of the  *)
(* template it names, whichever runs and saves wrote it in turn.  (The file  *)
(* of a `failed' one is an earlier run's, under the later run's hash.)       *)
ReadyIsItsFile ==
  \A p \in Participants : record[p] # None /\ record[p].status = "ready" =>
    /\ record[p].file \in Drawings
    /\ drawn[record[p].file] = [of |-> p, hash |-> record[p].hash, version |-> record[p].version]
=============================================================================
