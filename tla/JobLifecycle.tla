---------------------------- MODULE JobLifecycle ----------------------------
(***************************************************************************)
(* What the jobs table promises to a client polling GET /api/v1/jobs/{id}: *)
(* a job is created queued, is started once, reports progress that never   *)
(* goes back while it is processing, ends once in one of the three         *)
(* terminal states of domain.JobStatus, and never changes again.  Nothing  *)
(* is said here of Redis, of workers or of failures; JobQueue implements   *)
(* this specification.                                                     *)
(***************************************************************************)
EXTENDS Naturals

CONSTANTS Jobs,     \* the job ids
          Items     \* items in a job's batch (progress_total)

VARIABLES status,   \* jobs.status of each job, "absent" before its row exists
          progress  \* jobs.progress_current of each job

vars == <<status, progress>>

Terminal == {"completed", "completed_with_errors", "failed"}
Status == {"absent", "queued", "processing"} \union Terminal

Init ==
  /\ status = [j \in Jobs |-> "absent"]
  /\ progress = [j \in Jobs |-> 0]

Create(j) ==
  /\ status[j] = "absent"
  /\ status' = [status EXCEPT ![j] = "queued"]
  /\ UNCHANGED progress

Start(j) ==
  /\ status[j] = "queued"
  /\ status' = [status EXCEPT ![j] = "processing"]
  /\ UNCHANGED progress

Advance(j) ==
  /\ status[j] = "processing"
  /\ \E n \in progress[j]..Items : progress' = [progress EXCEPT ![j] = n]
  /\ UNCHANGED status

Finish(j) ==
  /\ status[j] = "processing"
  /\ \E s \in Terminal : status' = [status EXCEPT ![j] = s]
  /\ UNCHANGED progress

Next == \E j \in Jobs : Create(j) \/ Start(j) \/ Advance(j) \/ Finish(j)

Spec == Init /\ [][Next]_vars
=============================================================================
