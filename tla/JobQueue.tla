------------------------------ MODULE JobQueue ------------------------------
(***************************************************************************)
(* The asynchronous job queue: internal/jobqueue (Queue, Repository,       *)
(* Dispatcher, Run) over the jobs table and a Redis list, with any number  *)
(* of cmd/worker processes.                                                *)
(*                                                                         *)
(* A job is enqueued in two steps (the row is committed, then its id is    *)
(* pushed), and a worker takes it in many: BRPOP, load the row, mark it    *)
(* processing, run the handler item by item, record the outcome.  Between  *)
(* any two of them another process may act, the worker may be told to stop *)
(* (SIGTERM cancels the one context every later call receives), it may     *)
(* crash, or a call to Redis or Postgres may fail, applied or not.         *)
(***************************************************************************)
EXTENDS Naturals, Sequences, FiniteSets

CONSTANTS
  Jobs,     \* the ids Enqueue can mint
  Workers,  \* the cmd/worker processes
  NoJob,    \* "this worker holds no job"
  Handled,  \* the jobs whose type has a handler registered in cmd/worker
  Items,    \* items in a job's batch
  Faults,   \* may a call to Redis or Postgres fail, applied or not?
  Signals,  \* may a worker be told to stop (SIGINT, SIGTERM)?
  Crashes   \* may a worker process die?

ASSUME JobQueueAssumption ==
  /\ NoJob \notin Jobs
  /\ Handled \subseteq Jobs
  /\ Items \in Nat \ {0}
  /\ Faults \in BOOLEAN
  /\ Signals \in BOOLEAN
  /\ Crashes \in BOOLEAN

VARIABLES
  status,    \* jobs.status, "absent" before the row is inserted
  progress,  \* jobs.progress_current
  push,      \* the Enqueue call of each job: "none", "pending" its LPUSH, "done"
  list,      \* the Redis list, oldest id first (LPUSH at one end, BRPOP at the other)
  pc,        \* where each worker is in Run's loop
  held,      \* the job each worker has taken from the list
  cancelled, \* has each worker's context been cancelled?
  item,      \* items the running handler has been through
  flawed,    \* has any of them failed?
  outcome    \* the terminal status the handler's return calls for

vars == <<status, progress, push, list, pc, held, cancelled, item, flawed, outcome>>
workerVars == <<pc, held, item, flawed, outcome>>

Terminal == {"completed", "completed_with_errors", "failed"}
Status == {"absent", "queued", "processing"} \union Terminal
Stages == {"idle", "polling", "popped", "loaded", "running", "report",
           "finishing", "stopped"}

(* One type invariant: the row, the list and the worker's local variables  *)
(* hold values of their types.                                             *)
TypeOK ==
  /\ status \in [Jobs -> Status]
  /\ progress \in [Jobs -> 0..Items]
  /\ push \in [Jobs -> {"none", "pending", "done"}]
  /\ list \in Seq(Jobs)
  /\ pc \in [Workers -> Stages]
  /\ held \in [Workers -> Jobs \union {NoJob}]
  /\ cancelled \in [Workers -> BOOLEAN]
  /\ item \in [Workers -> 0..Items]
  /\ flawed \in [Workers -> BOOLEAN]
  /\ outcome \in [Workers -> Terminal]

Init ==
  /\ status = [j \in Jobs |-> "absent"]
  /\ progress = [j \in Jobs |-> 0]
  /\ push = [j \in Jobs |-> "none"]
  /\ list = <<>>
  /\ pc = [w \in Workers |-> "idle"]
  /\ held = [w \in Workers |-> NoJob]
  /\ cancelled = [w \in Workers |-> FALSE]
  /\ item = [w \in Workers |-> 0]
  /\ flawed = [w \in Workers |-> FALSE]
  /\ outcome = [w \in Workers |-> "failed"]

-----------------------------------------------------------------------------
(* Enqueue, in the API process.                                            *)

(* The 'queued' row is committed in its own tenant transaction. *)
Insert(j) ==
  /\ status[j] = "absent"
  /\ status' = [status EXCEPT ![j] = "queued"]
  /\ push' = [push EXCEPT ![j] = "pending"]
  /\ UNCHANGED <<progress, list, workerVars, cancelled>>

(* LPUSH succeeds and Enqueue returns the id. *)
LPush(j) ==
  /\ push[j] = "pending"
  /\ push' = [push EXCEPT ![j] = "done"]
  /\ list' = Append(list, j)
  /\ UNCHANGED <<status, progress, workerVars, cancelled>>

(* A plausible mistake: Enqueue tries the LPUSH that failed again. *)
LPushFailsRetries(j) ==
  /\ Faults
  /\ push[j] = "pending"
  /\ list' \in {list, Append(list, j)}
  /\ UNCHANGED <<status, progress, push, workerVars, cancelled>>

(* LPUSH reports an error, or the API process dies before it: Enqueue never *)
(* tries again, and Redis may or may not have taken the id.                *)
LPushFails(j) ==
  /\ Faults
  /\ push[j] = "pending"
  /\ push' = [push EXCEPT ![j] = "done"]
  /\ list' \in {list, Append(list, j)}
  /\ UNCHANGED <<status, progress, workerVars, cancelled>>

-----------------------------------------------------------------------------
(* Run's loop, in a worker.                                                *)

(* Every path back to the top of the loop forgets the job it held. *)
Release(w) ==
  /\ pc' = [pc EXCEPT ![w] = "idle"]
  /\ held' = [held EXCEPT ![w] = NoJob]
  /\ UNCHANGED <<item, flawed, outcome>>

(* ctx.Err() is looked at only at the top of the loop. *)
Poll(w) ==
  /\ pc[w] = "idle"
  /\ ~cancelled[w]
  /\ pc' = [pc EXCEPT ![w] = "polling"]
  /\ UNCHANGED <<status, progress, push, list, held, cancelled, item, flawed, outcome>>

Quit(w) ==
  /\ pc[w] = "idle"
  /\ cancelled[w]
  /\ pc' = [pc EXCEPT ![w] = "stopped"]
  /\ UNCHANGED <<status, progress, push, list, held, cancelled, item, flawed, outcome>>

(* BRPop does not watch the context: a worker told to stop while it is      *)
(* blocked in it still takes the next id.                                  *)
BRPop(w) ==
  /\ pc[w] = "polling"
  /\ list # <<>>
  /\ pc' = [pc EXCEPT ![w] = "popped"]
  /\ held' = [held EXCEPT ![w] = Head(list)]
  /\ list' = Tail(list)
  /\ UNCHANGED <<status, progress, push, cancelled, item, flawed, outcome>>

BRPopEmpty(w) ==
  /\ pc[w] = "polling"
  /\ list = <<>>
  /\ pc' = [pc EXCEPT ![w] = "idle"]
  /\ UNCHANGED <<status, progress, push, list, held, cancelled, item, flawed, outcome>>

(* An error in place of the reply: Redis may have popped the id already. *)
BRPopFails(w) ==
  /\ Faults
  /\ pc[w] = "polling"
  /\ list' \in {list, IF list = <<>> THEN list ELSE Tail(list)}
  /\ pc' = [pc EXCEPT ![w] = "idle"]
  /\ UNCHANGED <<status, progress, push, held, cancelled, item, flawed, outcome>>

(* GetByIDUnscoped, with the worker's own context. *)
GetByIDUnscoped(w) ==
  /\ pc[w] = "popped"
  /\ ~cancelled[w]
  /\ pc' = [pc EXCEPT ![w] = "loaded"]
  /\ UNCHANGED <<status, progress, push, list, held, cancelled, item, flawed, outcome>>

GetByIDUnscopedFails(w) ==
  /\ pc[w] = "popped"
  /\ cancelled[w] \/ Faults
  /\ Release(w)
  /\ UNCHANGED <<status, progress, push, list, cancelled>>

MarkProcessing(w) ==
  /\ pc[w] = "loaded"
  /\ ~cancelled[w]
  /\ status' = [status EXCEPT ![held[w]] = "processing"]
  /\ pc' = [pc EXCEPT ![w] = "running"]
  /\ item' = [item EXCEPT ![w] = 0]
  /\ flawed' = [flawed EXCEPT ![w] = FALSE]
  /\ UNCHANGED <<progress, push, list, held, cancelled, outcome>>

(* The update fails (always, once the context is cancelled), or its commit  *)
(* is applied and the answer lost; either way Run goes on to the next job.  *)
MarkProcessingFails(w) ==
  /\ pc[w] = "loaded"
  /\ cancelled[w] \/ Faults
  /\ Release(w)
  /\ status' \in {status} \union
       IF Faults THEN {[status EXCEPT ![held[w]] = "processing"]} ELSE {}
  /\ UNCHANGED <<progress, push, list, cancelled>>

(* One turn of a batch handler's loop: every handler looks at ctx.Err()     *)
(* first; an item that fails is counted and does not stop the rest.        *)
HandleItem(w) ==
  /\ pc[w] = "running"
  /\ held[w] \in Handled
  /\ ~cancelled[w]
  /\ item[w] < Items
  /\ item' = [item EXCEPT ![w] = @ + 1]
  /\ \E failed \in BOOLEAN : flawed' = [flawed EXCEPT ![w] = @ \/ failed]
  /\ pc' = [pc EXCEPT ![w] = "report"]
  /\ UNCHANGED <<status, progress, push, list, held, cancelled, outcome>>

(* A plausible mistake: the once-a-second throttle also swallows the report *)
(* of the last item.                                                       *)
UpdateProgressThrottlesLast(w) ==
  /\ pc[w] = "report"
  /\ \/ /\ ~cancelled[w]
        /\ progress' = [progress EXCEPT ![held[w]] = item[w]]
     \/ progress' = progress
  /\ pc' = [pc EXCEPT ![w] = "running"]
  /\ UNCHANGED <<status, push, list, held, cancelled, item, flawed, outcome>>

(* UpdateProgress after an item: an error is ignored, and a handler that    *)
(* throttles its reports skips some, never the last.                       *)
UpdateProgress(w) ==
  /\ pc[w] = "report"
  /\ \/ /\ ~cancelled[w]
        /\ progress' = [progress EXCEPT ![held[w]] = item[w]]
     \/ /\ cancelled[w] \/ Faults \/ item[w] < Items
        /\ progress' = progress
  /\ pc' = [pc EXCEPT ![w] = "running"]
  /\ UNCHANGED <<status, push, list, held, cancelled, item, flawed, outcome>>

(* The handler returns: with an error at any point (no handler for the type, *)
(* a bad payload, a failed load, the context cancelled), or at the end.     *)
Return(w, result) ==
  /\ pc' = [pc EXCEPT ![w] = "finishing"]
  /\ outcome' = [outcome EXCEPT ![w] = result]
  /\ UNCHANGED <<status, progress, push, list, held, cancelled, item, flawed>>

(* A plausible mistake: a job whose handler fails, or that has none, is     *)
(* logged and skipped.                                                     *)
HandlerFailsSilently(w) ==
  /\ pc[w] = "running"
  /\ Release(w)
  /\ UNCHANGED <<status, progress, push, list, cancelled>>

HandlerFails(w) ==
  /\ pc[w] = "running"
  /\ Return(w, "failed")

HandlerReturns(w) ==
  /\ pc[w] = "running"
  /\ held[w] \in Handled
  /\ item[w] = Items
  /\ Return(w, IF flawed[w] THEN "completed_with_errors" ELSE "completed")

(* MarkCompleted, MarkCompletedWithErrors or MarkFailed. *)
Finish(w) ==
  /\ pc[w] = "finishing"
  /\ ~cancelled[w]
  /\ status' = [status EXCEPT ![held[w]] = outcome[w]]
  /\ Release(w)
  /\ UNCHANGED <<progress, push, list, cancelled>>

(* A plausible mistake: looping in place to retry the update that failed    *)
(* although the worker was told to stop.                                   *)
FinishFailsRetries(w) ==
  /\ pc[w] = "finishing"
  /\ cancelled[w] \/ Faults
  /\ UNCHANGED vars

(* The update fails (always, once the context is cancelled), applied or not. *)
FinishFails(w) ==
  /\ pc[w] = "finishing"
  /\ cancelled[w] \/ Faults
  /\ status' \in {status} \union
       IF Faults THEN {[status EXCEPT ![held[w]] = outcome[w]]} ELSE {}
  /\ Release(w)
  /\ UNCHANGED <<progress, push, list, cancelled>>

-----------------------------------------------------------------------------
(* The process around the loop.                                            *)

(* SIGINT or SIGTERM: signal.NotifyContext cancels the context. *)
Shutdown(w) ==
  /\ Signals
  /\ pc[w] # "stopped"
  /\ ~cancelled[w]
  /\ cancelled' = [cancelled EXCEPT ![w] = TRUE]
  /\ UNCHANGED <<status, progress, push, list, workerVars>>

(* The process dies: everything it held in memory is gone. *)
Crash(w) ==
  /\ Crashes
  /\ pc[w] # "stopped"
  /\ pc' = [pc EXCEPT ![w] = "stopped"]
  /\ held' = [held EXCEPT ![w] = NoJob]
  /\ UNCHANGED <<status, progress, push, list, cancelled, item, flawed, outcome>>

(* A new process takes its place, with a fresh context. *)
Restart(w) ==
  /\ pc[w] = "stopped"
  /\ pc' = [pc EXCEPT ![w] = "idle"]
  /\ cancelled' = [cancelled EXCEPT ![w] = FALSE]
  /\ UNCHANGED <<status, progress, push, list, held, item, flawed, outcome>>

-----------------------------------------------------------------------------
Enqueue(j) == Insert(j) \/ LPush(j) \/ LPushFails(j)

Dequeue(w) ==
  \/ BRPop(w) \/ BRPopEmpty(w) \/ BRPopFails(w)
  \/ GetByIDUnscoped(w) \/ GetByIDUnscopedFails(w)

Run(w) ==
  \/ Poll(w) \/ Quit(w) \/ Dequeue(w)
  \/ MarkProcessing(w) \/ MarkProcessingFails(w)
  \/ HandleItem(w) \/ UpdateProgress(w) \/ HandlerFails(w) \/ HandlerReturns(w)
  \/ Finish(w) \/ FinishFails(w)

Next ==
  \/ \E j \in Jobs : Enqueue(j)
  \/ \E w \in Workers : Run(w) \/ Shutdown(w) \/ Crash(w) \/ Restart(w)

Spec == Init /\ [][Next]_vars

(* A worker that is running takes its next step, and Enqueue goes on to its *)
(* LPUSH; nothing is assumed of when jobs arrive, of stops or of restarts.  *)
Fairness ==
  /\ \A j \in Jobs : WF_vars(LPush(j))
  /\ \A w \in Workers : WF_vars(Run(w))

FairSpec == Spec /\ Fairness

-----------------------------------------------------------------------------
(* Properties                                                              *)

Listed == {list[i] : i \in 1..Len(list)}
Held(j) == \E w \in Workers : held[w] = j

(* Delivery is exclusive: an id is in the Redis list at most once, is not in *)
(* the list while a worker holds it, and is never held by two workers, so   *)
(* the unguarded UPDATE ... WHERE id of Mark* has one writer at a time.      *)
ExclusiveDelivery ==
  /\ \A i, k \in 1..Len(list) : list[i] = list[k] => i = k
  /\ \A w \in Workers : held[w] # NoJob => held[w] \notin Listed
  /\ \A w, v \in Workers : held[w] = held[v] /\ held[w] # NoJob => w = v

(* The row agrees with where its job is: waiting in the list or just taken, *)
(* it is 'queued'; with its handler running or returned, 'processing' - no  *)
(* worker ever starts, or finishes, a job another one already dealt with.   *)
RowMatchesStage ==
  /\ \A j \in Jobs : j \in Listed => status[j] = "queued" /\ push[j] = "done"
  /\ \A w \in Workers :
       /\ pc[w] \in {"popped", "loaded"} => held[w] # NoJob /\ status[held[w]] = "queued"
       /\ pc[w] \in {"running", "report", "finishing"} =>
            held[w] # NoJob /\ status[held[w]] = "processing"

(* While the database answers, a job that ended without an outright failure *)
(* shows its client a progress bar at the end, whatever was skipped or      *)
(* throttled on the way and however the worker was stopped.                 *)
CompletedIsFullyReported ==
  ~Faults =>
    \A j \in Jobs :
      status[j] \in {"completed", "completed_with_errors"} => progress[j] = Items

(* The job's row goes through the life cycle of JobLifecycle and no other:  *)
(* started once, progress never going back, ended once.                     *)
Lifecycle == INSTANCE JobLifecycle WITH status <- status, progress <- progress
ImplementsLifecycle == Lifecycle!Spec

(* While the database and Redis answer, every job on its way - about to be   *)
(* pushed, in the list or with a worker - ends, with a handler or without,  *)
(* its items failing or not, unless a worker is told to stop or dies.       *)
EveryJobEnds ==
  \A j \in Jobs :
    status[j] = "queued" /\ (push[j] = "pending" \/ j \in Listed \/ Held(j)) ~>
      status[j] \in Terminal \/ \E w \in Workers : cancelled[w] \/ pc[w] = "stopped"

(* A worker told to stop does stop (runner.go: "shutdown ... is noticed     *)
(* promptly"), wherever in the loop or in a handler the signal found it.    *)
ShutdownCompletes ==
  \A w \in Workers : cancelled[w] ~> pc[w] = "stopped"
=============================================================================
