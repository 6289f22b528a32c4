----------------------------- MODULE Migrations -----------------------------
(***************************************************************************)
(* DB.Migrate as several processes run it at once: cmd/migrate of each     *)
(* deployment, which may carry different sets of files.  A process reads   *)
(* which versions are recorded once, and then applies its files one        *)
(* transaction each; it may die anywhere and be run again.                 *)
(***************************************************************************)
EXTENDS Naturals, FiniteSets

CONSTANTS
  Processes,
  Files,     \* the versions of the files each process carries
  Versions,
  MaxRuns    \* a bound on how often a process is started

VARIABLES
  recorded,  \* schema_migrations
  changed,   \* how often the SQL of a version has taken effect
  process    \* a migrate process: where it is, what it read, the version in hand

vars == <<recorded, changed, process>>

Stopped(runs) == [at |-> "stopped", applied |-> {}, version |-> 0, runs |-> runs]
Set(p, at) == process' = [process EXCEPT ![p].at = at]

Init ==
  /\ recorded = {}
  /\ changed = [v \in Versions |-> 0]
  /\ process = [p \in Processes |-> Stopped(0)]

(* The versions a process has still to apply, by what it read. *)
Pending(p) == {v \in Files[p] : v \notin process[p].applied /\ v > process[p].version}

(* CREATE TABLE IF NOT EXISTS, and the versions in it. *)
appliedVersions(p) ==
  /\ process[p].at = "stopped" /\ process[p].runs < MaxRuns
  /\ process' = [process EXCEPT ![p] =
       [at |-> "ready", applied |-> recorded, version |-> 0, runs |-> @.runs + 1]]
  /\ UNCHANGED <<recorded, changed>>

(* loadUpMigrations sorts by version: the next one is the least. *)
BeginMigration(p) ==
  /\ process[p].at = "ready"
  /\ \E v \in Pending(p) :
       /\ \A w \in Pending(p) : v <= w
       /\ process' = [process EXCEPT ![p].at = "transaction", ![p].version = v]
  /\ UNCHANGED <<recorded, changed>>

(* A plausible mistake: the SQL commits, the version is recorded after it. *)
TwoTransactions(p) ==
  LET v == process[p].version IN
  /\ \/ /\ process[p].at = "transaction"
        /\ changed' = [changed EXCEPT ![v] = @ + 1]
        /\ Set(p, "record")
        /\ UNCHANGED recorded
     \/ /\ process[p].at = "record"
        /\ v \notin recorded
        /\ recorded' = recorded \union {v}
        /\ Set(p, "ready")
        /\ UNCHANGED changed

(* applyMigration: SQL and row commit together, unless the row is there. *)
applyMigration(p) ==
  LET v == process[p].version IN
  /\ process[p].at = "transaction"
  /\ v \notin recorded
  /\ changed' = [changed EXCEPT ![v] = @ + 1]
  /\ recorded' = recorded \union {v}
  /\ Set(p, "ready")

(* The SQL or the INSERT fails, the process is killed, or it is done. *)
Exit(p) ==
  /\ process[p].at # "stopped"
  /\ process' = [process EXCEPT ![p] = Stopped(@.runs)]
  /\ UNCHANGED <<recorded, changed>>

Next ==
  \E p \in Processes : appliedVersions(p) \/ BeginMigration(p) \/ applyMigration(p) \/ Exit(p)

Spec == Init /\ [][Next]_vars
-----------------------------------------------------------------------------
(* A migration takes effect once, and is recorded exactly if it did, and a  *)
(* version is applied after the lower ones of the process that applies it,   *)
(* whichever processes run, overlap, die and run again.                      *)
MigratedOnce ==
  /\ \A v \in Versions : changed[v] = IF v \in recorded THEN 1 ELSE 0
  /\ \A v \in recorded : \E p \in Processes :
       v \in Files[p] /\ {w \in Files[p] : w < v} \subseteq recorded
=============================================================================
