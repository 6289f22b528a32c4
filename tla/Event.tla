------------------------------- MODULE Event -------------------------------
(***************************************************************************)
(* The participants of an event: Registration, with one request at a time, *)
(* ImportPlan, or BibPrint.  `part' says which one a behaviour is of, and  *)
(* the variables of the others stay as they are.                           *)
(***************************************************************************)
EXTENDS Registration, Integers

CONSTANTS
  None,
  FileRaces, FileFormat, TeamNames, Bibs, Refs, NoRef,     \* ImportPlan
  InputRows, MaxRows, MaxPeople,
  Runners, RunnerTeams, MaxBib,                            \* BibPrint, and MaxLeg
  Cells, Layouts, PeoplePerFile, MaxChosen

(* What the proofs need to know of the constants: the races of a file have a *)
(* format, and NoTeam and NoRef are none of the things they stand in for.    *)
ASSUME ImportAssumption ==
  /\ FileFormat \in [FileRaces -> Formats]
  /\ NoTeam \notin TeamNames /\ NoRef \notin Refs
  /\ MaxRows \in Nat

(* Artwork has a size, a layout whole columns and rows, and None and a file's *)
(* limit are none of the things they stand in for.                           *)
ASSUME PrintAssumption ==
  /\ Cells \subseteq [w : Nat \ {0}, h : Nat \ {0}]
  /\ \A l \in Layouts : l.cols \in Int /\ l.rows \in Int
  /\ MaxBib \in Nat /\ PeoplePerFile \in Nat \ {0} /\ MaxChosen \in Nat

VARIABLES part, db, cell, job

I == INSTANCE ImportPlan WITH Races <- FileRaces, RaceFormat <- FileFormat

P == INSTANCE BibPrint WITH
  People <- Runners, Teams <- RunnerTeams, MaxPeople <- MaxChosen,
  NoMargin <- None, person <- db

printing == <<cell, job>>
allVars == <<part, db, printing, vars>>

AllInit ==
  /\ Init
  /\ \/ part \in {"requests", "import"} /\ I!Init /\ cell = None /\ job = None
     \/ part = "print" /\ P!Init

AllNext ==
  /\ \/ part = "requests" /\ Next /\ UNCHANGED <<db, printing>>
     \/ part = "import" /\ I!Next /\ UNCHANGED <<printing, vars>>
     \/ part = "print" /\ P!Next /\ UNCHANGED vars
  /\ UNCHANGED part

AllSpec == AllInit /\ [][AllNext]_allVars

(* Each is stated, and explained, in the module of its part; RulesKept is Registration's. *)
BibsAndRefsNeverClash == part = "import" => I!BibsAndRefsNeverClash
SecondImportChangesNothing == part = "import" => I!SecondImportChangesNothing
CleanImportKeepsOrder == part = "import" => I!CleanImportKeepsOrder
PrintIsRight == part = "print" => P!PrintIsRight
=============================================================================
