------------------------------ MODULE BibPrint ------------------------------
(***************************************************************************)
(* Printing BIBs: a request is checked against the template, the job does  *)
(* its work later, when the template may have another size and some of the *)
(* chosen people another team, another BIB or nothing at all.              *)
(***************************************************************************)
EXTENDS SheetLayout, Sequences, FiniteSets

CONSTANTS
  People, Teams, NoTeam, None,
  MaxBib, MaxLeg,     \* legs 1..MaxLeg; 0: no leg
  Cells,              \* sizes a template may have
  Layouts,
  PeoplePerFile, MaxPeople

VARIABLES
  person,  \* participants of the event: BIB, team and leg
  cell,    \* the trim size of the template
  job      \* the job, what it was asked for, what it has read, and its files

vars == <<person, cell, job>>

Rows == [bib : 1..MaxBib, team : Teams, leg : 0..MaxLeg]
  \union [bib : 1..MaxBib, team : {NoTeam}, leg : {0}]
NoJob == [at |-> "none", ids |-> <<>>, layout |-> None, cell |-> None, rows |-> <<>>,
          files |-> <<>>, skipped |-> 0]
Distinct(s) == \A i, j \in DOMAIN s : s[i] = s[j] => i = j

Init ==
  /\ person \in [People -> Rows \union {None}]
  /\ \A p, q \in People : p # q /\ person[p] # None /\ person[q] # None
       => person[p].bib # person[q].bib
  /\ cell \in Cells
  /\ job = NoJob
-----------------------------------------------------------------------------
(* What the others do meanwhile; after the rows are read it is all the same. *)
Open == job.at \in {"none", "queued", "assets"}

ChangeParticipant(p, row) ==
  /\ Open
  /\ row # None => \A q \in People \ {p} : person[q] # None => person[q].bib # row.bib
  /\ person' = [person EXCEPT ![p] = row]
  /\ UNCHANGED <<cell, job>>

SaveTemplate(c) ==
  /\ Open
  /\ cell' = c
  /\ UNCHANGED <<person, job>>
-----------------------------------------------------------------------------
(* The ids are not looked at: they may be anybody's, and there twice. *)
Start(ids, layout) ==
  /\ job.at = "none"
  /\ Len(ids) \in 1..MaxPeople
  /\ Validate(cell, layout)
  /\ job' = [NoJob EXCEPT !.at = "queued", !.ids = ids, !.layout = layout]
  /\ UNCHANGED <<person, cell>>

loadAssets ==
  /\ job.at = "queued"
  /\ job' = [job EXCEPT !.at = "assets", !.cell = cell]
  /\ UNCHANGED <<person, cell>>

(* The chosen who are in the event, by their BIB. *)
PrintRows ==
  LET found == {p \in {job.ids[i] : i \in DOMAIN job.ids} : person[p] # None}
      After(p) == {q \in found : person[q].bib <= person[p].bib}
      ByBib == [i \in 1..Cardinality(found) |-> CHOOSE p \in found : Cardinality(After(p)) = i]
  IN /\ job.at = "assets"
     /\ found # {}
     /\ job' = [job EXCEPT !.at = "rows",
          !.rows = [i \in DOMAIN ByBib |-> [id |-> ByBib[i], row |-> person[ByBib[i]]]]]
     /\ UNCHANGED <<person, cell>>

(* By the lowest BIB of one's team, then by leg, then by BIB. *)
PrintOrder(rows) ==
  LET Bib(i) == rows[i].row.bib
      Group(i) ==
        IF rows[i].row.team = NoTeam THEN Bib(i)
        ELSE CHOOSE b \in 1..MaxBib :
               /\ \E j \in DOMAIN rows : rows[j].row.team = rows[i].row.team /\ Bib(j) = b
               /\ \A j \in DOMAIN rows : rows[j].row.team = rows[i].row.team => b <= Bib(j)
      Leg(i) == IF rows[i].row.leg # 0 THEN rows[i].row.leg ELSE Bib(i)
      Less(i, j) ==
        \/ Group(i) < Group(j)
        \/ Group(i) = Group(j) /\ Leg(i) < Leg(j)
        \/ Group(i) = Group(j) /\ Leg(i) = Leg(j) /\ Bib(i) < Bib(j)
      Place(i) == 1 + Cardinality({j \in DOMAIN rows : Less(j, i)})
  IN [n \in DOMAIN rows |-> rows[CHOOSE i \in DOMAIN rows : Place(i) = n]]

(* At most n in each, the rest in the last. *)
Pieces(s, n) ==
  [k \in 1..((Len(s) + n - 1) \div n) |->
     SubSeq(s, (k - 1) * n + 1, IF k * n < Len(s) THEN k * n ELSE Len(s))]
SplitParts(order) == Pieces(order, PeoplePerFile)

(* Files of sheets of BIBs, if the layout still fits the template. *)
Render ==
  LET parts == SplitParts(PrintOrder(job.rows))
  IN /\ job.at = "rows"
     /\ Validate(job.cell, job.layout)
     /\ job' = [job EXCEPT !.at = "rendered",
          !.files = [k \in DOMAIN parts |->
            Pieces(parts[k], Cardinality(DOMAIN PlaceCells(job.cell, job.layout)))]]
     /\ UNCHANGED <<person, cell>>

(* StoreGenerated, and the result with how many were skipped. *)
Store ==
  /\ job.at = "rendered"
  /\ job' = [job EXCEPT !.at = "completed", !.skipped = Len(job.ids) - Len(job.rows)]
  /\ UNCHANGED <<person, cell>>

(* Nobody is left, the layout does not fit any more, a call fails. *)
Fail ==
  /\ job.at \notin {"none", "completed", "failed"}
  /\ job' = [NoJob EXCEPT !.at = "failed"]
  /\ UNCHANGED <<person, cell>>

Run == loadAssets \/ PrintRows \/ Render \/ Store \/ Fail

Next ==
  \/ \E p \in People, row \in Rows \union {None} : ChangeParticipant(p, row)
  \/ \E c \in Cells : SaveTemplate(c)
  \/ \E n \in 1..MaxPeople : \E ids \in [1..n -> People], l \in Layouts : Start(ids, l)
  \/ Run

Spec == Init /\ [][Next]_vars
-----------------------------------------------------------------------------
(* Properties                                                              *)

(* A print that was stored has everybody who was chosen and still there, once, *)
(* team members next to each other and in the order of their legs, no sheet   *)
(* and no file over its limit, and tells how many of those asked for are not  *)
(* on it (when nobody was asked for twice).                                   *)
Sheet(f, s) == job.files[f][s]
Printed == {at \in (1..MaxPeople) \X (1..MaxPeople) \X (1..MaxPeople) :
  /\ at[1] \in DOMAIN job.files /\ at[2] \in DOMAIN job.files[at[1]]
  /\ at[3] \in DOMAIN Sheet(at[1], at[2])}
PrintIsComplete ==
  LET On(at) == Sheet(at[1], at[2])[at[3]]
      Before(a, b) == \/ a[1] < b[1]
                      \/ a[1] = b[1] /\ a[2] < b[2]
                      \/ a[1] = b[1] /\ a[2] = b[2] /\ a[3] < b[3]
      Team(at) == On(at).row.team
      chosen == {job.ids[i] : i \in DOMAIN job.ids}
  IN job.at = "completed" =>
       /\ {On(at) : at \in Printed} = {[id |-> p, row |-> person[p]] : p \in {q \in chosen : person[q] # None}}
       /\ \A a, b \in Printed : On(a).id = On(b).id => a = b
       /\ \A a, b, c \in Printed :
            Before(a, b) /\ Before(b, c) /\ Team(a) # NoTeam /\ Team(a) = Team(c) => Team(b) = Team(a)
       /\ \A a, b \in Printed :
            Before(a, b) /\ Team(a) # NoTeam /\ Team(a) = Team(b) /\ On(a).row.leg > 0 /\ On(b).row.leg > 0
              => On(a).row.leg <= On(b).row.leg
       /\ \A f \in DOMAIN job.files :
            /\ Cardinality({at \in Printed : at[1] = f}) \in 1..PeoplePerFile
            /\ \A s \in DOMAIN job.files[f] : Len(Sheet(f, s)) \in 1..(job.layout.cols * job.layout.rows)
       /\ Distinct(job.ids) => job.skipped = Cardinality({p \in chosen : person[p] = None})

(* Whatever size the template has by the time it is printed: BIBs with their *)
(* bleed keep clear of each other and of the margin, a crop mark touches no   *)
(* bleed, and it is on the paper if the margin has room for one.              *)
SheetHoldsTheGrid ==
  job.at = "rendered" =>
    LET l == job.layout
        size == SheetSize(l)
        cells == PlaceCells(job.cell, l)
        Bled(at) == [x1 |-> cells[at].x1 - l.bleed, x2 |-> cells[at].x2 + l.bleed,
                     y1 |-> cells[at].y1 - l.bleed, y2 |-> cells[at].y2 + l.bleed]
        Apart(a, b) == a.x2 <= b.x1 \/ b.x2 <= a.x1 \/ a.y2 <= b.y1 \/ b.y2 <= a.y1
        Within(a, m) == m <= a.x1 /\ a.x2 <= size.w - m /\ m <= a.y1 /\ a.y2 <= size.h - m
    IN /\ \A a, b \in DOMAIN cells : a # b => Apart(Bled(a), Bled(b))
       /\ \A a \in DOMAIN cells : Within(Bled(a), Margin(l))
       /\ \A mark \in CropMarkLines(cells, l.bleed) :
            /\ \A a \in DOMAIN cells : Apart(mark, Bled(a))
            /\ Margin(l) >= CropMark + 2 => Within(mark, 0)

(* Every print is what was asked for and can be cut, whatever has become of  *)
(* the people and of the template between the request and its job.           *)
PrintIsRight == PrintIsComplete /\ SheetHoldsTheGrid
=============================================================================
