---------------------------- MODULE EventProofs ----------------------------
(***************************************************************************)
(* Proofs about module Event: imports and prints, for any files, people    *)
(* and layouts.  The requests are RegistrationProofs'.                     *)
(***************************************************************************)
EXTENDS Event, Sequences, FiniteSetTheorems, WellFoundedInduction, TLAPS

(* The cardinality an instance speaks of is the one of FiniteSets.           *)
LEMMA ImportCardinality == \A S : I!Cardinality(S) = Cardinality(S)
  BY DEF I!Cardinality, Cardinality

(* A set of numbers has a least one.                                        *)
LEMMA LeastOne ==
  ASSUME NEW S \in SUBSET Nat, S # {}
  PROVE  \E m \in S : \A i \in S : m <= i
  <1>1. IsWellFoundedOn({p \in Nat \X Nat : p[1] < p[2]}, Nat)
    BY NatLessThanWellFounded, Zenon DEF OpToRel
  <1>2. PICK m \in S : \A i \in S : ~(<<i, m>> \in {p \in Nat \X Nat : p[1] < p[2]})
    BY <1>1, WFMin
  <1>3. ASSUME NEW i \in S PROVE m <= i
    <2>1. <<i, m>> \in Nat \X Nat /\ <<i, m>>[1] = i /\ <<i, m>>[2] = m
      OBVIOUS
    <2>2. ~(i < m)
      BY <1>2, <2>1
    <2> QED BY <2>2
  <1> QED BY <1>3

(* Induction up to a number, over the set of those of which a thing is true. *)
LEMMA UpTo ==
  ASSUME NEW last \in Nat, NEW S, 0 \in S, \A n \in 1..last : n - 1 \in S => n \in S
  PROVE  0..last \subseteq S
  <1> DEFINE bad == {n \in 0..last : n \notin S}
  <1>1. SUFFICES ASSUME bad # {} PROVE FALSE
    OBVIOUS
  <1>2. PICK m \in bad : \A i \in bad : m <= i
    <2>1. bad \in SUBSET Nat
      OBVIOUS
    <2> QED BY <1>1, <2>1, LeastOne
  <1>3. m \in 1..last /\ m - 1 \in 0..last /\ ~(m <= m - 1)
    BY <1>2
  <1>4. m - 1 \in S
    BY <1>2, <1>3
  <1> QED BY <1>2, <1>3, <1>4
-----------------------------------------------------------------------------
(* Files, plans and the database. *)

Person ==
  [race : FileRaces, team : TeamNames \union {NoTeam}, leg : 0..I!LastLeg, bib : Bibs,
   ref : Refs \union {NoRef}, gender : I!Genders]

(* What every import leaves behind, whatever the file. *)
Database(d) ==
  /\ d.people \in Seq(Person)
  /\ d.teams \in [I!Keys -> I!Categories \union {"none"}]
  /\ I!BibsAndRefsUnique(d.people)
  /\ I!LegsUnique(d.people)

LEMMA FileRows ==
  ASSUME NEW file \in I!Files
  PROVE  /\ Len(file) \in Nat \ {0}
         /\ DOMAIN file = 1..Len(file)
         /\ \A i \in 1..Len(file) : file[i] \in I!RowType
  <1>1. PICK n \in 1..MaxRows : file \in [1..n -> InputRows \intersect I!RowType]
    BY DEF I!Files
  <1>2. n \in Nat \ {0} /\ file \in Seq(I!RowType) /\ DOMAIN file = 1..n
    BY <1>1, ImportAssumption
  <1> QED BY <1>1, <1>2

(* What a plan says of a row it does not refuse. *)
Writing(plan, i) == plan[i] \in {"create", "update"}

LEMMA PlannedRow ==
  ASSUME NEW d, NEW file \in I!Files, NEW update \in BOOLEAN, NEW i \in 1..Len(file),
         Writing(I!PlanImport(d, file, update), i)
  PROVE  /\ I!PlanImport(d, file, update)[i] = I!RowAction(d, file, i, update)
         /\ I!FitsRace(file[i]) /\ ~I!Repeated(file, i) /\ ~I!BibOfAnother(d, file[i])
         /\ I!PlanImport(d, file, update)[i] = "create" <=> I!Match(d, file[i]) = {}
  <1>1. i \in DOMAIN file
    BY FileRows
  <1>2. I!PlanImport(d, file, update)[i] = I!RowAction(d, file, i, update)
    BY <1>1 DEF I!PlanImport, Writing
  <1> QED BY <1>2 DEF Writing, I!RowAction

(* A row is about one participant at most, since stored BIBs and ref_ids are *)
(* unique, and nobody else has its BIB or its ref_id.                        *)
LEMMA MatchesOne ==
  ASSUME NEW d, Database(d), NEW row, I!Match(d, row) # {}, ~I!BibOfAnother(d, row)
  PROVE  /\ I!Found(d, row) \in DOMAIN d.people
         /\ I!Match(d, row) = {I!Found(d, row)}
         /\ \A p \in DOMAIN d.people \ {I!Found(d, row)} :
              d.people[p].bib # row.bib /\ (row.ref # NoRef => d.people[p].ref # row.ref)
  <1>1. I!Found(d, row) \in I!Match(d, row)
    BY DEF I!Found
  <1>2. I!Found(d, row) \in DOMAIN d.people
    BY <1>1 DEF I!Match, I!WithRef, I!WithBib
  <1>3. ASSUME NEW p \in DOMAIN d.people, p # I!Found(d, row)
        PROVE  d.people[p].bib # row.bib /\ (row.ref # NoRef => d.people[p].ref # row.ref)
    <2> DEFINE s == I!Found(d, row)
    <2>1. d.people[p].bib # d.people[s].bib /\ (d.people[p].ref # NoRef => d.people[p].ref # d.people[s].ref)
      BY <1>2, <1>3 DEF Database, I!BibsAndRefsUnique
    <2>2. CASE I!WithRef(d, row) # {}
      <3>1. s \in I!WithRef(d, row) /\ I!WithBib(d, row) \subseteq I!WithRef(d, row)
        BY <1>1, <2>2 DEF I!Match, I!BibOfAnother
      <3> QED BY <1>3, <2>1, <3>1 DEF I!WithRef, I!WithBib
    <2>3. CASE I!WithRef(d, row) = {}
      <3>1. s \in I!WithBib(d, row)
        BY <1>1, <2>3 DEF I!Match
      <3> QED BY <1>3, <2>1, <2>3, <3>1 DEF I!WithRef, I!WithBib
    <2> QED BY <2>2, <2>3
  <1>4. I!Match(d, row) \subseteq {I!Found(d, row)}
    BY <1>3 DEF I!Match, I!WithRef, I!WithBib
  <1> QED BY <1>1, <1>2, <1>3, <1>4
-----------------------------------------------------------------------------
(* Imports: what applyPlan has written after each row. *)

(* The participants after a row are those after the row before it, and what  *)
(* the row writes: the recursive function of Written exists.                 *)
Writes(f, d, file, plan, last) ==
  f = [n \in 0..last |-> IF n = 0 THEN d.people
         ELSE I!WriteRow(f[n - 1], plan[n], file[n], I!Found(d, file[n]))]

LEMMA WritesExist ==
  ASSUME NEW d, NEW file, NEW plan
  PROVE  \A last \in Nat : \E f : Writes(f, d, file, plan, last)
  <1> DEFINE bad == {last \in Nat : ~(\E f : Writes(f, d, file, plan, last))}
  <1>1. SUFFICES ASSUME bad # {} PROVE FALSE
    OBVIOUS
  <1>2. PICK m \in bad : \A i \in bad : m <= i
    BY <1>1, LeastOne
  <1>3. CASE m = 0
    <2> DEFINE f == [n \in 0..0 |-> d.people]
    <2>1. Writes(f, d, file, plan, 0)
      BY DEF Writes
    <2> QED BY <1>2, <1>3, <2>1
  <1>4. CASE m > 0
    <2>1. m - 1 \in Nat /\ m - 1 \notin bad
      BY <1>2, <1>4
    <2>2. PICK g : Writes(g, d, file, plan, m - 1)
      BY <2>1
    <2> DEFINE f == [n \in 0..m |-> IF n = m THEN I!WriteRow(g[m - 1], plan[m], file[m], I!Found(d, file[m]))
                                    ELSE g[n]]
    <2>3. m \in Nat
      BY <1>2
    <2>4. ASSUME NEW n \in 0..m
          PROVE  f[n] = IF n = 0 THEN d.people
                        ELSE I!WriteRow(f[n - 1], plan[n], file[n], I!Found(d, file[n]))
      <3>1. CASE n = m
        BY <1>4, <2>3, <3>1
      <3>2. CASE n # m
        <4>1. n \in 0..(m - 1)
          BY <2>3, <3>2
        <4>2. g[n] = IF n = 0 THEN d.people
                     ELSE I!WriteRow(g[n - 1], plan[n], file[n], I!Found(d, file[n]))
          BY <2>2, <4>1 DEF Writes
        <4>3. n = 0 \/ (n - 1 \in 0..m /\ n - 1 # m)
          BY <2>3, <3>2
        <4> QED BY <3>2, <4>2, <4>3
      <3> QED BY <3>1, <3>2
    <2>5. Writes(f, d, file, plan, m)
      <3> HIDE DEF f
      <3>1. f = [n \in 0..m |-> f[n]]
        BY DEF f
      <3> QED BY <2>4, <3>1 DEF Writes
    <2> QED BY <1>2, <2>5
  <1> QED BY <1>2, <1>3, <1>4

LEMMA WrittenSteps ==
  ASSUME NEW d, NEW file, NEW plan, Len(file) \in Nat
  PROVE  /\ I!Written(d, file, plan)[0] = d.people
         /\ \A n \in 1..Len(file) :
              I!Written(d, file, plan)[n] =
                I!WriteRow(I!Written(d, file, plan)[n - 1], plan[n], file[n], I!Found(d, file[n]))
  <1> DEFINE w == I!Written(d, file, plan)
  <1>1. w = CHOOSE f : Writes(f, d, file, plan, Len(file))
    BY DEF I!Written, Writes
  <1>2. Writes(w, d, file, plan, Len(file))
    BY <1>1, WritesExist
  <1> HIDE DEF w
  <1>3. w[0] = d.people
    BY <1>2 DEF Writes
  <1>4. ASSUME NEW n \in 1..Len(file)
        PROVE  w[n] = I!WriteRow(w[n - 1], plan[n], file[n], I!Found(d, file[n]))
    <2>1. n \in 0..Len(file) /\ n # 0
      OBVIOUS
    <2> QED BY <1>2, <2>1 DEF Writes
  <1> QED BY <1>3, <1>4 DEF w
-----------------------------------------------------------------------------
(* BIBs and ref_ids. *)

(* Where the BIB and the ref_id of a participant come from after the first n *)
(* rows: from the database as it was, or from one of these rows.             *)
OwnOrOfARow(d, file, plan, people, n) ==
  \A p \in DOMAIN people :
    /\ \/ p \in DOMAIN d.people /\ people[p].bib = d.people[p].bib
       \/ \E i \in 1..n : Writing(plan, i) /\ people[p].bib = file[i].bib
    /\ \/ people[p].ref = NoRef
       \/ p \in DOMAIN d.people /\ people[p].ref = d.people[p].ref
       \/ \E i \in 1..n : Writing(plan, i) /\ people[p].ref = file[i].ref

(* The invariant of applyPlan's loop. *)
WrittenSoFar(d, file, plan, people, n) ==
  /\ people \in Seq(Person)
  /\ DOMAIN d.people \subseteq DOMAIN people
  /\ I!BibsAndRefsUnique(people)
  /\ OwnOrOfARow(d, file, plan, people, n)

LEMMA StoredIsAPerson ==
  ASSUME NEW row \in I!RowType, NEW ref \in Refs \union {NoRef}
  PROVE  /\ I!Stored(row, ref) \in Person
         /\ I!Stored(row, ref).bib = row.bib
         /\ I!Stored(row, ref).ref = IF row.ref = NoRef THEN ref ELSE row.ref
  BY DEF I!Stored, Person, I!RowType, I!LastLeg

(* A row of the plan writes nobody else's BIB and nobody else's ref_id.      *)
LEMMA RowIsNobodyElses ==
  ASSUME NEW d, Database(d), NEW file \in I!Files, NEW update \in BOOLEAN, NEW n \in 1..Len(file),
         NEW people, WrittenSoFar(d, file, I!PlanImport(d, file, update), people, n - 1),
         Writing(I!PlanImport(d, file, update), n),
         NEW p \in DOMAIN people,
         I!Match(d, file[n]) # {} => p # I!Found(d, file[n])
  PROVE  people[p].bib # file[n].bib /\ (file[n].ref # NoRef => people[p].ref # file[n].ref)
  <1> DEFINE plan == I!PlanImport(d, file, update)
             row == file[n]
  <1>1. ~I!Repeated(file, n) /\ ~I!BibOfAnother(d, row) /\ n \in DOMAIN file
    BY PlannedRow, FileRows
  <1>2. ASSUME NEW i \in 1..(n - 1)
        PROVE  file[i].bib # row.bib /\ (row.ref # NoRef => file[i].ref # row.ref)
    <2>1. i \in DOMAIN file \ {n}
      BY FileRows
    <2> QED BY <1>1, <2>1 DEF I!Repeated
  <1>3. ASSUME p \in DOMAIN d.people
        PROVE  d.people[p].bib # row.bib /\ (row.ref # NoRef => d.people[p].ref # row.ref)
    <2>1. CASE I!Match(d, row) # {}
      BY <1>1, <1>3, <2>1, MatchesOne
    <2>2. CASE I!Match(d, row) = {}
      BY <1>3, <2>2 DEF I!Match, I!WithRef, I!WithBib
    <2> QED BY <2>1, <2>2
  <1>4. OwnOrOfARow(d, file, plan, people, n - 1)
    BY DEF WrittenSoFar
  <1> HIDE DEF plan, row
  <1>5. people[p].bib # row.bib
    BY <1>2, <1>3, <1>4 DEF OwnOrOfARow
  <1>6. row.ref # NoRef => people[p].ref # row.ref
    BY <1>2, <1>3, <1>4 DEF OwnOrOfARow
  <1> QED BY <1>5, <1>6 DEF row

LEMMA RowWrites ==
  ASSUME NEW d, Database(d), NEW file \in I!Files, NEW update \in BOOLEAN, NEW n \in 1..Len(file),
         NEW people, WrittenSoFar(d, file, I!PlanImport(d, file, update), people, n - 1)
  PROVE  WrittenSoFar(d, file, I!PlanImport(d, file, update),
           I!WriteRow(people, I!PlanImport(d, file, update)[n], file[n], I!Found(d, file[n])), n)
  <1> DEFINE plan == I!PlanImport(d, file, update)
             row == file[n]
             s == I!Found(d, row)
             after == I!WriteRow(people, plan[n], row, s)
  <1>1. row \in I!RowType /\ people \in Seq(Person) /\ 1..(n - 1) \subseteq 1..n
    BY FileRows DEF WrittenSoFar
  <1>2. /\ DOMAIN d.people \subseteq DOMAIN people
        /\ I!BibsAndRefsUnique(people)
        /\ OwnOrOfARow(d, file, plan, people, n - 1)
    BY DEF WrittenSoFar
  <1>3. OwnOrOfARow(d, file, plan, people, n)
    BY <1>1, <1>2 DEF OwnOrOfARow
  <1>4. Writing(plan, n) => ((plan[n] = "create") <=> (I!Match(d, row) = {}))
    BY PlannedRow
  <1>5. CASE plan[n] = "create"
    <2> DEFINE new == I!Stored(row, NoRef)
               end == Len(people) + 1
    <2>1. new \in Person /\ new.bib = row.bib /\ new.ref = row.ref
      BY <1>1, StoredIsAPerson
    <2>2. after = Append(people, new)
      BY <1>5 DEF I!WriteRow
    <2>3. ASSUME NEW p \in DOMAIN people
          PROVE  people[p].bib # row.bib /\ (row.ref # NoRef => people[p].ref # row.ref)
      BY <1>4, <1>5, RowIsNobodyElses DEF Writing
    <2> HIDE DEF new, after, row, plan
    <2>4. /\ after \in Seq(Person) /\ DOMAIN after = DOMAIN people \union {end} /\ end \notin DOMAIN people
          /\ after[end] = new /\ \A p \in DOMAIN people : after[p] = people[p]
      BY <1>1, <2>1, <2>2
    <2>5. I!BibsAndRefsUnique(after)
      <3>1. ASSUME NEW p \in DOMAIN after, NEW o \in DOMAIN after, p # o
            PROVE  after[p].bib # after[o].bib /\ (after[p].ref # NoRef => after[p].ref # after[o].ref)
        <4>1. CASE p = end
          BY <2>1, <2>3, <2>4, <3>1, <4>1
        <4>2. CASE o = end
          BY <2>1, <2>3, <2>4, <3>1, <4>2
        <4>3. CASE p # end /\ o # end
          BY <1>2, <2>4, <3>1, <4>3 DEF I!BibsAndRefsUnique
        <4> QED BY <4>1, <4>2, <4>3
      <3> QED BY <3>1 DEF I!BibsAndRefsUnique
    <2>6. OwnOrOfARow(d, file, plan, after, n)
      <3>1. n \in 1..n /\ Writing(plan, n) /\ new.bib = file[n].bib /\ new.ref = file[n].ref
        BY <1>5, <2>1 DEF Writing, row
      <3> QED BY <1>3, <2>4, <3>1 DEF OwnOrOfARow
    <2> QED BY <1>2, <2>4, <2>5, <2>6 DEF WrittenSoFar, after, row, plan
  <1>6. CASE plan[n] = "update"
    <2> DEFINE new == I!Stored(row, people[s].ref)
    <2>1. s \in DOMAIN d.people /\ Writing(plan, n)
      BY <1>4, <1>6, MatchesOne, PlannedRow DEF Writing
    <2>2. s \in DOMAIN people /\ people[s].ref \in Refs \union {NoRef}
      <3>1. s \in DOMAIN people
        BY <1>2, <2>1
      <3> HIDE DEF s
      <3>2. people[s] \in Person
        BY <1>1, <3>1
      <3> QED BY <3>1, <3>2 DEF Person
    <2>3. new \in Person /\ new.bib = row.bib /\ new.ref = IF row.ref = NoRef THEN people[s].ref ELSE row.ref
      BY <1>1, <2>2, StoredIsAPerson
    <2>4. after = [people EXCEPT ![s] = new]
      BY <1>6 DEF I!WriteRow
    <2>5. ASSUME NEW p \in DOMAIN people, p # s
          PROVE  people[p].bib # row.bib /\ (row.ref # NoRef => people[p].ref # row.ref)
      BY <2>1, <2>5, RowIsNobodyElses
    <2> HIDE DEF new, after, row, plan, s
    <2>6. /\ after \in Seq(Person) /\ DOMAIN after = DOMAIN people
          /\ after[s] = new /\ \A p \in DOMAIN people : p # s => after[p] = people[p]
      BY <1>1, <2>2, <2>3, <2>4
    <2>7. I!BibsAndRefsUnique(after)
      <3>1. ASSUME NEW p \in DOMAIN after, NEW o \in DOMAIN after, p # o
            PROVE  after[p].bib # after[o].bib /\ (after[p].ref # NoRef => after[p].ref # after[o].ref)
        <4>1. people[p].bib # people[o].bib /\ (people[p].ref # NoRef => people[p].ref # people[o].ref)
          BY <1>2, <2>6, <3>1 DEF I!BibsAndRefsUnique
        <4>2. CASE p = s
          BY <2>3, <2>5, <2>6, <3>1, <4>1, <4>2
        <4>3. CASE o = s
          BY <2>3, <2>5, <2>6, <3>1, <4>1, <4>3
        <4>4. CASE p # s /\ o # s
          BY <2>6, <4>1, <4>4
        <4> QED BY <4>2, <4>3, <4>4
      <3> QED BY <3>1 DEF I!BibsAndRefsUnique
    <2>8. OwnOrOfARow(d, file, plan, after, n)
      <3>1. n \in 1..n /\ new.bib = file[n].bib /\ (new.ref = people[s].ref \/ new.ref = file[n].ref)
        BY <2>3 DEF row
      <3> QED BY <1>3, <2>1, <2>6, <3>1 DEF OwnOrOfARow
    <2> QED BY <1>2, <2>6, <2>7, <2>8 DEF WrittenSoFar, after, row, plan, s
  <1>7. CASE ~Writing(plan, n)
    <2>1. after = people
      BY <1>7 DEF Writing, I!WriteRow
    <2> QED BY <1>1, <1>2, <1>3, <2>1 DEF WrittenSoFar
  <1> QED BY <1>5, <1>6, <1>7 DEF Writing

LEMMA EveryRowWrites ==
  ASSUME NEW d, Database(d), NEW file \in I!Files, NEW update \in BOOLEAN
  PROVE  \A n \in 0..Len(file) :
           WrittenSoFar(d, file, I!PlanImport(d, file, update),
                        I!Written(d, file, I!PlanImport(d, file, update))[n], n)
  <1> DEFINE plan == I!PlanImport(d, file, update)
             w == I!Written(d, file, plan)
             good == {n \in 0..Len(file) : WrittenSoFar(d, file, plan, w[n], n)}
  <1>1. Len(file) \in Nat
    BY FileRows
  <1>2. w[0] = d.people /\ \A n \in 1..Len(file) :
          w[n] = I!WriteRow(w[n - 1], plan[n], file[n], I!Found(d, file[n]))
    BY <1>1, WrittenSteps
  <1> HIDE DEF w
  <1>3. 0 \in good
    BY <1>1, <1>2 DEF WrittenSoFar, OwnOrOfARow, Database
  <1>4. ASSUME NEW n \in 1..Len(file), n - 1 \in good PROVE n \in good
    <2>1. WrittenSoFar(d, file, plan, w[n - 1], n - 1)
      BY <1>4
    <2>2. WrittenSoFar(d, file, plan, w[n], n)
      BY <1>2, <2>1, RowWrites
    <2> QED BY <1>1, <2>2
  <1>5. 0..Len(file) \subseteq good
    <2> HIDE DEF good
    <2> QED BY <1>1, <1>3, <1>4, UpTo
  <1> QED BY <1>5 DEF w

LEMMA ImportNeverClashes ==
  ASSUME Database(db)
  PROVE  I!BibsAndRefsNeverClash
  <1>1. ASSUME NEW file \in I!Files, NEW update \in BOOLEAN, NEW n \in DOMAIN file
        PROVE  I!BibsAndRefsUnique(I!Written(db, file, I!PlanImport(db, file, update))[n])
    <2>1. n \in 0..Len(file)
      BY FileRows
    <2> QED BY <2>1, EveryRowWrites DEF WrittenSoFar
  <1> QED BY <1>1 DEF I!BibsAndRefsNeverClash
-----------------------------------------------------------------------------
(* The database stays one. *)

LEMMA CategoryType ==
  ASSUME NEW d, Database(d), NEW file \in I!Files, NEW joining \in SUBSET (1..Len(file)), NEW k \in I!Keys
  PROVE  I!Category(d, file, joining, k) \in I!Categories \union {"none"}
  <1> DEFINE stated == {i \in joining : file[i].category # "none"}
  <1>1. d.teams[k] \in I!Categories \union {"none"}
    BY DEF Database
  <1>2. CASE stated = {}
    BY <1>1, <1>2 DEF I!Category, I!StatedCategory
  <1>3. CASE stated # {}
    <2> DEFINE first == CHOOSE i \in stated : \A j \in stated : i <= j
    <2>1. stated \in SUBSET Nat
      <3>1. 1..Len(file) \subseteq Nat /\ stated \subseteq joining
        BY FileRows
      <3> QED BY <3>1
    <2>2. \E i \in stated : \A j \in stated : i <= j
      BY <1>3, <2>1, LeastOne
    <2>3. first \in 1..Len(file)
      BY <2>2
    <2>4. file[first].category \in I!Categories \union {"none"}
      BY <2>3, FileRows DEF I!RowType
    <2>5. I!StatedCategory(d, file, joining, k) = file[first].category
      BY <1>3 DEF I!StatedCategory
    <2> QED BY <1>1, <2>4, <2>5 DEF I!Category
  <1> QED BY <1>2, <1>3

LEMMA OutcomeIsADatabase ==
  ASSUME NEW d, Database(d), NEW file \in I!Files, NEW update \in BOOLEAN
  PROVE  Database(I!Outcome(d, file, update))
  <1> DEFINE plan == I!PlanImport(d, file, update)
             w == I!Written(d, file, plan)
             teams == I!TeamsAfter(d, file, update, plan)
             once == [people |-> w[Len(file)], teams |-> teams]
  <1>1. CASE I!Applied(file, w)
    <2>1. Len(file) \in DOMAIN file /\ Len(file) \in 0..Len(file)
      BY FileRows
    <2>2. WrittenSoFar(d, file, plan, w[Len(file)], Len(file))
      BY <2>1, EveryRowWrites
    <2>3. I!BibsAndRefsUnique(w[Len(file)]) /\ I!LegsUnique(w[Len(file)])
      BY <1>1, <2>1 DEF I!Applied
    <2>4. teams \in [I!Keys -> I!Categories \union {"none"}]
      <3>1. ASSUME NEW k \in I!Keys
            PROVE  /\ d.teams[k] \in I!Categories \union {"none"}
                   /\ \A actions : I!Category(d, file, I!Joining(file, actions, k), k) \in I!Categories \union {"none"}
        <4>1. ASSUME NEW actions
              PROVE  I!Category(d, file, I!Joining(file, actions, k), k) \in I!Categories \union {"none"}
          <5>1. I!Joining(file, actions, k) \in SUBSET (1..Len(file))
            BY FileRows DEF I!Joining
          <5> QED BY <5>1, CategoryType
        <4> QED BY <4>1 DEF Database
      <3> HIDE DEF plan
      <3> QED BY <3>1 DEF I!TeamsAfter
    <2>5. I!Outcome(d, file, update) = once
      BY <1>1 DEF I!Outcome
    <2> HIDE DEF w, teams, plan
    <2> QED BY <2>2, <2>3, <2>4, <2>5 DEF Database, WrittenSoFar
  <1>2. CASE ~I!Applied(file, w)
    <2>1. I!Outcome(d, file, update) = d
      BY <1>2 DEF I!Outcome
    <2> QED BY <2>1
  <1> QED BY <1>1, <1>2

(* The database of an import is always one in which the unique indexes hold, *)
(* and rows have the columns of their tables.                                *)
DatabaseKept == part = "import" => Database(db)

LEMMA DatabaseInvariant == AllSpec => []DatabaseKept
  <1>1. AllInit => DatabaseKept
    <2>1. ASSUME I!Init PROVE Database(db)
      <3> DEFINE empty == <<>>
      <3>1. db.people = empty /\ db.teams = [k \in I!Keys |-> "none"] /\ empty \in Seq(Person) /\ DOMAIN empty = {}
        BY <2>1 DEF I!Init
      <3> HIDE DEF empty
      <3> QED BY <3>1 DEF Database, I!BibsAndRefsUnique, I!LegsUnique
    <2> QED BY <2>1 DEF AllInit, DatabaseKept
  <1>2. DatabaseKept /\ [AllNext]_allVars => DatabaseKept'
    <2> SUFFICES ASSUME DatabaseKept, [AllNext]_allVars, part' = "import" PROVE Database(db)'
      BY DEF DatabaseKept
    <2>1. part = "import" /\ Database(db)
      BY DEF DatabaseKept, AllNext, allVars
    <2>2. CASE UNCHANGED db
      BY <2>1, <2>2 DEF Database
    <2>3. ASSUME NEW file \in I!Files, NEW update \in BOOLEAN, I!Import(file, update) PROVE Database(db)'
      <3>1. db' = I!Outcome(db, file, update)
        BY <2>3 DEF I!Import
      <3>2. Database(db')
        BY <2>1, <3>1, OutcomeIsADatabase
      <3> QED BY <3>2 DEF Database
    <2> QED BY <2>1, <2>2, <2>3 DEF AllNext, allVars, I!Next
  <1> QED BY <1>1, <1>2, PTL DEF AllSpec

(* For any set of rows, any races and formats, and files of any length.      *)
THEOREM ImportsNeverClash == AllSpec => []BibsAndRefsNeverClash
  <1>1. DatabaseKept => BibsAndRefsNeverClash
    BY ImportNeverClashes DEF DatabaseKept, BibsAndRefsNeverClash
  <1> QED BY <1>1, DatabaseInvariant, PTL
-----------------------------------------------------------------------------
(* Files that are clean: where each row ends up. *)

PlanOf(d, file) == I!PlanImport(d, file, TRUE)
WrittenBy(d, file) == I!Written(d, file, PlanOf(d, file))

(* The participant that row i creates or updates, and the ref_id it had.     *)
Spot(d, file, i) ==
  IF I!Match(d, file[i]) = {} THEN Len(WrittenBy(d, file)[i]) ELSE I!Found(d, file[i])
OldRef(d, row) == IF I!Match(d, row) = {} THEN NoRef ELSE d.people[I!Found(d, row)].ref

(* Of the participants after n rows: each row has one of its own, which is   *)
(* what the row stores, and all the others are as they were.                 *)
Placed(d, file, people, n) ==
  /\ \A i \in 1..n :
       /\ Spot(d, file, i) \in DOMAIN people
       /\ people[Spot(d, file, i)] = I!Stored(file[i], OldRef(d, file[i]))
       /\ I!Match(d, file[i]) = {} => Spot(d, file, i) \notin DOMAIN d.people
  /\ \A i, j \in 1..n : Spot(d, file, i) = Spot(d, file, j) => i = j
  /\ \A p \in DOMAIN people :
       \/ \E i \in 1..n : p = Spot(d, file, i)
       \/ p \in DOMAIN d.people /\ people[p] = d.people[p]

LEMMA CleanRow ==
  ASSUME NEW d, Database(d), NEW file \in I!Files, I!Clean(d, file), NEW i \in 1..Len(file)
  PROVE  /\ Writing(PlanOf(d, file), i)
         /\ PlanOf(d, file)[i] = I!RowAction(d, file, i, TRUE)
         /\ I!FitsRace(file[i]) /\ ~I!Repeated(file, i) /\ ~I!BibOfAnother(d, file[i])
         /\ PlanOf(d, file)[i] = "create" <=> I!Match(d, file[i]) = {}
         /\ I!Match(d, file[i]) # {} =>
              /\ I!Found(d, file[i]) \in DOMAIN d.people
              /\ I!Match(d, file[i]) = {I!Found(d, file[i])}
  <1>1. i \in DOMAIN file
    BY FileRows
  <1>2. PlanOf(d, file)[i] # "error"
    BY <1>1 DEF I!Clean, PlanOf
  <1>3. PlanOf(d, file)[i] = I!RowAction(d, file, i, TRUE)
    BY <1>1, <1>2 DEF PlanOf, I!PlanImport
  <1>4. Writing(PlanOf(d, file), i)
    BY <1>2, <1>3 DEF I!RowAction, Writing
  <1>5. /\ I!FitsRace(file[i]) /\ ~I!Repeated(file, i) /\ ~I!BibOfAnother(d, file[i])
        /\ PlanOf(d, file)[i] = "create" <=> I!Match(d, file[i]) = {}
    BY <1>4, PlannedRow DEF PlanOf
  <1> QED BY <1>3, <1>4, <1>5, MatchesOne

LEMMA RowPlaces ==
  ASSUME NEW d, Database(d), NEW file \in I!Files, I!Clean(d, file), NEW n \in 1..Len(file),
         Placed(d, file, WrittenBy(d, file)[n - 1], n - 1)
  PROVE  Placed(d, file, WrittenBy(d, file)[n], n)
  <1> DEFINE plan == PlanOf(d, file)
             row == file[n]
             s == I!Found(d, row)
             people == WrittenBy(d, file)[n - 1]
             after == WrittenBy(d, file)[n]
             spot(i) == Spot(d, file, i)
             stored(i) == I!Stored(file[i], OldRef(d, file[i]))
  <1>1. Len(file) \in Nat /\ n - 1 \in 0..Len(file) /\ n \in 0..Len(file)
    BY FileRows
  <1>2. after = I!WriteRow(people, plan[n], row, s)
    BY <1>1, WrittenSteps DEF WrittenBy
  <1>3. /\ people \in Seq(Person) /\ DOMAIN d.people \subseteq DOMAIN people
        /\ after \in Seq(Person)
    BY <1>1, EveryRowWrites DEF WrittenBy, WrittenSoFar, PlanOf
  <1>4. /\ Writing(plan, n)
        /\ plan[n] = "create" <=> I!Match(d, row) = {}
        /\ I!Match(d, row) # {} => s \in DOMAIN d.people /\ I!Match(d, row) = {s}
    BY CleanRow
  <1>5. /\ \A i \in 1..(n - 1) :
             /\ spot(i) \in DOMAIN people /\ people[spot(i)] = stored(i)
             /\ I!Match(d, file[i]) = {} => spot(i) \notin DOMAIN d.people
        /\ \A i, j \in 1..(n - 1) : spot(i) = spot(j) => i = j
        /\ \A p \in DOMAIN people :
             \/ \E i \in 1..(n - 1) : p = spot(i)
             \/ p \in DOMAIN d.people /\ people[p] = d.people[p]
    BY DEF Placed
  <1>6. 1..n = 1..(n - 1) \union {n} /\ n \notin 1..(n - 1)
    OBVIOUS
  <1>7. CASE plan[n] = "create"
    <2>1. after = Append(people, stored(n))
      BY <1>2, <1>4, <1>7 DEF I!WriteRow, OldRef
    <2>2. spot(n) = Len(after)
      BY <1>4, <1>7 DEF Spot
    <2> HIDE DEF after, people, row, plan, stored, s
    <2>3. stored(n) \in Person
      <3>1. after[Len(after)] = stored(n) /\ Len(after) \in DOMAIN after
        BY <1>3, <2>1
      <3> QED BY <1>3, <3>1
    <2>4. /\ DOMAIN after = DOMAIN people \union {spot(n)} /\ spot(n) \notin DOMAIN people
          /\ after[spot(n)] = stored(n) /\ \A p \in DOMAIN people : after[p] = people[p]
      <3> HIDE DEF spot
      <3> QED BY <1>3, <2>1, <2>2, <2>3
    <2> HIDE DEF spot
    <2>5. \A i \in 1..n :
             /\ spot(i) \in DOMAIN after /\ after[spot(i)] = stored(i)
             /\ I!Match(d, file[i]) = {} => spot(i) \notin DOMAIN d.people
      BY <1>3, <1>5, <1>6, <2>4
    <2>6. \A i, j \in 1..n : spot(i) = spot(j) => i = j
      BY <1>5, <1>6, <2>4
    <2>7. \A p \in DOMAIN after :
             \/ \E i \in 1..n : p = spot(i)
             \/ p \in DOMAIN d.people /\ after[p] = d.people[p]
      BY <1>5, <1>6, <2>4
    <2> QED BY <2>5, <2>6, <2>7 DEF Placed, after, spot, stored
  <1>8. CASE plan[n] = "update"
    <2>1. spot(n) = s /\ I!Match(d, row) = {s} /\ s \in DOMAIN d.people /\ s \in DOMAIN people
      BY <1>3, <1>4, <1>8 DEF Spot
    <2>2. ASSUME NEW i \in 1..(n - 1) PROVE spot(i) # s
      <3>1. CASE I!Match(d, file[i]) = {}
        BY <1>5, <2>1, <3>1
      <3>2. CASE I!Match(d, file[i]) # {}
        <4>1. i \in 1..Len(file) /\ i # n
          BY <1>1
        <4>2. I!Match(d, file[i]) \intersect I!Match(d, row) = {}
          BY <4>1, FileRows DEF I!Clean
        <4>3. I!Match(d, file[i]) = {spot(i)}
          BY <3>2, <4>1, CleanRow DEF Spot
        <4> QED BY <2>1, <4>2, <4>3
      <3> QED BY <3>1, <3>2
    <2>3. people[s] = d.people[s]
      BY <1>5, <2>1, <2>2
    <2>4. after = [people EXCEPT ![s] = stored(n)]
      BY <1>2, <1>8, <2>1, <2>3 DEF I!WriteRow, OldRef
    <2> HIDE DEF after, people, row, plan, stored, s
    <2>5. /\ DOMAIN after = DOMAIN people
          /\ after[s] = stored(n) /\ \A p \in DOMAIN people : p # s => after[p] = people[p]
      BY <1>3, <2>1, <2>4
    <2> HIDE DEF spot
    <2>6. \A i \in 1..n :
             /\ spot(i) \in DOMAIN after /\ after[spot(i)] = stored(i)
             /\ I!Match(d, file[i]) = {} => spot(i) \notin DOMAIN d.people
      BY <1>4, <1>5, <1>6, <2>1, <2>2, <2>5 DEF row
    <2>7. \A i, j \in 1..n : spot(i) = spot(j) => i = j
      BY <1>5, <1>6, <2>1, <2>2
    <2>8. \A p \in DOMAIN after :
             \/ \E i \in 1..n : p = spot(i)
             \/ p \in DOMAIN d.people /\ after[p] = d.people[p]
      BY <1>5, <1>6, <2>1, <2>5
    <2> QED BY <2>6, <2>7, <2>8 DEF Placed, after, spot, stored
  <1> QED BY <1>4, <1>7, <1>8 DEF Writing

LEMMA EveryRowPlaces ==
  ASSUME NEW d, Database(d), NEW file \in I!Files, I!Clean(d, file)
  PROVE  Placed(d, file, WrittenBy(d, file)[Len(file)], Len(file))
  <1> DEFINE good == {n \in 0..Len(file) : Placed(d, file, WrittenBy(d, file)[n], n)}
  <1>1. Len(file) \in Nat
    BY FileRows
  <1>2. 0 \in good
    <2>1. WrittenBy(d, file)[0] = d.people
      BY <1>1, WrittenSteps DEF WrittenBy
    <2> QED BY <1>1, <2>1 DEF Placed
  <1>3. ASSUME NEW n \in 1..Len(file), n - 1 \in good PROVE n \in good
    <2>1. Placed(d, file, WrittenBy(d, file)[n - 1], n - 1)
      BY <1>3
    <2> QED BY <1>1, <2>1, RowPlaces
  <1>4. 0..Len(file) \subseteq good
    <2> HIDE DEF good
    <2> QED BY <1>1, <1>2, <1>3, UpTo
  <1> QED BY <1>1, <1>4
-----------------------------------------------------------------------------
(* Files that are clean: what becomes of a team. *)

(* The rows of a file for a team: all of them join it.                       *)
TeamRows(file, k) == {i \in DOMAIN file : I!IsTeam(FileFormat[file[i].race]) /\ I!Key(file[i]) = k}

LEMMA EveryRowJoins ==
  ASSUME NEW d, Database(d), NEW file \in I!Files, I!Clean(d, file), NEW k \in I!Keys
  PROVE  /\ I!Joining(file, PlanOf(d, file), k) = TeamRows(file, k)
         /\ I!Joining(file, [i \in DOMAIN file |-> I!RowAction(d, file, i, TRUE)], k) = TeamRows(file, k)
         /\ I!Joiners(d, file, TeamRows(file, k), k) = TeamRows(file, k)
  <1> DEFINE actions == [i \in DOMAIN file |-> I!RowAction(d, file, i, TRUE)]
             joiners(h) == I!Joiners(d, file, I!Joining(file, actions, h), h)
  <1>1. \A i \in DOMAIN file :
          /\ PlanOf(d, file)[i] = actions[i] /\ PlanOf(d, file)[i] \in {"create", "update"}
    BY CleanRow, FileRows DEF Writing
  <1>2. /\ I!Joining(file, PlanOf(d, file), k) = TeamRows(file, k)
        /\ I!Joining(file, actions, k) = TeamRows(file, k)
    BY <1>1 DEF I!Joining, I!JoinsTeam, TeamRows
  <1>3. \A h : joiners(h) \subseteq I!Joining(file, actions, h)
    BY DEF I!Joiners, I!Accepted
  <1>4. ASSUME NEW i \in TeamRows(file, k) PROVE i \in I!Joiners(d, file, TeamRows(file, k), k)
    <2>1. i \in DOMAIN file /\ I!JoinsTeam(file, actions, i) /\ I!Key(file[i]) = k
      BY <1>1 DEF TeamRows, I!JoinsTeam
    <2>2. PlanOf(d, file)[i] = IF I!JoinsTeam(file, actions, i) /\ i \notin UNION {joiners(h) : h \in I!Keys}
                               THEN "error" ELSE actions[i]
      BY <2>1 DEF PlanOf, I!PlanImport
    <2>3. i \in UNION {joiners(h) : h \in I!Keys}
      BY <1>1, <2>1, <2>2
    <2>4. PICK h \in I!Keys : i \in joiners(h)
      BY <2>3
    <2>5. h = k
      BY <1>3, <2>1, <2>4 DEF I!Joining
    <2> QED BY <1>2, <2>4, <2>5
  <1>5. I!Joiners(d, file, TeamRows(file, k), k) \subseteq TeamRows(file, k)
    BY <1>2, <1>3
  <1> QED BY <1>2, <1>4, <1>5

(* If every row is accepted, those who stay and those who join fit the team. *)
LEMMA AllAccepted ==
  ASSUME NEW d, NEW file \in I!Files, NEW joining \in SUBSET (1..Len(file)), joining # {},
         NEW staying, IsFiniteSet(staying), NEW size \in Nat,
         I!Accepted(d, file, joining, staying, size) = joining
  PROVE  Cardinality(staying) + Cardinality(joining) <= size
  <1>1. Len(file) \in Nat /\ IsFiniteSet(1..Len(file))
    BY FileRows, FS_Interval
  <1>2. IsFiniteSet(joining)
    BY <1>1, FS_Subset
  <1>3. PICK last \in joining : \A i \in joining : i <= last
    <2> DEFINE after == {Len(file) - i : i \in joining}
    <2>1. after \in SUBSET Nat /\ after # {}
      BY <1>1
    <2>2. PICK m \in after : \A i \in after : m <= i
      BY <2>1, LeastOne
    <2>3. PICK last \in joining : m = Len(file) - last
      BY <2>2
    <2>4. ASSUME NEW i \in joining PROVE i <= last
      <3>1. m <= Len(file) - i
        BY <2>2
      <3> QED BY <1>1, <2>3, <3>1
    <2> QED BY <2>4
  <1> DEFINE earlier == {j \in joining : j < last}
  <1>4. earlier = joining \ {last}
    <2>1. \A i \in joining : i \in Nat /\ i <= last
      BY <1>1, <1>3
    <2>2. \A i \in joining : i < last <=> i # last
      BY <1>3, <2>1
    <2> QED BY <1>3, <2>2
  <1>5. Cardinality(earlier) = Cardinality(joining) - 1 /\ IsFiniteSet(earlier)
    BY <1>2, <1>4, FS_RemoveElement
  <1>6. ~I!TeamFull(staying, earlier, size)
    BY <1>3 DEF I!Accepted
  <1>7. Cardinality(staying) \in Nat /\ Cardinality(joining) \in Nat
    BY <1>2, FS_CardinalityType
  <1> HIDE DEF earlier
  <1> QED BY <1>5, <1>6, <1>7, ImportCardinality DEF I!TeamFull

(* Fewer members of the same genders, or of fewer, suit the team as well.    *)
LEMMA FewerStillSuit ==
  ASSUME NEW kind, NEW size \in Nat, NEW more, IsFiniteSet(more), NEW fewer \in SUBSET more,
         NEW others \in Nat, NEW genders, NEW left \in SUBSET genders,
         fewer = more => left = genders,
         Cardinality(more) + others <= size,
         ~I!BadComposition(kind, size, genders, Cardinality(more) + others)
  PROVE  /\ Cardinality(fewer) + others <= size
         /\ ~I!BadComposition(kind, size, left, Cardinality(fewer) + others)
  <1>1. /\ Cardinality(more) \in Nat /\ Cardinality(fewer) \in Nat /\ Cardinality(fewer) <= Cardinality(more)
        /\ Cardinality(fewer) = Cardinality(more) => fewer = more
    BY FS_Subset, FS_CardinalityType
  <1>2. CASE kind = "mixed"
    BY <1>1, <1>2 DEF I!BadComposition
  <1>3. CASE kind # "mixed"
    BY <1>1, <1>3 DEF I!BadComposition
  <1> QED BY <1>2, <1>3
(* The database after a clean file, and where its rows are in it.            *)
Once(d, file) == I!Outcome(d, file, TRUE)
Spots(d, file, k) == {Spot(d, file, i) : i \in TeamRows(file, k)}

LEMMA AfterCleanFile ==
  ASSUME NEW d, Database(d), NEW file \in I!Files, I!Clean(d, file)
  PROVE  /\ Once(d, file) = [people |-> WrittenBy(d, file)[Len(file)],
                             teams |-> I!TeamsAfter(d, file, TRUE, PlanOf(d, file))]
         /\ Database(Once(d, file))
         /\ Placed(d, file, Once(d, file).people, Len(file))
         /\ \A n \in 0..Len(file) : n # 0 => I!LegsUnique(WrittenBy(d, file)[n])
  <1>1. I!Applied(file, WrittenBy(d, file))
    BY DEF I!Clean, WrittenBy, PlanOf
  <1>2. Once(d, file) = [people |-> WrittenBy(d, file)[Len(file)],
                         teams |-> I!TeamsAfter(d, file, TRUE, PlanOf(d, file))]
    BY <1>1 DEF Once, I!Outcome, WrittenBy, PlanOf
  <1>3. Database(Once(d, file))
    BY OutcomeIsADatabase DEF Once
  <1>4. Placed(d, file, Once(d, file).people, Len(file))
    BY <1>2, EveryRowPlaces
  <1>5. \A n \in 0..Len(file) : n # 0 => I!LegsUnique(WrittenBy(d, file)[n])
    BY <1>1, FileRows DEF I!Applied
  <1> QED BY <1>2, <1>3, <1>4, <1>5

(* A row for a team makes its participant a member of it, and members that   *)
(* no such row is about were members before and stay as they were.           *)
LEMMA MembersAfter ==
  ASSUME NEW d, Database(d), NEW file \in I!Files, I!Clean(d, file), NEW k \in I!Keys
  PROVE  /\ Spots(d, file, k) \subseteq I!Members(Once(d, file), k)
         /\ \A i \in TeamRows(file, k) :
              Once(d, file).people[Spot(d, file, i)].gender = file[i].gender
         /\ Cardinality(Spots(d, file, k)) = Cardinality(TeamRows(file, k))
         /\ IsFiniteSet(TeamRows(file, k)) /\ IsFiniteSet(I!Members(Once(d, file), k))
         /\ \A p \in I!Members(Once(d, file), k) \ Spots(d, file, k) :
              /\ p \in I!Staying(d, file, TeamRows(file, k), k)
              /\ Once(d, file).people[p] = d.people[p]
  <1> DEFINE once == Once(d, file)
             spot(i) == Spot(d, file, i)
             rows == TeamRows(file, k)
  <1>1. /\ Len(file) \in Nat /\ DOMAIN file = 1..Len(file)
        /\ \A i \in 1..Len(file) : file[i] \in I!RowType
    BY FileRows
  <1>2. /\ \A i \in 1..Len(file) :
             spot(i) \in DOMAIN once.people /\ once.people[spot(i)] = I!Stored(file[i], OldRef(d, file[i]))
        /\ \A i, j \in 1..Len(file) : spot(i) = spot(j) => i = j
        /\ \A p \in DOMAIN once.people :
             \/ \E i \in 1..Len(file) : p = spot(i)
             \/ p \in DOMAIN d.people /\ once.people[p] = d.people[p]
    BY AfterCleanFile DEF Placed
  <1> HIDE DEF once
  <1>3. k = <<k[1], k[2]>> /\ k[1] \in FileRaces /\ k[2] \in TeamNames /\ k[2] # NoTeam
    BY ImportAssumption DEF I!Keys
  <1>4. ASSUME NEW i \in 1..Len(file), NEW ref
        PROVE  I!Key(I!Stored(file[i], ref)) = k <=> i \in rows
    BY <1>1, <1>3 DEF I!Key, I!Stored, TeamRows
  <1>5. ASSUME NEW i \in rows
        PROVE  spot(i) \in I!Members(once, k) /\ once.people[spot(i)].gender = file[i].gender
    <2>1. i \in 1..Len(file)
      BY <1>1 DEF TeamRows
    <2>2. once.people[spot(i)].gender = file[i].gender
      <3>1. \A row, ref : I!Stored(row, ref).gender = row.gender
        BY DEF I!Stored
      <3> QED BY <1>2, <2>1, <3>1
    <2> QED BY <1>2, <1>4, <2>1, <2>2 DEF I!Members
  <1>6. ASSUME NEW p \in I!Members(once, k) \ Spots(d, file, k)
        PROVE  p \in I!Staying(d, file, rows, k) /\ once.people[p] = d.people[p]
    <2>1. p \in DOMAIN once.people /\ I!Key(once.people[p]) = k
      BY DEF I!Members
    <2>2. ASSUME NEW i \in 1..Len(file), p = spot(i) PROVE FALSE
      BY <1>2, <1>4, <2>1, <2>2 DEF Spots
    <2>3. p \in DOMAIN d.people /\ once.people[p] = d.people[p]
      BY <1>2, <2>1, <2>2
    <2>4. ASSUME NEW i \in rows, p \in I!Match(d, file[i]) PROVE FALSE
      <3>1. i \in 1..Len(file)
        BY <1>1 DEF TeamRows
      <3>2. p = spot(i)
        <4>1. I!Match(d, file[i]) # {} /\ I!Match(d, file[i]) = {I!Found(d, file[i])}
          BY <2>4, <3>1, CleanRow
        <4> QED BY <2>4, <4>1 DEF Spot
      <3> QED BY <2>2, <3>1, <3>2
    <2> HIDE DEF rows
    <2> QED BY <2>1, <2>3, <2>4 DEF I!Staying, I!Members
  <1>7. IsFiniteSet(rows)
    <2>1. rows \subseteq 1..Len(file) /\ IsFiniteSet(1..Len(file))
      BY <1>1, FS_Interval DEF TeamRows
    <2> QED BY <2>1, FS_Subset
  <1>8. Cardinality(Spots(d, file, k)) = Cardinality(rows)
    <2> DEFINE f == [i \in rows |-> spot(i)]
    <2>1. rows \subseteq 1..Len(file)
      BY <1>1 DEF TeamRows
    <2>2. f \in [rows -> Spots(d, file, k)]
      BY DEF Spots
    <2>3. f \in Bijection(rows, Spots(d, file, k))
      <3>1. \A i, j \in rows : f[i] = f[j] => i = j
        BY <1>2, <2>1
      <3>2. \A s \in Spots(d, file, k) : \E i \in rows : f[i] = s
        BY DEF Spots
      <3> HIDE DEF f
      <3> QED BY <2>2, <3>1, <3>2 DEF Bijection, Injection, Surjection, IsInjective
    <2>4. ExistsBijection(rows, Spots(d, file, k))
      BY <2>3 DEF ExistsBijection
    <2> QED BY <1>7, <2>4, FS_Bijection
  <1>9. IsFiniteSet(I!Members(once, k))
    <2>1. once.people \in Seq(Person)
      BY AfterCleanFile DEF Database, once
    <2>2. I!Members(once, k) \subseteq 1..Len(once.people) /\ Len(once.people) \in Nat
      BY <2>1 DEF I!Members
    <2>3. IsFiniteSet(1..Len(once.people))
      BY <2>2, FS_Interval
    <2> QED BY <2>2, <2>3, FS_Subset
  <1> QED BY <1>5, <1>6, <1>7, <1>8, <1>9 DEF Spots, once
(* A team that a clean file has rows for keeps, or gets, a category, which   *)
(* suits those who joined together with the members no row is about.         *)
GendersOf(people, those) == {people[m].gender : m \in those}

LEMMA JoinedTeam ==
  ASSUME NEW d, Database(d), NEW file \in I!Files, I!Clean(d, file), NEW k \in I!Keys,
         TeamRows(file, k) # {}
  PROVE  LET rows == TeamRows(file, k)
             size == FileFormat[k[1]].size
             once == Once(d, file)
             rest == I!Members(once, k) \ Spots(d, file, k)
         IN /\ once.teams[k] # "none"
            /\ Cardinality(rest) + Cardinality(rows) <= size
            /\ ~I!BadComposition(once.teams[k], size,
                  GendersOf(once.people, rest) \union {file[i].gender : i \in rows},
                  Cardinality(rest) + Cardinality(rows))
            /\ \A i \in rows : file[i].leg # 0 =>
                  /\ \A m \in rest : once.people[m].leg # file[i].leg
                  /\ \A j \in rows : j < i => file[j].leg # file[i].leg
  <1> DEFINE rows == TeamRows(file, k)
             size == FileFormat[k[1]].size
             once == Once(d, file)
             rest == I!Members(once, k) \ Spots(d, file, k)
             staying == I!Staying(d, file, rows, k)
             kind == I!Category(d, file, rows, k)
             accepted == I!Accepted(d, file, rows, staying, size)
             joined == {file[i].gender : i \in rows}
  <1>1. /\ accepted = rows /\ kind # "none"
        /\ ~I!BadComposition(kind, size, GendersOf(d.people, staying) \union joined,
              I!Cardinality(staying) + I!Cardinality(rows))
    <2>1. I!Joiners(d, file, rows, k) = rows
      BY EveryRowJoins
    <2>2. I!Joiners(d, file, rows, k) =
            IF \/ kind = "none"
               \/ I!BadComposition(kind, size,
                    GendersOf(d.people, staying) \union {file[i].gender : i \in accepted},
                    I!Cardinality(staying) + I!Cardinality(accepted))
            THEN {} ELSE accepted
      BY DEF I!Joiners, GendersOf
    <2>3. rows # {}
      OBVIOUS
    <2> HIDE DEF rows, accepted, staying, kind, size
    <2> QED BY <2>1, <2>2, <2>3
  <1>2. once.teams[k] = kind
    <2>1. I!Joining(file, PlanOf(d, file), k) = rows
          /\ I!Joining(file, [i \in DOMAIN file |-> I!RowAction(d, file, i, TRUE)], k) = rows
      BY EveryRowJoins
    <2>2. once.teams = I!TeamsAfter(d, file, TRUE, PlanOf(d, file))
      <3>1. once = [people |-> WrittenBy(d, file)[Len(file)],
                    teams |-> I!TeamsAfter(d, file, TRUE, PlanOf(d, file))]
        BY AfterCleanFile
      <3> HIDE DEF once
      <3> QED BY <3>1
    <2>3. once.teams[k] = IF k \in I!NewTeams(d, file, PlanOf(d, file)) THEN kind ELSE d.teams[k]
      BY <2>1, <2>2 DEF I!TeamsAfter
    <2> HIDE DEF rows
    <2> QED BY <2>1, <2>3 DEF I!NewTeams, I!Category, rows
  <1>3. size \in Nat
    BY ImportAssumption DEF I!Keys, Formats
  <1>4. /\ rest \subseteq staying /\ \A m \in rest : once.people[m] = d.people[m]
        /\ IsFiniteSet(rows)
    BY MembersAfter
  <1>5. IsFiniteSet(staying) /\ rows \in SUBSET (1..Len(file))
    <2>1. d.people \in Seq(Person)
      BY DEF Database
    <2>2. staying \subseteq 1..Len(d.people) /\ Len(d.people) \in Nat
      BY <2>1 DEF I!Staying, I!Members
    <2>3. IsFiniteSet(1..Len(d.people))
      BY <2>2, FS_Interval
    <2> QED BY <2>2, <2>3, FS_Subset, FileRows DEF TeamRows
  <1> HIDE DEF rows, once, staying, kind, size
  <1>6. Cardinality(staying) + Cardinality(rows) <= size
    BY <1>1, <1>3, <1>5, AllAccepted DEF rows
  <1>7. ~I!BadComposition(kind, size, GendersOf(d.people, staying) \union joined,
           Cardinality(staying) + Cardinality(rows))
    BY <1>1, ImportCardinality
  <1>8. GendersOf(once.people, rest) = GendersOf(d.people, rest)
    BY <1>4 DEF GendersOf
  <1> DEFINE left == GendersOf(d.people, rest) \union joined
             genders == GendersOf(d.people, staying) \union joined
             others == Cardinality(rows)
  <1>9. /\ Cardinality(rest) + others <= size
        /\ ~I!BadComposition(kind, size, left, Cardinality(rest) + others)
    <2>1. others \in Nat
      BY <1>4, FS_CardinalityType
    <2>2. left \in SUBSET genders /\ rest \in SUBSET staying /\ (rest = staying => left = genders)
      BY <1>4 DEF GendersOf
    <2>3. Cardinality(staying) + others <= size /\ ~I!BadComposition(kind, size, genders, Cardinality(staying) + others)
      BY <1>6, <1>7
    <2> HIDE DEF rest, left, genders, others
    <2> QED BY <1>3, <1>5, <2>1, <2>2, <2>3, FewerStillSuit
  <1>10. ASSUME NEW i \in rows, file[i].leg # 0
         PROVE  /\ \A m \in rest : once.people[m].leg # file[i].leg
                /\ \A j \in rows : j < i => file[j].leg # file[i].leg
    <2>1. file[i].leg \notin {d.people[m].leg : m \in staying}
                             \union {file[j].leg : j \in {j \in rows : j < i}}
      BY <1>1, <1>10 DEF I!Accepted
    <2> QED BY <1>4, <2>1
  <1> QED BY <1>1, <1>2, <1>8, <1>9, <1>10 DEF rows, once, size
-----------------------------------------------------------------------------
(* Files that are clean keep teams in order. *)

LEMMA TeamWithoutRows ==
  ASSUME NEW d, Database(d), NEW file \in I!Files, I!Clean(d, file), NEW k \in I!Keys,
         TeamRows(file, k) = {}
  PROVE  Once(d, file).teams[k] = d.teams[k]
  <1>1. I!Joining(file, PlanOf(d, file), k) = {}
    BY EveryRowJoins
  <1>2. Once(d, file) = [people |-> WrittenBy(d, file)[Len(file)],
                         teams |-> I!TeamsAfter(d, file, TRUE, PlanOf(d, file))]
    BY AfterCleanFile
  <1>3. Once(d, file).teams = I!TeamsAfter(d, file, TRUE, PlanOf(d, file))
    BY <1>2
  <1> QED BY <1>1, <1>3 DEF I!TeamsAfter, I!NewTeams

LEMMA OrderKept ==
  ASSUME NEW d, Database(d), NEW file \in I!Files, I!Clean(d, file), NEW k \in I!Keys,
         I!TeamInOrder(d, k)
  PROVE  I!TeamInOrder(Once(d, file), k)
  <1> DEFINE rows == TeamRows(file, k)
             size == FileFormat[k[1]].size
             once == Once(d, file)
             members == I!Members(once, k)
             spots == Spots(d, file, k)
             rest == members \ spots
             joined == {file[i].gender : i \in rows}
  <1>1. /\ spots \subseteq members /\ Cardinality(spots) = Cardinality(rows)
        /\ IsFiniteSet(rows) /\ IsFiniteSet(members)
        /\ \A i \in rows : once.people[Spot(d, file, i)].gender = file[i].gender
        /\ \A p \in rest : p \in I!Staying(d, file, rows, k) /\ once.people[p] = d.people[p]
    BY MembersAfter
  <1>2. size \in Nat
    BY ImportAssumption DEF I!Keys, Formats
  <1>3. CASE rows # {}
    <2>1. /\ Cardinality(rest) + Cardinality(rows) <= size
          /\ ~I!BadComposition(once.teams[k], size, GendersOf(once.people, rest) \union joined,
                Cardinality(rest) + Cardinality(rows))
      BY <1>3, JoinedTeam
    <2>2. GendersOf(once.people, members) = GendersOf(once.people, rest) \union joined
      <3>1. GendersOf(once.people, spots) = joined
        BY <1>1 DEF GendersOf, Spots
      <3> HIDE DEF members, spots, joined
      <3>2. GendersOf(once.people, members) = GendersOf(once.people, rest) \union GendersOf(once.people, spots)
        BY <1>1 DEF GendersOf
      <3> QED BY <3>1, <3>2
    <2>3. Cardinality(members) = Cardinality(rest) + Cardinality(rows)
      <3> HIDE DEF members, spots
      <3>1. IsFiniteSet(rest) /\ IsFiniteSet(spots)
        BY <1>1, FS_Subset
      <3>2. rest \intersect spots = {} /\ rest \union spots = members
        BY <1>1
      <3>3. Cardinality(rest \union spots) = Cardinality(rest) + Cardinality(spots)
        <4>1. /\ Cardinality(rest \union spots) = Cardinality(rest) + Cardinality(spots) - Cardinality({})
              /\ Cardinality(rest) \in Nat /\ Cardinality(spots) \in Nat
          BY <3>1, <3>2, FS_Union, FS_CardinalityType
        <4>2. Cardinality({}) = 0
          BY FS_EmptySet
        <4> QED BY <4>1, <4>2
      <3> QED BY <1>1, <3>2, <3>3
    <2> QED BY <2>1, <2>2, <2>3, ImportCardinality DEF I!TeamInOrder, GendersOf
  <1>4. CASE rows = {}
    <2> DEFINE before == I!Members(d, k)
               genders == GendersOf(d.people, before)
               left == GendersOf(d.people, members)
    <2>1. once.teams[k] = d.teams[k]
      BY <1>4, TeamWithoutRows
    <2>2. spots = {} /\ members = rest
      BY <1>4 DEF Spots
    <2>3. members \subseteq before /\ \A p \in members : once.people[p] = d.people[p]
      BY <1>1, <2>2 DEF I!Staying
    <2>4. GendersOf(once.people, members) = left
      BY <2>3 DEF GendersOf
    <2>5. IsFiniteSet(before)
      <3>1. d.people \in Seq(Person)
        BY DEF Database
      <3>2. before \subseteq 1..Len(d.people) /\ Len(d.people) \in Nat
        BY <3>1 DEF I!Members
      <3>3. IsFiniteSet(1..Len(d.people))
        BY <3>2, FS_Interval
      <3> QED BY <3>2, <3>3, FS_Subset
    <2>6. ASSUME members # {}
          PROVE  /\ Cardinality(members) <= size
                 /\ ~I!BadComposition(d.teams[k], size, left, Cardinality(members))
      <3>1. /\ Cardinality(before) <= size
            /\ ~I!BadComposition(d.teams[k], size, genders, Cardinality(before))
        <4>1. before # {}
          BY <2>3, <2>6
        <4> QED BY <4>1, ImportCardinality DEF I!TeamInOrder, GendersOf
      <3>2. left \in SUBSET genders /\ members \in SUBSET before /\ (members = before => left = genders)
        BY <2>3 DEF GendersOf
      <3>3. /\ Cardinality(before) + 0 <= size
            /\ ~I!BadComposition(d.teams[k], size, genders, Cardinality(before) + 0)
            /\ Cardinality(members) \in Nat /\ Cardinality(members) + 0 = Cardinality(members)
        <4>1. Cardinality(before) \in Nat /\ Cardinality(members) \in Nat
          BY <1>1, <2>5, FS_CardinalityType
        <4>2. Cardinality(before) + 0 = Cardinality(before) /\ Cardinality(members) + 0 = Cardinality(members)
          BY <4>1
        <4> QED BY <3>1, <4>1, <4>2
      <3> HIDE DEF members, before, left, genders, size
      <3>4. /\ Cardinality(members) + 0 <= size
            /\ ~I!BadComposition(d.teams[k], size, left, Cardinality(members) + 0)
        BY <1>2, <2>5, <3>2, <3>3, FewerStillSuit
      <3> QED BY <3>3, <3>4
    <2> QED BY <2>1, <2>4, <2>6, ImportCardinality DEF I!TeamInOrder, GendersOf
  <1> QED BY <1>3, <1>4

(* Whoever the members are and wherever they come from.                      *)
THEOREM CleanImportsKeepOrder == AllSpec => []CleanImportKeepsOrder
  <1>1. ASSUME Database(db) PROVE I!CleanImportKeepsOrder
    BY <1>1, OrderKept DEF I!CleanImportKeepsOrder, Once
  <1>2. DatabaseKept => CleanImportKeepsOrder
    BY <1>1 DEF DatabaseKept, CleanImportKeepsOrder
  <1> QED BY <1>2, DatabaseInvariant, PTL
-----------------------------------------------------------------------------
(* A clean file that is imported again. *)

LEMMA SecondMatch ==
  ASSUME NEW d, Database(d), NEW file \in I!Files, I!Clean(d, file), NEW i \in 1..Len(file)
  PROVE  /\ I!Match(Once(d, file), file[i]) = {Spot(d, file, i)}
         /\ I!Found(Once(d, file), file[i]) = Spot(d, file, i)
         /\ I!RowAction(Once(d, file), file, i, TRUE) = "update"
  <1> DEFINE once == Once(d, file)
             row == file[i]
             s == Spot(d, file, i)
  <1>1. s \in DOMAIN once.people /\ once.people[s] = I!Stored(row, OldRef(d, row))
    BY AfterCleanFile DEF Placed
  <1>2. once.people[s].bib = row.bib /\ (row.ref # NoRef => once.people[s].ref = row.ref)
    BY <1>1 DEF I!Stored
  <1>3. I!BibsAndRefsUnique(once.people)
    BY AfterCleanFile DEF Database
  <1> HIDE DEF once, s, row
  <1>4. I!WithBib(once, row) = {s}
    BY <1>1, <1>2, <1>3 DEF I!WithBib, I!BibsAndRefsUnique
  <1>5. I!WithRef(once, row) = IF row.ref = NoRef THEN {} ELSE {s}
    BY <1>1, <1>2, <1>3 DEF I!WithRef, I!BibsAndRefsUnique
  <1>6. I!Match(once, row) = {s} /\ ~I!BibOfAnother(once, row)
    BY <1>4, <1>5 DEF I!Match, I!BibOfAnother
  <1>7. I!Found(once, row) = s
    BY <1>6 DEF I!Found
  <1>8. I!FitsRace(row) /\ ~I!Repeated(file, i)
    BY CleanRow DEF row
  <1>9. I!RowAction(once, file, i, TRUE) = "update"
    BY <1>6, <1>8 DEF I!RowAction, row
  <1> QED BY <1>6, <1>7, <1>9 DEF once, s, row
LEMMA SecondJoiners ==
  ASSUME NEW d, Database(d), NEW file \in I!Files, I!Clean(d, file), NEW k \in I!Keys,
         TeamRows(file, k) # {}
  PROVE  I!Joiners(Once(d, file), file, TeamRows(file, k), k) = TeamRows(file, k)
  <1> DEFINE rows == TeamRows(file, k)
             size == FileFormat[k[1]].size
             once == Once(d, file)
             rest == I!Members(once, k) \ Spots(d, file, k)
             joined == {file[i].gender : i \in rows}
             earlier(i) == {j \in rows : j < i}
             accepted == I!Accepted(once, file, rows, rest, size)
  <1>1. /\ once.teams[k] # "none"
        /\ Cardinality(rest) + Cardinality(rows) <= size
        /\ ~I!BadComposition(once.teams[k], size, GendersOf(once.people, rest) \union joined,
              Cardinality(rest) + Cardinality(rows))
        /\ \A i \in rows : file[i].leg # 0 =>
              /\ \A m \in rest : once.people[m].leg # file[i].leg
              /\ \A j \in rows : j < i => file[j].leg # file[i].leg
    BY JoinedTeam
  <1>2. rows \subseteq 1..Len(file) /\ Len(file) \in Nat /\ IsFiniteSet(rows)
    BY MembersAfter, FileRows DEF TeamRows
  <1>3. IsFiniteSet(rest)
    BY MembersAfter, FS_Subset
  <1>4. size \in Nat
    BY ImportAssumption DEF I!Keys, Formats
  <1>5. I!Staying(once, file, rows, k) = rest
    <2>1. \A i \in rows : I!Match(once, file[i]) = {Spot(d, file, i)}
      BY <1>2, SecondMatch
    <2> HIDE DEF rows, once
    <2>2. UNION {I!Match(once, file[i]) : i \in rows} = {Spot(d, file, i) : i \in rows}
      BY <2>1
    <2> QED BY <2>2 DEF I!Staying, Spots, rows
  <1>6. I!Category(once, file, rows, k) = once.teams[k]
    BY <1>1 DEF I!Category
  <1>7. ASSUME NEW i \in rows PROVE ~I!TeamFull(rest, earlier(i), size)
    <2>1. earlier(i) \subseteq rows \ {i}
      BY <1>2
    <2> HIDE DEF earlier, rows, rest, size
    <2>2. IsFiniteSet(rows \ {i}) /\ Cardinality(rows \ {i}) = Cardinality(rows) - 1
      BY <1>2, FS_RemoveElement
    <2>3. Cardinality(earlier(i)) <= Cardinality(rows \ {i}) /\ IsFiniteSet(earlier(i))
      BY <2>1, <2>2, FS_Subset
    <2>4. Cardinality(earlier(i)) \in Nat /\ Cardinality(rows) \in Nat /\ Cardinality(rest) \in Nat
      BY <1>2, <1>3, <2>3, FS_CardinalityType
    <2>5. ~(Cardinality(rest) + Cardinality(earlier(i)) >= size)
      BY <1>1, <1>4, <2>2, <2>3, <2>4
    <2> QED BY <2>5, ImportCardinality DEF I!TeamFull
  <1>8. accepted = rows
    <2> HIDE DEF rows, rest, once, size
    <2>1. accepted = {i \in rows :
             (file[i].leg # 0 =>
               ~(file[i].leg \in {once.people[m].leg : m \in rest} \union {file[j].leg : j \in earlier(i)}))
             /\ ~I!TeamFull(rest, earlier(i), size)}
      BY DEF I!Accepted
    <2> QED BY <1>1, <1>7, <2>1
  <1>9. I!Joiners(once, file, rows, k) =
          IF \/ once.teams[k] = "none"
             \/ I!BadComposition(once.teams[k], size,
                  GendersOf(once.people, rest) \union {file[i].gender : i \in accepted},
                  I!Cardinality(rest) + I!Cardinality(accepted))
          THEN {} ELSE accepted
    <2> HIDE DEF rows, rest, once
    <2> QED BY <1>5, <1>6 DEF I!Joiners, GendersOf
  <1> HIDE DEF rows, rest, once, size, accepted
  <1>10. I!Joiners(once, file, rows, k) = rows
    BY <1>1, <1>8, <1>9, ImportCardinality
  <1> QED BY <1>10 DEF rows, once

LEMMA SecondPlan ==
  ASSUME NEW d, Database(d), NEW file \in I!Files, I!Clean(d, file)
  PROVE  PlanOf(Once(d, file), file) = [i \in DOMAIN file |-> "update"]
  <1> DEFINE once == Once(d, file)
             actions == [i \in DOMAIN file |-> I!RowAction(once, file, i, TRUE)]
             joiners(h) == I!Joiners(once, file, I!Joining(file, actions, h), h)
             all == UNION {joiners(h) : h \in I!Keys}
  <1>1. /\ DOMAIN file = 1..Len(file)
        /\ \A i \in DOMAIN file : actions[i] = "update"
    BY FileRows, SecondMatch
  <1>2. ASSUME NEW i \in DOMAIN file, I!JoinsTeam(file, actions, i) PROVE i \in all
    <2> DEFINE k == I!Key(file[i])
    <2>1. I!IsTeam(FileFormat[file[i].race]) /\ file[i] \in I!RowType /\ I!FitsRace(file[i])
      BY <1>1, <1>2, FileRows, CleanRow DEF I!JoinsTeam
    <2>2. k \in I!Keys
      BY <2>1 DEF I!FitsRace, I!InvalidField, I!Keys, I!Key, I!RowType
    <2>3. I!Joining(file, actions, k) = TeamRows(file, k)
      BY <1>1 DEF I!Joining, I!JoinsTeam, TeamRows
    <2>4. i \in TeamRows(file, k)
      BY <2>1 DEF TeamRows
    <2>5. I!Joiners(once, file, TeamRows(file, k), k) = TeamRows(file, k)
      BY <2>2, <2>4, SecondJoiners
    <2>6. i \in joiners(k)
      BY <2>3, <2>4, <2>5
    <2> HIDE DEF k, joiners
    <2> QED BY <2>2, <2>6
  <1>3. PlanOf(once, file) =
          [i \in DOMAIN file |-> IF I!JoinsTeam(file, actions, i) /\ i \notin all THEN "error" ELSE actions[i]]
    BY DEF PlanOf, I!PlanImport
  <1> HIDE DEF all, actions, once
  <1> QED BY <1>1, <1>2, <1>3 DEF once

LEMMA StoredAgain ==
  ASSUME NEW row, NEW ref
  PROVE  I!Stored(row, I!Stored(row, ref).ref) = I!Stored(row, ref)
  BY DEF I!Stored

LEMMA SecondWrites ==
  ASSUME NEW d, Database(d), NEW file \in I!Files, I!Clean(d, file)
  PROVE  \A n \in 0..Len(file) : WrittenBy(Once(d, file), file)[n] = Once(d, file).people
  <1> DEFINE once == Once(d, file)
             w == WrittenBy(once, file)
             good == {n \in 0..Len(file) : w[n] = once.people}
  <1>1. Len(file) \in Nat /\ DOMAIN file = 1..Len(file)
    BY FileRows
  <1>2. w[0] = once.people /\ \A n \in 1..Len(file) :
          w[n] = I!WriteRow(w[n - 1], PlanOf(once, file)[n], file[n], I!Found(once, file[n]))
    BY <1>1, WrittenSteps DEF WrittenBy
  <1>3. ASSUME NEW n \in 1..Len(file), w[n - 1] = once.people PROVE w[n] = once.people
    <2> DEFINE s == Spot(d, file, n)
               row == file[n]
    <2>1. PlanOf(once, file)[n] = "update" /\ I!Found(once, row) = s
      BY <1>1, SecondPlan, SecondMatch
    <2>2. s \in DOMAIN once.people /\ once.people[s] = I!Stored(row, OldRef(d, row))
      BY AfterCleanFile DEF Placed
    <2>3. I!Stored(row, once.people[s].ref) = once.people[s]
      BY <2>2, StoredAgain
    <2>4. once.people \in Seq(Person)
      BY AfterCleanFile DEF Database
    <2>5. w[n] = [once.people EXCEPT ![s] = once.people[s]]
      BY <1>2, <1>3, <2>1, <2>3 DEF I!WriteRow
    <2> HIDE DEF w, once, s
    <2> QED BY <2>4, <2>5
  <1> HIDE DEF w, once
  <1>4. 0 \in good
    BY <1>1, <1>2
  <1>5. \A n \in 1..Len(file) : n - 1 \in good => n \in good
    BY <1>1, <1>3
  <1>6. 0..Len(file) \subseteq good
    <2> HIDE DEF good
    <2> QED BY <1>1, <1>4, <1>5, UpTo
  <1> QED BY <1>6 DEF w, once

LEMMA SecondImport ==
  ASSUME NEW d, Database(d), NEW file \in I!Files, I!Clean(d, file)
  PROVE  /\ I!PlanImport(Once(d, file), file, TRUE) = [i \in DOMAIN file |-> "update"]
         /\ I!Outcome(Once(d, file), file, TRUE) = Once(d, file)
  <1> DEFINE once == Once(d, file)
             plan == PlanOf(once, file)
             w == WrittenBy(once, file)
             teams == I!TeamsAfter(once, file, TRUE, plan)
  <1>1. plan = [i \in DOMAIN file |-> "update"]
    BY SecondPlan
  <1>2. Len(file) \in Nat \ {0} /\ DOMAIN file = 1..Len(file) /\ \A n \in 0..Len(file) : w[n] = once.people
    BY FileRows, SecondWrites
  <1>3. Database(once)
    BY AfterCleanFile
  <1>4. I!Applied(file, w)
    <2> HIDE DEF w, once
    <2> QED BY <1>2, <1>3 DEF I!Applied, Database
  <1>5. \A k \in I!Keys : k \notin I!NewTeams(once, file, plan)
    <2>1. ASSUME NEW k \in I!Keys, k \in I!NewTeams(once, file, plan) PROVE FALSE
      <3>1. once.teams[k] = "none" /\ I!Joining(file, plan, k) # {}
        BY <2>1 DEF I!NewTeams
      <3>2. I!Joining(file, plan, k) = TeamRows(file, k)
        BY <1>1 DEF I!Joining, I!JoinsTeam, TeamRows
      <3> QED BY <3>1, <3>2, JoinedTeam
    <2> QED BY <2>1
  <1>6. teams = once.teams
    <2>1. once.teams \in [I!Keys -> I!Categories \union {"none"}]
      BY <1>3 DEF Database
    <2>2. teams = [k \in I!Keys |-> once.teams[k]]
      BY <1>5 DEF I!TeamsAfter
    <2> HIDE DEF once, teams
    <2> QED BY <2>1, <2>2
  <1>7. I!Outcome(once, file, TRUE) = [people |-> w[Len(file)], teams |-> teams]
    BY <1>4 DEF I!Outcome, WrittenBy, PlanOf
  <1>8. once = [people |-> WrittenBy(d, file)[Len(file)],
                teams |-> I!TeamsAfter(d, file, TRUE, PlanOf(d, file))]
    BY AfterCleanFile
  <1> HIDE DEF once, w, teams
  <1>9. I!Outcome(once, file, TRUE) = once
    <2>1. once = [people |-> once.people, teams |-> once.teams]
      BY <1>8
    <2>2. Len(file) \in 0..Len(file)
      BY <1>2
    <2> QED BY <1>2, <1>6, <1>7, <2>1, <2>2
  <1> QED BY <1>1, <1>9 DEF once, PlanOf

(* However many rows the file has and whatever the database held before.     *)
THEOREM SecondImportsChangeNothing == AllSpec => []SecondImportChangesNothing
  <1>1. ASSUME Database(db) PROVE I!SecondImportChangesNothing
    BY <1>1, SecondImport DEF I!SecondImportChangesNothing, Once
  <1>2. DatabaseKept => SecondImportChangesNothing
    BY <1>1 DEF DatabaseKept, SecondImportChangesNothing
  <1> QED BY <1>2, DatabaseInvariant, PTL
-----------------------------------------------------------------------------
(* Arithmetic of the sheets. *)

(* Multiplication keeps the order. *)
LEMMA TimesKeepsOrder ==
  ASSUME NEW a \in Int, NEW b \in Int, NEW n \in Nat, a <= b
  PROVE  a * n <= b * n
  <1>1. PICK c \in Nat : b = a + c
    <2>1. b - a \in Nat /\ b = a + (b - a)
      OBVIOUS
    <2> QED BY <2>1
  <1>2. b * n = a * n + c * n /\ c * n >= 0 /\ a * n \in Int /\ c * n \in Int
    BY <1>1
  <1> QED BY <1>2

LEMMA Quotient ==
  ASSUME NEW a \in Nat, NEW n \in Nat \ {0}
  PROVE  /\ a \div n \in Nat /\ (a \div n) * n <= a /\ a < (a \div n) * n + n
         /\ a % n = a - (a \div n) * n /\ a % n \in 0..(n - 1)
  OBVIOUS

(* n boxes of a size with their bleed, a gutter between them, on a length:   *)
(* they keep clear of the margin and of each other.                          *)
LEMMA Axis ==
  ASSUME NEW length \in Nat, NEW size \in Nat \ {0}, NEW bleed \in Nat, NEW gutter \in Nat,
         NEW margin \in Nat, NEW n \in Int, n >= 1,
         n <= IF length - 2 * margin + gutter < 0 THEN 0
              ELSE (length - 2 * margin + gutter) \div (size + 2 * bleed + gutter)
  PROVE  LET pitch == size + 2 * bleed + gutter
             start == (length - (n * pitch - gutter)) \div 2 + bleed
         IN /\ pitch \in Nat /\ start \in Int /\ margin <= start - bleed
            /\ \A c \in 0..(n - 1) :
                 /\ c * pitch \in Nat
                 /\ start + (n - 1) * pitch + size + bleed <= length - margin
                 /\ start + c * pitch <= start + (n - 1) * pitch
            /\ \A a, b \in 0..(n - 1) : a < b => a * pitch + size + bleed <= b * pitch - bleed
  <1> DEFINE room == length - 2 * margin + gutter
             pitch == size + 2 * bleed + gutter
             grid == n * pitch - gutter
             half == (length - grid) \div 2
             start == half + bleed
  <1>1. room \in Nat /\ pitch \in Nat \ {0} /\ n <= room \div pitch /\ n \in Nat \ {0}
    BY DEF room, pitch
  <1> HIDE DEF pitch
  <1>2. n * pitch <= room /\ n * pitch \in Nat
    <2> HIDE DEF room
    <2>1. room \div pitch \in Nat /\ (room \div pitch) * pitch <= room
      BY <1>1, Quotient
    <2>2. n * pitch <= (room \div pitch) * pitch
      BY <1>1, <2>1, TimesKeepsOrder
    <2>3. n * pitch \in Nat /\ (room \div pitch) * pitch \in Nat
      BY <1>1, <2>1
    <2> QED BY <1>1, <2>1, <2>2, <2>3
  <1>3. grid \in Int /\ grid <= length - 2 * margin
    BY <1>2
  <1>4. half \in Nat /\ margin <= half /\ 2 * half <= length - grid
    <2> DEFINE spare == length - grid
    <2>1. spare \in Nat /\ 2 * margin <= spare
      BY <1>3
    <2> HIDE DEF spare
    <2>2. (spare \div 2) \in Nat /\ margin <= spare \div 2 /\ 2 * (spare \div 2) <= spare
      BY <2>1
    <2> QED BY <2>2 DEF spare
  <1> HIDE DEF half
  <1>5. (n - 1) * pitch = n * pitch - pitch /\ (n - 1) * pitch \in Int
    BY <1>1
  <1>6. start + (n - 1) * pitch + size + bleed <= length - margin
    <2>1. pitch = size + 2 * bleed + gutter
      BY DEF pitch
    <2> DEFINE np == n * pitch
               np1 == (n - 1) * pitch
    <2>2. np1 = np - pitch /\ np \in Nat
      BY <1>2, <1>5
    <2>3. 2 * half <= length - (np - gutter)
      BY <1>4
    <2> HIDE DEF np, np1
    <2> QED BY <1>4, <2>1, <2>2, <2>3
  <1>7. ASSUME NEW c \in 0..(n - 1) PROVE c * pitch \in Nat /\ c * pitch <= (n - 1) * pitch
    <2>1. c * pitch <= (n - 1) * pitch
      BY <1>1, TimesKeepsOrder
    <2>2. c \in Nat
      OBVIOUS
    <2> QED BY <1>1, <2>1, <2>2
  <1>8. ASSUME NEW a \in 0..(n - 1), NEW b \in 0..(n - 1), a < b
        PROVE  a * pitch + size + bleed <= b * pitch - bleed
    <2>1. (a + 1) * pitch <= b * pitch
      BY <1>1, <1>8, TimesKeepsOrder
    <2>2. (a + 1) * pitch = a * pitch + pitch /\ a * pitch \in Nat /\ b * pitch \in Nat
      BY <1>1, <1>7
    <2>3. pitch = size + 2 * bleed + gutter
      BY DEF pitch
    <2> QED BY <2>1, <2>2, <2>3
  <1>9. start \in Int /\ margin <= start - bleed
    BY <1>4
  <1>10. \A c \in 0..(n - 1) : start + c * pitch <= start + (n - 1) * pitch
    <2> HIDE DEF start
    <2> QED BY <1>5, <1>7, <1>9
  <1> HIDE DEF start
  <1>11. /\ pitch \in Nat /\ start \in Int /\ margin <= start - bleed
         /\ \A c \in 0..(n - 1) :
              /\ c * pitch \in Nat
              /\ start + (n - 1) * pitch + size + bleed <= length - margin
              /\ start + c * pitch <= start + (n - 1) * pitch
         /\ \A a, b \in 0..(n - 1) : a < b => a * pitch + size + bleed <= b * pitch - bleed
    BY <1>1, <1>4, <1>6, <1>7, <1>8, <1>9, <1>10
  <1> QED BY <1>11 DEF pitch, start, half, grid
LEMMA Extremes ==
  ASSUME NEW s \in SUBSET Int, NEW low \in s, NEW high \in s, \A k \in s : low <= k /\ k <= high
  PROVE  /\ (CHOOSE n \in s : \A k \in s : n <= k) = low
         /\ (CHOOSE n \in s : \A k \in s : n >= k) = high
  <1>1. \A n \in s : (\A k \in s : n <= k) => n = low
    OBVIOUS
  <1>2. \A n \in s : (\A k \in s : n >= k) => n = high
    OBVIOUS
  <1>3. (\A k \in s : low <= k) /\ (\A k \in s : high >= k)
    OBVIOUS
  <1> DEFINE first == CHOOSE n \in s : \A k \in s : n <= k
             last == CHOOSE n \in s : \A k \in s : n >= k
  <1>4. first \in s /\ \A k \in s : first <= k
    BY <1>3
  <1>5. last \in s /\ \A k \in s : last >= k
    BY <1>3
  <1> HIDE DEF first, last
  <1>6. first = low /\ last = high
    BY <1>1, <1>2, <1>4, <1>5
  <1> QED BY <1>6 DEF first, last

(* The grid of a valid layout: pitches, corner, and what Axis says of both   *)
(* directions.                                                               *)
PitchX(c, l) == c.w + 2 * l.bleed + l.gutter
PitchY(c, l) == c.h + 2 * l.bleed + l.gutter
Left(c, l) == (P!SheetSize(l).w - (l.cols * PitchX(c, l) - l.gutter)) \div 2 + l.bleed
Top(c, l) == (P!SheetSize(l).h - (l.rows * PitchY(c, l) - l.gutter)) \div 2 + l.bleed

LEMMA ValidLayout ==
  ASSUME NEW c \in Cells, NEW l \in Layouts, P!Validate(c, l)
  PROVE  /\ c.w \in Nat \ {0} /\ c.h \in Nat \ {0}
         /\ l.cols \in Nat \ {0} /\ l.rows \in Nat \ {0} /\ l.bleed \in Nat /\ l.gutter \in Nat
         /\ P!Margin(l) \in Nat /\ P!SheetSize(l).w \in Nat /\ P!SheetSize(l).h \in Nat
         /\ PitchX(c, l) \in Nat /\ Left(c, l) \in Int /\ P!Margin(l) <= Left(c, l) - l.bleed
         /\ PitchY(c, l) \in Nat /\ Top(c, l) \in Int /\ P!Margin(l) <= Top(c, l) - l.bleed
         /\ \A i \in 0..(l.cols - 1) :
              /\ i * PitchX(c, l) \in Nat
              /\ Left(c, l) + (l.cols - 1) * PitchX(c, l) + c.w + l.bleed <= P!SheetSize(l).w - P!Margin(l)
              /\ Left(c, l) + i * PitchX(c, l) <= Left(c, l) + (l.cols - 1) * PitchX(c, l)
         /\ \A i \in 0..(l.rows - 1) :
              /\ i * PitchY(c, l) \in Nat
              /\ Top(c, l) + (l.rows - 1) * PitchY(c, l) + c.h + l.bleed <= P!SheetSize(l).h - P!Margin(l)
              /\ Top(c, l) + i * PitchY(c, l) <= Top(c, l) + (l.rows - 1) * PitchY(c, l)
         /\ \A i, j \in 0..(l.cols - 1) : i < j => i * PitchX(c, l) + c.w + l.bleed <= j * PitchX(c, l) - l.bleed
         /\ \A i, j \in 0..(l.rows - 1) : i < j => i * PitchY(c, l) + c.h + l.bleed <= j * PitchY(c, l) - l.bleed
  <1>1. c.w \in Nat \ {0} /\ c.h \in Nat \ {0} /\ l.cols \in Int /\ l.rows \in Int
    BY PrintAssumption
  <1>2. /\ l.cols >= 1 /\ l.rows >= 1 /\ l.gutter \in 0..100 /\ l.bleed \in 0..40 /\ P!Margin(l) \in 0..100
        /\ l.paper \in {"a4", "a3", "a3plus", "sra3"}
        /\ l.cols <= P!MaxGrid(c, l).cols /\ l.rows <= P!MaxGrid(c, l).rows
    BY DEF P!Validate, P!paperSizes
  <1>3. P!SheetSize(l).w \in Nat /\ P!SheetSize(l).h \in Nat
    BY <1>2 DEF P!SheetSize, P!paperSizes
  <1>4. l.cols <= IF P!SheetSize(l).w - 2 * P!Margin(l) + l.gutter < 0 THEN 0
                  ELSE (P!SheetSize(l).w - 2 * P!Margin(l) + l.gutter) \div (c.w + 2 * l.bleed + l.gutter)
    BY <1>2 DEF P!MaxGrid
  <1>5. l.rows <= IF P!SheetSize(l).h - 2 * P!Margin(l) + l.gutter < 0 THEN 0
                  ELSE (P!SheetSize(l).h - 2 * P!Margin(l) + l.gutter) \div (c.h + 2 * l.bleed + l.gutter)
    BY <1>2 DEF P!MaxGrid
  <1>6. /\ l.bleed \in Nat /\ l.gutter \in Nat /\ P!Margin(l) \in Nat
        /\ l.cols \in Nat \ {0} /\ l.rows \in Nat \ {0}
    BY <1>1, <1>2
  <1>7. /\ PitchX(c, l) \in Nat /\ Left(c, l) \in Int /\ P!Margin(l) <= Left(c, l) - l.bleed
        /\ \A i \in 0..(l.cols - 1) :
             /\ i * PitchX(c, l) \in Nat
             /\ Left(c, l) + (l.cols - 1) * PitchX(c, l) + c.w + l.bleed <= P!SheetSize(l).w - P!Margin(l)
             /\ Left(c, l) + i * PitchX(c, l) <= Left(c, l) + (l.cols - 1) * PitchX(c, l)
        /\ \A i, j \in 0..(l.cols - 1) : i < j => i * PitchX(c, l) + c.w + l.bleed <= j * PitchX(c, l) - l.bleed
    BY <1>1, <1>2, <1>3, <1>4, <1>6, Axis DEF Left, PitchX
  <1>8. /\ PitchY(c, l) \in Nat /\ Top(c, l) \in Int /\ P!Margin(l) <= Top(c, l) - l.bleed
        /\ \A i \in 0..(l.rows - 1) :
             /\ i * PitchY(c, l) \in Nat
             /\ Top(c, l) + (l.rows - 1) * PitchY(c, l) + c.h + l.bleed <= P!SheetSize(l).h - P!Margin(l)
             /\ Top(c, l) + i * PitchY(c, l) <= Top(c, l) + (l.rows - 1) * PitchY(c, l)
        /\ \A i, j \in 0..(l.rows - 1) : i < j => i * PitchY(c, l) + c.h + l.bleed <= j * PitchY(c, l) - l.bleed
    BY <1>1, <1>2, <1>3, <1>5, <1>6, Axis DEF Top, PitchY
  <1> QED BY <1>1, <1>3, <1>6, <1>7, <1>8
(* Where a BIB of the grid is, and that it and its bleed are within margins. *)
LEMMA Box ==
  ASSUME NEW c \in Cells, NEW l \in Layouts, P!Validate(c, l), NEW at \in DOMAIN P!PlaceCells(c, l)
  PROVE  LET box == P!PlaceCells(c, l)[at]
             x == at[2] * PitchX(c, l)
             y == at[1] * PitchY(c, l)
         IN /\ at[1] \in 0..(l.rows - 1) /\ at[2] \in 0..(l.cols - 1) /\ at = <<at[1], at[2]>>
            /\ box.x1 = Left(c, l) + x /\ box.x2 = Left(c, l) + x + c.w
            /\ box.y1 = Top(c, l) + y /\ box.y2 = Top(c, l) + y + c.h
            /\ box.x1 \in Int /\ box.x2 \in Int /\ box.y1 \in Int /\ box.y2 \in Int
            /\ Left(c, l) <= box.x1 /\ box.x2 <= Left(c, l) + (l.cols - 1) * PitchX(c, l) + c.w
            /\ box.x1 <= box.x2 /\ box.y1 <= box.y2
            /\ Top(c, l) <= box.y1 /\ box.y2 <= Top(c, l) + (l.rows - 1) * PitchY(c, l) + c.h
  <1> DEFINE box == P!PlaceCells(c, l)[at]
             x == at[2] * PitchX(c, l)
             y == at[1] * PitchY(c, l)
  <1>1. at[1] \in 0..(l.rows - 1) /\ at[2] \in 0..(l.cols - 1) /\ at = <<at[1], at[2]>>
    BY DEF P!PlaceCells
  <1>2. /\ box.x1 = Left(c, l) + x /\ box.x2 = Left(c, l) + x + c.w
        /\ box.y1 = Top(c, l) + y /\ box.y2 = Top(c, l) + y + c.h
    BY <1>1 DEF P!PlaceCells, Left, Top, PitchX, PitchY
  <1> DEFINE lastX == (l.cols - 1) * PitchX(c, l)
             lastY == (l.rows - 1) * PitchY(c, l)
  <1>3. x \in Nat /\ y \in Nat /\ Left(c, l) + x <= Left(c, l) + lastX /\ Top(c, l) + y <= Top(c, l) + lastY
    BY <1>1, ValidLayout
  <1>4. lastX \in Nat /\ lastY \in Nat
    <2>1. l.cols - 1 \in Nat /\ l.rows - 1 \in Nat /\ PitchX(c, l) \in Nat /\ PitchY(c, l) \in Nat
      BY ValidLayout
    <2> QED BY <2>1
  <1>5. c.w \in Nat /\ c.h \in Nat /\ Left(c, l) \in Int /\ Top(c, l) \in Int
    BY ValidLayout
  <1> HIDE DEF box, x, y, lastX, lastY
  <1>6. /\ box.x1 \in Int /\ box.x2 \in Int /\ box.y1 \in Int /\ box.y2 \in Int
        /\ Left(c, l) <= box.x1 /\ box.x2 <= Left(c, l) + lastX + c.w
        /\ box.x1 <= box.x2 /\ box.y1 <= box.y2
        /\ Top(c, l) <= box.y1 /\ box.y2 <= Top(c, l) + lastY + c.h
    BY <1>2, <1>3, <1>4, <1>5
  <1> QED BY <1>1, <1>2, <1>6 DEF box, x, y, lastX, lastY

(* Two BIBs are apart with their bleeds, and each keeps to the margins.      *)
LEMMA BoxesApart ==
  ASSUME NEW c \in Cells, NEW l \in Layouts, P!Validate(c, l),
         NEW a \in DOMAIN P!PlaceCells(c, l), NEW b \in DOMAIN P!PlaceCells(c, l), a # b
  PROVE  LET A == P!PlaceCells(c, l)[a]
             B == P!PlaceCells(c, l)[b]
         IN \/ A.x2 + l.bleed <= B.x1 - l.bleed \/ B.x2 + l.bleed <= A.x1 - l.bleed
            \/ A.y2 + l.bleed <= B.y1 - l.bleed \/ B.y2 + l.bleed <= A.y1 - l.bleed
  <1> DEFINE A == P!PlaceCells(c, l)[a]
             B == P!PlaceCells(c, l)[b]
             xa == a[2] * PitchX(c, l)
             xb == b[2] * PitchX(c, l)
             ya == a[1] * PitchY(c, l)
             yb == b[1] * PitchY(c, l)
  <1>1. /\ A.x1 = Left(c, l) + xa /\ A.x2 = Left(c, l) + xa + c.w
        /\ A.y1 = Top(c, l) + ya /\ A.y2 = Top(c, l) + ya + c.h
        /\ B.x1 = Left(c, l) + xb /\ B.x2 = Left(c, l) + xb + c.w
        /\ B.y1 = Top(c, l) + yb /\ B.y2 = Top(c, l) + yb + c.h
    BY Box
  <1>2. /\ a[1] \in 0..(l.rows - 1) /\ b[1] \in 0..(l.rows - 1)
        /\ a[2] \in 0..(l.cols - 1) /\ b[2] \in 0..(l.cols - 1)
        /\ a[1] # b[1] \/ a[2] # b[2]
    BY Box
  <1>3. /\ l.bleed \in Nat /\ c.w \in Nat /\ c.h \in Nat /\ Left(c, l) \in Int /\ Top(c, l) \in Int
        /\ xa \in Nat /\ xb \in Nat /\ ya \in Nat /\ yb \in Nat
    BY <1>2, ValidLayout
  <1>4. /\ a[2] < b[2] => xa + c.w + l.bleed <= xb - l.bleed
        /\ b[2] < a[2] => xb + c.w + l.bleed <= xa - l.bleed
        /\ a[1] < b[1] => ya + c.h + l.bleed <= yb - l.bleed
        /\ b[1] < a[1] => yb + c.h + l.bleed <= ya - l.bleed
    BY <1>2, ValidLayout
  <1>5. a[2] < b[2] \/ b[2] < a[2] \/ a[1] < b[1] \/ b[1] < a[1]
    <2>1. a[1] \in Nat /\ b[1] \in Nat /\ a[2] \in Nat /\ b[2] \in Nat
      BY <1>2, ValidLayout
    <2> QED BY <1>2, <2>1
  <1> HIDE DEF A, B, xa, xb, ya, yb
  <1>6. \/ A.x2 + l.bleed <= B.x1 - l.bleed \/ B.x2 + l.bleed <= A.x1 - l.bleed
        \/ A.y2 + l.bleed <= B.y1 - l.bleed \/ B.y2 + l.bleed <= A.y1 - l.bleed
    BY <1>1, <1>3, <1>4, <1>5
  <1> QED BY <1>6 DEF A, B

LEMMA BoxWithin ==
  ASSUME NEW c \in Cells, NEW l \in Layouts, P!Validate(c, l), NEW a \in DOMAIN P!PlaceCells(c, l)
  PROVE  LET A == P!PlaceCells(c, l)[a]
             m == P!Margin(l)
         IN /\ m <= A.x1 - l.bleed /\ A.x2 + l.bleed <= P!SheetSize(l).w - m
            /\ m <= A.y1 - l.bleed /\ A.y2 + l.bleed <= P!SheetSize(l).h - m
  <1> DEFINE A == P!PlaceCells(c, l)[a]
             m == P!Margin(l)
             right == Left(c, l) + (l.cols - 1) * PitchX(c, l) + c.w
             bottom == Top(c, l) + (l.rows - 1) * PitchY(c, l) + c.h
             w == P!SheetSize(l).w
             h == P!SheetSize(l).h
  <1>1. /\ A.x1 \in Int /\ A.x2 \in Int /\ A.y1 \in Int /\ A.y2 \in Int
        /\ Left(c, l) <= A.x1 /\ A.x2 <= right /\ Top(c, l) <= A.y1 /\ A.y2 <= bottom
    BY Box
  <1>2. /\ l.bleed \in Nat /\ m \in Nat /\ w \in Nat /\ h \in Nat
        /\ Left(c, l) \in Int /\ Top(c, l) \in Int
        /\ m <= Left(c, l) - l.bleed /\ m <= Top(c, l) - l.bleed
    BY ValidLayout
  <1>3. right + l.bleed <= w - m /\ bottom + l.bleed <= h - m
    <2>1. 0 \in 0..(l.cols - 1) /\ 0 \in 0..(l.rows - 1)
      BY ValidLayout
    <2> QED BY <2>1, ValidLayout
  <1>4. right \in Int /\ bottom \in Int
    <2>1. l.cols - 1 \in Int /\ l.rows - 1 \in Int /\ PitchX(c, l) \in Int /\ PitchY(c, l) \in Int
          /\ c.w \in Int /\ c.h \in Int
      BY ValidLayout
    <2> QED BY <1>2, <2>1
  <1> HIDE DEF A, m, right, bottom, w, h
  <1>5. /\ m <= A.x1 - l.bleed /\ A.x2 + l.bleed <= w - m
        /\ m <= A.y1 - l.bleed /\ A.y2 + l.bleed <= h - m
    BY <1>1, <1>2, <1>3, <1>4
  <1> QED BY <1>5 DEF A, m, w, h
(* The outer edges of the grid, without bleed.                               *)
Right(c, l) == Left(c, l) + (l.cols - 1) * PitchX(c, l) + c.w
Bottom(c, l) == Top(c, l) + (l.rows - 1) * PitchY(c, l) + c.h

LEMMA Edges ==
  ASSUME NEW c \in Cells, NEW l \in Layouts, P!Validate(c, l)
  PROVE  /\ Left(c, l) \in Int /\ Right(c, l) \in Int /\ Top(c, l) \in Int /\ Bottom(c, l) \in Int
         /\ P!Margin(l) <= Left(c, l) - l.bleed /\ Right(c, l) + l.bleed <= P!SheetSize(l).w - P!Margin(l)
         /\ P!Margin(l) <= Top(c, l) - l.bleed /\ Bottom(c, l) + l.bleed <= P!SheetSize(l).h - P!Margin(l)
         /\ Left(c, l) <= Right(c, l) /\ Top(c, l) <= Bottom(c, l)
         /\ \A at \in DOMAIN P!PlaceCells(c, l) :
              LET box == P!PlaceCells(c, l)[at]
              IN /\ Left(c, l) <= box.x1 /\ box.x2 <= Right(c, l) /\ box.x1 \in Int /\ box.x2 \in Int
                 /\ Top(c, l) <= box.y1 /\ box.y2 <= Bottom(c, l) /\ box.y1 \in Int /\ box.y2 \in Int
                 /\ box.x1 <= box.x2 /\ box.y1 <= box.y2
         /\ \E at \in DOMAIN P!PlaceCells(c, l) :
              P!PlaceCells(c, l)[at].x1 = Left(c, l) /\ P!PlaceCells(c, l)[at].y1 = Top(c, l)
         /\ \E at \in DOMAIN P!PlaceCells(c, l) :
              P!PlaceCells(c, l)[at].x2 = Right(c, l) /\ P!PlaceCells(c, l)[at].y2 = Bottom(c, l)
  <1>1. /\ 0 \in 0..(l.cols - 1) /\ 0 \in 0..(l.rows - 1)
        /\ l.cols - 1 \in 0..(l.cols - 1) /\ l.rows - 1 \in 0..(l.rows - 1)
        /\ l.cols - 1 \in Nat /\ l.rows - 1 \in Nat
    BY ValidLayout
  <1>2. /\ PitchX(c, l) \in Nat /\ PitchY(c, l) \in Nat /\ c.w \in Nat /\ c.h \in Nat
        /\ Left(c, l) \in Int /\ Top(c, l) \in Int
        /\ P!Margin(l) <= Left(c, l) - l.bleed /\ P!Margin(l) <= Top(c, l) - l.bleed
    BY ValidLayout
  <1>3. /\ Right(c, l) + l.bleed <= P!SheetSize(l).w - P!Margin(l)
        /\ Bottom(c, l) + l.bleed <= P!SheetSize(l).h - P!Margin(l)
    BY <1>1, ValidLayout DEF Right, Bottom
  <1>4. /\ Right(c, l) \in Int /\ Bottom(c, l) \in Int
        /\ Left(c, l) <= Right(c, l) /\ Top(c, l) <= Bottom(c, l)
    <2> DEFINE x == (l.cols - 1) * PitchX(c, l)
               y == (l.rows - 1) * PitchY(c, l)
    <2>1. x \in Nat /\ y \in Nat
      BY <1>1, <1>2
    <2> HIDE DEF x, y
    <2>2. /\ Left(c, l) + x + c.w \in Int /\ Left(c, l) <= Left(c, l) + x + c.w
          /\ Top(c, l) + y + c.h \in Int /\ Top(c, l) <= Top(c, l) + y + c.h
      BY <1>2, <2>1
    <2> QED BY <2>2 DEF Right, Bottom, x, y
  <1>5. <<0, 0>> \in DOMAIN P!PlaceCells(c, l) /\ <<l.rows - 1, l.cols - 1>> \in DOMAIN P!PlaceCells(c, l)
    BY <1>1 DEF P!PlaceCells
  <1>6. P!PlaceCells(c, l)[<<0, 0>>].x1 = Left(c, l) /\ P!PlaceCells(c, l)[<<0, 0>>].y1 = Top(c, l)
    <2>1. 0 * PitchX(c, l) = 0 /\ 0 * PitchY(c, l) = 0
      BY <1>2
    <2>2. /\ P!PlaceCells(c, l)[<<0, 0>>].x1 = Left(c, l) + 0 * PitchX(c, l)
          /\ P!PlaceCells(c, l)[<<0, 0>>].y1 = Top(c, l) + 0 * PitchY(c, l)
      BY <1>5, Box
    <2> QED BY <1>2, <2>1, <2>2
  <1>7. /\ P!PlaceCells(c, l)[<<l.rows - 1, l.cols - 1>>].x2 = Right(c, l)
        /\ P!PlaceCells(c, l)[<<l.rows - 1, l.cols - 1>>].y2 = Bottom(c, l)
    BY <1>5, Box DEF Right, Bottom
  <1>8. \A at \in DOMAIN P!PlaceCells(c, l) :
          LET box == P!PlaceCells(c, l)[at]
          IN /\ Left(c, l) <= box.x1 /\ box.x2 <= Right(c, l) /\ box.x1 \in Int /\ box.x2 \in Int
             /\ Top(c, l) <= box.y1 /\ box.y2 <= Bottom(c, l) /\ box.y1 \in Int /\ box.y2 \in Int
             /\ box.x1 <= box.x2 /\ box.y1 <= box.y2
    BY Box DEF Right, Bottom
  <1> QED BY <1>2, <1>3, <1>4, <1>5, <1>6, <1>7, <1>8

(* A crop mark runs along a cut and ends two half millimetres or more before *)
(* the bleed of the grid.                                                    *)
Outside(near, far, from, to, offset) ==
  \/ from = near - offset - 10 /\ to = near - offset
  \/ from = far + offset /\ to = far + offset + 10

LEMMA Marks ==
  ASSUME NEW c \in Cells, NEW l \in Layouts, P!Validate(c, l),
         NEW mark \in P!CropMarkLines(P!PlaceCells(c, l), l.bleed)
  PROVE  \/ /\ mark.x1 = mark.x2 /\ mark.x1 \in Int
            /\ Left(c, l) <= mark.x1 /\ mark.x1 <= Right(c, l)
            /\ Outside(Top(c, l), Bottom(c, l), mark.y1, mark.y2, l.bleed + 2)
         \/ /\ mark.y1 = mark.y2 /\ mark.y1 \in Int
            /\ Top(c, l) <= mark.y1 /\ mark.y1 <= Bottom(c, l)
            /\ Outside(Left(c, l), Right(c, l), mark.x1, mark.x2, l.bleed + 2)
  <1> DEFINE cells == P!PlaceCells(c, l)
             all == {cells[at] : at \in DOMAIN cells}
             xs == {b.x1 : b \in all} \union {b.x2 : b \in all}
             ys == {b.y1 : b \in all} \union {b.y2 : b \in all}
             Lowest(s) == CHOOSE n \in s : \A k \in s : n <= k
             Highest(s) == CHOOSE n \in s : \A k \in s : n >= k
             offset == l.bleed + 2
             Ends(s) == {<<Lowest(s) - offset - 10, Lowest(s) - offset>>,
                         <<Highest(s) + offset, Highest(s) + offset + 10>>}
  <1>1. \/ \E x \in xs, y \in Ends(ys) : mark = [x1 |-> x, x2 |-> x, y1 |-> y[1], y2 |-> y[2]]
        \/ \E x \in Ends(xs), y \in ys : mark = [x1 |-> x[1], x2 |-> x[2], y1 |-> y, y2 |-> y]
    <2>1. P!CropMarkLines(cells, l.bleed) =
            {[x1 |-> x, x2 |-> x, y1 |-> y[1], y2 |-> y[2]] : x \in xs, y \in Ends(ys)}
              \union {[x1 |-> x[1], x2 |-> x[2], y1 |-> y, y2 |-> y] : x \in Ends(xs), y \in ys}
      BY DEF P!CropMarkLines, P!CropMark
    <2> HIDE DEF xs, ys, Ends
    <2> QED BY <2>1
  <1>2. /\ xs \in SUBSET Int /\ \A x \in xs : Left(c, l) <= x /\ x <= Right(c, l)
        /\ ys \in SUBSET Int /\ \A y \in ys : Top(c, l) <= y /\ y <= Bottom(c, l)
    <2>1. ASSUME NEW at \in DOMAIN cells
          PROVE  /\ {cells[at].x1, cells[at].x2} \subseteq Int /\ {cells[at].y1, cells[at].y2} \subseteq Int
                 /\ Left(c, l) <= cells[at].x1 /\ cells[at].x1 <= Right(c, l)
                 /\ Left(c, l) <= cells[at].x2 /\ cells[at].x2 <= Right(c, l)
                 /\ Top(c, l) <= cells[at].y1 /\ cells[at].y1 <= Bottom(c, l)
                 /\ Top(c, l) <= cells[at].y2 /\ cells[at].y2 <= Bottom(c, l)
      <3>1. /\ Left(c, l) <= cells[at].x1 /\ cells[at].x2 <= Right(c, l) /\ cells[at].x1 \in Int /\ cells[at].x2 \in Int
            /\ Top(c, l) <= cells[at].y1 /\ cells[at].y2 <= Bottom(c, l) /\ cells[at].y1 \in Int /\ cells[at].y2 \in Int
            /\ cells[at].x1 <= cells[at].x2 /\ cells[at].y1 <= cells[at].y2
        BY Edges
      <3>2. Left(c, l) \in Int /\ Right(c, l) \in Int /\ Top(c, l) \in Int /\ Bottom(c, l) \in Int
        BY Edges
      <3> HIDE DEF cells
      <3> QED BY <3>1, <3>2
    <2> HIDE DEF cells
    <2> QED BY <2>1
  <1>3. Left(c, l) \in xs /\ Right(c, l) \in xs /\ Top(c, l) \in ys /\ Bottom(c, l) \in ys
    <2>1. PICK at \in DOMAIN cells : cells[at].x1 = Left(c, l) /\ cells[at].y1 = Top(c, l)
      BY Edges
    <2>2. PICK to \in DOMAIN cells : cells[to].x2 = Right(c, l) /\ cells[to].y2 = Bottom(c, l)
      BY Edges
    <2> HIDE DEF cells
    <2>3. cells[at] \in all /\ cells[to] \in all
      BY <2>1, <2>2
    <2> HIDE DEF all
    <2> QED BY <2>1, <2>2, <2>3
  <1> HIDE DEF xs, ys
  <1>4. /\ Lowest(xs) = Left(c, l) /\ Highest(xs) = Right(c, l)
        /\ Lowest(ys) = Top(c, l) /\ Highest(ys) = Bottom(c, l)
    BY <1>2, <1>3, Extremes
  <1> HIDE DEF Lowest, Highest
  <1>5. ASSUME NEW x \in xs, NEW y \in Ends(ys), mark = [x1 |-> x, x2 |-> x, y1 |-> y[1], y2 |-> y[2]]
        PROVE  /\ mark.x1 = mark.x2 /\ mark.x1 \in Int
               /\ Left(c, l) <= mark.x1 /\ mark.x1 <= Right(c, l)
               /\ Outside(Top(c, l), Bottom(c, l), mark.y1, mark.y2, offset)
    BY <1>2, <1>4, <1>5 DEF Outside
  <1>6. ASSUME NEW x \in Ends(xs), NEW y \in ys, mark = [x1 |-> x[1], x2 |-> x[2], y1 |-> y, y2 |-> y]
        PROVE  /\ mark.y1 = mark.y2 /\ mark.y1 \in Int
               /\ Top(c, l) <= mark.y1 /\ mark.y1 <= Bottom(c, l)
               /\ Outside(Left(c, l), Right(c, l), mark.x1, mark.x2, offset)
    BY <1>2, <1>4, <1>6 DEF Outside
  <1> QED BY <1>1, <1>5, <1>6
LEMMA GridHeld ==
  ASSUME NEW c \in Cells, NEW l \in Layouts, P!Validate(c, l)
  PROVE  LET size == P!SheetSize(l)
             cells == P!PlaceCells(c, l)
             Bled(at) == [x1 |-> cells[at].x1 - l.bleed, x2 |-> cells[at].x2 + l.bleed,
                          y1 |-> cells[at].y1 - l.bleed, y2 |-> cells[at].y2 + l.bleed]
             Apart(a, b) == a.x2 <= b.x1 \/ b.x2 <= a.x1 \/ a.y2 <= b.y1 \/ b.y2 <= a.y1
             Within(a, m) == m <= a.x1 /\ a.x2 <= size.w - m /\ m <= a.y1 /\ a.y2 <= size.h - m
         IN /\ \A a, b \in DOMAIN cells : a # b => Apart(Bled(a), Bled(b))
            /\ \A a \in DOMAIN cells : Within(Bled(a), P!Margin(l))
            /\ \A mark \in P!CropMarkLines(cells, l.bleed) :
                 /\ \A a \in DOMAIN cells : Apart(mark, Bled(a))
                 /\ P!Margin(l) >= P!CropMark + 2 => Within(mark, 0)
  <1> DEFINE size == P!SheetSize(l)
             cells == P!PlaceCells(c, l)
             Bled(at) == [x1 |-> cells[at].x1 - l.bleed, x2 |-> cells[at].x2 + l.bleed,
                          y1 |-> cells[at].y1 - l.bleed, y2 |-> cells[at].y2 + l.bleed]
             Apart(a, b) == a.x2 <= b.x1 \/ b.x2 <= a.x1 \/ a.y2 <= b.y1 \/ b.y2 <= a.y1
             Within(a, m) == m <= a.x1 /\ a.x2 <= size.w - m /\ m <= a.y1 /\ a.y2 <= size.h - m
  <1>1. ASSUME NEW a \in DOMAIN cells, NEW b \in DOMAIN cells, a # b PROVE Apart(Bled(a), Bled(b))
    <2>1. \/ cells[a].x2 + l.bleed <= cells[b].x1 - l.bleed \/ cells[b].x2 + l.bleed <= cells[a].x1 - l.bleed
          \/ cells[a].y2 + l.bleed <= cells[b].y1 - l.bleed \/ cells[b].y2 + l.bleed <= cells[a].y1 - l.bleed
      BY <1>1, BoxesApart
    <2> HIDE DEF cells
    <2> QED BY <2>1
  <1>2. ASSUME NEW a \in DOMAIN cells PROVE Within(Bled(a), P!Margin(l))
    <2>1. /\ P!Margin(l) <= cells[a].x1 - l.bleed /\ cells[a].x2 + l.bleed <= size.w - P!Margin(l)
          /\ P!Margin(l) <= cells[a].y1 - l.bleed /\ cells[a].y2 + l.bleed <= size.h - P!Margin(l)
      BY BoxWithin
    <2> HIDE DEF cells, size
    <2> QED BY <2>1
  <1> DEFINE Vertical(mark) ==
               /\ mark.x1 = mark.x2 /\ mark.x1 \in Int
               /\ Left(c, l) <= mark.x1 /\ mark.x1 <= Right(c, l)
               /\ Outside(Top(c, l), Bottom(c, l), mark.y1, mark.y2, l.bleed + 2)
             Horizontal(mark) ==
               /\ mark.y1 = mark.y2 /\ mark.y1 \in Int
               /\ Top(c, l) <= mark.y1 /\ mark.y1 <= Bottom(c, l)
               /\ Outside(Left(c, l), Right(c, l), mark.x1, mark.x2, l.bleed + 2)
  <1>3. /\ Left(c, l) \in Int /\ Right(c, l) \in Int /\ Top(c, l) \in Int /\ Bottom(c, l) \in Int
        /\ P!Margin(l) <= Left(c, l) - l.bleed /\ Right(c, l) + l.bleed <= size.w - P!Margin(l)
        /\ P!Margin(l) <= Top(c, l) - l.bleed /\ Bottom(c, l) + l.bleed <= size.h - P!Margin(l)
        /\ Left(c, l) <= Right(c, l) /\ Top(c, l) <= Bottom(c, l)
        /\ l.bleed \in Nat /\ P!Margin(l) \in Nat /\ size.w \in Nat /\ size.h \in Nat
    BY Edges, ValidLayout
  <1>4. ASSUME NEW mark, Vertical(mark) \/ Horizontal(mark), NEW a \in DOMAIN cells PROVE Apart(mark, Bled(a))
    <2>1. /\ Left(c, l) <= cells[a].x1 /\ cells[a].x2 <= Right(c, l) /\ cells[a].x1 \in Int /\ cells[a].x2 \in Int
          /\ Top(c, l) <= cells[a].y1 /\ cells[a].y2 <= Bottom(c, l) /\ cells[a].y1 \in Int /\ cells[a].y2 \in Int
      BY Edges
    <2> HIDE DEF cells, size
    <2>2. CASE Vertical(mark)
      <3>1. mark.y2 <= Bled(a).y1 \/ Bled(a).y2 <= mark.y1
        BY <1>3, <2>1, <2>2 DEF Outside
      <3> QED BY <3>1
    <2>3. CASE Horizontal(mark)
      <3>1. mark.x2 <= Bled(a).x1 \/ Bled(a).x2 <= mark.x1
        BY <1>3, <2>1, <2>3 DEF Outside
      <3> QED BY <3>1
    <2> QED BY <1>4, <2>2, <2>3
  <1>5. ASSUME NEW mark, Vertical(mark) \/ Horizontal(mark), P!Margin(l) >= P!CropMark + 2 PROVE Within(mark, 0)
    <2>1. P!Margin(l) >= 12
      BY <1>5 DEF P!CropMark
    <2> HIDE DEF cells, size
    <2>2. CASE Vertical(mark)
      <3>1. 0 <= mark.y1 /\ mark.y2 <= size.h
        BY <1>3, <2>1, <2>2 DEF Outside
      <3>2. 0 <= mark.x1 /\ mark.x2 <= size.w
        BY <1>3, <2>2
      <3> QED BY <1>3, <3>1, <3>2
    <2>3. CASE Horizontal(mark)
      <3>1. 0 <= mark.x1 /\ mark.x2 <= size.w
        BY <1>3, <2>1, <2>3 DEF Outside
      <3>2. 0 <= mark.y1 /\ mark.y2 <= size.h
        BY <1>3, <2>3
      <3> QED BY <1>3, <3>1, <3>2
    <2> QED BY <1>5, <2>2, <2>3
  <1>6. ASSUME NEW mark \in P!CropMarkLines(cells, l.bleed) PROVE Vertical(mark) \/ Horizontal(mark)
    BY Marks
  <1> HIDE DEF cells, size, Bled, Apart, Within, Vertical, Horizontal
  <1>7. /\ \A a, b \in DOMAIN cells : a # b => Apart(Bled(a), Bled(b))
        /\ \A a \in DOMAIN cells : Within(Bled(a), P!Margin(l))
        /\ \A mark \in P!CropMarkLines(cells, l.bleed) :
             /\ \A a \in DOMAIN cells : Apart(mark, Bled(a))
             /\ P!Margin(l) >= P!CropMark + 2 => Within(mark, 0)
    BY <1>1, <1>2, <1>4, <1>5, <1>6
  <1> QED BY <1>7 DEF cells, size, Bled, Apart, Within

LEMMA RenderedHoldsTheGrid ==
  ASSUME job.at = "rendered" => job.cell \in Cells /\ job.layout \in Layouts /\ P!Validate(job.cell, job.layout)
  PROVE  P!SheetHoldsTheGrid
  BY GridHeld DEF P!SheetHoldsTheGrid
-----------------------------------------------------------------------------
(* The order of a print. *)

LEMMA PrintCardinality == \A S : P!Cardinality(S) = Cardinality(S)
  BY DEF P!Cardinality, Cardinality
-----------------------------------------------------------------------------
(* Sorting by counting: in a finite set with a strict total order, the       *)
(* number of those before gives each of its members a place of its own.      *)
Orders(S, less) ==
  /\ \A x \in S : <<x, x>> \notin less
  /\ \A x, y, z \in S : <<x, y>> \in less /\ <<y, z>> \in less => <<x, z>> \in less
  /\ \A x, y \in S : x # y => <<x, y>> \in less \/ <<y, x>> \in less
Rank(S, less, x) == 1 + Cardinality({y \in S : <<y, x>> \in less})

LEMMA Ranking ==
  ASSUME NEW S, IsFiniteSet(S), NEW less, Orders(S, less)
  PROVE  /\ \A x \in S : Rank(S, less, x) \in 1..Cardinality(S)
         /\ \A x, y \in S : Rank(S, less, x) = Rank(S, less, y) => x = y
         /\ \A x, y \in S : Rank(S, less, x) < Rank(S, less, y) => <<x, y>> \in less
         /\ \A n \in 1..Cardinality(S) : \E x \in S : Rank(S, less, x) = n
  <1> DEFINE below(x) == {y \in S : <<y, x>> \in less}
             rank(x) == 1 + Cardinality(below(x))
  <1>0. Cardinality(S) \in Nat
    BY FS_CardinalityType
  <1>1. ASSUME NEW x \in S
        PROVE  /\ IsFiniteSet(below(x)) /\ Cardinality(below(x)) \in Nat
               /\ Cardinality(below(x)) < Cardinality(S)
    <2>1. below(x) \subseteq S /\ below(x) # S
      BY DEF Orders
    <2> HIDE DEF below
    <2>2. /\ IsFiniteSet(below(x)) /\ Cardinality(below(x)) <= Cardinality(S)
          /\ Cardinality(below(x)) # Cardinality(S)
      BY <2>1, FS_Subset
    <2>3. Cardinality(below(x)) \in Nat
      BY <2>2, FS_CardinalityType
    <2> QED BY <1>0, <2>2, <2>3
  <1>2. ASSUME NEW x \in S, NEW y \in S, <<x, y>> \in less PROVE rank(x) < rank(y)
    <2>1. below(x) \subseteq below(y) /\ x \in below(y) /\ x \notin below(x)
      BY <1>2 DEF Orders
    <2> HIDE DEF below
    <2>2. below(x) # below(y)
      BY <2>1
    <2>3. Cardinality(below(x)) <= Cardinality(below(y)) /\ Cardinality(below(x)) # Cardinality(below(y))
      BY <1>1, <2>1, <2>2, FS_Subset
    <2> QED BY <1>1, <2>3
  <1>3. \A x \in S : rank(x) \in 1..Cardinality(S)
    <2> HIDE DEF below
    <2> QED BY <1>0, <1>1
  <1>4. ASSUME NEW x \in S, NEW y \in S, rank(x) = rank(y) PROVE x = y
    <2> SUFFICES ASSUME x # y PROVE FALSE
      OBVIOUS
    <2>1. rank(x) < rank(y) \/ rank(y) < rank(x)
      BY <1>2 DEF Orders
    <2> HIDE DEF rank
    <2> QED BY <1>3, <1>4, <2>1
  <1>5. ASSUME NEW x \in S, NEW y \in S, rank(x) < rank(y) PROVE <<x, y>> \in less
    <2> SUFFICES ASSUME <<x, y>> \notin less PROVE FALSE
      OBVIOUS
    <2>1. x = y \/ rank(y) < rank(x)
      BY <1>2 DEF Orders
    <2> HIDE DEF rank
    <2> QED BY <1>3, <1>5, <2>1
  <1>6. ASSUME NEW n \in 1..Cardinality(S) PROVE \E x \in S : rank(x) = n
    <2> DEFINE T == 1..Cardinality(S)
               f == [x \in S |-> rank(x)]
    <2> HIDE DEF rank
    <2>1. f \in Injection(S, T)
      BY <1>3, <1>4 DEF Injection, IsInjective
    <2>2. IsFiniteSet(T) /\ Cardinality(T) = Cardinality(S)
      BY <1>0, FS_Interval
    <2> HIDE DEF f, T
    <2>3. f \in Surjection(S, T)
      BY <2>1, <2>2, FS_Injection
    <2>4. PICK x \in S : f[x] = n
      BY <2>3 DEF Surjection, T
    <2> QED BY <2>4 DEF f
  <1> QED BY <1>3, <1>4, <1>5, <1>6 DEF Rank
-----------------------------------------------------------------------------
(* Pieces of a sequence. *)

LEMMA PiecesInOrder ==
  ASSUME NEW n \in Nat \ {0}, NEW k \in Nat, NEW h \in Nat, k < h, NEW i \in 1..n, NEW j \in 1..n
  PROVE  (k - 1) * n + i < (h - 1) * n + j
  <1>1. k * n <= (h - 1) * n
    BY TimesKeepsOrder
  <1>2. (k - 1) * n = k * n - n /\ k * n \in Nat /\ (h - 1) * n \in Int
    BY SMT
  <1> QED BY <1>1, <1>2

(* How many are before the k-th piece of n. *)
Upto(k, n) == (k - 1) * n

(* p is s in pieces of n. *)
InPieces(X, s, n, p) ==
  /\ p \in Seq(Seq(X)) /\ Len(p) <= Len(s) /\ (Len(s) > 0 => Len(p) > 0)
  /\ \A k \in DOMAIN p :
       /\ k \in Nat \ {0} /\ Upto(k, n) \in Nat
       /\ p[k] \in Seq(X) /\ Len(p[k]) \in 1..n
       /\ \A i \in 1..Len(p[k]) : Upto(k, n) + i \in 1..Len(s) /\ p[k][i] = s[Upto(k, n) + i]
  /\ \A m \in 1..Len(s) : \E k \in DOMAIN p : \E i \in 1..Len(p[k]) : m = Upto(k, n) + i

LEMMA PiecesOf ==
  ASSUME NEW X, NEW s \in Seq(X), NEW n \in Nat \ {0}
  PROVE  InPieces(X, s, n, P!Pieces(s, n))
  <1> DEFINE p == P!Pieces(s, n)
             count == (Len(s) + n - 1) \div n
             first(k) == (k - 1) * n + 1
             last(k) == IF k * n < Len(s) THEN k * n ELSE Len(s)
  <1>1. count \in Nat /\ count * n <= Len(s) + n - 1 /\ Len(s) + n - 1 < count * n + n
    <2> DEFINE a == Len(s) + n - 1
    <2>1. a \in Nat
      OBVIOUS
    <2> HIDE DEF a
    <2>2. a \div n \in Nat /\ (a \div n) * n <= a /\ a < (a \div n) * n + n
      BY <2>1, Quotient
    <2> QED BY <2>2 DEF a
  <1>2. p = [k \in 1..count |-> SubSeq(s, first(k), last(k))]
    BY DEF P!Pieces
  <1> HIDE DEF count, p
  <1>3. ASSUME NEW k \in 1..count
        PROVE  /\ k \in Nat \ {0} /\ (k - 1) * n \in Nat /\ k * n = (k - 1) * n + n
               /\ (k - 1) * n < Len(s)
               /\ k <= Len(s)
    <2>1. k \in Nat \ {0} /\ k <= count
      BY <1>1
    <2>2. k * n <= count * n
      BY <1>1, <2>1, TimesKeepsOrder
    <2>3. k * n = (k - 1) * n + n
      BY <2>1
    <2>4. (k - 1) \in Nat /\ n \in Nat
      BY <2>1
    <2>5. (k - 1) * n \in Nat
      BY <2>4
    <2>6. k - 1 <= (k - 1) * n
      <3>1. 1 * (k - 1) <= n * (k - 1)
        BY <2>4, TimesKeepsOrder
      <3>2. 1 * (k - 1) = k - 1 /\ n * (k - 1) = (k - 1) * n
        BY <2>4
      <3> QED BY <3>1, <3>2
    <2> DEFINE kn == k * n
               k1n == (k - 1) * n
               cn == count * n
    <2>7. cn \in Nat
      BY <1>1
    <2> HIDE DEF kn, k1n, cn
    <2>8. k1n < Len(s) /\ k <= Len(s)
      <3>1. kn = k1n + n /\ kn <= cn /\ cn <= Len(s) + n - 1 /\ k1n \in Nat /\ k - 1 <= k1n
        BY <1>1, <2>2, <2>3, <2>5, <2>6 DEF kn, k1n, cn
      <3> QED BY <2>1, <2>7, <3>1
    <2> QED BY <2>1, <2>3, <2>5, <2>8 DEF k1n
  <1>4. ASSUME NEW k \in 1..count
        PROVE  /\ p[k] \in Seq(X) /\ Len(p[k]) \in 1..n
               /\ Len(p[k]) = last(k) - (k - 1) * n
               /\ \A i \in 1..Len(p[k]) : (k - 1) * n + i \in 1..Len(s) /\ p[k][i] = s[(k - 1) * n + i]
    <2> DEFINE k1n == (k - 1) * n
               to == last(k)
    <2>1. k1n \in Nat /\ k1n < Len(s) /\ to = IF k1n + n < Len(s) THEN k1n + n ELSE Len(s)
      BY <1>3
    <2>2. p[k] = SubSeq(s, k1n + 1, to)
      BY <1>2
    <2> HIDE DEF k1n, to
    <2>3. to \in k1n + 1..Len(s) /\ to <= k1n + n /\ to \in Nat
      BY <2>1
    <2>4. SubSeq(s, k1n + 1, to) = [i \in 1..(to - (k1n + 1) + 1) |-> s[k1n + 1 + i - 1]]
      BY <2>1, <2>3
    <2>5. \A i \in 1..(to - k1n) : k1n + 1 + i - 1 = k1n + i /\ k1n + i \in 1..Len(s) /\ s[k1n + i] \in X
      BY <2>1, <2>3
    <2>6. p[k] = [i \in 1..(to - k1n) |-> s[k1n + i]] /\ to - k1n \in 1..n
      BY <2>1, <2>2, <2>3, <2>4, <2>5
    <2>7. p[k] \in Seq(X) /\ Len(p[k]) = to - k1n
      <3> DEFINE size == to - k1n
      <3>1. size \in Nat
        BY <2>1, <2>3
      <3>2. p[k] \in [1..size -> X]
        BY <2>5, <2>6
      <3> HIDE DEF size
      <3>3. p[k] \in Seq(X) /\ Len(p[k]) = size
        BY <3>1, <3>2
      <3> QED BY <3>3 DEF size
    <2>8. \A i \in 1..Len(p[k]) : k1n + i \in 1..Len(s) /\ p[k][i] = s[k1n + i]
      BY <2>5, <2>6, <2>7
    <2> QED BY <2>6, <2>7, <2>8 DEF k1n, to
  <1>5. p \in Seq(Seq(X)) /\ Len(p) = count /\ DOMAIN p = 1..count
    BY <1>1, <1>2, <1>4
  <1>6. Len(s) > 0 => count > 0
    <2> DEFINE cn == count * n
    <2>1. count = 0 => cn = 0
      OBVIOUS
    <2>2. cn \in Nat /\ Len(s) + n - 1 < cn + n
      BY <1>1
    <2> HIDE DEF cn
    <2> QED BY <1>1, <2>1, <2>2
  <1>7. count <= Len(s)
    <2>1. count = 0 \/ count \in 1..count
      BY <1>1
    <2> QED BY <1>3, <2>1
  <1>8. ASSUME NEW m \in 1..Len(s) PROVE \E k \in 1..count : \E i \in 1..Len(p[k]) : m = (k - 1) * n + i
    <2> DEFINE q == (m - 1) \div n
               r == (m - 1) % n
               qn == q * n
    <2>1. m - 1 \in Nat
      OBVIOUS
    <2>2. q \in Nat /\ r \in 0..(n - 1) /\ m - 1 = qn + r /\ qn \in Nat
      <3>1. q \in Nat /\ r \in 0..(n - 1) /\ qn <= m - 1 /\ r = m - 1 - qn
        BY <2>1, Quotient
      <3>2. qn \in Nat
        BY <3>1
      <3> HIDE DEF q, r, qn
      <3> QED BY <2>1, <3>1, <3>2
    <2> HIDE DEF r, q
    <2>3. q + 1 \in 1..count
      <3>1. q < count
        <4> SUFFICES ASSUME count <= q PROVE FALSE
          BY <1>1, <2>2
        <4>1. count * n <= qn
          BY <1>1, <2>2, TimesKeepsOrder
        <4> DEFINE cn == count * n
        <4>2. cn \in Nat /\ Len(s) + n - 1 < cn + n /\ cn <= qn
          BY <1>1, <4>1
        <4> HIDE DEF cn, qn
        <4> QED BY <2>2, <4>2
      <3> QED BY <1>1, <2>2, <3>1
    <2>4. ((q + 1) - 1) * n = qn
      BY <2>2
    <2>5. Len(p[q + 1]) = last(q + 1) - qn /\ (q + 1) * n = qn + n
      BY <1>3, <1>4, <2>3, <2>4
    <2> HIDE DEF qn
    <2>6. r + 1 \in 1..Len(p[q + 1]) /\ m = qn + (r + 1)
      BY <2>2, <2>5
    <2> QED BY <2>3, <2>4, <2>6
  <1>9. InPieces(X, s, n, p)
    <2>1. p \in Seq(Seq(X)) /\ Len(p) <= Len(s) /\ (Len(s) > 0 => Len(p) > 0)
      BY <1>5, <1>6, <1>7
    <2>2. \A k \in DOMAIN p :
             /\ k \in Nat \ {0} /\ (k - 1) * n \in Nat
             /\ p[k] \in Seq(X) /\ Len(p[k]) \in 1..n
             /\ \A i \in 1..Len(p[k]) : (k - 1) * n + i \in 1..Len(s) /\ p[k][i] = s[(k - 1) * n + i]
      BY <1>3, <1>4, <1>5
    <2> QED BY <1>5, <1>8, <2>1, <2>2 DEF InPieces, Upto
  <1> QED BY <1>9 DEF p
-----------------------------------------------------------------------------
(* The print order. *)

Entry == [id : Runners, row : P!Rows]
Listed(rows) ==
  /\ rows \in Seq(Entry)
  /\ \A i, j \in DOMAIN rows : rows[i].row.bib = rows[j].row.bib => i = j

BibAt(rows, i) == rows[i].row.bib
LowestOf(rows, team) ==
  CHOOSE b \in 1..MaxBib :
    /\ \E j \in DOMAIN rows : rows[j].row.team = team /\ BibAt(rows, j) = b
    /\ \A j \in DOMAIN rows : rows[j].row.team = team => b <= BibAt(rows, j)
GroupAt(rows, i) ==
  IF rows[i].row.team = NoTeam THEN BibAt(rows, i) ELSE LowestOf(rows, rows[i].row.team)
LegAt(rows, i) == IF rows[i].row.leg # 0 THEN rows[i].row.leg ELSE BibAt(rows, i)
Before(rows, i, j) ==
  \/ GroupAt(rows, i) < GroupAt(rows, j)
  \/ GroupAt(rows, i) = GroupAt(rows, j) /\ LegAt(rows, i) < LegAt(rows, j)
  \/ GroupAt(rows, i) = GroupAt(rows, j) /\ LegAt(rows, i) = LegAt(rows, j) /\ BibAt(rows, i) < BibAt(rows, j)

LEMMA EntryFields ==
  ASSUME NEW rows, Listed(rows), NEW i \in DOMAIN rows
  PROVE  /\ rows[i] \in Entry /\ i \in 1..Len(rows) /\ DOMAIN rows = 1..Len(rows) /\ Len(rows) \in Nat
         /\ BibAt(rows, i) \in 1..MaxBib /\ rows[i].row.leg \in 0..MaxLeg
         /\ LegAt(rows, i) \in Nat
  <1>1. rows[i] \in Entry /\ i \in 1..Len(rows) /\ DOMAIN rows = 1..Len(rows) /\ Len(rows) \in Nat
    BY DEF Listed
  <1>2. rows[i].row \in P!Rows
    BY <1>1 DEF Entry
  <1>3. BibAt(rows, i) \in 1..MaxBib /\ rows[i].row.leg \in 0..MaxLeg
    <2>1. rows[i].row.leg \in 0..MaxLeg
      BY <1>2, RegistrationAssumption DEF P!Rows
    <2>2. rows[i].row.bib \in 1..MaxBib
      BY <1>2 DEF P!Rows
    <2> QED BY <2>1, <2>2 DEF BibAt
  <1>4. LegAt(rows, i) \in Nat
    BY <1>3, PrintAssumption, RegistrationAssumption DEF LegAt
  <1> QED BY <1>1, <1>3, <1>4

LEMMA Groups ==
  ASSUME NEW rows, Listed(rows), NEW i \in DOMAIN rows
  PROVE  /\ GroupAt(rows, i) \in Nat
         /\ rows[i].row.team = NoTeam => GroupAt(rows, i) = BibAt(rows, i)
         /\ rows[i].row.team # NoTeam =>
              /\ \E j \in DOMAIN rows : rows[j].row.team = rows[i].row.team /\ BibAt(rows, j) = GroupAt(rows, i)
              /\ \A j \in DOMAIN rows : rows[j].row.team = rows[i].row.team => GroupAt(rows, j) = GroupAt(rows, i)
  <1>1. BibAt(rows, i) \in Nat
    BY EntryFields, PrintAssumption
  <1>2. CASE rows[i].row.team = NoTeam
    BY <1>1, <1>2 DEF GroupAt
  <1>3. CASE rows[i].row.team # NoTeam
    <2> DEFINE bibs == {BibAt(rows, j) : j \in {j \in DOMAIN rows : rows[j].row.team = rows[i].row.team}}
               IsLeast(b) ==
                 /\ \E j \in DOMAIN rows : rows[j].row.team = rows[i].row.team /\ BibAt(rows, j) = b
                 /\ \A j \in DOMAIN rows : rows[j].row.team = rows[i].row.team => b <= BibAt(rows, j)
    <2>1. bibs \in SUBSET Nat /\ bibs # {} /\ bibs \subseteq 1..MaxBib
      BY EntryFields, PrintAssumption
    <2>2. PICK b \in bibs : \A o \in bibs : b <= o
      BY <2>1, LeastOne
    <2>3. b \in 1..MaxBib /\ IsLeast(b)
      BY <2>1, <2>2
    <2>4. GroupAt(rows, i) = CHOOSE x \in 1..MaxBib : IsLeast(x)
      BY <1>3 DEF GroupAt, LowestOf
    <2> HIDE DEF IsLeast
    <2>5. GroupAt(rows, i) \in 1..MaxBib /\ IsLeast(GroupAt(rows, i))
      BY <2>3, <2>4
    <2>6. ASSUME NEW j \in DOMAIN rows, rows[j].row.team = rows[i].row.team
          PROVE  GroupAt(rows, j) = GroupAt(rows, i)
      BY <1>3, <2>6 DEF GroupAt
    <2> QED BY <1>3, <2>5, <2>6, PrintAssumption DEF IsLeast
  <1> QED BY <1>2, <1>3

LEMMA BeforeIsAnOrder ==
  ASSUME NEW rows, Listed(rows)
  PROVE  LET less == {e \in (DOMAIN rows) \X (DOMAIN rows) : Before(rows, e[1], e[2])}
         IN /\ \A x \in DOMAIN rows : <<x, x>> \notin less
            /\ \A x, y, z \in DOMAIN rows : <<x, y>> \in less /\ <<y, z>> \in less => <<x, z>> \in less
            /\ \A x, y \in DOMAIN rows : x # y => <<x, y>> \in less \/ <<y, x>> \in less
            /\ \A x, y \in DOMAIN rows : <<x, y>> \in less <=> Before(rows, x, y)
  <1> DEFINE less == {e \in (DOMAIN rows) \X (DOMAIN rows) : Before(rows, e[1], e[2])}
  <1>1. ASSUME NEW x \in DOMAIN rows, NEW y \in DOMAIN rows PROVE <<x, y>> \in less <=> Before(rows, x, y)
    <2>1. <<x, y>> \in (DOMAIN rows) \X (DOMAIN rows) /\ <<x, y>>[1] = x /\ <<x, y>>[2] = y
      OBVIOUS
    <2> QED BY <2>1
  <1>2. \A x \in DOMAIN rows : GroupAt(rows, x) \in Nat /\ LegAt(rows, x) \in Nat /\ BibAt(rows, x) \in Nat
    BY Groups, EntryFields, PrintAssumption
  <1>3. ASSUME NEW x \in DOMAIN rows PROVE ~Before(rows, x, x)
    BY <1>2 DEF Before
  <1>4. ASSUME NEW x \in DOMAIN rows, NEW y \in DOMAIN rows, NEW z \in DOMAIN rows,
               Before(rows, x, y), Before(rows, y, z)
        PROVE  Before(rows, x, z)
    BY <1>2, <1>4 DEF Before
  <1>5. ASSUME NEW x \in DOMAIN rows, NEW y \in DOMAIN rows, x # y PROVE Before(rows, x, y) \/ Before(rows, y, x)
    <2>1. BibAt(rows, x) # BibAt(rows, y)
      BY <1>5 DEF Listed, BibAt
    <2> QED BY <1>2, <2>1 DEF Before
  <1> HIDE DEF less
  <1>6. /\ \A x \in DOMAIN rows : <<x, x>> \notin less
        /\ \A x, y, z \in DOMAIN rows : <<x, y>> \in less /\ <<y, z>> \in less => <<x, z>> \in less
        /\ \A x, y \in DOMAIN rows : x # y => <<x, y>> \in less \/ <<y, x>> \in less
    BY <1>1, <1>3, <1>4, <1>5
  <1> QED BY <1>1, <1>6 DEF less

(* The order is the rows in other places, the one before the other if Before. *)
LEMMA OrderOfRows ==
  ASSUME NEW rows, Listed(rows)
  PROVE  /\ P!PrintOrder(rows) \in Seq(Entry) /\ Len(P!PrintOrder(rows)) = Len(rows)
         /\ \E at \in [DOMAIN rows -> DOMAIN rows] :
              /\ \A n \in DOMAIN rows : P!PrintOrder(rows)[n] = rows[at[n]]
              /\ \A m, n \in DOMAIN rows : at[m] = at[n] => m = n
              /\ \A i \in DOMAIN rows : \E n \in DOMAIN rows : at[n] = i
              /\ \A m, n \in DOMAIN rows : m < n => Before(rows, at[m], at[n])
  <1> DEFINE D == DOMAIN rows
             less == {e \in D \X D : Before(rows, e[1], e[2])}
             place(i) == Rank(D, less, i)
             at == [n \in D |-> CHOOSE i \in D : place(i) = n]
  <1>1. D = 1..Len(rows) /\ Len(rows) \in Nat /\ rows \in Seq(Entry)
    BY DEF Listed
  <1>2. IsFiniteSet(D) /\ Cardinality(D) = Len(rows)
    BY <1>1, FS_Interval
  <1>3. /\ \A x \in D : <<x, x>> \notin less
        /\ \A x, y, z \in D : <<x, y>> \in less /\ <<y, z>> \in less => <<x, z>> \in less
        /\ \A x, y \in D : x # y => <<x, y>> \in less \/ <<y, x>> \in less
        /\ \A x, y \in D : <<x, y>> \in less <=> Before(rows, x, y)
    BY BeforeIsAnOrder
  <1>4. \A i \in D : place(i) = 1 + P!Cardinality({j \in D : Before(rows, j, i)})
    <2>1. \A i \in D : {j \in D : <<j, i>> \in less} = {j \in D : Before(rows, j, i)}
      BY <1>3
    <2> HIDE DEF less
    <2> QED BY <2>1, PrintCardinality DEF Rank
  <1>5. P!PrintOrder(rows) = [n \in D |-> rows[CHOOSE i \in D : 1 + P!Cardinality({j \in D : Before(rows, j, i)}) = n]]
    BY DEF P!PrintOrder, Before, GroupAt, LowestOf, LegAt, BibAt
  <1> HIDE DEF less
  <1>6. /\ \A x \in D : place(x) \in 1..Cardinality(D)
        /\ \A x, y \in D : place(x) = place(y) => x = y
        /\ \A x, y \in D : place(x) < place(y) => <<x, y>> \in less
        /\ \A n \in 1..Cardinality(D) : \E x \in D : place(x) = n
    <2>1. /\ \A x \in D : Rank(D, less, x) \in 1..Cardinality(D)
          /\ \A x, y \in D : Rank(D, less, x) = Rank(D, less, y) => x = y
          /\ \A x, y \in D : Rank(D, less, x) < Rank(D, less, y) => <<x, y>> \in less
          /\ \A n \in 1..Cardinality(D) : \E x \in D : Rank(D, less, x) = n
      <3>1. Orders(D, less)
        BY <1>3 DEF Orders
      <3> HIDE DEF D
      <3> QED BY <1>2, <3>1, Ranking
    <2> QED BY <2>1
  <1> HIDE DEF place
  <1>7. \A n \in D : at[n] \in D /\ place(at[n]) = n
    BY <1>1, <1>2, <1>6
  <1>8. \A n \in D : P!PrintOrder(rows)[n] = rows[at[n]]
    <2>1. \A n \in D : at[n] = CHOOSE i \in D : 1 + P!Cardinality({j \in D : Before(rows, j, i)}) = n
      BY <1>4
    <2> HIDE DEF at
    <2> QED BY <1>5, <2>1
  <1> HIDE DEF at
  <1>9. at \in [D -> D]
    BY <1>7 DEF at
  <1>10. P!PrintOrder(rows) \in Seq(Entry) /\ Len(P!PrintOrder(rows)) = Len(rows)
    <2>1. DOMAIN P!PrintOrder(rows) = 1..Len(rows) /\ P!PrintOrder(rows) = [n \in 1..Len(rows) |-> P!PrintOrder(rows)[n]]
      BY <1>1, <1>5
    <2>2. \A n \in 1..Len(rows) : P!PrintOrder(rows)[n] \in Entry
      BY <1>1, <1>7, <1>8
    <2>3. P!PrintOrder(rows) \in [1..Len(rows) -> Entry]
      BY <2>1, <2>2
    <2> QED BY <1>1, <2>3
  <1>11. \A m, n \in D : at[m] = at[n] => m = n
    BY <1>7
  <1>12. \A i \in D : \E n \in D : at[n] = i
    BY <1>1, <1>2, <1>6, <1>7
  <1>13. \A m, n \in D : m < n => Before(rows, at[m], at[n])
    <2>1. ASSUME NEW m \in D, NEW n \in D, m < n PROVE Before(rows, at[m], at[n])
      <3>1. at[m] \in D /\ at[n] \in D /\ place(at[m]) < place(at[n])
        BY <1>7, <2>1
      <3>2. <<at[m], at[n]>> \in less
        BY <1>6, <3>1
      <3> QED BY <1>3, <3>1, <3>2
    <2> QED BY <2>1
  <1> QED BY <1>8, <1>9, <1>10, <1>11, <1>12, <1>13
LEMMA OrderFacts ==
  ASSUME NEW rows, Listed(rows)
  PROVE  LET order == P!PrintOrder(rows)
             all == 1..Len(rows)
         IN /\ order \in Seq(Entry) /\ Len(order) = Len(rows)
            /\ \A n \in all : \E i \in all : order[n] = rows[i]
            /\ \A i \in all : \E n \in all : order[n] = rows[i]
            /\ \A m, n \in all : order[m].row.bib = order[n].row.bib => m = n
            /\ \A a, b, c \in all :
                 a < b /\ b < c /\ order[a].row.team # NoTeam /\ order[a].row.team = order[c].row.team
                   => order[b].row.team = order[a].row.team
            /\ \A a, b \in all :
                 a < b /\ order[a].row.team # NoTeam /\ order[a].row.team = order[b].row.team
                   /\ order[a].row.leg > 0 /\ order[b].row.leg > 0
                   => order[a].row.leg <= order[b].row.leg
  <1> DEFINE order == P!PrintOrder(rows)
             D == DOMAIN rows
             Team(i) == rows[i].row.team
             Group(i) == GroupAt(rows, i)
             Bib(i) == BibAt(rows, i)
  <1>1. D = 1..Len(rows)
    BY DEF Listed
  <1>2. PICK at \in [D -> D] :
          /\ \A n \in D : order[n] = rows[at[n]]
          /\ \A m, n \in D : at[m] = at[n] => m = n
          /\ \A i \in D : \E n \in D : at[n] = i
          /\ \A m, n \in D : m < n => Before(rows, at[m], at[n])
    BY OrderOfRows
  <1>3. order \in Seq(Entry) /\ Len(order) = Len(rows)
    BY OrderOfRows
  <1>4. \A i \in D : /\ Group(i) \in Nat /\ Bib(i) \in Nat /\ LegAt(rows, i) \in Nat /\ rows[i].row.leg \in Nat
                     /\ Team(i) = NoTeam => Group(i) = Bib(i)
                     /\ Team(i) # NoTeam =>
                          /\ \E j \in D : Team(j) = Team(i) /\ Bib(j) = Group(i)
                          /\ \A j \in D : Team(j) = Team(i) => Group(j) = Group(i)
    BY Groups, EntryFields, PrintAssumption, RegistrationAssumption
  <1>5. \A i, j \in D : Bib(i) = Bib(j) => i = j
    BY DEF Listed, BibAt
  <1> HIDE DEF order, Group, Bib
  <1>6. ASSUME NEW i \in D, NEW j \in D, Team(i) # NoTeam, Group(i) = Group(j) PROVE Team(j) = Team(i)
    <2>1. PICK h \in D : Team(h) = Team(i) /\ Bib(h) = Group(i)
      BY <1>4, <1>6
    <2>2. CASE Team(j) = NoTeam
      BY <1>4, <1>5, <1>6, <2>1, <2>2
    <2>3. CASE Team(j) # NoTeam
      <3>1. PICK g \in D : Team(g) = Team(j) /\ Bib(g) = Group(j)
        BY <1>4, <2>3
      <3>2. g = h
        BY <1>5, <1>6, <2>1, <3>1
      <3> QED BY <2>1, <3>1, <3>2
    <2> QED BY <2>2, <2>3
  <1>7. ASSUME NEW a \in D, NEW b \in D, NEW c \in D, a < b, b < c,
               order[a].row.team # NoTeam, order[a].row.team = order[c].row.team
        PROVE  order[b].row.team = order[a].row.team
    <2>1. /\ at[a] \in D /\ at[b] \in D /\ at[c] \in D
          /\ Team(at[a]) # NoTeam /\ Team(at[a]) = Team(at[c])
          /\ Before(rows, at[a], at[b]) /\ Before(rows, at[b], at[c])
      BY <1>2, <1>7
    <2>2. Group(at[a]) = Group(at[c])
      BY <1>4, <2>1
    <2>3. Group(at[a]) <= Group(at[b]) /\ Group(at[b]) <= Group(at[c])
      BY <1>4, <2>1 DEF Before, Group
    <2>4. Group(at[a]) = Group(at[b])
      <3>1. Group(at[a]) \in Nat /\ Group(at[b]) \in Nat /\ Group(at[c]) \in Nat
        BY <1>4, <2>1
      <3> QED BY <2>2, <2>3, <3>1
    <2>5. Team(at[b]) = Team(at[a])
      BY <1>6, <2>1, <2>4
    <2> QED BY <1>2, <2>5
  <1>8. ASSUME NEW a \in D, NEW b \in D, a < b,
               order[a].row.team # NoTeam, order[a].row.team = order[b].row.team,
               order[a].row.leg > 0, order[b].row.leg > 0
        PROVE  order[a].row.leg <= order[b].row.leg
    <2>1. /\ at[a] \in D /\ at[b] \in D
          /\ Team(at[a]) # NoTeam /\ Team(at[a]) = Team(at[b])
          /\ rows[at[a]].row.leg > 0 /\ rows[at[b]].row.leg > 0
          /\ Before(rows, at[a], at[b])
      BY <1>2, <1>8
    <2>2. Group(at[a]) = Group(at[b])
      BY <1>4, <2>1
    <2>3. LegAt(rows, at[a]) = rows[at[a]].row.leg /\ LegAt(rows, at[b]) = rows[at[b]].row.leg
      BY <1>4, <2>1 DEF LegAt
    <2>4. LegAt(rows, at[a]) <= LegAt(rows, at[b])
      BY <1>4, <2>1, <2>2 DEF Before, Group
    <2> QED BY <1>2, <2>3, <2>4
  <1>9. ASSUME NEW m \in D, NEW n \in D, order[m].row.bib = order[n].row.bib PROVE m = n
    <2>1. at[m] \in D /\ at[n] \in D /\ rows[at[m]].row.bib = rows[at[n]].row.bib
      BY <1>2, <1>9
    <2>2. at[m] = at[n]
      BY <2>1 DEF Listed
    <2> QED BY <1>2, <2>2
  <1>10. (\A n \in D : \E i \in D : order[n] = rows[i]) /\ (\A i \in D : \E n \in D : order[n] = rows[i])
    BY <1>2
  <1> QED BY <1>1, <1>3, <1>7, <1>8, <1>9, <1>10 DEF order
-----------------------------------------------------------------------------
(* Files and sheets. *)

FilesOf(order, perSheet) ==
  [f \in DOMAIN P!SplitParts(order) |-> P!Pieces(P!SplitParts(order)[f], perSheet)]
PositionOf(at, perSheet) == Upto(at[1], PeoplePerFile) + (Upto(at[2], perSheet) + at[3])
PrintedBefore(a, b) ==
  \/ a[1] < b[1]
  \/ a[1] = b[1] /\ a[2] < b[2]
  \/ a[1] = b[1] /\ a[2] = b[2] /\ a[3] < b[3]

(* File f is the f-th piece of the order, and sheet s the s-th piece of it.    *)
FileIs(order, f) ==
  /\ f \in Nat \ {0} /\ Upto(f, PeoplePerFile) \in Nat /\ f <= Len(order)
  /\ Len(P!SplitParts(order)[f]) \in 1..PeoplePerFile
  /\ Len(P!SplitParts(order)[f]) <= Len(order)
  /\ \A j \in 1..Len(P!SplitParts(order)[f]) :
       /\ Upto(f, PeoplePerFile) + j \in 1..Len(order)
       /\ P!SplitParts(order)[f][j] = order[Upto(f, PeoplePerFile) + j]
SheetIs(order, perSheet, f, s) ==
  /\ s \in Nat \ {0} /\ Upto(s, perSheet) \in Nat /\ s <= Len(order)
  /\ P!Sheet(f, s) \in Seq(Entry)
  /\ Len(P!Sheet(f, s)) \in 1..perSheet /\ Len(P!Sheet(f, s)) <= Len(order)
  /\ \A i \in 1..Len(P!Sheet(f, s)) :
       /\ Upto(s, perSheet) + i \in 1..Len(P!SplitParts(order)[f])
       /\ P!Sheet(f, s)[i] = P!SplitParts(order)[f][Upto(s, perSheet) + i]

(* Where a place of a sheet is in its file.                                  *)
LEMMA PlaceOnSheet ==
  ASSUME NEW order \in Seq(Entry), NEW perSheet \in Nat \ {0}, job.files = FilesOf(order, perSheet)
  PROVE  LET parts == P!SplitParts(order)
         IN /\ parts \in Seq(Seq(Entry)) /\ DOMAIN job.files = DOMAIN parts
            /\ \A f \in DOMAIN parts :
                 /\ FileIs(order, f)
                 /\ \A s \in DOMAIN job.files[f] : SheetIs(order, perSheet, f, s)
                 /\ \A j \in 1..Len(parts[f]) : \E s \in DOMAIN job.files[f] : \E i \in 1..Len(P!Sheet(f, s)) :
                      j = Upto(s, perSheet) + i
            /\ \A m \in 1..Len(order) : \E f \in DOMAIN parts : \E j \in 1..Len(parts[f]) :
                 m = Upto(f, PeoplePerFile) + j
  <1> DEFINE parts == P!SplitParts(order)
  <1>1. PeoplePerFile \in Nat \ {0} /\ parts = P!Pieces(order, PeoplePerFile)
    BY PrintAssumption DEF P!SplitParts
  <1>2. /\ parts \in Seq(Seq(Entry)) /\ Len(parts) <= Len(order)
        /\ \A f \in DOMAIN parts :
             /\ f \in Nat \ {0} /\ Upto(f, PeoplePerFile) \in Nat
             /\ parts[f] \in Seq(Entry) /\ Len(parts[f]) \in 1..PeoplePerFile
             /\ \A j \in 1..Len(parts[f]) :
                  /\ Upto(f, PeoplePerFile) + j \in 1..Len(order)
                  /\ parts[f][j] = order[Upto(f, PeoplePerFile) + j]
        /\ \A m \in 1..Len(order) : \E f \in DOMAIN parts : \E j \in 1..Len(parts[f]) :
             m = Upto(f, PeoplePerFile) + j
    <2>1. InPieces(Entry, order, PeoplePerFile, parts)
      BY <1>1, PiecesOf
    <2> QED BY <2>1 DEF InPieces
  <1>3. DOMAIN job.files = DOMAIN parts /\ \A f \in DOMAIN parts : job.files[f] = P!Pieces(parts[f], perSheet)
    BY DEF FilesOf
  <1> HIDE DEF parts
  <1>4. ASSUME NEW f \in DOMAIN parts
        PROVE  f <= Len(order) /\ Len(parts[f]) <= Len(order) /\ parts[f] \in Seq(Entry)
    <2> DEFINE before == Upto(f, PeoplePerFile)
               size == Len(parts[f])
    <2>1. /\ before \in Nat /\ size \in 1..PeoplePerFile /\ parts[f] \in Seq(Entry)
          /\ \A i \in 1..size : before + i \in 1..Len(order)
      BY <1>2
    <2>2. DOMAIN parts = 1..Len(parts) /\ Len(parts) \in Nat /\ Len(parts) <= Len(order) /\ Len(order) \in Nat
      <3>1. parts \in Seq(Seq(Entry)) /\ Len(parts) <= Len(order)
        BY <1>2
      <3> QED BY ONLY <3>1, order \in Seq(Entry)
    <2>3. f <= Len(order)
      BY <2>2
    <2> HIDE DEF before, size
    <2>4. size \in 1..size
      BY <2>1, PrintAssumption
    <2>5. before + size \in 1..Len(order)
      BY <2>1, <2>4
    <2>6. size <= Len(order)
      BY <2>1, <2>2, <2>5, PrintAssumption
    <2> QED BY <2>1, <2>3, <2>6 DEF size
  <1>5. ASSUME NEW f \in DOMAIN parts
        PROVE  /\ \A s \in DOMAIN job.files[f] :
                    /\ s \in Nat \ {0} /\ Upto(s, perSheet) \in Nat /\ s <= Len(parts[f])
                    /\ P!Sheet(f, s) \in Seq(Entry)
                    /\ Len(P!Sheet(f, s)) \in 1..perSheet
                    /\ \A i \in 1..Len(P!Sheet(f, s)) :
                         /\ Upto(s, perSheet) + i \in 1..Len(parts[f])
                         /\ P!Sheet(f, s)[i] = parts[f][Upto(s, perSheet) + i]
               /\ \A j \in 1..Len(parts[f]) : \E s \in DOMAIN job.files[f] : \E i \in 1..Len(P!Sheet(f, s)) :
                    j = Upto(s, perSheet) + i
    <2> DEFINE file == parts[f]
               sheets == P!Pieces(file, perSheet)
    <2>1. file \in Seq(Entry)
      BY <1>4
    <2> HIDE DEF file
    <2>2. /\ sheets \in Seq(Seq(Entry)) /\ Len(sheets) <= Len(file)
          /\ \A s \in DOMAIN sheets :
               /\ s \in Nat \ {0} /\ Upto(s, perSheet) \in Nat
               /\ sheets[s] \in Seq(Entry) /\ Len(sheets[s]) \in 1..perSheet
               /\ \A i \in 1..Len(sheets[s]) :
                    Upto(s, perSheet) + i \in 1..Len(file) /\ sheets[s][i] = file[Upto(s, perSheet) + i]
          /\ \A j \in 1..Len(file) : \E s \in DOMAIN sheets : \E i \in 1..Len(sheets[s]) :
               j = Upto(s, perSheet) + i
      <3>1. InPieces(Entry, file, perSheet, sheets)
        BY <2>1, PiecesOf
      <3> QED BY <3>1 DEF InPieces
    <2>3. job.files[f] = sheets /\ \A s : P!Sheet(f, s) = sheets[s]
      BY <1>3 DEF P!Sheet, file
    <2> HIDE DEF sheets
    <2>4. \A s \in DOMAIN sheets : s \in 1..Len(sheets) /\ s <= Len(file)
      <3>1. /\ sheets \in Seq(Seq(Entry)) /\ Len(sheets) <= Len(file)
            /\ Len(sheets) \in Nat /\ Len(file) \in Nat
        BY <2>1, <2>2
      <3>2. DOMAIN sheets = 1..Len(sheets)
        BY <3>1
      <3> QED BY <3>1, <3>2
    <2>5. ASSUME NEW s \in DOMAIN job.files[f]
          PROVE  /\ s \in Nat \ {0} /\ Upto(s, perSheet) \in Nat /\ s <= Len(file)
                 /\ P!Sheet(f, s) \in Seq(Entry)
                 /\ Len(P!Sheet(f, s)) \in 1..perSheet
                 /\ \A i \in 1..Len(P!Sheet(f, s)) :
                      /\ Upto(s, perSheet) + i \in 1..Len(file)
                      /\ P!Sheet(f, s)[i] = file[Upto(s, perSheet) + i]
      <3>1. s \in DOMAIN sheets /\ P!Sheet(f, s) = sheets[s]
        BY <2>3
      <3> QED BY <2>2, <2>4, <3>1
    <2>6. \A j \in 1..Len(file) : \E s \in DOMAIN job.files[f] : \E i \in 1..Len(P!Sheet(f, s)) :
            j = Upto(s, perSheet) + i
      BY <2>2, <2>3
    <2> QED BY <2>5, <2>6 DEF file
  <1>6. ASSUME NEW f \in DOMAIN parts, NEW s \in DOMAIN job.files[f]
        PROVE  s <= Len(order) /\ Len(P!Sheet(f, s)) <= Len(order)
    <2> DEFINE before == Upto(s, perSheet)
               n == Len(P!Sheet(f, s))
               k == Len(parts[f])
    <2>1. before \in Nat /\ n \in 1..perSheet /\ s <= k /\ s \in Nat
      BY <1>5
    <2>2. before + n \in 1..k
      BY <1>5, <2>1
    <2>3. k <= Len(order) /\ k \in Nat /\ Len(order) \in Nat
      BY <1>4
    <2> HIDE DEF before, n, k
    <2>4. s <= Len(order) /\ n <= Len(order)
      BY <2>1, <2>2, <2>3
    <2> QED BY <2>4 DEF n
  <1>7. /\ parts \in Seq(Seq(Entry)) /\ DOMAIN job.files = DOMAIN parts
        /\ \A m \in 1..Len(order) : \E f \in DOMAIN parts : \E j \in 1..Len(parts[f]) :
             m = Upto(f, PeoplePerFile) + j
    BY <1>2, <1>3
  <1>8. ASSUME NEW f \in DOMAIN parts
        PROVE  FileIs(order, f)
    BY <1>2, <1>4 DEF FileIs, parts
  <1>9. ASSUME NEW f \in DOMAIN parts, NEW s \in DOMAIN job.files[f]
        PROVE  SheetIs(order, perSheet, f, s)
    BY <1>5, <1>6 DEF SheetIs, parts
  <1> QED BY <1>5, <1>7, <1>8, <1>9 DEF parts

(* The places of a print, in the order they are read, are those of the print order. *)
PosInFile(at, perSheet) == Upto(at[2], perSheet) + at[3]

LEMMA PlaceInFile ==
  ASSUME NEW order \in Seq(Entry), NEW perSheet \in Nat \ {0}, job.files = FilesOf(order, perSheet),
         NEW at \in P!Printed
  PROVE  LET parts == P!SplitParts(order)
         IN /\ at[1] \in DOMAIN parts /\ at[2] \in DOMAIN job.files[at[1]]
            /\ at[1] \in Nat /\ at[2] \in Nat /\ at[3] \in 1..perSheet
            /\ at[3] \in 1..Len(P!Sheet(at[1], at[2]))
            /\ PosInFile(at, perSheet) \in 1..Len(parts[at[1]])
            /\ PosInFile(at, perSheet) \in 1..PeoplePerFile
            /\ PositionOf(at, perSheet) \in 1..Len(order)
            /\ P!Sheet(at[1], at[2])[at[3]] = order[PositionOf(at, perSheet)]
            /\ at = <<at[1], at[2], at[3]>>
  <1> DEFINE parts == P!SplitParts(order)
             f == at[1]
             s == at[2]
             i == at[3]
             j == Upto(s, perSheet) + i
  <1>1. /\ f \in DOMAIN job.files /\ s \in DOMAIN job.files[f] /\ i \in DOMAIN P!Sheet(f, s)
        /\ at = <<f, s, i>>
    BY DEF P!Printed
  <1>2. f \in DOMAIN parts
    BY <1>1, PlaceOnSheet
  <1>3. /\ f \in Nat \ {0} /\ Len(parts[f]) \in 1..PeoplePerFile
        /\ \A h \in 1..Len(parts[f]) :
             /\ Upto(f, PeoplePerFile) + h \in 1..Len(order)
             /\ parts[f][h] = order[Upto(f, PeoplePerFile) + h]
    <2>1. FileIs(order, f)
      BY <1>2, PlaceOnSheet
    <2> QED BY <2>1 DEF FileIs
  <1>4. /\ s \in Nat \ {0}
        /\ P!Sheet(f, s) \in Seq(Entry) /\ Len(P!Sheet(f, s)) \in 1..perSheet
        /\ \A h \in 1..Len(P!Sheet(f, s)) :
             /\ Upto(s, perSheet) + h \in 1..Len(parts[f])
             /\ P!Sheet(f, s)[h] = parts[f][Upto(s, perSheet) + h]
    <2>1. SheetIs(order, perSheet, f, s)
      BY <1>1, <1>2, PlaceOnSheet
    <2> QED BY <2>1 DEF SheetIs
  <1>5. i \in 1..Len(P!Sheet(f, s)) /\ i \in 1..perSheet
    BY <1>1, <1>4
  <1>6. j \in 1..Len(parts[f]) /\ P!Sheet(f, s)[i] = parts[f][j]
    BY <1>4, <1>5
  <1> HIDE DEF parts, j
  <1>7. j \in 1..PeoplePerFile
    BY <1>3, <1>6, PrintAssumption
  <1>8. Upto(f, PeoplePerFile) + j \in 1..Len(order) /\ parts[f][j] = order[Upto(f, PeoplePerFile) + j]
    BY <1>3, <1>6
  <1>9. PosInFile(at, perSheet) = j /\ PositionOf(at, perSheet) = Upto(f, PeoplePerFile) + j
    BY DEF PosInFile, PositionOf, j
  <1> QED BY <1>1, <1>2, <1>3, <1>4, <1>5, <1>6, <1>7, <1>8, <1>9 DEF parts

LEMMA PlacesInOrder ==
  ASSUME NEW order \in Seq(Entry), NEW perSheet \in Nat \ {0}, job.files = FilesOf(order, perSheet),
         NEW a \in P!Printed, NEW b \in P!Printed
  PROVE  /\ PrintedBefore(a, b) => PositionOf(a, perSheet) < PositionOf(b, perSheet)
         /\ a = b \/ PrintedBefore(a, b) \/ PrintedBefore(b, a)
         /\ a[1] = b[1] /\ PosInFile(a, perSheet) = PosInFile(b, perSheet) => a = b
  <1> DEFINE pos(at) == Upto(at[1], PeoplePerFile) + PosInFile(at, perSheet)
             parts == P!SplitParts(order)
  <1>1. \A at \in P!Printed :
          /\ at[1] \in Nat \ {0} /\ at[2] \in Nat \ {0} /\ at[3] \in 1..perSheet
          /\ PosInFile(at, perSheet) \in 1..PeoplePerFile
          /\ Upto(at[1], PeoplePerFile) \in Int /\ Upto(at[2], perSheet) \in Int
          /\ at = <<at[1], at[2], at[3]>>
    <2> SUFFICES ASSUME NEW at \in P!Printed
                 PROVE  /\ at[1] \in Nat \ {0} /\ at[2] \in Nat \ {0} /\ at[3] \in 1..perSheet
                        /\ PosInFile(at, perSheet) \in 1..PeoplePerFile
                        /\ Upto(at[1], PeoplePerFile) \in Int /\ Upto(at[2], perSheet) \in Int
                        /\ at = <<at[1], at[2], at[3]>>
      OBVIOUS
    <2>1. /\ at[3] \in 1..perSheet /\ PosInFile(at, perSheet) \in 1..PeoplePerFile
          /\ at = <<at[1], at[2], at[3]>> /\ at[1] \in DOMAIN parts /\ at[2] \in DOMAIN job.files[at[1]]
      BY PlaceInFile
    <2>2. /\ at[1] \in Nat \ {0} /\ at[2] \in Nat \ {0}
          /\ Upto(at[1], PeoplePerFile) \in Nat /\ Upto(at[2], perSheet) \in Nat
      <3>1. FileIs(order, at[1]) /\ SheetIs(order, perSheet, at[1], at[2])
        BY <2>1, PlaceOnSheet
      <3> QED BY <3>1 DEF FileIs, SheetIs
    <2> QED BY <2>1, <2>2
  <1>2. PositionOf(a, perSheet) = pos(a) /\ PositionOf(b, perSheet) = pos(b)
    BY DEF PositionOf, PosInFile
  <1>3. ASSUME NEW x \in P!Printed, NEW y \in P!Printed, x[1] < y[1] PROVE pos(x) < pos(y)
    <2>1. \A k, h \in Nat : \A i, j \in 1..PeoplePerFile :
            k < h => Upto(k, PeoplePerFile) + i < Upto(h, PeoplePerFile) + j
      BY PiecesInOrder, PrintAssumption DEF Upto
    <2> QED BY <1>1, <1>3, <2>1
  <1>4. ASSUME NEW x \in P!Printed, NEW y \in P!Printed, x[2] < y[2]
        PROVE  PosInFile(x, perSheet) < PosInFile(y, perSheet)
    <2>1. \A k, h \in Nat : \A i, j \in 1..perSheet :
            k < h => Upto(k, perSheet) + i < Upto(h, perSheet) + j
      BY PiecesInOrder DEF Upto
    <2> QED BY <1>1, <1>4, <2>1 DEF PosInFile
  <1>5. ASSUME NEW x \in P!Printed, NEW y \in P!Printed, x[2] = y[2], x[3] < y[3]
        PROVE  PosInFile(x, perSheet) < PosInFile(y, perSheet)
    <2>1. /\ PosInFile(x, perSheet) = Upto(x[2], perSheet) + x[3]
          /\ PosInFile(y, perSheet) = Upto(x[2], perSheet) + y[3]
      BY <1>5 DEF PosInFile
    <2>2. Upto(x[2], perSheet) \in Int /\ x[3] \in Int /\ y[3] \in Int
      BY <1>1
    <2> QED BY <1>5, <2>1, <2>2
  <1>6. PrintedBefore(a, b) => pos(a) < pos(b)
    <2>1. ASSUME a[1] = b[1], PosInFile(a, perSheet) < PosInFile(b, perSheet) PROVE pos(a) < pos(b)
      BY <1>1, <2>1
    <2> QED BY <1>3, <1>4, <1>5, <2>1 DEF PrintedBefore
  <1>7. a = b \/ PrintedBefore(a, b) \/ PrintedBefore(b, a)
    BY <1>1 DEF PrintedBefore
  <1>8. ASSUME a[1] = b[1], PosInFile(a, perSheet) = PosInFile(b, perSheet) PROVE a = b
    <2>1. \A at \in P!Printed : PosInFile(at, perSheet) \in Int
      BY <1>1, PrintAssumption
    <2>2. ~(a[2] < b[2]) /\ ~(b[2] < a[2])
      BY <1>4, <1>8, <2>1
    <2>3. a[2] = b[2]
      BY <1>1, <2>2
    <2>4. ~(a[3] < b[3]) /\ ~(b[3] < a[3])
      BY <1>5, <1>8, <2>1, <2>3
    <2>5. a[3] = b[3]
      BY <1>1, <2>4
    <2> QED BY <1>1, <1>8, <2>3, <2>5
  <1> QED BY <1>2, <1>6, <1>7, <1>8

LEMMA EveryPlace ==
  ASSUME NEW order \in Seq(Entry), NEW perSheet \in Nat \ {0}, job.files = FilesOf(order, perSheet),
         Len(order) <= MaxChosen
  PROVE  LET parts == P!SplitParts(order)
         IN /\ \A f \in DOMAIN parts : \A j \in 1..Len(parts[f]) :
                 \E at \in P!Printed : at[1] = f /\ PosInFile(at, perSheet) = j
            /\ \A m \in 1..Len(order) : \E at \in P!Printed : PositionOf(at, perSheet) = m
  <1> DEFINE parts == P!SplitParts(order)
             all == 1..MaxChosen
  <1>1. ASSUME NEW f \in DOMAIN parts, NEW j \in 1..Len(parts[f])
        PROVE  \E at \in P!Printed : at[1] = f /\ PosInFile(at, perSheet) = j
    <2>1. PICK s \in DOMAIN job.files[f] : \E i \in 1..Len(P!Sheet(f, s)) : j = Upto(s, perSheet) + i
      BY PlaceOnSheet
    <2>2. PICK i \in 1..Len(P!Sheet(f, s)) : j = Upto(s, perSheet) + i
      BY <2>1
    <2>3. /\ f \in DOMAIN job.files /\ s \in DOMAIN job.files[f] /\ P!Sheet(f, s) \in Seq(Entry)
          /\ f \in Nat \ {0} /\ s \in Nat \ {0} /\ f <= Len(order) /\ s <= Len(order)
          /\ Len(P!Sheet(f, s)) <= Len(order)
      <3>1. FileIs(order, f) /\ SheetIs(order, perSheet, f, s) /\ f \in DOMAIN job.files
        BY <2>1, PlaceOnSheet
      <3> QED BY <2>1, <3>1 DEF FileIs, SheetIs
    <2>4. f \in all /\ s \in all /\ i \in all /\ i \in DOMAIN P!Sheet(f, s)
      <3>1. Len(order) \in Nat /\ Len(order) <= MaxChosen /\ MaxChosen \in Nat
        BY PrintAssumption
      <3>2. Len(P!Sheet(f, s)) \in Nat /\ DOMAIN P!Sheet(f, s) = 1..Len(P!Sheet(f, s))
        BY <2>3
      <3> QED BY <2>2, <2>3, <3>1, <3>2
    <2> DEFINE at == <<f, s, i>>
    <2>5. at \in all \X all \X all /\ at[1] = f /\ at[2] = s /\ at[3] = i
      BY <2>4
    <2> HIDE DEF at
    <2>6. at \in P!Printed
      BY <2>1, <2>3, <2>4, <2>5 DEF P!Printed
    <2>7. PosInFile(at, perSheet) = j
      BY <2>2, <2>5 DEF PosInFile
    <2> QED BY <2>5, <2>6, <2>7
  <1>2. ASSUME NEW m \in 1..Len(order) PROVE \E at \in P!Printed : PositionOf(at, perSheet) = m
    <2>1. PICK f \in DOMAIN parts : \E j \in 1..Len(parts[f]) : m = Upto(f, PeoplePerFile) + j
      BY PlaceOnSheet
    <2>2. PICK j \in 1..Len(parts[f]) : m = Upto(f, PeoplePerFile) + j
      BY <2>1
    <2>3. PICK at \in P!Printed : at[1] = f /\ PosInFile(at, perSheet) = j
      BY <1>1, <2>1, <2>2
    <2> QED BY <2>2, <2>3 DEF PositionOf, PosInFile
  <1> QED BY <1>1, <1>2
LEMMA BibsOnASheet ==
  ASSUME NEW c \in Cells, NEW l \in Layouts, P!Validate(c, l)
  PROVE  LET perSheet == P!Cardinality(DOMAIN P!PlaceCells(c, l))
         IN perSheet \in Nat \ {0} /\ perSheet = l.cols * l.rows
  <1> DEFINE perSheet == P!Cardinality(DOMAIN P!PlaceCells(c, l))
             down == 0..(l.rows - 1)
             across == 0..(l.cols - 1)
  <1>1. l.cols \in Nat \ {0} /\ l.rows \in Nat \ {0}
    BY ValidLayout
  <1>2. DOMAIN P!PlaceCells(c, l) = down \X across
    BY DEF P!PlaceCells
  <1>3. IsFiniteSet(down) /\ Cardinality(down) = l.rows /\ IsFiniteSet(across) /\ Cardinality(across) = l.cols
    <2>1. \A k \in Nat \ {0} : IsFiniteSet(0..(k - 1)) /\ Cardinality(0..(k - 1)) = k
      <3> SUFFICES ASSUME NEW k \in Nat \ {0}
                   PROVE  IsFiniteSet(0..(k - 1)) /\ Cardinality(0..(k - 1)) = k
        OBVIOUS
      <3>1. 0 \in Int /\ k - 1 \in Int /\ ~(0 > k - 1) /\ (k - 1) - 0 + 1 = k
        OBVIOUS
      <3>2. IsFiniteSet(0..(k - 1)) /\ Cardinality(0..(k - 1)) = IF 0 > k - 1 THEN 0 ELSE (k - 1) - 0 + 1
        BY <3>1, FS_Interval
      <3> QED BY <3>1, <3>2
    <2> QED BY <1>1, <2>1
  <1> HIDE DEF down, across
  <1>4. Cardinality(down \X across) = l.rows * l.cols
    BY <1>3, FS_Product
  <1>5. perSheet = l.rows * l.cols
    BY <1>2, <1>4, PrintCardinality
  <1> HIDE DEF perSheet
  <1>6. l.rows * l.cols \in Nat \ {0} /\ l.rows * l.cols = l.cols * l.rows
    BY <1>1
  <1>7. perSheet \in Nat \ {0} /\ perSheet = l.cols * l.rows
    BY <1>5, <1>6
  <1> QED BY <1>7 DEF perSheet

LEMMA FileSize ==
  ASSUME NEW order \in Seq(Entry), NEW perSheet \in Nat \ {0}, job.files = FilesOf(order, perSheet),
         Len(order) <= MaxChosen, NEW f \in DOMAIN job.files
  PROVE  P!Cardinality({at \in P!Printed : at[1] = f}) \in 1..PeoplePerFile
  <1> DEFINE S == {at \in P!Printed : at[1] = f}
             n == Len(P!SplitParts(order)[f])
             T == 1..n
             g == [j \in T |-> CHOOSE at \in S : PosInFile(at, perSheet) = j]
  <1>1. f \in DOMAIN P!SplitParts(order)
    BY PlaceOnSheet
  <1>2. n \in 1..PeoplePerFile
    <2>1. FileIs(order, f)
      BY <1>1, PlaceOnSheet
    <2> QED BY <2>1 DEF FileIs
  <1>3. \A j \in T : \E at \in S : PosInFile(at, perSheet) = j
    BY <1>1, EveryPlace
  <1>4. \A at \in S : PosInFile(at, perSheet) \in T
    BY PlaceInFile
  <1>5. \A a, b \in S : PosInFile(a, perSheet) = PosInFile(b, perSheet) => a = b
    BY PlacesInOrder
  <1> HIDE DEF S, T
  <1>6. \A j \in T : g[j] \in S /\ PosInFile(g[j], perSheet) = j
    BY <1>3
  <1>7. \A at \in S : g[PosInFile(at, perSheet)] = at
    BY <1>4, <1>5, <1>6
  <1> HIDE DEF g
  <1>8. g \in Bijection(T, S)
    <2>1. g \in [T -> S]
      BY <1>6 DEF g
    <2>2. \A i, j \in T : g[i] = g[j] => i = j
      BY <1>6
    <2>3. \A at \in S : \E j \in T : g[j] = at
      BY <1>4, <1>7
    <2> QED BY <2>1, <2>2, <2>3 DEF Bijection, Injection, Surjection, IsInjective
  <1>9. IsFiniteSet(T) /\ Cardinality(T) = n
    BY <1>2, PrintAssumption, FS_Interval DEF T
  <1>10. Cardinality(S) = n
    BY <1>8, <1>9, FS_Bijection DEF ExistsBijection
  <1>11. P!Cardinality(S) \in 1..PeoplePerFile
    BY <1>2, <1>10, PrintCardinality
  <1> QED BY <1>11 DEF S
-----------------------------------------------------------------------------
(* The job. *)

Chosen == {job.ids[i] : i \in DOMAIN job.ids}
Here == {p \in Chosen : db[p] # None}

RowsRead ==
  /\ Listed(job.rows) /\ Len(job.rows) = Cardinality(Here) /\ Len(job.rows) <= MaxChosen
  /\ \A i \in DOMAIN job.rows : job.rows[i].id \in Here /\ job.rows[i].row = db[job.rows[i].id]
  /\ \A p \in Here : \E i \in DOMAIN job.rows : job.rows[i].id = p
PerSheet == P!Cardinality(DOMAIN P!PlaceCells(job.cell, job.layout))
FilesRendered ==
  /\ P!Validate(job.cell, job.layout)
  /\ job.files = FilesOf(P!PrintOrder(job.rows), PerSheet)

(* What is on the sheets of a rendered print, in which order, and how much of it. *)
LEMMA Rendered ==
  ASSUME job.cell \in Cells, job.layout \in Layouts, RowsRead, FilesRendered
  PROVE  LET On(at) == P!Sheet(at[1], at[2])[at[3]]
             Team(at) == On(at).row.team
         IN /\ {On(at) : at \in P!Printed} = {[id |-> p, row |-> db[p]] : p \in Here}
            /\ \A a, b \in P!Printed : On(a).id = On(b).id => a = b
            /\ \A a, b, c \in P!Printed :
                 PrintedBefore(a, b) /\ PrintedBefore(b, c) /\ Team(a) # NoTeam /\ Team(a) = Team(c)
                   => Team(b) = Team(a)
            /\ \A a, b \in P!Printed :
                 PrintedBefore(a, b) /\ Team(a) # NoTeam /\ Team(a) = Team(b)
                   /\ On(a).row.leg > 0 /\ On(b).row.leg > 0 => On(a).row.leg <= On(b).row.leg
            /\ \A f \in DOMAIN job.files :
                 /\ P!Cardinality({at \in P!Printed : at[1] = f}) \in 1..PeoplePerFile
                 /\ \A s \in DOMAIN job.files[f] : Len(P!Sheet(f, s)) \in 1..(job.layout.cols * job.layout.rows)
  <1> DEFINE rows == job.rows
             order == P!PrintOrder(rows)
             all == 1..Len(rows)
             On(at) == P!Sheet(at[1], at[2])[at[3]]
             pos(at) == PositionOf(at, PerSheet)
  <1>1. Listed(rows) /\ Len(rows) <= MaxChosen
    BY DEF RowsRead
  <1>2. PerSheet \in Nat \ {0} /\ PerSheet = job.layout.cols * job.layout.rows
    BY BibsOnASheet DEF FilesRendered, PerSheet
  <1>3. order \in Seq(Entry) /\ Len(order) = Len(rows) /\ job.files = FilesOf(order, PerSheet)
    BY <1>1, OrderFacts DEF FilesRendered
  <1>4. /\ \A n \in all : \E i \in all : order[n] = rows[i]
        /\ \A i \in all : \E n \in all : order[n] = rows[i]
        /\ \A m, n \in all : order[m].row.bib = order[n].row.bib => m = n
    BY <1>1, OrderFacts
  <1>5. \A a, b, c \in all :
          a < b /\ b < c /\ order[a].row.team # NoTeam /\ order[a].row.team = order[c].row.team
            => order[b].row.team = order[a].row.team
    BY <1>1, OrderFacts
  <1>6. \A a, b \in all :
          a < b /\ order[a].row.team # NoTeam /\ order[a].row.team = order[b].row.team
            /\ order[a].row.leg > 0 /\ order[b].row.leg > 0 => order[a].row.leg <= order[b].row.leg
    BY <1>1, OrderFacts
  <1> HIDE DEF order
  <1>7. \A at \in P!Printed : pos(at) \in all /\ On(at) = order[pos(at)]
    BY <1>2, <1>3, PlaceInFile
  <1>8. \A a, b \in P!Printed : /\ PrintedBefore(a, b) => pos(a) < pos(b)
                                /\ a = b \/ PrintedBefore(a, b) \/ PrintedBefore(b, a)
    BY <1>2, <1>3, PlacesInOrder
  <1>9. \A m \in all : \E at \in P!Printed : pos(at) = m
    BY <1>1, <1>2, <1>3, EveryPlace
  <1>10. /\ DOMAIN rows = all
         /\ \A i \in all : /\ rows[i] = [id |-> rows[i].id, row |-> rows[i].row]
                           /\ rows[i].id \in Here /\ rows[i].row = db[rows[i].id]
    <2>1. DOMAIN rows = all /\ \A i \in all : rows[i] \in Entry
      BY <1>1 DEF Listed
    <2>2. \A e \in Entry : e = [id |-> e.id, row |-> e.row]
      BY DEF Entry
    <2> QED BY <2>1, <2>2 DEF RowsRead
  <1>11. \A p \in Here : \E i \in all : rows[i].id = p
    BY <1>10 DEF RowsRead
  <1>12. PerSheet \in Nat \ {0} /\ Len(order) <= MaxChosen
    BY <1>1, <1>2, <1>3
  <1> HIDE DEF On, pos, rows, all
  <1>13. {On(at) : at \in P!Printed} = {[id |-> p, row |-> db[p]] : p \in Here}
    <2>1. ASSUME NEW at \in P!Printed PROVE \E p \in Here : On(at) = [id |-> p, row |-> db[p]]
      <3>1. PICK i \in all : On(at) = rows[i]
        BY <1>4, <1>7
      <3> QED BY <1>10, <3>1
    <2>2. ASSUME NEW p \in Here PROVE \E at \in P!Printed : On(at) = [id |-> p, row |-> db[p]]
      <3>1. PICK i \in all : rows[i].id = p
        BY <1>11
      <3>2. PICK n \in all : order[n] = rows[i]
        BY <1>4, <3>1
      <3>3. PICK at \in P!Printed : pos(at) = n
        BY <1>9, <3>2
      <3>4. On(at) = rows[i]
        BY <1>7, <3>2, <3>3
      <3>5. rows[i] = [id |-> p, row |-> db[p]]
        BY <1>10, <3>1
      <3> QED BY <3>4, <3>5
    <2> QED BY <2>1, <2>2
  <1>14. ASSUME NEW a \in P!Printed, NEW b \in P!Printed, On(a).id = On(b).id PROVE a = b
    <2> DEFINE m == pos(a)
               n == pos(b)
    <2>0. m \in all /\ On(a) = order[m] /\ n \in all /\ On(b) = order[n]
      BY <1>7
    <2> HIDE DEF m, n
    <2>1. PICK i \in all : On(a) = rows[i]
      BY <1>4, <2>0
    <2>2. PICK j \in all : On(b) = rows[j]
      BY <1>4, <2>0
    <2>3. On(a).row = On(b).row
      BY <1>10, <1>14, <2>1, <2>2
    <2>4. m = n
      <3>1. order[m].row.bib = order[n].row.bib
        BY <2>0, <2>3
      <3>2. \A g, h \in all : order[g].row.bib = order[h].row.bib => g = h
        BY <1>4
      <3> QED BY <2>0, <3>1, <3>2
    <2>5. m \in Nat /\ n \in Nat
      <3>1. Len(rows) \in Nat
        BY <1>1 DEF Listed
      <3> QED BY <2>0, <3>1 DEF all
    <2> QED BY <1>8, <2>4, <2>5 DEF m, n
  <1>15. ASSUME NEW a \in P!Printed, NEW b \in P!Printed, NEW c \in P!Printed,
                PrintedBefore(a, b), PrintedBefore(b, c),
                On(a).row.team # NoTeam, On(a).row.team = On(c).row.team
         PROVE  On(b).row.team = On(a).row.team
    BY <1>5, <1>7, <1>8, <1>15
  <1>16. ASSUME NEW a \in P!Printed, NEW b \in P!Printed, PrintedBefore(a, b),
                On(a).row.team # NoTeam, On(a).row.team = On(b).row.team,
                On(a).row.leg > 0, On(b).row.leg > 0
         PROVE  On(a).row.leg <= On(b).row.leg
    BY <1>6, <1>7, <1>8, <1>16
  <1>17. ASSUME NEW f \in DOMAIN job.files
         PROVE  /\ P!Cardinality({at \in P!Printed : at[1] = f}) \in 1..PeoplePerFile
                /\ \A s \in DOMAIN job.files[f] : Len(P!Sheet(f, s)) \in 1..(job.layout.cols * job.layout.rows)
    <2>1. P!Cardinality({at \in P!Printed : at[1] = f}) \in 1..PeoplePerFile
      BY <1>3, <1>12, FileSize
    <2>2. f \in DOMAIN P!SplitParts(order)
      BY <1>3, <1>12, PlaceOnSheet
    <2>3. ASSUME NEW s \in DOMAIN job.files[f] PROVE Len(P!Sheet(f, s)) \in 1..PerSheet
      <3>1. SheetIs(order, PerSheet, f, s)
        BY <1>3, <1>12, <2>2, PlaceOnSheet
      <3> QED BY <3>1 DEF SheetIs
    <2> QED BY <1>2, <2>1, <2>3
  <1> QED BY <1>13, <1>14, <1>15, <1>16, <1>17 DEF On
Fields == {"at", "ids", "layout", "cell", "rows", "files", "skipped"}
PeopleKept ==
  /\ db \in [Runners -> P!Rows \union {None}]
  /\ \A p, q \in Runners : p # q /\ db[p] # None /\ db[q] # None => db[p].bib # db[q].bib
Asked ==
  /\ \E n \in 1..MaxChosen : job.ids \in [1..n -> Runners]
  /\ job.layout \in Layouts

LEMMA FewAreHere ==
  ASSUME PeopleKept, Asked
  PROVE  /\ job.ids \in Seq(Runners) /\ Len(job.ids) \in 1..MaxChosen
         /\ Here \subseteq Chosen /\ Chosen \subseteq Runners
         /\ IsFiniteSet(Chosen) /\ IsFiniteSet(Here)
         /\ Cardinality(Chosen) \in Nat /\ Cardinality(Chosen) <= Len(job.ids)
         /\ Cardinality(Here) \in Nat /\ Cardinality(Here) <= Len(job.ids)
         /\ P!Distinct(job.ids) => Cardinality(Chosen) = Len(job.ids)
  <1>1. PICK n \in 1..MaxChosen : job.ids \in [1..n -> Runners]
    BY DEF Asked
  <1>2. n \in Nat /\ n \in 1..MaxChosen
    BY <1>1, PrintAssumption
  <1>3. job.ids \in Seq(Runners) /\ Len(job.ids) = n /\ DOMAIN job.ids = 1..n
    BY <1>1, <1>2
  <1>4. job.ids \in Surjection(1..n, Chosen)
    BY <1>1 DEF Surjection, Chosen
  <1>5. IsFiniteSet(1..n) /\ Cardinality(1..n) = n
    BY <1>2, FS_Interval
  <1>6. /\ IsFiniteSet(Chosen) /\ Cardinality(Chosen) <= n
        /\ Cardinality(Chosen) = n <=> job.ids \in Injection(1..n, Chosen)
    BY <1>4, <1>5, FS_Surjection
  <1>7. P!Distinct(job.ids) => job.ids \in Injection(1..n, Chosen)
    BY <1>1, <1>4 DEF Injection, IsInjective, Surjection, P!Distinct
  <1>8. Here \subseteq Chosen /\ Chosen \subseteq Runners
    BY <1>1 DEF Here, Chosen
  <1>9. IsFiniteSet(Here) /\ Cardinality(Here) <= Cardinality(Chosen)
    BY <1>6, <1>8, FS_Subset
  <1>10. Cardinality(Chosen) \in Nat /\ Cardinality(Here) \in Nat
    BY <1>6, <1>9, FS_CardinalityType
  <1>11. Cardinality(Here) <= Len(job.ids)
    BY <1>2, <1>3, <1>6, <1>9, <1>10
  <1> QED BY <1>2, <1>3, <1>6, <1>7, <1>8, <1>9, <1>10, <1>11

(* The number of those at or before a BIB is the place of its row. *)
LEMMA RowsAreRead ==
  ASSUME PeopleKept, Asked, DOMAIN job = Fields, P!PrintRows
  PROVE  RowsRead'
  <1> DEFINE After(p) == {q \in Here : db[q].bib <= db[p].bib}
             ByBib == [i \in 1..P!Cardinality(Here) |-> CHOOSE p \in Here : P!Cardinality(After(p)) = i]
             read == [i \in DOMAIN ByBib |-> [id |-> ByBib[i], row |-> db[ByBib[i]]]]
             less == {e \in Here \X Here : db[e[1]].bib < db[e[2]].bib}
             size == Cardinality(Here)
  <1>1. job' = [job EXCEPT !.at = "rows", !.rows = read] /\ db' = db
    BY DEF P!PrintRows, Here, Chosen
  <1> HIDE DEF read
  <1>2. job'.rows = read /\ job'.ids = job.ids
    BY <1>1 DEF Fields
  <1>3. Here' = Here
    BY <1>1, <1>2 DEF Here, Chosen
  <1>4. /\ Here \subseteq Runners /\ IsFiniteSet(Here) /\ size \in Nat
        /\ size <= Len(job.ids) /\ Len(job.ids) <= MaxChosen /\ Len(job.ids) \in Nat
    BY FewAreHere, PrintAssumption
  <1>5. \A p \in Here : /\ db[p] \in P!Rows /\ db[p].bib \in Nat
                        /\ \A q \in Here : db[p].bib = db[q].bib => p = q
    <2>1. \A row \in P!Rows : row.bib \in Nat
      BY PrintAssumption DEF P!Rows
    <2>2. \A p \in Here : db[p] \in P!Rows
      BY <1>4 DEF PeopleKept, Here
    <2>3. \A p, q \in Here : db[p].bib = db[q].bib => p = q
      BY <1>4 DEF PeopleKept, Here
    <2> QED BY <2>1, <2>2, <2>3
  <1>6. \A p, q \in Here : <<p, q>> \in less <=> db[p].bib < db[q].bib
    <2>1. ASSUME NEW p \in Here, NEW q \in Here PROVE <<p, q>> \in less <=> db[p].bib < db[q].bib
      <3>1. <<p, q>> \in Here \X Here /\ <<p, q>>[1] = p /\ <<p, q>>[2] = q
        OBVIOUS
      <3> QED BY <3>1
    <2> QED BY <2>1
  <1> HIDE DEF less
  <1>7. Orders(Here, less)
    BY <1>5, <1>6 DEF Orders
  <1>8. \A p \in Here : P!Cardinality(After(p)) = Rank(Here, less, p)
    <2> SUFFICES ASSUME NEW p \in Here PROVE P!Cardinality(After(p)) = Rank(Here, less, p)
      OBVIOUS
    <2> DEFINE below == {q \in Here : <<q, p>> \in less}
    <2>1. After(p) = below \union {p} /\ p \notin below /\ below \subseteq Here
      BY <1>5, <1>6
    <2> HIDE DEF below
    <2>2. IsFiniteSet(below) /\ Cardinality(below) \in Nat
      BY <1>4, <2>1, FS_Subset, FS_CardinalityType
    <2>3. Cardinality(below \union {p}) = Cardinality(below) + 1
      BY <2>1, <2>2, FS_AddElement
    <2>4. P!Cardinality(After(p)) = 1 + Cardinality(below)
      <3>1. P!Cardinality(below \union {p}) = Cardinality(below \union {p})
        BY PrintCardinality
      <3>2. P!Cardinality(After(p)) = Cardinality(below) + 1
        BY <2>1, <2>3, <3>1
      <3> QED BY <2>2, <3>2
    <2> QED BY <2>4 DEF Rank, below
  <1>9. /\ \A p \in Here : Rank(Here, less, p) \in 1..size
        /\ \A p, q \in Here : Rank(Here, less, p) = Rank(Here, less, q) => p = q
        /\ \A i \in 1..size : \E p \in Here : Rank(Here, less, p) = i
    BY <1>4, <1>7, Ranking
  <1>10. \A i \in 1..size : ByBib[i] = CHOOSE p \in Here : P!Cardinality(After(p)) = i
    BY PrintCardinality
  <1>11. DOMAIN ByBib = 1..size
    BY PrintCardinality
  <1> HIDE DEF size, After, ByBib
  <1>12. \A i \in 1..size : ByBib[i] \in Here /\ Rank(Here, less, ByBib[i]) = i
    <2>1. ASSUME NEW i \in 1..size PROVE ByBib[i] \in Here /\ Rank(Here, less, ByBib[i]) = i
      <3>1. \E p \in Here : P!Cardinality(After(p)) = i
        BY <1>8, <1>9
      <3>2. ByBib[i] \in Here /\ P!Cardinality(After(ByBib[i])) = i
        BY <1>10, <3>1
      <3> QED BY <1>8, <3>2
    <2> QED BY <2>1
  <1>13. \A p \in Here : \E i \in 1..size : ByBib[i] = p
    BY <1>9, <1>12
  <1>14. /\ DOMAIN read = 1..size
         /\ \A i \in 1..size : /\ read[i] = [id |-> ByBib[i], row |-> db[ByBib[i]]]
                               /\ read[i].id = ByBib[i] /\ read[i].row = db[ByBib[i]]
    BY <1>11 DEF read
  <1>15. read \in Seq(Entry) /\ Len(read) = size
    <2>1. \A i \in 1..size : read[i] \in Entry
      BY <1>4, <1>5, <1>12, <1>14 DEF Entry
    <2>2. read = [i \in 1..size |-> read[i]]
      BY <1>11 DEF read
    <2>3. read \in [1..size -> Entry]
      BY <2>1, <2>2
    <2> QED BY <1>4, <2>3 DEF size
  <1>16. ASSUME NEW i \in 1..size, NEW j \in 1..size, read[i].row.bib = read[j].row.bib PROVE i = j
    <2>1. ByBib[i] = ByBib[j]
      BY <1>5, <1>12, <1>14, <1>16
    <2> QED BY <1>12, <2>1
  <1>17. Listed(read)
    BY <1>14, <1>15, <1>16 DEF Listed
  <1>18. /\ \A i \in DOMAIN read : read[i].id \in Here /\ read[i].row = db[read[i].id]
         /\ \A p \in Here : \E i \in DOMAIN read : read[i].id = p
    BY <1>12, <1>13, <1>14
  <1>19. size <= MaxChosen
    BY <1>4, PrintAssumption DEF size
  <1>20. Listed(job.rows)'
    BY <1>2, <1>17 DEF Listed
  <1> QED BY <1>1, <1>2, <1>3, <1>15, <1>18, <1>19, <1>20 DEF RowsRead, size
(* As far as the job is, it was asked for layouts there are, it has artwork with a *)
(* size, the rows are those of the people who are here, and the files are their   *)
(* order in pieces; what it has read nobody can change any more.                  *)
PrintKept ==
  part = "print" =>
    /\ PeopleKept /\ cell \in Cells /\ DOMAIN job = Fields
    /\ job.at \notin {"none", "failed"} => Asked
    /\ job.at \in {"assets", "rows", "rendered", "completed"} => job.cell \in Cells
    /\ job.at \in {"rows", "rendered", "completed"} => RowsRead
    /\ job.at \in {"rendered", "completed"} => FilesRendered
    /\ job.at = "completed" => job.skipped = Len(job.ids) - Len(job.rows)

LEMMA PrintStarts == AllInit => PrintKept
  <1> SUFFICES ASSUME AllInit, part = "print" PROVE PrintKept
    BY DEF PrintKept
  <1>1. P!Init
    BY DEF AllInit
  <1>2. /\ PeopleKept /\ cell \in Cells /\ DOMAIN job = Fields /\ job.at = "none"
    BY <1>1 DEF P!Init, P!NoJob, PeopleKept, Fields
  <1> QED BY <1>2 DEF PrintKept

LEMMA PeopleStayKept ==
  ASSUME PeopleKept, NEW p \in Runners, NEW row \in P!Rows \union {None}, P!ChangeParticipant(p, row)
  PROVE  PeopleKept'
  <1>1. /\ db' = [db EXCEPT ![p] = row]
        /\ row # None => \A q \in Runners \ {p} : db[q] # None => db[q].bib # row.bib
    BY DEF P!ChangeParticipant
  <1>2. db' \in [Runners -> P!Rows \union {None}]
    BY <1>1 DEF PeopleKept
  <1>3. db'[p] = row /\ \A q \in Runners \ {p} : db'[q] = db[q]
    BY <1>1 DEF PeopleKept
  <1>4. ASSUME NEW a \in Runners, NEW b \in Runners, a # b, db'[a] # None, db'[b] # None
        PROVE  db'[a].bib # db'[b].bib
    <2>1. CASE a = p
      BY <1>1, <1>3, <1>4, <2>1
    <2>2. CASE b = p
      BY <1>1, <1>3, <1>4, <2>2
    <2>3. CASE a # p /\ b # p
      BY <1>3, <1>4, <2>3 DEF PeopleKept
    <2> QED BY <2>1, <2>2, <2>3
  <1> QED BY <1>2, <1>4 DEF PeopleKept

LEMMA PrintSteps == PrintKept /\ [AllNext]_allVars => PrintKept'
  <1> SUFFICES ASSUME PrintKept, [AllNext]_allVars, part' = "print" PROVE PrintKept'
    BY DEF PrintKept
  <1>1. CASE UNCHANGED allVars
    <2>1. UNCHANGED <<part, db, cell, job>>
      BY <1>1 DEF allVars, printing
    <2>2. /\ PeopleKept' = PeopleKept /\ Asked' = Asked /\ RowsRead' = RowsRead
          /\ FilesRendered' = FilesRendered
      BY <2>1 DEF PeopleKept, Asked, RowsRead, FilesRendered, PerSheet, Here, Chosen, Listed, FilesOf
    <2> QED BY <2>1, <2>2 DEF PrintKept
  <1>2. CASE AllNext
    <2>1. part = "print" /\ P!Next
      BY <1>2 DEF AllNext
    <2>2. /\ PeopleKept /\ cell \in Cells /\ DOMAIN job = Fields
          /\ job.at \notin {"none", "failed"} => Asked
          /\ job.at \in {"assets", "rows", "rendered", "completed"} => job.cell \in Cells
          /\ job.at \in {"rows", "rendered", "completed"} => RowsRead
          /\ job.at \in {"rendered", "completed"} => FilesRendered
      BY <2>1 DEF PrintKept
    <2>3. ASSUME NEW p \in Runners, NEW row \in P!Rows \union {None}, P!ChangeParticipant(p, row)
          PROVE  PrintKept'
      <3>1. job' = job /\ cell' = cell /\ job.at \in {"none", "queued", "assets"}
        BY <2>3 DEF P!ChangeParticipant, P!Open
      <3>2. PeopleKept'
        BY <2>2, <2>3, PeopleStayKept
      <3>3. Asked' = Asked
        BY <3>1 DEF Asked
      <3> QED BY <2>2, <3>1, <3>2, <3>3 DEF PrintKept
    <2>4. ASSUME NEW c \in Cells, P!SaveTemplate(c) PROVE PrintKept'
      <3>1. job' = job /\ db' = db /\ cell' = c /\ job.at \in {"none", "queued", "assets"}
        BY <2>4 DEF P!SaveTemplate, P!Open
      <3>2. PeopleKept' = PeopleKept /\ Asked' = Asked
        BY <3>1 DEF PeopleKept, Asked
      <3> QED BY <2>2, <3>1, <3>2 DEF PrintKept
    <2>5. ASSUME NEW n \in 1..MaxChosen, NEW ids \in [1..n -> Runners], NEW l \in Layouts, P!Start(ids, l)
          PROVE  PrintKept'
      <3>1. job' = [P!NoJob EXCEPT !.at = "queued", !.ids = ids, !.layout = l] /\ db' = db /\ cell' = cell
        BY <2>5 DEF P!Start
      <3>2. DOMAIN job' = Fields /\ job'.at = "queued" /\ job'.ids = ids /\ job'.layout = l
        BY <3>1 DEF P!NoJob, Fields
      <3>3. PeopleKept' = PeopleKept
        BY <3>1 DEF PeopleKept
      <3>4. Asked'
        BY <3>2 DEF Asked
      <3> QED BY <2>2, <3>1, <3>2, <3>3, <3>4 DEF PrintKept
    <2>6. ASSUME P!loadAssets PROVE PrintKept'
      <3>1. job' = [job EXCEPT !.at = "assets", !.cell = cell] /\ db' = db /\ cell' = cell /\ job.at = "queued"
        BY <2>6 DEF P!loadAssets
      <3>2. /\ DOMAIN job' = Fields /\ job'.at = "assets" /\ job'.cell = cell
            /\ job'.ids = job.ids /\ job'.layout = job.layout
        BY <2>2, <3>1 DEF Fields
      <3>3. PeopleKept' = PeopleKept /\ Asked' = Asked
        BY <3>1, <3>2 DEF PeopleKept, Asked
      <3> QED BY <2>2, <3>1, <3>2, <3>3 DEF PrintKept
    <2>7. ASSUME P!PrintRows PROVE PrintKept'
      <3>1. job.at = "assets" /\ db' = db /\ cell' = cell
        BY <2>7 DEF P!PrintRows
      <3>2. /\ DOMAIN job' = Fields /\ job'.at = "rows" /\ job'.cell = job.cell
            /\ job'.ids = job.ids /\ job'.layout = job.layout
        <4>1. \E read : job' = [job EXCEPT !.at = "rows", !.rows = read]
          BY <2>7 DEF P!PrintRows
        <4> QED BY <2>2, <4>1 DEF Fields
      <3>3. PeopleKept' = PeopleKept /\ Asked' = Asked
        BY <3>1, <3>2 DEF PeopleKept, Asked
      <3>4. RowsRead'
        BY <2>2, <2>7, <3>1, RowsAreRead
      <3> QED BY <2>2, <3>1, <3>2, <3>3, <3>4 DEF PrintKept
    <2>8. ASSUME P!Render PROVE PrintKept'
      <3> DEFINE parts == P!SplitParts(P!PrintOrder(job.rows))
                 files == [k \in DOMAIN parts |-> P!Pieces(parts[k], PerSheet)]
      <3>1. /\ job.at = "rows" /\ P!Validate(job.cell, job.layout) /\ db' = db /\ cell' = cell
            /\ job' = [job EXCEPT !.at = "rendered", !.files = files]
        BY <2>8 DEF P!Render, PerSheet
      <3>2. files = FilesOf(P!PrintOrder(job.rows), PerSheet)
        BY DEF FilesOf
      <3> HIDE DEF files
      <3>3. /\ DOMAIN job' = Fields /\ job'.at = "rendered" /\ job'.cell = job.cell /\ job'.files = files
            /\ job'.ids = job.ids /\ job'.layout = job.layout /\ job'.rows = job.rows
        BY <2>2, <3>1 DEF Fields
      <3>4. PeopleKept' = PeopleKept /\ Asked' = Asked /\ RowsRead' = RowsRead /\ PerSheet' = PerSheet
        BY <3>1, <3>3 DEF PeopleKept, Asked, RowsRead, Here, Chosen, Listed, PerSheet
      <3>5. FilesRendered'
        BY <3>1, <3>2, <3>3, <3>4 DEF FilesRendered, FilesOf
      <3> QED BY <2>2, <3>1, <3>3, <3>4, <3>5 DEF PrintKept
    <2>9. ASSUME P!Store PROVE PrintKept'
      <3>1. /\ job.at = "rendered" /\ db' = db /\ cell' = cell
            /\ job' = [job EXCEPT !.at = "completed", !.skipped = Len(job.ids) - Len(job.rows)]
        BY <2>9 DEF P!Store
      <3>2. /\ DOMAIN job' = Fields /\ job'.at = "completed" /\ job'.cell = job.cell /\ job'.files = job.files
            /\ job'.ids = job.ids /\ job'.layout = job.layout /\ job'.rows = job.rows
            /\ job'.skipped = Len(job.ids) - Len(job.rows)
        BY <2>2, <3>1 DEF Fields
      <3>3. /\ PeopleKept' = PeopleKept /\ Asked' = Asked /\ RowsRead' = RowsRead
            /\ FilesRendered' = FilesRendered
        BY <3>1, <3>2 DEF PeopleKept, Asked, RowsRead, FilesRendered, PerSheet, Here, Chosen, Listed, FilesOf
      <3> QED BY <2>2, <3>1, <3>2, <3>3 DEF PrintKept
    <2>10. ASSUME P!Fail PROVE PrintKept'
      <3>1. job' = [P!NoJob EXCEPT !.at = "failed"] /\ db' = db /\ cell' = cell
        BY <2>10 DEF P!Fail
      <3>2. DOMAIN job' = Fields /\ job'.at = "failed"
        BY <3>1 DEF P!NoJob, Fields
      <3>3. PeopleKept' = PeopleKept
        BY <3>1 DEF PeopleKept
      <3> QED BY <2>2, <3>1, <3>2, <3>3 DEF PrintKept
    <2> QED BY <2>1, <2>3, <2>4, <2>5, <2>6, <2>7, <2>8, <2>9, <2>10 DEF P!Next, P!Run
  <1> QED BY <1>1, <1>2

LEMMA Skipped ==
  ASSUME PeopleKept, Asked, RowsRead, job.skipped = Len(job.ids) - Len(job.rows), P!Distinct(job.ids)
  PROVE  job.skipped = P!Cardinality({p \in Chosen : db[p] = None})
  <1> DEFINE missing == {p \in Chosen : db[p] = None}
  <1>1. /\ IsFiniteSet(Chosen) /\ Cardinality(Chosen) = Len(job.ids)
        /\ Cardinality(Here) = Len(job.rows)
    BY FewAreHere DEF RowsRead
  <1>2. missing = Chosen \ Here /\ Chosen \cap Here = Here
    BY DEF Here
  <1> HIDE DEF missing
  <1>3. Cardinality(missing) = Len(job.ids) - Len(job.rows)
    <2>1. Cardinality(Chosen \ Here) = Cardinality(Chosen) - Cardinality(Chosen \cap Here)
      BY <1>1, FS_Difference
    <2> QED BY <1>1, <1>2, <2>1
  <1>4. job.skipped = P!Cardinality(missing)
    BY <1>3, PrintCardinality
  <1> QED BY <1>4 DEF missing

LEMMA KeptIsRight == PrintKept => PrintIsRight
  <1> SUFFICES ASSUME PrintKept, part = "print" PROVE P!PrintIsRight
    BY DEF PrintIsRight
  <1>1. P!SheetHoldsTheGrid
    <2>1. job.at = "rendered" => job.cell \in Cells /\ job.layout \in Layouts /\ P!Validate(job.cell, job.layout)
      BY DEF PrintKept, Asked, FilesRendered
    <2> QED BY <2>1, RenderedHoldsTheGrid
  <1>2. P!PrintIsComplete
    <2> DEFINE On(at) == P!Sheet(at[1], at[2])[at[3]]
               Team(at) == On(at).row.team
    <2> SUFFICES ASSUME job.at = "completed" PROVE P!PrintIsComplete
      BY DEF P!PrintIsComplete
    <2>1. /\ PeopleKept /\ Asked /\ job.cell \in Cells /\ job.layout \in Layouts /\ RowsRead /\ FilesRendered
          /\ job.skipped = Len(job.ids) - Len(job.rows)
      BY DEF PrintKept, Asked
    <2>2. {On(at) : at \in P!Printed} = {[id |-> p, row |-> db[p]] : p \in Here}
      BY <2>1, Rendered
    <2>3. \A a, b \in P!Printed : On(a).id = On(b).id => a = b
      BY <2>1, Rendered
    <2>4. \A a, b, c \in P!Printed :
            PrintedBefore(a, b) /\ PrintedBefore(b, c) /\ Team(a) # NoTeam /\ Team(a) = Team(c)
              => Team(b) = Team(a)
      BY <2>1, Rendered
    <2>5. \A a, b \in P!Printed :
            PrintedBefore(a, b) /\ Team(a) # NoTeam /\ Team(a) = Team(b)
              /\ On(a).row.leg > 0 /\ On(b).row.leg > 0 => On(a).row.leg <= On(b).row.leg
      BY <2>1, Rendered
    <2>6. \A f \in DOMAIN job.files :
            /\ P!Cardinality({at \in P!Printed : at[1] = f}) \in 1..PeoplePerFile
            /\ \A s \in DOMAIN job.files[f] : Len(P!Sheet(f, s)) \in 1..(job.layout.cols * job.layout.rows)
      BY <2>1, Rendered
    <2>7. P!Distinct(job.ids) => job.skipped = P!Cardinality({p \in Chosen : db[p] = None})
      BY <2>1, Skipped
    <2> QED BY <2>2, <2>3, <2>4, <2>5, <2>6, <2>7 DEF P!PrintIsComplete, PrintedBefore, Here, Chosen
  <1> QED BY <1>1, <1>2 DEF P!PrintIsRight

(* Every print is complete, in order and can be cut, whatever the people and the template *)
(* become between the request and its job, for any event, layout and limit of a file.     *)
THEOREM PrintsAreRight == AllSpec => []PrintIsRight
  <1>1. AllInit => PrintKept
    BY PrintStarts
  <1>2. PrintKept /\ [AllNext]_allVars => PrintKept'
    BY PrintSteps
  <1>3. PrintKept => PrintIsRight
    BY KeptIsRight
  <1> QED BY <1>1, <1>2, <1>3, PTL DEF AllSpec
=============================================================================
