-------------------------- MODULE SheetWriteProofs --------------------------
(***************************************************************************)
(* Proofs about SheetWrite for any tab, any sets of IDs and values, any    *)
(* number of attempts, jobs and events.                                    *)
(***************************************************************************)
EXTENDS SheetWrite, SequenceTheorems, FiniteSetTheorems, WellFoundedInduction, TLAPS

-----------------------------------------------------------------------------
(* Least and greatest numbers *)

\* A set of naturals that is not empty has a least member, which Min returns.
LEMMA LeastNatural ==
    ASSUME NEW S \in SUBSET Nat, S # {}
    PROVE  Min(S) \in S /\ \A y \in S : Min(S) <= y
<1> DEFINE R == OpToRel(<, Nat)
<1>1. IsWellFoundedOn(R, Nat)
  BY NatLessThanWellFounded
<1>2. PICK x \in S : \A y \in S : ~(<<y, x>> \in R)
  BY <1>1, WFMin, Zenon
<1>3. \A y \in S : ~(y < x)
  BY <1>2 DEF OpToRel
<1>4. \A y \in S : x <= y
  BY <1>3
<1>5. QED
  BY <1>4 DEF Min

\* A set of naturals with a bound has a greatest member, which Max returns: the
\* least of its bounds.
LEMMA GreatestNatural ==
    ASSUME NEW S \in SUBSET Nat, S # {}, NEW b \in Nat, \A y \in S : y <= b
    PROVE  Max(S) \in S /\ \A y \in S : Max(S) >= y
<1> DEFINE Bounds == { k \in Nat : \A y \in S : y <= k }
           m == Min(Bounds)
<1>1. Bounds \in SUBSET Nat /\ Bounds # {}
  OBVIOUS
<1>2. m \in Bounds /\ \A k \in Bounds : m <= k
  BY <1>1, LeastNatural
<1> HIDE DEF m
<1>3. m \in S
  <2>1. SUFFICES ASSUME m \notin S PROVE FALSE
    OBVIOUS
  <2>2. PICK y \in S : TRUE
    OBVIOUS
  <2>3. \A z \in S : z <= m - 1
    BY <1>2, <2>1
  <2>4. m - 1 \in Bounds
    BY <1>2, <2>2, <2>3
  <2>5. QED
    BY <1>2, <2>4
<1>4. QED
  BY <1>2, <1>3 DEF Max

\* The numbers in the ID column of a tab have a bound, by induction on the
\* rows: no first row is without one.
LEMMA IdsBounded ==
    ASSUME NEW tab \in Seq(Row)
    PROVE  \E b \in Nat : \A p \in 1..Len(tab) : tab[p].id <= b
<1> DEFINE Bounded(n) == \E b \in Nat : \A p \in 1..n : tab[p].id <= b
           Bad == { n \in 0..Len(tab) : ~Bounded(n) }
           k == Min(Bad)
<1>1. Len(tab) \in Nat /\ \A p \in 1..Len(tab) : tab[p].id \in Nat
  <2>1. Len(tab) \in Nat
    BY LenProperties
  <2>2. \A p \in 1..Len(tab) : tab[p] \in Row
    BY ElementOfSeq
  <2>3. QED
    BY <2>1, <2>2 DEF Row
<1>2. SUFFICES ASSUME ~Bounded(Len(tab)) PROVE FALSE
  OBVIOUS
<1>3. Len(tab) \in Bad /\ Bad \in SUBSET Nat
  BY <1>1, <1>2
<1>4. k \in Bad /\ \A j \in Bad : k <= j
  BY <1>3, LeastNatural
<1> HIDE DEF k
<1>5. Bounded(0)
  BY <1>1
<1>6. k \in 1..Len(tab) /\ k - 1 \in 0..Len(tab)
  BY <1>1, <1>4, <1>5
<1>7. Bounded(k - 1)
  <2>1. k - 1 \notin Bad
    <3>1. k \in Nat
      BY <1>1, <1>6
    <3> HIDE DEF Bad
    <3>2. QED
      BY <3>1, <1>4
  <2> HIDE DEF Bounded
  <2>2. QED
    BY <2>1, <1>6
<1>8. PICK b \in Nat : \A p \in 1..(k - 1) : tab[p].id <= b
  BY <1>7
<1>9. \A p \in 1..k : tab[p].id <= b + tab[k].id
  <2>1. ASSUME NEW p \in 1..k PROVE tab[p].id <= b + tab[k].id
    <3>1. CASE p = k
      BY <3>1, <1>1, <1>6
    <3>2. CASE p \in 1..(k - 1)
      BY <3>2, <1>1, <1>6, <1>8
    <3>3. QED
      BY <1>6, <3>1, <3>2
  <2>2. QED
    BY <2>1
<1>10. Bounded(k)
  <2>1. b + tab[k].id \in Nat
    BY <1>1, <1>6
  <2>2. QED
    BY <1>9, <2>1
<1>11. QED
  BY <1>4, <1>10

-----------------------------------------------------------------------------
(* The tab *)

\* Whatever people do in one step leaves a tab.
LEMMA EditedIsTab ==
    ASSUME sheet \in Seq(Row), Edited
    PROVE  sheet' \in Seq(Row)
<1> DEFINE n == Len(sheet)
<1>1. n \in Nat /\ \A p \in 1..n : sheet[p] \in Row
  BY LenProperties, ElementOfSeq
<1>2. /\ EmptyRow \in Row
      /\ \A p \in 1..n : sheet[p].id \in Nat /\ sheet[p].value \in Cells
  BY <1>1 DEF Row, EmptyRow, Cells
<1>3. ASSUME NEW p \in 1..n PROVE InsertAt(sheet, p, EmptyRow) \in Seq(Row)
  <2>1. SubSeq(sheet, 1, p - 1) \in Seq(Row) /\ SubSeq(sheet, p, n) \in Seq(Row)
    BY <1>1, SubSeqProperties
  <2>2. <<EmptyRow>> \in Seq(Row)
    BY <1>2
  <2>3. QED
    BY <2>1, <2>2, ConcatProperties DEF InsertAt
<1>4. ASSUME NEW p \in 1..n PROVE RemoveAt(sheet, p) \in Seq(Row)
  <2>1. SubSeq(sheet, 1, p - 1) \in Seq(Row) /\ SubSeq(sheet, p + 1, n) \in Seq(Row)
    BY <1>1, SubSeqProperties
  <2>2. QED
    BY <2>1, ConcatProperties DEF RemoveAt
<1>5. ASSUME NEW p \in 1..n, NEW q \in 1..n
      PROVE  [sheet EXCEPT ![p] = sheet[q], ![q] = sheet[p]] \in Seq(Row)
  BY SMT
<1>6. ASSUME NEW p \in 1..n, NEW i \in 0..MaxId
      PROVE  [sheet EXCEPT ![p].id = i] \in Seq(Row)
  <2>1. [sheet[p] EXCEPT !.id = i] \in Row
    <3>1. sheet[p] \in Row /\ i \in Nat
      BY <1>1, SheetWriteAssumption DEF SheetWriteAssumption
    <3>2. QED
      BY <3>1 DEF Row
  <2>2. [sheet EXCEPT ![p] = [sheet[p] EXCEPT !.id = i]] \in Seq(Row)
    BY <2>1, ExceptSeq
  <2>3. QED
    BY <2>2
<1>7. ASSUME NEW p \in 1..n, NEW v \in Cells
      PROVE  [sheet EXCEPT ![p].value = v] \in Seq(Row)
  <2>1. [sheet[p] EXCEPT !.value = v] \in Row
    BY <1>1 DEF Row
  <2>2. [sheet EXCEPT ![p] = [sheet[p] EXCEPT !.value = v]] \in Seq(Row)
    BY <2>1, ExceptSeq
  <2>3. QED
    BY <2>2
<1>8. QED
  BY <1>3, <1>4, <1>5, <1>6, <1>7 DEF Edited

\* The rows of a write call have a bound.
RowsBounded == \E b \in Nat : \A t \in rows : t.row <= b

\* A write call leaves a tab, in which the rows keep their IDs; an append adds
\* one row, another write none if all its rows exist.
LEMMA WrittenIsTab ==
    ASSUME sheet \in Seq(Row), job \in Job, rows \subseteq Target, RowsBounded,
           rows # {}
    PROVE  /\ WrittenSheet \in Seq(Row)
           /\ at # "append" =>
                /\ Len(WrittenSheet) >= Len(sheet)
                /\ \A p \in 1..Len(sheet) : WrittenSheet[p].id = sheet[p].id
                /\ (\A t \in rows : t.row \in 1..Len(sheet)) =>
                     Len(WrittenSheet) = Len(sheet)
<1>1. Len(sheet) \in Nat /\ \A p \in 1..Len(sheet) : sheet[p] \in Row
  BY LenProperties, ElementOfSeq
<1>2. \A p \in 1..Len(sheet) : sheet[p].id \in Nat /\ sheet[p].value \in Cells
  BY <1>1 DEF Row
<1>3. job.value \in Cells
  BY DEF Job
<1>4. CASE at = "append"
  <2> DEFINE t == CHOOSE t \in rows : TRUE
  <2>1. t \in rows
    OBVIOUS
  <2>2. t.id \in Nat
    BY <2>1 DEF Target
  <2> HIDE DEF t
  <2>3. [id |-> t.id, value |-> job.value] \in Row
    BY <2>2, <1>3 DEF Row
  <2>4. Append(sheet, [id |-> t.id, value |-> job.value]) \in Seq(Row)
    BY <2>3, AppendProperties
  <2>5. QED
    BY <1>4, <2>4 DEF WrittenSheet, t
<1>5. CASE at # "append"
  <2> DEFINE target == { t.row : t \in rows }
             all    == target \cup {Len(sheet)}
             n      == Max(all)
             new    == [p \in 1..n |->
                          [id |-> IF p <= Len(sheet) THEN sheet[p].id ELSE 0,
                           value |-> IF p \in target THEN job.value ELSE ValueAt(p)]]
  <2>1. WrittenSheet = new
    BY <1>5 DEF WrittenSheet
  <2>2. PICK b \in Nat : \A t \in rows : t.row <= b
    BY DEF RowsBounded
  <2>3. target \in SUBSET Nat
    BY DEF Target
  <2>4. b + Len(sheet) \in Nat /\ \A y \in all : y <= b + Len(sheet)
    <3>1. \A t \in rows : t.row \in Nat /\ t.row <= b + Len(sheet)
      BY <1>1, <2>2 DEF Target
    <3>2. \A y \in target : y <= b + Len(sheet)
      BY <3>1
    <3>3. QED
      BY <1>1, <3>2
  <2>5. n \in all /\ \A y \in all : n >= y
    <3> HIDE DEF target
    <3>1. all \in SUBSET Nat /\ all # {}
      BY <1>1, <2>3
    <3> HIDE DEF all
    <3>2. QED
      BY <3>1, <2>4, GreatestNatural
  <2>6. n \in Nat /\ n >= Len(sheet)
    BY <1>1, <2>3, <2>5
  <2>7. (\A t \in rows : t.row \in 1..Len(sheet)) => n = Len(sheet)
    BY <1>1, <2>5, <2>6
  <2> HIDE DEF n
  <2>8. ASSUME NEW p \in 1..n PROVE new[p] \in Row
    <3>1. ValueAt(p) \in Cells
      BY <1>2 DEF ValueAt, Cells
    <3>2. (IF p <= Len(sheet) THEN sheet[p].id ELSE 0) \in Nat
      BY <1>1, <1>2, <2>6
    <3>3. QED
      BY <3>1, <3>2, <1>3 DEF Row
  <2>9. new \in [1..n -> Row] /\ \A p \in 1..Len(sheet) : new[p].id = sheet[p].id
    BY <1>1, <2>6, <2>8
  <2> HIDE DEF new
  <2>10. new \in Seq(Row) /\ Len(new) = n
    BY <2>6, <2>9
  <2>11. QED
    BY <2>1, <2>6, <2>7, <2>9, <2>10
<1>6. QED
  BY <1>4, <1>5

-----------------------------------------------------------------------------
(* Types *)

\* A cell edit names a target.
HasTarget(j) == j.tool = "update_cell" => j.targets # {}

\* What the types rest on: an edit has a target to look up, rows of a write are
\* bounded, and one call writes all rows of a bulk update.
ShapeInv ==
    /\ RowsBounded
    /\ at = "write all" => todo = {}
    /\ \A i \in 1..Len(queue) : HasTarget(queue[i])
    /\ job # NoJob => HasTarget(job)

\* The mark of no job is not a job.
LEMMA NoJobIsNone == NoJob \notin Job
BY DEF NoJob, Job, Tools

\* RPUSH of a job that names its targets.
LEMMA EnqueueType ==
    ASSUME queue \in Seq(Job), jobs \in 0..MaxJobs,
           \A i \in 1..Len(queue) : HasTarget(queue[i]),
           NEW j \in Job, HasTarget(j), queue' = Append(queue, j)
    PROVE  /\ queue' \in Seq(Job)
           /\ \A i \in 1..Len(queue') : HasTarget(queue'[i])
<1>1. /\ queue' \in Seq(Job) /\ Len(queue') = Len(queue) + 1
      /\ queue'[Len(queue) + 1] = j
      /\ \A i \in 1..Len(queue) : queue'[i] = queue[i]
  BY AppendProperties
<1>2. Len(queue) \in Nat
  BY LenProperties
<1>3. QED
  BY <1>1, <1>2

\* The row that a target is found in: it holds the ID, alone if it was looked up
\* by ID.
LEMMA LocatedRow ==
    ASSUME sheet \in Seq(Row), NEW id \in Nat, NEW pin \in Nat,
           Located(id, pin) # {}
    PROVE  /\ Min(Located(id, pin)) \in 1..Len(sheet)
           /\ Min(Located(id, pin)) \in Hits(id)
           /\ pin = 0 => Hits(id) = {Min(Located(id, pin))}
<1>1. Hits(id) \in SUBSET (1..Len(sheet)) /\ Len(sheet) \in Nat
  BY LenProperties DEF Hits
<1>2. Located(id, pin) \in SUBSET Hits(id)
  BY DEF Located
<1>3. Min(Located(id, pin)) \in Located(id, pin)
  <2> HIDE DEF Located
  <2>1. Located(id, pin) \in SUBSET Nat
    BY <1>1, <1>2
  <2>2. QED
    BY <2>1, LeastNatural
<1>4. ASSUME pin = 0 PROVE Hits(id) = {Min(Located(id, pin))}
  <2>1. Located(id, pin) = Hits(id) /\ Cardinality(Hits(id)) = 1
    BY <1>4 DEF Located
  <2>2. IsFiniteSet(Hits(id))
    <3>1. IsFiniteSet(1..Len(sheet))
      BY <1>1, FS_Interval
    <3>2. QED
      BY <1>1, <3>1, FS_Subset
  <2>3. \E x : Hits(id) = {x}
    BY <2>1, <2>2, FS_Singleton
  <2>4. QED
    BY <1>3, <2>1, <2>3
<1>5. QED
  BY <1>1, <1>2, <1>3, <1>4

\* A new ID is above all IDs of the tab.
LEMMA NextIdIsNew ==
    ASSUME sheet \in Seq(Row)
    PROVE  NextId \in Nat /\ Hits(NextId) = {}
<1> DEFINE ids == { sheet[p].id : p \in 1..Len(sheet) }
           all == {0} \cup ids
<1>1. \A p \in 1..Len(sheet) : sheet[p].id \in Nat
  <2>1. \A p \in 1..Len(sheet) : sheet[p] \in Row
    BY ElementOfSeq
  <2>2. QED
    BY <2>1 DEF Row
<1>2. PICK b \in Nat : \A p \in 1..Len(sheet) : sheet[p].id <= b
  BY IdsBounded
<1>3. ids \in SUBSET Nat /\ \A y \in ids : y <= b
  BY <1>1, <1>2
<1>4. Max(all) \in Nat /\ \A y \in all : Max(all) >= y
  <2> HIDE DEF ids
  <2>1. all \in SUBSET Nat /\ all # {} /\ \A y \in all : y <= b
    BY <1>2, <1>3
  <2> HIDE DEF all
  <2>2. QED
    BY <2>1, GreatestNatural
<1>5. NextId = Max(all) + 1
  BY DEF NextId
<1>6. \A p \in 1..Len(sheet) : sheet[p].id <= Max(all)
  BY <1>1, <1>4
<1>7. QED
  <2> HIDE DEF all
  <2>1. \A p \in 1..Len(sheet) : sheet[p].id # NextId
    BY <1>1, <1>4, <1>5, <1>6
  <2>2. QED
    BY <1>4, <1>5, <2>1 DEF Hits

\* The initial state.
LEMMA InitTypes == Init => TypeOK /\ ShapeInv
<1> SUFFICES ASSUME Init PROVE TypeOK /\ ShapeInv
  OBVIOUS
<1>1. sheet \in Seq(Row)
  <2>1. PICK tab \in Tabs : sheet = [p \in 1..Len(tab) |-> [id |-> tab[p], value |-> Blank]]
    BY DEF Init
  <2>2. tab \in Seq(Nat)
    BY <2>1, SheetWriteAssumption DEF SheetWriteAssumption
  <2>3. Len(tab) \in Nat /\ \A p \in 1..Len(tab) : tab[p] \in Nat
    BY <2>2, LenProperties, ElementOfSeq
  <2>4. \A p \in 1..Len(tab) : [id |-> tab[p], value |-> Blank] \in Row
    BY <2>3 DEF Row, Cells
  <2>5. sheet \in [1..Len(tab) -> Row]
    BY <2>1, <2>4
  <2>6. QED
    BY <2>3, <2>5
<1>2. 0 \in 0..(MaxAttempts - 1) /\ 0 \in 0..MaxJobs /\ 0 \in 0..MaxEvents
  BY SheetWriteAssumption DEF SheetWriteAssumption
<1>3. TypeOK
  <2>1. /\ queue \in Seq(Job) /\ job = NoJob /\ at = "idle"
        /\ todo = {} /\ rows = {} /\ attempt = 0 /\ ok = TRUE
        /\ notes = {} /\ audit = {} /\ undo = NoUndo
        /\ written = {} /\ moved = FALSE /\ lost = FALSE /\ calm = {}
        /\ jobs = 0 /\ events = 0
    BY DEF Init
  <2>2. QED
    BY <1>1, <1>2, <2>1 DEF TypeOK, Writing
<1>4. ShapeInv
  BY DEF Init, ShapeInv, RowsBounded
<1>5. QED
  BY <1>3, <1>4

\* A step of any kind keeps the types.
LEMMA TypeStep ==
    ASSUME TypeOK, ShapeInv, [Next]_vars
    PROVE  TypeOK' /\ ShapeInv'
<1> USE DEF vars, worker, history, bounds
<1>1. /\ sheet \in Seq(Row) /\ Len(sheet) \in Nat
      /\ \A p \in Nat : ValueAt(p) \in Cells
  <2>1. sheet \in Seq(Row)
    BY DEF TypeOK
  <2>2. Len(sheet) \in Nat /\ \A p \in 1..Len(sheet) : sheet[p] \in Row
    BY <2>1, LenProperties, ElementOfSeq
  <2>3. \A p \in 1..Len(sheet) : sheet[p].value \in Cells
    BY <2>2 DEF Row
  <2>4. QED
    BY <2>1, <2>2, <2>3 DEF ValueAt, Cells
<1>2. \A id \in Nat, pin \in Nat : ReadBefore(id, pin) \in Cells
  <2>1. ASSUME NEW id \in Nat, Hits(id) # {} PROVE Min(Hits(id)) \in Nat
    <3>1. Hits(id) \in SUBSET Nat
      BY <1>1 DEF Hits
    <3>2. QED
      BY <2>1, <3>1, LeastNatural
  <2>2. QED
    BY <1>1, <2>1 DEF ReadBefore, Cells
<1>3. \A id \in Nat : Hits(id) # {} => Min(Hits(id)) \in Nat
  <2>1. \A id \in Nat : Hits(id) \in SUBSET Nat
    BY <1>1 DEF Hits
  <2>2. QED
    BY <2>1, LeastNatural
<1>4. job # NoJob => job \in Job
  BY DEF TypeOK
<1>5. 0 \in 0..(MaxAttempts - 1) /\ MaxJobs \in Nat /\ MaxEvents \in Nat
  BY SheetWriteAssumption DEF SheetWriteAssumption
<1>6. /\ NoEntry \in AuditRow \cup {NoEntry}
      /\ \A t \in Target : t.id \in Nat /\ t.old \in Cells /\ t.row \in Nat
  BY DEF Target
<1>7. ASSUME Event \/ UNCHANGED events PROVE events' \in 0..MaxEvents
  BY <1>5, <1>7 DEF Event, TypeOK
<1>8. ASSUME job # NoJob
      PROVE  \A t \in Target, s \in BOOLEAN : Note(t, s) \in AuditRow
  <2>1. job.tool \in Tools /\ job.value \in Cells
    BY <1>4, <1>8 DEF Job
  <2>2. QED
    BY <2>1, <1>6 DEF Note, AuditRow
<1>9. ASSUME Raise, at # "idle"
      PROVE  /\ at' = "report" /\ ok' = FALSE /\ notes' \subseteq AuditRow
             /\ todo' = {} /\ rows' = {} /\ attempt' = 0 /\ job' = job
  <2>1. job.tool \in Tools
    BY <1>4, <1>9 DEF Job, TypeOK
  <2>2. [tool |-> job.tool, id |-> 0, old |-> Blank, new |-> Blank, ok |-> FALSE] \in AuditRow
    BY <2>1 DEF AuditRow, Cells
  <2>3. QED
    BY <1>9, <2>2 DEF Raise
<1>10. ASSUME NEW id \in 1..MaxId, NEW pin \in 0..Len(sheet), NEW v \in Values,
              DispatchUpdate(id, pin, v)
       PROVE  TypeOK' /\ ShapeInv'
  <2>1. PICK known \in BOOLEAN :
          /\ PreRead(known)
          /\ Enqueue([tool |-> "update_cell", pin |-> pin, value |-> v,
                      undoes |-> NoEntry, number |-> 0,
                      targets |-> {[id |-> id, row |-> 0,
                                    old |-> IF known THEN ReadBefore(id, pin) ELSE Blank]}])
    BY <1>10 DEF DispatchUpdate
  <2> DEFINE t == [id |-> id, row |-> 0,
                   old |-> IF known THEN ReadBefore(id, pin) ELSE Blank]
             j == [tool |-> "update_cell", pin |-> pin, value |-> v,
                   undoes |-> NoEntry, number |-> 0, targets |-> {t}]
  <2>2. id \in Nat /\ pin \in Nat
    BY <1>1, SheetWriteAssumption DEF SheetWriteAssumption
  <2>3. t \in Target
    BY <1>2, <2>2 DEF Target, Cells
  <2>4. j \in Job /\ HasTarget(j)
    <3> HIDE DEF t
    <3>1. QED
      BY <2>2, <2>3 DEF Job, HasTarget, Tools, Cells
  <2>5. /\ queue' = Append(queue, j) /\ jobs' \in 0..MaxJobs
        /\ events' \in 0..MaxEvents
    <3> HIDE DEF j
    <3>1. Event \/ UNCHANGED events
      BY <2>1 DEF PreRead
    <3>2. Enqueue(j)
      BY <2>1 DEF j
    <3>3. QED
      BY <1>5, <1>7, <3>1, <3>2 DEF Enqueue, TypeOK
  <2> HIDE DEF j
  <2>6. queue' \in Seq(Job) /\ \A i \in 1..Len(queue') : HasTarget(queue'[i])
    BY <2>4, <2>5, EnqueueType DEF TypeOK, ShapeInv
  <2>7. QED
    BY <1>10, <2>5, <2>6 DEF DispatchUpdate, TypeOK, ShapeInv, RowsBounded, Writing
<1>11. ASSUME NEW v \in Values, DispatchBulk(v) PROVE TypeOK' /\ ShapeInv'
  <2> DEFINE old(known, i) == IF known /\ Cardinality(Hits(i)) = 1
                              THEN ReadBefore(i, 0) ELSE Blank
             ts(known) == { [id |-> i, row |-> 0, old |-> old(known, i)] : i \in 1..MaxId }
             j(known) == [tool |-> "bulk_update", pin |-> 0, value |-> v,
                          undoes |-> NoEntry, number |-> 0, targets |-> ts(known)]
  <2>1. PICK known \in BOOLEAN : PreRead(known) /\ Enqueue(j(known))
    BY <1>11 DEF DispatchBulk
  <2>2. \A i \in 1..MaxId : i \in Nat
    BY SheetWriteAssumption DEF SheetWriteAssumption
  <2>3. \A i \in 1..MaxId : old(known, i) \in Cells
    BY <1>2, <2>2 DEF Cells
  <2>4. ts(known) \subseteq Target
    <3> HIDE DEF old
    <3>1. QED
      BY <2>2, <2>3 DEF Target
  <2>5. j(known) \in Job /\ HasTarget(j(known))
    <3> HIDE DEF ts
    <3>1. QED
      BY <2>4 DEF Job, HasTarget, Tools, Cells
  <2> HIDE DEF j
  <2>6. /\ queue' = Append(queue, j(known)) /\ jobs' \in 0..MaxJobs
        /\ events' \in 0..MaxEvents
    <3>1. Event \/ UNCHANGED events
      BY <2>1 DEF PreRead
    <3>2. QED
      BY <1>5, <1>7, <3>1, <2>1 DEF Enqueue, TypeOK
  <2>7. queue' \in Seq(Job) /\ \A i \in 1..Len(queue') : HasTarget(queue'[i])
    BY <2>5, <2>6, EnqueueType DEF TypeOK, ShapeInv
  <2>8. QED
    BY <1>11, <2>6, <2>7 DEF DispatchBulk, TypeOK, ShapeInv, RowsBounded, Writing
<1>12. ASSUME NEW v \in Values, DispatchAdd(v) PROVE TypeOK' /\ ShapeInv'
  <2> DEFINE j == [tool |-> "add_row", targets |-> {}, pin |-> 0, value |-> v,
                   undoes |-> NoEntry, number |-> 0]
  <2>1. j \in Job /\ HasTarget(j)
    BY DEF Job, HasTarget, Tools, Cells
  <2>2. Enqueue(j)
    BY <1>12 DEF DispatchAdd
  <2> HIDE DEF j
  <2>3. queue' = Append(queue, j) /\ jobs' \in 0..MaxJobs
    BY <1>5, <2>2 DEF Enqueue, TypeOK
  <2>4. queue' \in Seq(Job) /\ \A i \in 1..Len(queue') : HasTarget(queue'[i])
    BY <2>1, <2>3, EnqueueType DEF TypeOK, ShapeInv
  <2>5. QED
    BY <1>12, <2>3, <2>4 DEF DispatchAdd, TypeOK, ShapeInv, RowsBounded, Writing
<1>13. ASSUME Take PROVE TypeOK' /\ ShapeInv'
  <2>1. /\ queue \in Seq(Job) /\ queue # <<>> /\ Len(queue) \in Nat \ {0}
        /\ Head(queue) = queue[1]
    BY <1>13, EmptySeq DEF Take, TypeOK
  <2>2. /\ Head(queue) \in Job /\ Tail(queue) \in Seq(Job)
        /\ Len(Tail(queue)) = Len(queue) - 1
        /\ \A i \in 1..Len(Tail(queue)) : Tail(queue)[i] = queue[i + 1]
    BY <2>1, HeadTailProperties
  <2>3. HasTarget(Head(queue)) /\ \A i \in 1..Len(Tail(queue)) : HasTarget(Tail(queue)[i])
    <3>1. \A i \in 1..Len(queue) : HasTarget(queue[i])
      BY DEF ShapeInv
    <3>2. 1 \in 1..Len(queue) /\ \A i \in 1..Len(Tail(queue)) : i + 1 \in 1..Len(queue)
      BY <2>1, <2>2
    <3>3. HasTarget(Head(queue))
      BY <2>1, <3>1, <3>2
    <3>4. ASSUME NEW i \in 1..Len(Tail(queue)) PROVE HasTarget(Tail(queue)[i])
      <4>1. HasTarget(queue[i + 1]) /\ Tail(queue)[i] = queue[i + 1]
        BY <2>2, <3>1, <3>2
      <4>2. QED
        BY <4>1
    <3>5. QED
      BY <3>3, <3>4
  <2>4. Head(queue).targets \subseteq Target /\ Head(queue).tool \in Tools
    BY <2>2 DEF Job
  <2>5. rows = {} /\ rows' = {}
    BY <1>13 DEF Take, TypeOK, Writing
  <2>6. at' \in {"find", "map", "number"}
        /\ (at' = "find" => Head(queue).tool = "update_cell")
    BY <1>13, <2>4 DEF Take, Tools
  <2>7. TypeOK'
    BY <1>13, <2>2, <2>3, <2>4, <2>5, <2>6, NoJobIsNone
    DEF Take, TypeOK, Writing, HasTarget
  <2>8. ShapeInv'
    BY <1>13, <2>3, <2>5, <2>6 DEF Take, ShapeInv, RowsBounded
  <2>9. QED
    BY <2>7, <2>8
<1>14. ASSUME FindRow PROVE TypeOK' /\ ShapeInv'
  <2>1. PICK t \in todo :
          /\ todo' = todo \ {t}
          /\ \/ /\ Located(t.id, job.pin) # {}
                /\ rows' = {Found(t, job.pin)} /\ at' = "write"
                /\ UNCHANGED <<ok, notes>>
             \/ /\ Located(t.id, job.pin) = {}
                /\ ok' = FALSE /\ notes' = notes \cup {Note(t, FALSE)}
                /\ GoOn
                /\ UNCHANGED rows
    BY <1>14 DEF FindRow
  <2>2. /\ job # NoJob /\ job \in Job /\ job.pin \in Nat /\ t \in Target /\ t.id \in Nat
        /\ rows = {}
    BY <1>14, <1>4, <1>6 DEF FindRow, TypeOK, Job, Writing
  <2>3. CASE /\ Located(t.id, job.pin) # {}
             /\ rows' = {Found(t, job.pin)} /\ at' = "write"
             /\ UNCHANGED <<ok, notes>>
    <3>1. Min(Located(t.id, job.pin)) \in Nat
      BY <1>1, <2>2, <2>3, LocatedRow
    <3>2. /\ Found(t, job.pin) \in Target
          /\ Found(t, job.pin).row = Min(Located(t.id, job.pin))
      BY <2>2, <3>1 DEF Found, Target
    <3>3. TypeOK'
      BY <1>14, <2>1, <2>2, <2>3, <3>2 DEF FindRow, TypeOK, Writing
    <3>4. RowsBounded'
      BY <2>3, <3>1, <3>2 DEF RowsBounded
    <3>5. ShapeInv'
      BY <1>14, <2>2, <2>3, <3>4 DEF FindRow, ShapeInv
    <3>6. QED
      BY <3>3, <3>5
  <2>4. CASE /\ Located(t.id, job.pin) = {}
             /\ ok' = FALSE /\ notes' = notes \cup {Note(t, FALSE)}
             /\ GoOn
             /\ UNCHANGED rows
    <3>1. Note(t, FALSE) \in AuditRow
      BY <1>8, <2>2
    <3>2. TypeOK'
      BY <1>14, <2>1, <2>2, <2>4, <3>1 DEF FindRow, GoOn, TypeOK, Writing
    <3>3. ShapeInv'
      BY <1>14, <2>2, <2>4 DEF FindRow, GoOn, ShapeInv, RowsBounded
    <3>4. QED
      BY <3>2, <3>3
  <2>5. QED
    BY <2>1, <2>3, <2>4
<1>15. ASSUME MapRows PROVE TypeOK' /\ ShapeInv'
  <2> DEFINE known == { t \in todo : Located(t.id, 0) # {} }
  <2>1. /\ at = "map" /\ job # NoJob /\ known \subseteq Target /\ todo \subseteq Target
    BY <1>15 DEF MapRows, TypeOK
  <2>2. /\ todo' = {} /\ rows' = { Found(t, 0) : t \in known }
        /\ notes' = NotesOf(todo \ known, FALSE)
        /\ ok' = (known = todo)
        /\ at' = IF known = {} THEN "report" ELSE "write all"
    BY <1>15 DEF MapRows
  <2>3. ASSUME NEW t \in known
        PROVE  Found(t, 0) \in Target /\ Found(t, 0).row <= Len(sheet)
    <3>1. t \in Target /\ t.id \in Nat /\ Located(t.id, 0) # {}
      BY <1>6, <2>1
    <3>2. Min(Located(t.id, 0)) \in 1..Len(sheet)
      BY <1>1, <3>1, LocatedRow
    <3>3. QED
      BY <1>1, <3>1, <3>2 DEF Found, Target
  <2>4. notes' \subseteq AuditRow
    BY <1>8, <2>1, <2>2 DEF NotesOf
  <2>5. /\ rows' \subseteq Target /\ (rows' = {} <=> known = {})
        /\ \A t \in rows' : t.row <= Len(sheet)
    BY <2>2, <2>3
  <2> HIDE DEF known
  <2>6. TypeOK'
    BY <1>15, <2>1, <2>2, <2>4, <2>5 DEF MapRows, TypeOK, Writing
  <2>7. RowsBounded'
    BY <1>1, <2>5 DEF RowsBounded
  <2>8. ShapeInv'
    BY <1>15, <2>2, <2>7 DEF MapRows, ShapeInv
  <2>9. QED
    BY <2>6, <2>8
<1>16. ASSUME NumberRow PROVE TypeOK' /\ ShapeInv'
  <2> DEFINE t == [id |-> NextId, old |-> Blank, row |-> 0]
  <2>1. rows' = {t} /\ at' = "append" /\ t.row = 0
    BY <1>16 DEF NumberRow
  <2>2. t \in Target
    BY <1>1, NextIdIsNew DEF Target, Cells
  <2> HIDE DEF t
  <2>3. TypeOK'
    BY <1>16, <2>1, <2>2 DEF NumberRow, TypeOK, Writing
  <2>4. ShapeInv'
    BY <1>16, <2>1 DEF NumberRow, ShapeInv, RowsBounded
  <2>5. QED
    BY <2>3, <2>4
<1>17. ASSUME ReadFails PROVE TypeOK' /\ ShapeInv'
  <2>1. /\ at' = "report" /\ ok' = FALSE /\ notes' \subseteq AuditRow
        /\ todo' = {} /\ rows' = {} /\ attempt' = 0 /\ job' = job
    BY <1>17, <1>9 DEF ReadFails
  <2>2. events' \in 0..MaxEvents
    BY <1>17, <1>7 DEF ReadFails
  <2>3. TypeOK'
    BY <1>17, <1>5, <2>1, <2>2 DEF ReadFails, TypeOK, Writing
  <2>4. ShapeInv'
    BY <1>17, <2>1 DEF ReadFails, ShapeInv, RowsBounded
  <2>5. QED
    BY <2>3, <2>4
<1>18. ASSUME at \in Writing
       PROVE  /\ job # NoJob /\ job \in Job /\ rows # {} /\ rows \subseteq Target
              /\ WrittenSheet \in Seq(Row)
  <2>1. job # NoJob /\ rows # {} /\ rows \subseteq Target
    BY <1>18 DEF TypeOK, Writing
  <2>2. job \in Job /\ RowsBounded
    BY <1>4, <2>1 DEF ShapeInv
  <2>3. QED
    BY <1>1, <2>1, <2>2, WrittenIsTab
<1>19. ASSUME at \in Writing, Effect
       PROVE  sheet' \in Seq(Row) /\ written' \subseteq Nat /\ calm' = {}
  <2>1. { t.id : t \in rows } \subseteq Nat
    BY <1>6, <1>18, <1>19
  <2>2. QED
    BY <1>18, <1>19, <2>1 DEF Effect, TypeOK
<1>20. ASSUME at \in Writing, EffectOrNot
       PROVE  /\ sheet' \in Seq(Row) /\ written' \subseteq Nat
              /\ calm' \subseteq 0..MaxJobs /\ lost' \in BOOLEAN
              /\ events' \in 0..MaxEvents
  <2>1. CASE UNCHANGED <<sheet, written, lost, calm, events>>
    BY <2>1 DEF TypeOK
  <2>2. CASE Effect /\ lost' = TRUE /\ Event
    BY <1>7, <1>19, <1>20, <2>2
  <2>3. QED
    BY <1>20, <2>1, <2>2 DEF EffectOrNot
<1>21. ASSUME WriteAnswered PROVE TypeOK' /\ ShapeInv'
  <2>1. at \in Writing /\ job # NoJob /\ rows \subseteq Target
    BY <1>18, <1>21 DEF WriteAnswered
  <2>2. sheet' \in Seq(Row) /\ written' \subseteq Nat /\ calm' = {}
    BY <1>19, <1>21, <2>1 DEF WriteAnswered
  <2>3. notes' \subseteq AuditRow
    BY <1>8, <1>21, <2>1 DEF WriteAnswered, NotesOf, TypeOK
  <2>4. TypeOK'
    BY <1>5, <1>21, <2>1, <2>2, <2>3 DEF WriteAnswered, TypeOK, Writing
  <2>5. ShapeInv'
    BY <1>21 DEF WriteAnswered, ShapeInv, RowsBounded
  <2>6. QED
    BY <2>4, <2>5
<1>22. ASSUME Retry PROVE TypeOK' /\ ShapeInv'
  <2>1. at \in Writing /\ EffectOrNot /\ attempt' \in 0..(MaxAttempts - 1)
    <3>1. MaxAttempts \in Nat /\ attempt \in Nat
      BY SheetWriteAssumption DEF SheetWriteAssumption, TypeOK
    <3>2. QED
      BY <1>22, <3>1 DEF Retry
  <2>2. /\ sheet' \in Seq(Row) /\ written' \subseteq Nat /\ lost' \in BOOLEAN
        /\ calm' \subseteq 0..MaxJobs /\ events' \in 0..MaxEvents
    BY <1>20, <2>1
  <2>3. TypeOK'
    BY <1>22, <2>1, <2>2 DEF Retry, TypeOK, Writing
  <2>4. ShapeInv'
    BY <1>22 DEF Retry, ShapeInv, RowsBounded
  <2>5. QED
    BY <2>3, <2>4
<1>23. ASSUME GiveUp PROVE TypeOK' /\ ShapeInv'
  <2>1. at \in Writing /\ EffectOrNot /\ moved' = FALSE
    BY <1>23 DEF GiveUp, Writing
  <2>2. /\ sheet' \in Seq(Row) /\ written' \subseteq Nat /\ lost' \in BOOLEAN
        /\ calm' \subseteq 0..MaxJobs /\ events' \in 0..MaxEvents
    BY <1>20, <2>1
  <2>3. CASE at \in {"write", "append"} /\ Raise
    <3>1. /\ at' = "report" /\ ok' = FALSE /\ notes' \subseteq AuditRow
          /\ todo' = {} /\ rows' = {} /\ attempt' = 0 /\ job' = job
      BY <1>9, <2>3
    <3>2. TypeOK'
      BY <1>5, <1>23, <2>1, <2>2, <3>1 DEF GiveUp, TypeOK, Writing
    <3>3. ShapeInv'
      BY <1>23, <3>1 DEF GiveUp, ShapeInv, RowsBounded
    <3>4. QED
      BY <3>2, <3>3
  <2>4. CASE /\ at = "write all"
             /\ todo' = rows /\ at' = "find" /\ rows' = {} /\ attempt' = 0
             /\ UNCHANGED <<job, ok, notes>>
    <3>1. TypeOK'
      BY <1>5, <1>18, <1>23, <2>1, <2>2, <2>4 DEF GiveUp, TypeOK, Writing
    <3>2. ShapeInv'
      BY <1>23, <2>4 DEF GiveUp, ShapeInv, RowsBounded
    <3>3. QED
      BY <3>1, <3>2
  <2>5. QED
    BY <1>23, <2>3, <2>4 DEF GiveUp
<1>24. ASSUME Report PROVE TypeOK' /\ ShapeInv'
  <2>1. events' \in 0..MaxEvents
    BY <1>7, <1>24 DEF Report
  <2>2. notes' \subseteq AuditRow /\ audit' \subseteq AuditRow
    BY <1>24 DEF Report, TypeOK
  <2>3. TypeOK'
    BY <1>24, <2>1, <2>2 DEF Report, TypeOK, Writing
  <2>4. ShapeInv'
    BY <1>24 DEF Report, ShapeInv, RowsBounded
  <2>5. QED
    BY <2>3, <2>4
<1>25. ASSUME Finish PROVE TypeOK' /\ ShapeInv'
  <2>1. TypeOK'
    BY <1>25 DEF Finish, TypeOK, Writing
  <2>2. ShapeInv'
    BY <1>25 DEF Finish, ShapeInv, RowsBounded
  <2>3. QED
    BY <2>1, <2>2
<1>26. ASSUME Crash PROVE TypeOK' /\ ShapeInv'
  <2>1. job \in Job /\ HasTarget(job) /\ queue' = Append(queue, job)
    BY <1>4, <1>26 DEF Crash, ShapeInv
  <2>2. queue' \in Seq(Job) /\ \A i \in 1..Len(queue') : HasTarget(queue'[i])
    BY <2>1, EnqueueType DEF TypeOK, ShapeInv
  <2>3. events' \in 0..MaxEvents
    BY <1>7, <1>26 DEF Crash
  <2>4. TypeOK'
    BY <1>5, <1>26, <2>2, <2>3 DEF Crash, TypeOK, Writing
  <2>5. ShapeInv'
    BY <1>26, <2>2 DEF Crash, ShapeInv, RowsBounded
  <2>6. QED
    BY <2>4, <2>5
<1>27. ASSUME NEW e \in audit, UndoFind(e) PROVE TypeOK' /\ ShapeInv'
  <2>1. e \in AuditRow /\ e.id \in Nat
    BY DEF TypeOK, AuditRow
  <2>2. undo' \in Undo
    BY <1>3, <1>27, <2>1 DEF UndoFind, Undo
  <2>3. calm' \subseteq 0..MaxJobs
    BY <1>5, <1>27 DEF UndoFind, TypeOK
  <2>4. UNCHANGED <<sheet, queue, worker, audit, written, moved, lost, bounds>>
    BY <1>27 DEF UndoFind
  <2>5. TypeOK'
    BY <2>2, <2>3, <2>4 DEF TypeOK, Writing
  <2>6. ShapeInv'
    BY <2>4 DEF ShapeInv, RowsBounded
  <2>7. QED
    BY <2>5, <2>6
<1>28. ASSUME UndoRead PROVE TypeOK' /\ ShapeInv'
  <2>1. undo' \in Undo \cup {NoUndo}
    <3>1. undo \in Undo
      BY <1>28 DEF UndoRead, TypeOK, NoUndo
    <3>2. QED
      BY <1>28, <3>1 DEF UndoRead, Undo
  <2>2. TypeOK'
    BY <1>28, <2>1 DEF UndoRead, TypeOK, Writing
  <2>3. ShapeInv'
    BY <1>28 DEF UndoRead, ShapeInv, RowsBounded
  <2>4. QED
    BY <2>2, <2>3
<1>29. ASSUME UndoEnqueue PROVE TypeOK' /\ ShapeInv'
  <2> DEFINE e == undo.entry
             t == [id |-> e.id, old |-> e.new, row |-> 0]
             j == [tool |-> "update_cell", pin |-> 0, value |-> e.old,
                   undoes |-> e, number |-> jobs', targets |-> {t}]
  <2>1. /\ e \in AuditRow /\ e.id \in Nat /\ e.new \in Cells /\ e.old \in Cells
    <3>1. undo \in Undo
      BY <1>29 DEF UndoEnqueue, TypeOK, NoUndo
    <3>2. e \in AuditRow
      BY <3>1 DEF Undo
    <3>3. QED
      BY <3>2 DEF AuditRow
  <2>2. /\ undo' = NoUndo
        /\ UNCHANGED <<sheet, worker, audit, written, moved, lost, events>>
    BY <1>29 DEF UndoEnqueue
  <2>3. CASE /\ Enqueue(j)
             /\ calm' = IF 0 \in calm THEN (calm \ {0}) \cup {jobs'} ELSE calm
    <3>1. jobs' \in 0..MaxJobs /\ jobs' \in Nat /\ queue' = Append(queue, j)
      BY <1>5, <2>3 DEF Enqueue, TypeOK
    <3>2. t \in Target
      BY <2>1 DEF Target
    <3>3. j \in Job /\ HasTarget(j)
      <4> HIDE DEF t, e
      <4>1. QED
        BY <2>1, <3>1, <3>2 DEF Job, HasTarget, Tools
    <3>4. calm' \subseteq 0..MaxJobs
      <4> HIDE DEF j
      <4>1. QED
        BY <2>3, <3>1 DEF TypeOK
    <3> HIDE DEF j
    <3>5. queue' \in Seq(Job) /\ \A i \in 1..Len(queue') : HasTarget(queue'[i])
      BY <3>1, <3>3, EnqueueType DEF TypeOK, ShapeInv
    <3>6. QED
      BY <2>2, <3>1, <3>4, <3>5 DEF TypeOK, ShapeInv, RowsBounded, Writing
  <2>4. CASE calm' = calm \ {0} /\ UNCHANGED <<queue, jobs>>
    BY <2>2, <2>4 DEF TypeOK, ShapeInv, RowsBounded, Writing
  <2>5. QED
    BY <1>29, <2>3, <2>4 DEF UndoEnqueue
<1>30. ASSUME Edit PROVE TypeOK' /\ ShapeInv'
  <2>1. sheet' \in Seq(Row)
    BY <1>1, <1>30, EditedIsTab DEF Edit
  <2>2. events' \in 0..MaxEvents
    BY <1>7, <1>30 DEF Edit
  <2>3. moved' \in BOOLEAN
    <3>1. moved' = (at \in Writing)
      BY <1>30, Zenon DEF Edit
    <3>2. (at \in Writing) \in BOOLEAN
      OBVIOUS
    <3>3. QED
      BY <3>1, <3>2, Zenon
  <2>4. calm' = {} /\ UNCHANGED <<queue, worker, audit, undo, written, lost, jobs>>
    BY <1>30, Zenon DEF Edit
  <2>5. TypeOK'
    BY <2>1, <2>2, <2>3, <2>4 DEF TypeOK, Writing
  <2>6. ShapeInv'
    BY <2>4 DEF ShapeInv, RowsBounded
  <2>7. QED
    BY <2>5, <2>6
<1>31. ASSUME UNCHANGED vars PROVE TypeOK' /\ ShapeInv'
  BY <1>31 DEF TypeOK, ShapeInv, RowsBounded, Writing
<1>32. QED
  BY <1>10, <1>11, <1>12, <1>13, <1>14, <1>15, <1>16, <1>17, <1>21, <1>22, <1>23, <1>24,
     <1>25, <1>26, <1>27, <1>28, <1>29, <1>30, <1>31
  DEF Next, WorkerStep

\* Every variable has its type in every state.
THEOREM TypeCorrect == Spec => []TypeOK
<1>1. Init => TypeOK /\ ShapeInv
  BY InitTypes
<1>2. TypeOK /\ ShapeInv /\ [Next]_vars => (TypeOK /\ ShapeInv)'
  BY TypeStep
<1>3. QED
  BY <1>1, <1>2, PTL DEF Spec

-----------------------------------------------------------------------------
(* Audit rows *)

\* What is noted as written was written; while nothing has failed, each target of
\* the job is written, in a write call, or waiting.
NotedInv ==
    /\ \A n \in notes : n.ok => n.id \in written
    /\ at # "idle" /\ ok => \A t \in job.targets :
         t.id \in written \/ \E u \in todo \cup rows : u.id = t.id
    /\ at = "report" => todo = {}
    /\ at \in {"idle", "map", "number"} => ok = TRUE

\* The actions of all but the worker leave its variables alone.
LEMMA OthersLeaveWorker ==
    ASSUME \/ \E id \in 1..MaxId, pin \in 0..Len(sheet), v \in Values :
                DispatchUpdate(id, pin, v)
           \/ \E v \in Values : DispatchBulk(v) \/ DispatchAdd(v)
           \/ \E e \in audit : UndoFind(e)
           \/ UndoRead \/ UndoEnqueue \/ Edit
    PROVE  UNCHANGED <<job, at, todo, rows, attempt, ok, notes, written, lost>>
BY DEF DispatchUpdate, DispatchBulk, DispatchAdd, UndoFind, UndoRead, UndoEnqueue, Edit,
       worker, history

\* A target keeps its ID when its row is found.
LEMMA FoundId == \A t \in Target : \A pin : Found(t, pin).id = t.id
BY DEF Found, Target

\* A step of any kind keeps the audit invariant.
LEMMA NotedStep ==
    ASSUME TypeOK, ShapeInv, NotedInv, [Next]_vars
    PROVE  NotedInv'
<1> USE DEF worker, history, bounds
<1>1. rows # {} <=> at \in Writing
  BY DEF TypeOK
<1>2. ASSUME Take PROVE NotedInv'
  <2>1. Head(queue) \in Job
    BY <1>2, HeadTailProperties DEF Take, TypeOK
  <2>2. Head(queue).tool \in Tools
    BY <2>1 DEF Job
  <2>3. at' \in {"find", "map", "number"}
    BY <1>2, <2>2 DEF Take, Tools
  <2>4. /\ job' = Head(queue) /\ todo' = Head(queue).targets /\ at = "idle"
        /\ UNCHANGED <<rows, ok, notes, written>>
    BY <1>2 DEF Take
  <2>5. QED
    BY <2>3, <2>4 DEF NotedInv
<1>3. ASSUME FindRow PROVE NotedInv'
  <2>1. PICK t \in todo :
          /\ todo' = todo \ {t}
          /\ \/ /\ rows' = {Found(t, job.pin)} /\ at' = "write"
                /\ UNCHANGED <<ok, notes>>
             \/ /\ ok' = FALSE /\ notes' = notes \cup {Note(t, FALSE)}
                /\ GoOn
                /\ UNCHANGED rows
    BY <1>3 DEF FindRow
  <2>2. /\ at = "find" /\ rows = {} /\ t \in Target
        /\ UNCHANGED <<job, written>>
    BY <1>1, <1>3 DEF FindRow, Writing, TypeOK
  <2>3. CASE rows' = {Found(t, job.pin)} /\ at' = "write" /\ UNCHANGED <<ok, notes>>
    <3>1. Found(t, job.pin).id = t.id
      BY <2>2, FoundId
    <3>2. \A u \in todo \cup rows : \E w \in todo' \cup rows' : w.id = u.id
      BY <2>1, <2>2, <2>3, <3>1
    <3>3. QED
      BY <2>2, <2>3, <3>2 DEF NotedInv
  <2>4. CASE ok' = FALSE /\ notes' = notes \cup {Note(t, FALSE)} /\ GoOn /\ UNCHANGED rows
    <3>1. Note(t, FALSE).ok = FALSE
      BY DEF Note
    <3>2. QED
      BY <2>2, <2>4, <3>1 DEF GoOn, NotedInv
  <2>5. QED
    BY <2>1, <2>3, <2>4
<1>4. ASSUME MapRows PROVE NotedInv'
  <2> DEFINE known == { t \in todo : Located(t.id, 0) # {} }
  <2>1. /\ at = "map" /\ todo \subseteq Target /\ rows = {}
        /\ todo' = {} /\ rows' = { Found(t, 0) : t \in known }
        /\ notes' = NotesOf(todo \ known, FALSE)
        /\ ok' = (known = todo) /\ at' \in {"report", "write all"}
        /\ UNCHANGED <<job, written>>
    BY <1>1, <1>4 DEF MapRows, TypeOK, Writing
  <2>2. \A n \in notes' : n.ok = FALSE
    <3> HIDE DEF known
    <3>1. \A t : Note(t, FALSE).ok = FALSE
      BY DEF Note
    <3>2. QED
      BY <2>1, <3>1 DEF NotesOf
  <2>3. ok => \A t \in job.targets : t.id \in written \/ \E u \in todo : u.id = t.id
    BY <2>1 DEF NotedInv
  <2>4. ok' => \A t \in job.targets : t.id \in written \/ \E u \in rows' : u.id = t.id
    <3>1. ASSUME ok', NEW u \in todo PROVE Found(u, 0) \in rows' /\ Found(u, 0).id = u.id
      BY <2>1, <3>1, FoundId
    <3>2. ok = TRUE
      BY <2>1 DEF NotedInv
    <3>3. QED
      BY <2>3, <3>1, <3>2
  <2> HIDE DEF known
  <2>5. QED
    BY <2>1, <2>2, <2>4 DEF NotedInv
<1>5. ASSUME NumberRow PROVE NotedInv'
  BY <1>1, <1>5 DEF NumberRow, NotedInv, Writing
<1>6. ASSUME Raise, UNCHANGED job PROVE NotedInv'
  BY <1>6 DEF Raise, NotedInv
<1>7. ASSUME ReadFails PROVE NotedInv'
  BY <1>6, <1>7 DEF ReadFails, Raise
<1>8. ASSUME WriteAnswered PROVE NotedInv'
  <2>1. /\ written' = written \cup { t.id : t \in rows }
        /\ notes' = notes \cup NotesOf(rows, TRUE)
        /\ rows' = {} /\ at' = (IF todo = {} THEN "report" ELSE "find")
        /\ at # "idle"
        /\ UNCHANGED <<job, todo, ok>>
    BY <1>8 DEF WriteAnswered, Effect, Writing
  <2>2. \A n \in NotesOf(rows, TRUE) : n.id \in written'
    BY <2>1 DEF NotesOf, Note
  <2>3. QED
    BY <2>1, <2>2 DEF NotedInv
<1>9. ASSUME EffectOrNot PROVE written \subseteq written'
  BY <1>9 DEF EffectOrNot, Effect
<1>10. ASSUME Retry PROVE NotedInv'
  BY <1>9, <1>10 DEF Retry, NotedInv
<1>11. ASSUME GiveUp PROVE NotedInv'
  <2>1. written \subseteq written'
    BY <1>9, <1>11 DEF GiveUp
  <2>2. CASE Raise
    BY <1>6, <2>2 DEF Raise
  <2>3. CASE /\ at = "write all"
             /\ todo' = rows /\ at' = "find" /\ rows' = {} /\ attempt' = 0
             /\ UNCHANGED <<job, ok, notes>>
    BY <2>1, <2>3 DEF NotedInv, ShapeInv
  <2>4. QED
    BY <1>11, <2>2, <2>3 DEF GiveUp
<1>12. ASSUME Report PROVE NotedInv'
  BY <1>12 DEF Report, NotedInv
<1>13. ASSUME Finish PROVE NotedInv'
  BY <1>13 DEF Finish, NotedInv
<1>14. ASSUME Crash PROVE NotedInv'
  BY <1>14 DEF Crash, NotedInv
<1>15. ASSUME UNCHANGED <<job, at, todo, rows, ok, notes, written>> PROVE NotedInv'
  BY <1>15 DEF NotedInv
<1>16. QED
  BY <1>2, <1>3, <1>4, <1>5, <1>7, <1>8, <1>10, <1>11, <1>12, <1>13, <1>14, <1>15,
     OthersLeaveWorker
  DEF Next, WorkerStep, vars

\* No audit row and no verdict claims a write that was not made.
THEOREM AuditCorrect == Spec => []AuditTruthful
<1>1. Init => TypeOK /\ ShapeInv /\ NotedInv
  BY InitTypes DEF Init, NotedInv
<1>2. TypeOK /\ ShapeInv /\ NotedInv /\ [Next]_vars => (TypeOK /\ ShapeInv /\ NotedInv)'
  BY TypeStep, NotedStep
<1>3. TypeOK /\ NotedInv => AuditTruthful
  BY DEF TypeOK, Writing, NotedInv, AuditTruthful
<1>4. QED
  BY <1>1, <1>2, <1>3, PTL DEF Spec

-----------------------------------------------------------------------------
(* Where writes land *)

\* While nobody changes the tab, the rows of a write call are those of their
\* IDs, alone if they were looked up by ID, and the row of an append is new.
AimInv ==
    ~moved =>
      /\ at \in {"write", "write all"} => \A t \in rows :
           /\ t.row \in Hits(t.id)
           /\ job.pin = 0 => Hits(t.id) = {t.row}
      /\ at = "append" /\ ~lost => \A t \in rows : Hits(t.id) = {}

\* Writing values into rows that exist moves no ID.
LEMMA HitsKept ==
    ASSUME TypeOK, ShapeInv, at \in {"write", "write all"}, sheet' = WrittenSheet,
           \A t \in rows : t.row \in Hits(t.id)
    PROVE  \A id : Hits(id)' = Hits(id)
<1>1. sheet \in Seq(Row) /\ job \in Job /\ rows \subseteq Target /\ RowsBounded /\ rows # {}
  BY DEF TypeOK, ShapeInv, Writing
<1>2. \A t \in rows : t.row \in 1..Len(sheet)
  BY DEF Hits
<1>3. /\ Len(sheet') = Len(sheet)
      /\ \A p \in 1..Len(sheet) : sheet'[p].id = sheet[p].id
  BY <1>1, <1>2, WrittenIsTab
<1>4. QED
  BY <1>3 DEF Hits

\* Requests and undo change neither the tab nor what is known of it.
LEMMA RequestsLeaveTab ==
    ASSUME \/ \E id \in 1..MaxId, pin \in 0..Len(sheet), v \in Values :
                DispatchUpdate(id, pin, v)
           \/ \E v \in Values : DispatchBulk(v) \/ DispatchAdd(v)
           \/ \E e \in audit : UndoFind(e)
           \/ UndoRead \/ UndoEnqueue
    PROVE  UNCHANGED <<sheet, job, at, todo, rows, moved, lost>>
BY DEF DispatchUpdate, DispatchBulk, DispatchAdd, UndoFind, UndoRead, UndoEnqueue,
       worker, history

\* A step of any kind keeps the aim.
LEMMA AimStep ==
    ASSUME TypeOK, ShapeInv, AimInv, [Next]_vars
    PROVE  AimInv'
<1> USE DEF worker, history, bounds
<1>1. ASSUME at' \notin Writing PROVE AimInv'
  BY <1>1 DEF AimInv, Writing
<1>2. ASSUME FindRow PROVE AimInv'
  <2>1. CASE at' = "report"
    BY <1>1, <2>1 DEF Writing
  <2>2. CASE at' = "find"
    BY <1>1, <2>2 DEF Writing
  <2>3. CASE at' = "write"
    <3>1. PICK t \in todo :
            Located(t.id, job.pin) # {} /\ rows' = {Found(t, job.pin)}
      BY <1>2, <2>3 DEF FindRow, GoOn
    <3>2. t \in Target /\ job \in Job
      BY <1>2 DEF FindRow, TypeOK
    <3>3. t.id \in Nat /\ job.pin \in Nat
      BY <3>2 DEF Target, Job
    <3>4. /\ Found(t, job.pin).id = t.id
          /\ Found(t, job.pin).row = Min(Located(t.id, job.pin))
      BY <3>2 DEF Found, Target
    <3>5. /\ Min(Located(t.id, job.pin)) \in Hits(t.id)
          /\ job.pin = 0 => Hits(t.id) = {Min(Located(t.id, job.pin))}
      BY <3>1, <3>3, LocatedRow DEF TypeOK
    <3>6. UNCHANGED <<sheet, job>>
      BY <1>2 DEF FindRow
    <3>7. \A id : Hits(id)' = Hits(id)
      BY <3>6 DEF Hits
    <3>8. QED
      BY <2>3, <3>1, <3>4, <3>5, <3>6, <3>7 DEF AimInv
  <2>4. QED
    BY <1>2, <2>1, <2>2, <2>3 DEF FindRow, GoOn
<1>3. ASSUME MapRows PROVE AimInv'
  <2>1. CASE at' = "report"
    BY <1>1, <2>1 DEF Writing
  <2>2. CASE at' = "write all"
    <3>1. /\ rows' = { Found(t, 0) : t \in { u \in todo : Located(u.id, 0) # {} } }
          /\ UNCHANGED <<sheet, job>>
      BY <1>3 DEF MapRows
    <3>2. \A id : Hits(id)' = Hits(id)
      BY <3>1 DEF Hits
    <3>3. ASSUME NEW t \in todo, Located(t.id, 0) # {}
          PROVE  Hits(Found(t, 0).id) = {Found(t, 0).row}
      <4>1. t \in Target /\ t.id \in Nat
        BY DEF TypeOK, Target
      <4>2. Found(t, 0).id = t.id /\ Found(t, 0).row = Min(Located(t.id, 0))
        BY <4>1 DEF Found, Target
      <4>3. QED
        BY <3>3, <4>1, <4>2, LocatedRow DEF TypeOK
    <3>4. \A t \in rows' : Hits(t.id) = {t.row}
      BY <3>1, <3>3
    <3>5. QED
      BY <2>2, <3>1, <3>2, <3>4 DEF AimInv
  <2>3. QED
    BY <1>3, <2>1, <2>2 DEF MapRows
<1>4. ASSUME NumberRow PROVE AimInv'
  <2>1. /\ at' = "append" /\ rows' = {[id |-> NextId, old |-> Blank, row |-> 0]}
        /\ sheet' = sheet
    BY <1>4 DEF NumberRow
  <2>2. Hits(NextId) = {}
    BY NextIdIsNew DEF TypeOK
  <2>3. \A id : Hits(id)' = Hits(id)
    BY <2>1 DEF Hits
  <2>4. \A t \in rows' : Hits(t.id)' = {}
    BY <2>1, <2>2, <2>3
  <2>5. QED
    BY <2>1, <2>4 DEF AimInv
<1>5. ASSUME Retry PROVE AimInv'
  <2>1. at \in Writing /\ EffectOrNot /\ UNCHANGED <<at, job, rows, moved>>
    BY <1>5 DEF Retry
  <2>2. CASE sheet' = sheet /\ lost' = lost
    <3>1. \A id : Hits(id)' = Hits(id)
      BY <2>2 DEF Hits
    <3>2. QED
      BY <2>1, <2>2, <3>1 DEF AimInv
  <2>3. CASE sheet' = WrittenSheet /\ lost' = TRUE
    <3>1. CASE at = "append"
      BY <2>1, <2>3, <3>1 DEF AimInv
    <3>2. CASE at \in {"write", "write all"} /\ ~moved
      <4>1. \A t \in rows : t.row \in Hits(t.id)
        BY <3>2 DEF AimInv
      <4>2. \A id : Hits(id)' = Hits(id)
        BY <2>3, <3>2, <4>1, HitsKept
      <4>3. QED
        BY <2>1, <3>2, <4>2 DEF AimInv
    <3>3. CASE moved
      BY <2>1, <3>3 DEF AimInv
    <3>4. QED
      BY <2>1, <3>1, <3>2, <3>3 DEF Writing
  <2>4. QED
    BY <2>1, <2>2, <2>3 DEF EffectOrNot, Effect
<1>6. ASSUME UNCHANGED <<sheet, job, at, rows, moved, lost>> PROVE AimInv'
  <2>1. \A id : Hits(id)' = Hits(id)
    BY <1>6 DEF Hits
  <2>2. QED
    BY <1>6, <2>1 DEF AimInv
<1>7. ASSUME Edit PROVE AimInv'
  <2>1. moved' = (at \in Writing) /\ at' = at
    BY <1>7, Zenon DEF Edit
  <2>2. CASE at \in Writing
    BY <2>1, <2>2 DEF AimInv
  <2>3. CASE at \notin Writing
    BY <1>1, <2>1, <2>3
  <2>4. QED
    BY <2>2, <2>3
<1>8. ASSUME Take PROVE AimInv'
  <2>1. Head(queue) \in Job
    BY <1>8, HeadTailProperties DEF Take, TypeOK
  <2>2. Head(queue).tool \in Tools
    BY <2>1 DEF Job
  <2>3. at' \in {"find", "map", "number"}
    BY <1>8, <2>2 DEF Take, Tools
  <2>4. QED
    BY <1>1, <2>3 DEF Writing
<1>9. ASSUME ReadFails \/ WriteAnswered \/ GiveUp \/ Report \/ Finish \/ Crash
      PROVE  AimInv'
  <2>1. at' \notin Writing
    BY <1>9 DEF ReadFails, WriteAnswered, GiveUp, Report, Finish, Crash, Raise, Writing
  <2>2. QED
    BY <1>1, <2>1
<1>10. QED
  BY <1>2, <1>3, <1>4, <1>5, <1>6, <1>7, <1>8, <1>9, RequestsLeaveTab
  DEF Next, WorkerStep, vars

\* It holds in every state.
LEMMA AimInvariant == Spec => [](TypeOK /\ ShapeInv /\ AimInv)
<1>1. Init => TypeOK /\ ShapeInv /\ AimInv
  BY InitTypes DEF Init, AimInv
<1>2. TypeOK /\ ShapeInv /\ AimInv /\ [Next]_vars => (TypeOK /\ ShapeInv /\ AimInv)'
  BY TypeStep, AimStep
<1>3. QED
  BY <1>1, <1>2, PTL DEF Spec

\* Only a write call writes.
LEMMA WritesAreCalls == Writes => at \in Writing
BY DEF Writes, WriteAnswered, Retry, GiveUp, Writing

\* A write lands on the row of its ID, and on the only one if it was looked up.
THEOREM LandingCorrect == Spec => LandsOnTarget
<1> DEFINE P == Writes /\ ~moved /\ at # "append" =>
                  \A t \in rows : /\ t.row \in Hits(t.id)
                                  /\ job.pin = 0 => Hits(t.id) = {t.row}
<1>1. AimInv => P
  BY WritesAreCalls DEF AimInv, Writing
<1>2. Spec => [][P]_vars
  <2> HIDE DEF P
  <2>1. QED
    BY <1>1, AimInvariant, PTL
<1>3. QED
  BY <1>2 DEF LandsOnTarget

\* No ID is given out twice.
THEOREM AddingCorrect == Spec => AddedIdIsNew
<1> DEFINE P == Writes /\ at = "append" /\ ~moved /\ ~lost =>
                  \A t \in rows : Hits(t.id) = {}
<1>1. AimInv => P
  BY DEF AimInv
<1>2. Spec => [][P]_vars
  <2> HIDE DEF P
  <2>1. QED
    BY <1>1, AimInvariant, PTL
<1>3. QED
  BY <1>2 DEF AddedIdIsNew

-----------------------------------------------------------------------------
(* Undo *)

\* A job that undoes an entry writes its ID, and while the sheet has not changed
\* since the request looked, the cell holds what the entry wrote.
SoundUndo(j) ==
    j.undoes # NoEntry =>
      /\ j.tool = "update_cell" /\ j.pin = 0 /\ j.number \in 1..jobs
      /\ \A t \in j.targets : t.id = j.undoes.id
      /\ j.number \in calm => ReadBefore(j.undoes.id, 0) = j.undoes.new

\* The same of the request, of the queued jobs, and of the job in hand down to
\* the row it is about to write.
UndoInv ==
    /\ undo # NoUndo /\ 0 \in calm =>
         IF undo.at = "reading"
         THEN ValueAt(undo.row) = ReadBefore(undo.entry.id, 0)
         ELSE ReadBefore(undo.entry.id, 0) = undo.entry.new
    /\ calm \subseteq 0..jobs
    /\ \A i \in 1..Len(queue) : SoundUndo(queue[i])
    /\ job # NoJob => SoundUndo(job)
    /\ job # NoJob /\ job.undoes # NoEntry =>
         /\ at \in {"find", "write", "report"}
         /\ \A t \in todo : t.id = job.undoes.id
         /\ at = "write" /\ job.number \in calm =>
              \A t \in rows : ValueAt(t.row) = job.undoes.new

\* A job stays sound while no more jobs become calm and the tab is as it was, or
\* none is calm.
LEMMA SoundUndoKept ==
    ASSUME TypeOK, jobs' \in Nat, jobs <= jobs',
           \/ sheet' = sheet /\ calm' \subseteq calm \cup {0, jobs + 1}
           \/ calm' = {},
           NEW j \in Job, SoundUndo(j)
    PROVE  SoundUndo(j)'
<1>1. jobs \in Nat
  BY DEF TypeOK
<1>2. sheet' = sheet => ReadBefore(j.undoes.id, 0)' = ReadBefore(j.undoes.id, 0)
  BY DEF ReadBefore, Hits, ValueAt
<1>3. ASSUME j.undoes # NoEntry
      PROVE  /\ j.number \in 1..jobs'
             /\ j.number \in calm' =>
                  /\ j.number \in calm
                  /\ ReadBefore(j.undoes.id, 0)' = ReadBefore(j.undoes.id, 0)
  BY <1>1, <1>2, <1>3 DEF SoundUndo
<1>4. QED
  BY <1>3 DEF SoundUndo

\* So do all jobs in the queue when it is left alone, loses its first, or is given
\* a sound one.
LEMMA SoundQueueKept ==
    ASSUME queue \in Seq(Job), \A i \in 1..Len(queue) : SoundUndo(queue[i]),
           \A k \in Job : SoundUndo(k) => SoundUndo(k)',
           \/ queue' = queue
           \/ queue # <<>> /\ queue' = Tail(queue)
           \/ \E j \in Job : queue' = Append(queue, j) /\ SoundUndo(j)'
    PROVE  (\A i \in 1..Len(queue) : SoundUndo(queue[i]))'
<1>1. Len(queue) \in Nat /\ \A i \in 1..Len(queue) : queue[i] \in Job
  BY LenProperties, ElementOfSeq
<1>2. \A i \in 1..Len(queue') : \E k \in Job : k = queue'[i] /\ SoundUndo(k)'
  <2>1. CASE queue' = queue
    BY <1>1, <2>1
  <2>2. CASE queue # <<>> /\ queue' = Tail(queue)
    <3>1. /\ Len(queue') = Len(queue) - 1
          /\ \A i \in 1..Len(queue') : queue'[i] = queue[i + 1]
      BY <2>2, HeadTailProperties
    <3>2. \A i \in 1..Len(queue') : i + 1 \in 1..Len(queue)
      BY <1>1, <3>1
    <3>3. QED
      BY <1>1, <3>1, <3>2
  <2>3. CASE \E j \in Job : queue' = Append(queue, j) /\ SoundUndo(j)'
    <3>1. PICK j \in Job : queue' = Append(queue, j) /\ SoundUndo(j)'
      BY <2>3
    <3>2. /\ Len(queue') = Len(queue) + 1 /\ queue'[Len(queue) + 1] = j
          /\ \A i \in 1..Len(queue) : queue'[i] = queue[i]
      BY <3>1, AppendProperties
    <3>3. \A i \in 1..Len(queue') : i \in 1..Len(queue) \/ i = Len(queue) + 1
      BY <1>1, <3>2
    <3>4. QED
      BY <1>1, <3>1, <3>2, <3>3
  <2>4. QED
    BY <2>1, <2>2, <2>3
<1>3. QED
  BY <1>2 DEF SoundUndo

\* A step of any kind keeps the undo invariant.
LEMMA UndoStep ==
    ASSUME TypeOK, ShapeInv, UndoInv, [Next]_vars
    PROVE  UndoInv'
<1> USE DEF worker, history, bounds
<1>1. /\ queue \in Seq(Job) /\ jobs \in Nat
      /\ \A i \in 1..Len(queue) : SoundUndo(queue[i])
      /\ job # NoJob => job \in Job /\ SoundUndo(job)
      /\ 0 \notin 1..jobs
  BY DEF TypeOK, UndoInv
<1>2. ASSUME UNCHANGED sheet
      PROVE  /\ \A id : ReadBefore(id, 0)' = ReadBefore(id, 0)
             /\ \A p : ValueAt(p)' = ValueAt(p)
  BY <1>2 DEF ReadBefore, Hits, ValueAt
\* The request and the job in hand, when they are left alone with the tab.
<1>3. ASSUME UNCHANGED <<sheet, undo>>, 0 \in calm' => 0 \in calm
      PROVE  (undo # NoUndo /\ 0 \in calm =>
                IF undo.at = "reading"
                THEN ValueAt(undo.row) = ReadBefore(undo.entry.id, 0)
                ELSE ReadBefore(undo.entry.id, 0) = undo.entry.new)'
  BY <1>2, <1>3 DEF UndoInv
<1>4. ASSUME UNCHANGED <<sheet, job, at, todo, rows>>, calm' \subseteq calm \cup {0, jobs + 1}
      PROVE  (job # NoJob /\ job.undoes # NoEntry =>
                /\ at \in {"find", "write", "report"}
                /\ \A t \in todo : t.id = job.undoes.id
                /\ at = "write" /\ job.number \in calm =>
                     \A t \in rows : ValueAt(t.row) = job.undoes.new)'
  <2>1. job # NoJob /\ job.undoes # NoEntry /\ job.number \in calm' => job.number \in calm
    BY <1>1, <1>4 DEF SoundUndo
  <2>2. QED
    BY <1>2, <1>4, <2>1 DEF UndoInv
<1>5. ASSUME jobs' \in Nat, jobs <= jobs',
             \/ sheet' = sheet /\ calm' \subseteq calm \cup {0, jobs + 1}
             \/ calm' = {}
      PROVE  \A k \in Job : SoundUndo(k) => SoundUndo(k)'
  BY <1>5, SoundUndoKept
\* An ordinary job.
<1>6. ASSUME NEW j \in Job, Enqueue(j), j.undoes = NoEntry,
             UNCHANGED <<sheet, job, at, todo, rows, undo, calm>>
      PROVE  UndoInv'
  <2>1. jobs' \in Nat /\ jobs <= jobs' /\ queue' = Append(queue, j)
    BY <1>1, <1>6 DEF Enqueue
  <2>2. \A k \in Job : SoundUndo(k) => SoundUndo(k)'
    BY <1>5, <1>6, <2>1
  <2>3. SoundUndo(j)'
    BY <1>6 DEF SoundUndo
  <2>4. (\A i \in 1..Len(queue) : SoundUndo(queue[i]))'
    BY <1>1, <2>1, <2>2, <2>3, SoundQueueKept
  <2>5. (job # NoJob => SoundUndo(job))'
    BY <1>1, <1>6, <2>2 DEF SoundUndo
  <2>6. (calm \subseteq 0..jobs)'
    BY <1>1, <1>6, <2>1 DEF UndoInv
  <2>7. QED
    BY <1>3, <1>4, <1>6, <2>4, <2>5, <2>6 DEF UndoInv
<1>7. ASSUME NEW j, Enqueue(j) PROVE j \in Job
  <2>1. queue' \in Seq(Job)
    BY TypeStep DEF TypeOK
  <2>2. queue' = Append(queue, j)
    BY <1>7 DEF Enqueue
  <2>3. Len(queue') = Len(queue) + 1 /\ queue'[Len(queue) + 1] = j /\ Len(queue) \in Nat
    BY <1>1, <2>2
  <2>4. QED
    BY <2>1, <2>3, ElementOfSeq
<1>8. ASSUME NEW id \in 1..MaxId, NEW pin \in 0..Len(sheet), NEW v \in Values,
             DispatchUpdate(id, pin, v)
      PROVE  UndoInv'
  <2>1. PICK j : Enqueue(j) /\ j.undoes = NoEntry
    BY <1>8 DEF DispatchUpdate
  <2>2. UNCHANGED <<sheet, job, at, todo, rows, undo, calm>>
    BY <1>8 DEF DispatchUpdate
  <2>3. QED
    BY <1>6, <1>7, <2>1, <2>2
<1>9. ASSUME NEW v \in Values, DispatchBulk(v) \/ DispatchAdd(v) PROVE UndoInv'
  <2>1. PICK j : Enqueue(j) /\ j.undoes = NoEntry
    <3>1. CASE DispatchBulk(v)
      <4> DEFINE ts(known) == { [id |-> i, row |-> 0,
                                 old |-> IF known /\ Cardinality(Hits(i)) = 1
                                         THEN ReadBefore(i, 0) ELSE Blank] : i \in 1..MaxId }
                 j(known) == [tool |-> "bulk_update", pin |-> 0, value |-> v,
                              undoes |-> NoEntry, number |-> 0, targets |-> ts(known)]
      <4>1. \E known \in BOOLEAN : Enqueue(j(known))
        BY <3>1 DEF DispatchBulk
      <4> HIDE DEF ts
      <4>2. \A known : j(known).undoes = NoEntry
        OBVIOUS
      <4> HIDE DEF j
      <4>3. QED
        BY <4>1, <4>2
    <3>2. CASE DispatchAdd(v)
      BY <3>2 DEF DispatchAdd
    <3>3. QED
      BY <1>9, <3>1, <3>2
  <2>2. UNCHANGED <<sheet, job, at, todo, rows, undo, calm>>
    BY <1>9 DEF DispatchBulk, DispatchAdd
  <2>3. QED
    BY <1>6, <1>7, <2>1, <2>2
<1>10. ASSUME Take PROVE UndoInv'
  <2>1. /\ queue # <<>> /\ queue' = Tail(queue) /\ job' = Head(queue)
        /\ todo' = Head(queue).targets /\ Head(queue) \in Job /\ Head(queue) = queue[1]
        /\ UNCHANGED <<sheet, undo, calm, jobs>>
    BY <1>1, <1>10, HeadTailProperties DEF Take
  <2>2. 1 \in 1..Len(queue)
    BY <1>1, <2>1, EmptySeq
  <2>3. SoundUndo(Head(queue))
    BY <1>1, <2>1, <2>2
  <2>4. \A k \in Job : SoundUndo(k) => SoundUndo(k)'
    BY <1>1, <1>5, <2>1
  <2>5. (\A i \in 1..Len(queue) : SoundUndo(queue[i]))'
    BY <1>1, <2>1, <2>4, SoundQueueKept
  <2>6. PICK k \in Job : k = Head(queue) /\ SoundUndo(k) /\ SoundUndo(k)'
    BY <2>1, <2>3, <2>4
  <2>7. SoundUndo(job)'
    BY <2>1, <2>6 DEF SoundUndo
  <2>8. job'.undoes # NoEntry => at' = "find" /\ \A t \in todo' : t.id = job'.undoes.id
    BY <1>10, <2>1, <2>3 DEF Take, SoundUndo
  <2>9. QED
    BY <1>3, <2>1, <2>5, <2>7, <2>8 DEF UndoInv
<1>11. ASSUME UNCHANGED <<sheet, queue, job, undo, calm, jobs>>
       PROVE  /\ (\A i \in 1..Len(queue) : SoundUndo(queue[i]))'
              /\ (job # NoJob => SoundUndo(job))'
              /\ (undo # NoUndo /\ 0 \in calm =>
                    IF undo.at = "reading"
                    THEN ValueAt(undo.row) = ReadBefore(undo.entry.id, 0)
                    ELSE ReadBefore(undo.entry.id, 0) = undo.entry.new)'
              /\ (calm \subseteq 0..jobs)'
  <2>1. \A k \in Job : SoundUndo(k) => SoundUndo(k)'
    BY <1>1, <1>5, <1>11
  <2>2. (\A i \in 1..Len(queue) : SoundUndo(queue[i]))'
    BY <1>1, <1>11, <2>1, SoundQueueKept
  <2>3. (job # NoJob => SoundUndo(job))'
    BY <1>1, <1>11, <2>1 DEF SoundUndo
  <2>4. QED
    BY <1>3, <1>11, <2>2, <2>3 DEF UndoInv
<1>12. ASSUME FindRow PROVE UndoInv'
  <2>1. UNCHANGED <<sheet, queue, job, undo, calm, jobs>>
    BY <1>12 DEF FindRow
  <2>2. PICK t \in todo :
          /\ todo' = todo \ {t}
          /\ \/ /\ Located(t.id, job.pin) # {}
                /\ rows' = {Found(t, job.pin)} /\ at' = "write"
             \/ at' \in {"find", "report"}
    BY <1>12 DEF FindRow, GoOn
  <2>3. at = "find" /\ job # NoJob /\ job \in Job /\ t \in Target /\ t.id \in Nat
    BY <1>1, <1>12 DEF FindRow, TypeOK, Target
  <2>4. ASSUME job.undoes # NoEntry, job.number \in calm, at' = "write"
        PROVE  \A u \in rows' : ValueAt(u.row) = job.undoes.new
    <3>1. /\ job.pin = 0 /\ t.id = job.undoes.id
          /\ ReadBefore(t.id, 0) = job.undoes.new
      BY <1>1, <2>3, <2>4 DEF UndoInv, SoundUndo
    <3>2. Located(t.id, 0) # {} /\ rows' = {Found(t, 0)}
      BY <2>2, <2>4, <3>1
    <3>3. Hits(t.id) = {Min(Located(t.id, 0))}
      BY <2>3, <3>2, LocatedRow DEF TypeOK
    <3>4. Located(t.id, 0) = Hits(t.id)
      BY <3>2 DEF Located
    <3>5. Found(t, 0).row = Min(Hits(t.id))
      BY <2>3, <3>4 DEF Found, Target
    <3>6. ReadBefore(t.id, 0) = ValueAt(Min(Hits(t.id)))
      BY <3>3 DEF ReadBefore
    <3>7. QED
      BY <3>1, <3>2, <3>5, <3>6
  <2>5. \A p : ValueAt(p)' = ValueAt(p)
    BY <1>2, <2>1
  <2>6. (job # NoJob /\ job.undoes # NoEntry =>
           /\ at \in {"find", "write", "report"}
           /\ \A u \in todo : u.id = job.undoes.id
           /\ at = "write" /\ job.number \in calm =>
                \A u \in rows : ValueAt(u.row) = job.undoes.new)'
    BY <2>1, <2>2, <2>3, <2>4, <2>5 DEF UndoInv
  <2>7. QED
    BY <1>11, <2>1, <2>6 DEF UndoInv
<1>13. ASSUME MapRows \/ NumberRow PROVE UndoInv'
  <2>1. UNCHANGED <<sheet, queue, job, undo, calm, jobs>>
    BY <1>13 DEF MapRows, NumberRow
  <2>2. job # NoJob => job.undoes = NoEntry
    BY <1>13 DEF MapRows, NumberRow, UndoInv
  <2>3. QED
    BY <1>11, <2>1, <2>2 DEF UndoInv
<1>14. ASSUME ReadFails \/ Report PROVE UndoInv'
  <2>1. /\ UNCHANGED <<sheet, queue, job, undo, calm, jobs>>
        /\ at' = "report" /\ (todo' = {} \/ todo' = todo)
    BY <1>14 DEF ReadFails, Raise, Report
  <2>2. QED
    BY <1>11, <2>1, TypeStep DEF UndoInv
<1>15. ASSUME Finish PROVE UndoInv'
  <2>1. UNCHANGED <<sheet, queue, undo, calm, jobs>> /\ job' = NoJob
    BY <1>15 DEF Finish
  <2>2. \A k \in Job : SoundUndo(k) => SoundUndo(k)'
    BY <1>1, <1>5, <2>1
  <2>3. (\A i \in 1..Len(queue) : SoundUndo(queue[i]))'
    BY <1>1, <2>1, <2>2, SoundQueueKept
  <2>4. QED
    BY <1>3, <2>1, <2>3 DEF UndoInv
<1>16. ASSUME Crash PROVE UndoInv'
  <2>1. /\ job # NoJob /\ queue' = Append(queue, job) /\ job' = NoJob
        /\ UNCHANGED <<sheet, undo, calm, jobs>>
    BY <1>16 DEF Crash
  <2>2. \A k \in Job : SoundUndo(k) => SoundUndo(k)'
    BY <1>1, <1>5, <2>1
  <2>3. PICK k \in Job : k = job /\ SoundUndo(k)'
    BY <1>1, <2>1, <2>2
  <2>4. (\A i \in 1..Len(queue) : SoundUndo(queue[i]))'
    BY <1>1, <2>1, <2>2, <2>3, SoundQueueKept
  <2>5. QED
    BY <1>3, <2>1, <2>4 DEF UndoInv
\* Whatever changes the sheet leaves no undo calm.
<1>17. ASSUME calm' = {}, UNCHANGED <<queue, job, undo, jobs>>,
              job # NoJob /\ job.undoes # NoEntry =>
                /\ at' \in {"find", "write", "report"}
                /\ todo' \subseteq todo
       PROVE  UndoInv'
  <2>1. \A k \in Job : SoundUndo(k) => SoundUndo(k)'
    BY <1>1, <1>5, <1>17
  <2>2. (\A i \in 1..Len(queue) : SoundUndo(queue[i]))'
    BY <1>1, <1>17, <2>1, SoundQueueKept
  <2>3. (job # NoJob => SoundUndo(job))'
    BY <1>1, <1>17, <2>1 DEF SoundUndo
  <2>4. QED
    BY <1>17, <2>2, <2>3 DEF UndoInv
<1>18. ASSUME WriteAnswered PROVE UndoInv'
  <2>1. /\ calm' = {} /\ UNCHANGED <<queue, job, undo, jobs>>
        /\ todo' = todo /\ at' \in {"find", "report"}
    BY <1>18 DEF WriteAnswered, Effect
  <2>2. QED
    BY <1>17, <2>1
<1>19. ASSUME Retry \/ GiveUp PROVE UndoInv'
  <2>1. /\ UNCHANGED <<queue, job, undo, jobs>>
        /\ EffectOrNot
        /\ \/ UNCHANGED <<at, todo, rows>>
           \/ at' = "report" /\ todo' = {}
           \/ at = "write all"
    BY <1>19 DEF Retry, GiveUp, Raise
  <2>2. CASE calm' = {}
    <3>1. job # NoJob /\ job.undoes # NoEntry =>
            at' \in {"find", "write", "report"} /\ todo' \subseteq todo
      BY <2>1 DEF UndoInv
    <3>2. QED
      BY <1>17, <2>1, <2>2, <3>1
  <2>3. CASE sheet' = sheet /\ calm' = calm
    <3>1. (job # NoJob /\ job.undoes # NoEntry =>
             /\ at \in {"find", "write", "report"}
             /\ \A u \in todo : u.id = job.undoes.id
             /\ at = "write" /\ job.number \in calm =>
                  \A u \in rows : ValueAt(u.row) = job.undoes.new)'
      <4>1. \A p : ValueAt(p)' = ValueAt(p)
        BY <1>2, <2>3
      <4>2. QED
        BY <2>1, <2>3, <4>1 DEF UndoInv
    <3>2. QED
      BY <1>11, <2>1, <2>3, <3>1 DEF UndoInv
  <2>4. QED
    BY <2>1, <2>2, <2>3 DEF EffectOrNot, Effect
<1>20. ASSUME Edit PROVE UndoInv'
  <2>1. calm' = {} /\ UNCHANGED <<queue, job, at, todo, undo, jobs>>
    BY <1>20, Zenon DEF Edit
  <2>2. QED
    BY <1>17, <2>1 DEF UndoInv
<1>21. ASSUME NEW e \in audit, UndoFind(e) PROVE UndoInv'
  <2>1. /\ undo' = [at |-> "reading", entry |-> e,
                    row |-> IF Hits(e.id) = {} THEN 0 ELSE Min(Hits(e.id))]
        /\ calm' = calm \cup {0}
        /\ UNCHANGED <<sheet, queue, job, at, todo, rows, jobs>>
    BY <1>21 DEF UndoFind
  <2>2. ValueAt(undo'.row) = ReadBefore(e.id, 0)
    <3>1. ValueAt(0) = Blank
      BY DEF ValueAt
    <3>2. QED
      BY <2>1, <3>1 DEF ReadBefore
  <2>3. (ValueAt(undo.row) = ReadBefore(undo.entry.id, 0))'
    BY <1>2, <2>1, <2>2
  <2>4. \A k \in Job : SoundUndo(k) => SoundUndo(k)'
    BY <1>1, <1>5, <2>1
  <2>5. (\A i \in 1..Len(queue) : SoundUndo(queue[i]))'
    BY <1>1, <2>1, <2>4, SoundQueueKept
  <2>6. (job # NoJob => SoundUndo(job))'
    BY <1>1, <2>1, <2>4 DEF SoundUndo
  <2>7. (calm \subseteq 0..jobs)'
    BY <1>1, <2>1 DEF UndoInv
  <2>8. QED
    BY <1>4, <2>1, <2>3, <2>5, <2>6, <2>7 DEF UndoInv
<1>22. ASSUME UndoRead PROVE UndoInv'
  <2>1. /\ undo.at = "reading"
        /\ undo' = IF ValueAt(undo.row) = undo.entry.new
                   THEN [undo EXCEPT !.at = "checked"] ELSE NoUndo
        /\ UNCHANGED <<sheet, queue, job, at, todo, rows, calm, jobs>>
    BY <1>22 DEF UndoRead
  <2>2. undo \in Undo /\ undo # NoUndo
    BY <2>1 DEF TypeOK, NoUndo
  <2>3. (undo # NoUndo /\ 0 \in calm =>
           IF undo.at = "reading"
           THEN ValueAt(undo.row) = ReadBefore(undo.entry.id, 0)
           ELSE ReadBefore(undo.entry.id, 0) = undo.entry.new)'
    <3>1. CASE ValueAt(undo.row) = undo.entry.new
      <4>1. undo'.at = "checked" /\ undo'.entry = undo.entry
        BY <2>1, <2>2, <3>1 DEF Undo
      <4>2. 0 \in calm => ReadBefore(undo.entry.id, 0) = undo.entry.new
        BY <2>1, <2>2, <3>1 DEF UndoInv
      <4>3. QED
        BY <1>2, <2>1, <4>1, <4>2
    <3>2. CASE ValueAt(undo.row) # undo.entry.new
      BY <2>1, <3>2
    <3>3. QED
      BY <3>1, <3>2
  <2>4. \A k \in Job : SoundUndo(k) => SoundUndo(k)'
    BY <1>1, <1>5, <2>1
  <2>5. (\A i \in 1..Len(queue) : SoundUndo(queue[i]))'
    BY <1>1, <2>1, <2>4, SoundQueueKept
  <2>6. (job # NoJob => SoundUndo(job))'
    BY <1>1, <2>1, <2>4 DEF SoundUndo
  <2>7. QED
    BY <1>4, <2>1, <2>3, <2>5, <2>6 DEF UndoInv
<1>23. ASSUME UndoEnqueue PROVE UndoInv'
  <2> DEFINE e == undo.entry
             j == [tool |-> "update_cell", pin |-> 0, value |-> e.old,
                   undoes |-> e, number |-> jobs',
                   targets |-> {[id |-> e.id, old |-> e.new, row |-> 0]}]
  <2>1. /\ undo' = NoUndo /\ undo.at = "checked"
        /\ UNCHANGED <<sheet, job, at, todo, rows>>
        /\ \/ /\ Enqueue(j)
              /\ calm' = IF 0 \in calm THEN (calm \ {0}) \cup {jobs'} ELSE calm
           \/ /\ calm' = calm \ {0} /\ UNCHANGED <<queue, jobs>>
    BY <1>23 DEF UndoEnqueue
  <2>2. 0 \in calm => ReadBefore(e.id, 0) = e.new
    BY <2>1 DEF UndoInv, NoUndo
  <2>3. /\ jobs' \in Nat /\ jobs <= jobs' /\ calm' \subseteq calm \cup {0, jobs + 1}
        /\ calm' \subseteq 0..jobs'
    <3>1. calm \subseteq 0..jobs
      BY DEF UndoInv
    <3>2. CASE UNCHANGED jobs /\ calm' = calm \ {0}
      BY <1>1, <3>1, <3>2
    <3>3. CASE Enqueue(j) /\ calm' = IF 0 \in calm THEN (calm \ {0}) \cup {jobs'} ELSE calm
      <4>1. jobs' = jobs + 1
        BY <3>3 DEF Enqueue
      <4>2. calm' \subseteq calm \cup {jobs + 1}
        <5> HIDE DEF j
        <5>1. QED
          BY <3>3, <4>1
      <4>3. QED
        BY <1>1, <3>1, <4>1, <4>2
    <3>4. QED
      BY <2>1, <3>2, <3>3
  <2>4. \A k \in Job : SoundUndo(k) => SoundUndo(k)'
    BY <1>5, <2>1, <2>3
  <2>5. (\A i \in 1..Len(queue) : SoundUndo(queue[i]))'
    <3>1. CASE Enqueue(j) /\ calm' = IF 0 \in calm THEN (calm \ {0}) \cup {jobs'} ELSE calm
      <4>1. PICK k : k = j
        OBVIOUS
      <4>2. /\ k.undoes = e /\ k.tool = "update_cell" /\ k.pin = 0 /\ k.number = jobs'
            /\ \A t \in k.targets : t.id = e.id
        BY <4>1
      <4>3. k \in Job /\ queue' = Append(queue, k) /\ jobs' = jobs + 1
        BY <1>7, <3>1, <4>1 DEF Enqueue
      <4>4. jobs + 1 \in calm' => 0 \in calm
        BY <1>1, <3>1, <4>3 DEF UndoInv
      <4>5. SoundUndo(k)'
        BY <1>1, <1>2, <2>1, <2>2, <4>2, <4>3, <4>4 DEF SoundUndo
      <4>6. QED
        BY <1>1, <2>4, <4>3, <4>5, SoundQueueKept
    <3>2. CASE UNCHANGED queue
      BY <1>1, <2>4, <3>2, SoundQueueKept
    <3>3. QED
      BY <2>1, <3>1, <3>2
  <2>6. (job # NoJob => SoundUndo(job))'
    BY <1>1, <2>1, <2>4 DEF SoundUndo
  <2>7. QED
    BY <1>4, <2>1, <2>3, <2>5, <2>6 DEF UndoInv
<1>24. ASSUME UNCHANGED vars PROVE UndoInv'
  BY <1>4, <1>11, <1>24 DEF vars, UndoInv
<1>25. QED
  BY <1>8, <1>9, <1>10, <1>12, <1>13, <1>14, <1>15, <1>16, <1>18, <1>19, <1>20, <1>21,
     <1>22, <1>23, <1>24
  DEF Next, WorkerStep

\* An undo replaces nothing but what its entry wrote.
THEOREM UndoCorrect == Spec => UndoRestoresOnlyItsOwn
<1> DEFINE P == Writes /\ job.undoes # NoEntry /\ job.number \in calm =>
                  \A t \in rows : ValueAt(t.row) = job.undoes.new
           IInv == TypeOK /\ ShapeInv /\ UndoInv
<1>1. Init => IInv
  BY InitTypes DEF Init, UndoInv
<1>2. IInv /\ [Next]_vars => IInv'
  BY TypeStep, UndoStep
<1>3. IInv => P
  <2>1. SUFFICES ASSUME IInv, Writes, job.undoes # NoEntry, job.number \in calm
                 PROVE  \A t \in rows : ValueAt(t.row) = job.undoes.new
    OBVIOUS
  <2>2. at \in Writing /\ job # NoJob
    BY <2>1, WritesAreCalls DEF TypeOK, Writing
  <2>3. at = "write"
    BY <2>1, <2>2 DEF UndoInv, Writing
  <2>4. QED
    BY <2>1, <2>2, <2>3 DEF UndoInv
<1>4. Spec => [][P]_vars
  <2> HIDE DEF P, IInv
  <2>1. QED
    BY <1>1, <1>2, <1>3, PTL DEF Spec
<1>5. QED
  BY <1>4 DEF UndoRestoresOnlyItsOwn
=============================================================================
