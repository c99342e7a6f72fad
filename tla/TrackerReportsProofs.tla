------------------------- MODULE TrackerReportsProofs -------------------------
(***************************************************************************)
(* Proofs about TrackerReports for any tab, any schema the language model  *)
(* or an admin may give, any aliases, and any number of changes and days.  *)
(***************************************************************************)
EXTENDS TrackerReports, FiniteSetTheorems, SequenceTheorems, WellFoundedInduction, TLAPS

-----------------------------------------------------------------------------
(* The tab *)

Header == Spelling \cup {None}

\* A cell that names somebody.
Somebody == {c \in Cell : NormalisePerson(c) # <<>>}

\* A row of the alias table: a key, and the name it stands for.
Alias == [alias : Seq(Seq(Nat)) \ {<<>>}, canonical : Somebody]

\* A header or none for each column, a cell for each column of each row, and a table of aliases.
TypeInv ==
    /\ raw \in Seq(Header)
    /\ Len(raw) = Len(CellsOf)
    /\ rows \in Seq(Seq(Cell))
    /\ \A i \in DOMAIN rows : Len(rows[i]) = Len(CellsOf)
    /\ today \in Nat
    /\ aliases \in Seq(Alias)

\* Every start has them.
LEMMA TypeInit == Init => TypeInv
<1> SUFFICES ASSUME Init PROVE TypeInv
  OBVIOUS
<1>1. PICK sheet \in Sheets : raw = sheet[1] /\ rows = sheet[2]
  BY DEF Init
<1>2. aliases \in Seq(Alias)
  BY EmptySeq DEF Init
<1> QED
  BY <1>1, <1>2, SheetsAssumption DEF Init, TypeInv, Header

\* An edited cell leaves a row as long as it was.
LEMMA EditType ==
  ASSUME TypeInv, EditCell
  PROVE  TypeInv'
<1>1. PICK i \in DOMAIN rows, c \in DOMAIN raw : \E cell \in CellsOf[c] \ {rows[i][c]} :
        rows' = [rows EXCEPT ![i][c] = cell] /\ UNCHANGED <<raw, config, aliases, today>>
  BY DEF EditCell
<1>2. PICK cell \in CellsOf[c] :
        rows' = [rows EXCEPT ![i][c] = cell] /\ UNCHANGED <<raw, aliases, today>>
  BY <1>1
<1> DEFINE row == [rows[i] EXCEPT ![c] = cell]
<1>3. cell \in Cell
  <2>1. DOMAIN raw = DOMAIN CellsOf
    BY SheetsAssumption DEF TypeInv
  <2>2. CellsOf[c] \in SUBSET Cell
    BY <2>1, SheetsAssumption
  <2> QED
    BY <1>2, <2>2
<1>4. rows[i] \in Seq(Cell) /\ c \in 1..Len(rows[i])
  BY DEF TypeInv
<1>5. row \in Seq(Cell) /\ Len(row) = Len(rows[i])
  BY <1>3, <1>4, ExceptSeq
<1>6. rows' = [rows EXCEPT ![i] = row]
  BY <1>2
<1>7. rows' \in Seq(Seq(Cell)) /\ DOMAIN rows' = DOMAIN rows
  BY <1>5, <1>6, ExceptSeq DEF TypeInv
<1>8. \A k \in DOMAIN rows : rows'[k] = IF k = i THEN row ELSE rows[k]
  BY <1>6
<1> QED
  BY <1>2, <1>5, <1>7, <1>8 DEF TypeInv

\* A sequence without one of its elements is one.
LEMMA RemoveAtType ==
  ASSUME NEW X, NEW s \in Seq(X), NEW i \in 1..Len(s)
  PROVE  RemoveAt(s, i) \in Seq(X)
<1>1. Len(s) \in Nat /\ \A j \in 1..Len(s) : s[j] \in X
  BY LenProperties, ElementOfSeq
<1>2. SubSeq(s, 1, i - 1) \in Seq(X)
  BY <1>1, SubSeqProperties
<1>3. SubSeq(s, i + 1, Len(s)) \in Seq(X)
  BY <1>1, SubSeqProperties
<1> QED
  BY <1>2, <1>3, ConcatProperties DEF RemoveAt

\* A recorded alias is a row of the table.
LEMMA CreateAliasType ==
  ASSUME TypeInv, CreateAlias
  PROVE  TypeInv'
<1>1. PICK pair \in AliasPairs :
        /\ NormalisePerson(pair[1]) # <<>>
        /\ pair[2] # Blank
        /\ aliases' = Append(aliases, [alias |-> NormalisePerson(pair[1]), canonical |-> pair[2]])
        /\ UNCHANGED <<raw, rows, today>>
  BY DEF CreateAlias
<1>2. /\ NormalisePerson(pair[1]) \in Seq(Seq(Nat)) \ {<<>>}
      /\ pair[2] \in Somebody
  BY <1>1, AliasesAssumption DEF Cell, NormalisePerson, Somebody
<1>3. [alias |-> NormalisePerson(pair[1]), canonical |-> pair[2]] \in Alias
  BY <1>2 DEF Alias
<1>4. aliases' \in Seq(Alias)
  BY <1>1, <1>3, AppendProperties DEF TypeInv
<1> QED
  BY <1>1, <1>4 DEF TypeInv

\* Nothing anybody changes takes a cell or a header away.
LEMMA TypeStep ==
  ASSUME TypeInv, [Next]_vars
  PROVE  TypeInv'
<1>1. CASE EditCell
  BY <1>1, EditType
<1>2. CASE RenameHeader
  <2>1. PICK r \in Renamings :
          raw' = [raw EXCEPT ![r[1]] = r[2]] /\ UNCHANGED <<rows, aliases, today>>
    BY <1>2 DEF RenameHeader
  <2>2. r[2] \in Header
    BY SheetsAssumption DEF Header
  <2>3. raw' \in Seq(Header) /\ Len(raw') = Len(raw)
    <3>1. CASE r[1] \in 1..Len(raw)
      BY <2>1, <2>2, <3>1, ExceptSeq DEF TypeInv
    <3>2. CASE r[1] \notin 1..Len(raw)
      <4>1. DOMAIN raw = 1..Len(raw)
        BY DEF TypeInv
      <4>2. raw' = raw
        BY <2>1, <3>2, <4>1 DEF TypeInv
      <4> QED
        BY <4>2 DEF TypeInv
    <3> QED
      BY <3>1, <3>2
  <2> QED
    BY <2>1, <2>3 DEF TypeInv
<1>3. CASE DetectAllTabs
  BY <1>3 DEF DetectAllTabs, TypeInv
<1>4. CASE UpdateProject
  BY <1>4 DEF UpdateProject, TypeInv
<1>5. CASE CreateAlias
  BY <1>5, CreateAliasType
<1>6. CASE DeleteAlias
  <2>1. PICK a \in DOMAIN aliases :
          aliases' = RemoveAt(aliases, a) /\ UNCHANGED <<raw, rows, today>>
    BY <1>6 DEF DeleteAlias
  <2>2. a \in 1..Len(aliases)
    BY LenProperties DEF TypeInv
  <2>3. aliases' \in Seq(Alias)
    BY <2>1, <2>2, RemoveAtType DEF TypeInv
  <2> QED
    BY <2>1, <2>3 DEF TypeInv
<1>7. CASE NextDay
  BY <1>7 DEF NextDay, TypeInv
<1>8. CASE UNCHANGED vars
  BY <1>8 DEF vars, TypeInv
<1> QED
  BY <1>1, <1>2, <1>3, <1>4, <1>5, <1>6, <1>7, <1>8 DEF Next

\* The tab stays a table.
THEOREM TabCorrect == Spec => []TypeInv
<1> QED
  BY TypeInit, TypeStep, PTL DEF Spec

-----------------------------------------------------------------------------
(* Numbers *)

\* A set of naturals that is not empty has a least member.
LEMMA LeastExists ==
  ASSUME NEW S \in SUBSET Nat, S # {}
  PROVE  \E x \in S : \A y \in S : x <= y
<1> DEFINE R == OpToRel(<, Nat)
<1>1. IsWellFoundedOn(R, Nat)
  BY NatLessThanWellFounded
<1>2. PICK x \in S : \A y \in S : ~(<<y, x>> \in R)
  BY <1>1, WFMin, Zenon
<1>3. \A y \in S : ~(y < x)
  BY <1>2 DEF OpToRel
<1> QED
  BY <1>3

\* One with a bound has a greatest.
LEMMA GreatestExists ==
  ASSUME NEW n \in Nat, NEW S \in SUBSET (1..n), S # {}
  PROVE  \E x \in S : \A y \in S : y <= x
<1> DEFINE T == {n - x : x \in S}
<1>1. T \in SUBSET Nat /\ T # {}
  <2>1. \A x \in S : x \in 1..n
    OBVIOUS
  <2>2. \A x \in 1..n : n - x \in Nat
    OBVIOUS
  <2>3. \A x \in S : n - x \in Nat
    BY <2>1, <2>2
  <2> QED
    BY <2>3
<1>2. \E t \in T : \A u \in T : t <= u
  <2> HIDE DEF T
  <2> QED
    BY <1>1, LeastExists
<1>3. PICK x \in S : \A u \in T : n - x <= u
  BY <1>2
<1>4. \A y \in S : n - x <= n - y
  BY <1>3
<1> QED
  BY <1>4

-----------------------------------------------------------------------------
(* Columns *)

\* The stripped header row has as many columns as the sheet's.
LEMMA HeadersType ==
  ASSUME TypeInv
  PROVE  /\ Len(raw) \in Nat
         /\ DOMAIN Headers = 1..Len(raw)
         /\ DOMAIN raw = 1..Len(raw)
         /\ \A c \in 1..Len(raw) : Headers[c] \in Header
         /\ \A h : h \in Named <=> h # None /\ \E c \in 1..Len(raw) : Headers[c] = h
         /\ Named \subseteq Spelling
<1>1. Len(raw) \in Nat /\ DOMAIN raw = 1..Len(raw) /\ \A c \in 1..Len(raw) : raw[c] \in Header
  BY DEF TypeInv
<1>2. DOMAIN Headers = 1..Len(raw)
  BY <1>1 DEF Headers
<1>3. \A c \in 1..Len(raw) : Headers[c] \in Header
  BY <1>1, SpellingAssumption DEF Headers, Header
<1>4. \A h : h \in Named <=> h # None /\ \E c \in 1..Len(raw) : Headers[c] = h
  BY <1>2 DEF Named, ToSet
<1> QED
  BY <1>1, <1>2, <1>3, <1>4 DEF Header

\* The first of a sequence's elements in a set is one of them.
LEMMA FirstInProperties ==
  ASSUME NEW n \in Nat, NEW s, DOMAIN s = 1..n, NEW S
  PROVE  \/ FirstIn(s, S) = None /\ \A i \in 1..n : s[i] \notin S
         \/ \E i \in 1..n : s[i] \in S /\ FirstIn(s, S) = s[i]
<1> DEFINE hits == {i \in DOMAIN s : s[i] \in S}
           m == CHOOSE i \in hits : \A j \in hits : i <= j
<1>1. CASE hits = {}
  BY <1>1 DEF FirstIn
<1>2. CASE hits # {}
  <2>1. \E i \in hits : \A j \in hits : i <= j
    <3>1. hits \in SUBSET Nat
      OBVIOUS
    <3> HIDE DEF hits
    <3> QED
      BY <1>2, <3>1, LeastExists
  <2>2. m \in hits
    BY <2>1
  <2>3. FirstIn(s, S) = s[m]
    BY <1>2 DEF FirstIn
  <2> HIDE DEF m
  <2> QED
    BY <2>2, <2>3
<1> QED
  BY <1>1, <1>2

\* A wanted column resolves to a column of the tab, spelled like it but for case and
\* spacing, or to none when no column is.
LEMMA ResolveNamed ==
  ASSUME TypeInv, NEW w
  PROVE  \/ /\ ResolveHeader(Headers, w) = None
            /\ \A c \in 1..Len(raw) : w = None \/ ~ SameHeader(Headers[c], w)
         \/ /\ ResolveHeader(Headers, w) \in Named
            /\ SameHeader(ResolveHeader(Headers, w), w)
<1> DEFINE like == {h \in Spelling : SameHeader(h, w)}
<1>1. CASE w = None
  BY <1>1 DEF ResolveHeader
<1>2. CASE w # None /\ w \in ToSet(Headers)
  BY <1>2 DEF ResolveHeader, Named, SameHeader
<1>3. CASE w # None /\ w \notin ToSet(Headers)
  <2>1. ResolveHeader(Headers, w) = FirstIn(Headers, like)
    BY <1>3 DEF ResolveHeader
  <2>2. \/ FirstIn(Headers, like) = None /\ \A c \in 1..Len(raw) : Headers[c] \notin like
        \/ \E c \in 1..Len(raw) : Headers[c] \in like /\ FirstIn(Headers, like) = Headers[c]
    <3> HIDE DEF like
    <3> QED
      BY HeadersType, FirstInProperties
  <2>3. CASE FirstIn(Headers, like) = None /\ \A c \in 1..Len(raw) : Headers[c] \notin like
    <3>1. \A c \in 1..Len(raw) : ~ SameHeader(Headers[c], w)
      BY <2>3, HeadersType DEF SameHeader, Header
    <3> QED
      BY <2>1, <2>3, <3>1
  <2>4. CASE \E c \in 1..Len(raw) : Headers[c] \in like /\ FirstIn(Headers, like) = Headers[c]
    BY <2>1, <2>4, HeadersType, SpellingAssumption
  <2> QED
    BY <2>2, <2>3, <2>4
<1> QED
  BY <1>1, <1>2, <1>3

\* Under a header a row holds the cell of a column with that header.
LEMMA ColumnOf ==
  ASSUME TypeInv, NEW h \in Named
  PROVE  \E c \in 1..Len(raw) : Headers[c] = h /\ \A row : RowDict(row)[h] = row[c]
<1> DEFINE cols == {c \in 1..Len(raw) : Headers[c] = h}
           m == CHOOSE c \in DOMAIN Headers :
                    /\ Headers[c] = h
                    /\ \A d \in DOMAIN Headers : Headers[d] = h => d <= c
<1>1. \E c \in cols : \A d \in cols : d <= c
  <2>1. cols \in SUBSET (1..Len(raw)) /\ cols # {} /\ Len(raw) \in Nat
    BY HeadersType
  <2> HIDE DEF cols
  <2> QED
    BY <2>1, GreatestExists
<1>2. \E c \in DOMAIN Headers : Headers[c] = h /\ \A d \in DOMAIN Headers : Headers[d] = h => d <= c
  BY <1>1, HeadersType
<1>3. m \in DOMAIN Headers /\ Headers[m] = h
  BY <1>2
<1>4. \A row : RowDict(row)[h] = row[m]
  BY DEF RowDict
<1> HIDE DEF m
<1> QED
  BY <1>3, <1>4, HeadersType

\* What the views read of the table is cells.
LEMMA ValueType ==
  ASSUME TypeInv, NEW i \in DOMAIN rows, NEW h \in Named
  PROVE  RowDicts[i][h] \in Cell /\ RowDicts[i][h] = RowDict(rows[i])[h]
<1>1. PICK c \in 1..Len(raw) : RowDict(rows[i])[h] = rows[i][c]
  BY ColumnOf
<1>2. rows[i] \in Seq(Cell) /\ c \in 1..Len(rows[i])
  BY DEF TypeInv
<1> QED
  BY <1>1, <1>2 DEF RowDicts

\* When no two headers differ by case alone, two columns of the tab that are spelled alike
\* are one.
LEMMA OneSpelling ==
  ASSUME TypeInv, HeadersDistinct, NEW g \in Named, NEW h \in Named, Fold[g] = Fold[h]
  PROVE  g = h
<1>1. g # None /\ h # None
  BY DEF Named
<1>2. PICK c \in 1..Len(raw) : Headers[c] = g
  BY HeadersType
<1>3. PICK d \in 1..Len(raw) : Headers[d] = h
  BY HeadersType
<1>4. SameHeader(Headers[c], Headers[d])
  BY <1>1, <1>2, <1>3 DEF SameHeader
<1>5. c = d
  BY <1>4, HeadersType DEF HeadersDistinct
<1> QED
  BY <1>2, <1>3, <1>5

\* When no two headers differ by case alone, the agent's reports look a column up where
\* the views do.
LEMMA IndexAgrees ==
  ASSUME TypeInv, HeadersDistinct, NEW w
  PROVE  /\ ResolveHeader(Headers, w) = None => Index(w) = 0
         /\ ResolveHeader(Headers, w) # None =>
                /\ Index(w) \in 1..Len(raw)
                /\ \A i \in DOMAIN rows :
                      rows[i][Index(w)] = RowDicts[i][ResolveHeader(Headers, w)]
<1> DEFINE h == ResolveHeader(Headers, w)
           hits == IF w = None THEN {} ELSE {c \in DOMAIN Headers : SameHeader(Headers[c], w)}
<1>0. Index(w) = IF hits = {} THEN 0 ELSE CHOOSE c \in hits : \A d \in hits : d <= c
  BY DEF Index
<1>1. CASE h = None
  <2>1. hits = {}
    BY <1>1, ResolveNamed, HeadersType
  <2> QED
    BY <1>0, <1>1, <2>1
<1>2. CASE h # None
  <2>1. h \in Named /\ SameHeader(h, w)
    BY <1>2, ResolveNamed
  <2>2. PICK c \in 1..Len(raw) : Headers[c] = h /\ \A row : RowDict(row)[h] = row[c]
    <3> HIDE DEF h
    <3> QED
      BY <2>1, ColumnOf
  <2>3. c \in hits
    BY <2>1, <2>2, HeadersType DEF SameHeader
  <2>4. \A d \in hits : d = c
    <3> SUFFICES ASSUME NEW d \in hits PROVE d = c
      OBVIOUS
    <3>1. SameHeader(Headers[d], Headers[c])
      BY <2>1, <2>2 DEF SameHeader
    <3> QED
      BY <2>3, <3>1 DEF HeadersDistinct
  <2>5. hits = {c}
    BY <2>3, <2>4
  <2>6. Index(w) = c
    <3> HIDE DEF hits, h
    <3>1. (CHOOSE e \in {c} : \A d \in {c} : d <= e) = c
      BY HeadersType
    <3> QED
      BY <1>0, <2>5, <3>1
  <2>7. \A i \in DOMAIN rows : RowDicts[i][h] = rows[i][c]
    BY <2>2 DEF RowDicts
  <2> QED
    BY <1>2, <2>6, <2>7
<1> QED
  BY <1>1, <1>2

\* The grid's columns are columns of the tab or none, and the timeline's deadline is the
\* grid's or none.
LEMMA GridType ==
  ASSUME TypeInv
  PROVE  /\ Grid.rows = RowDicts /\ DOMAIN RowDicts = DOMAIN rows
         /\ {Grid.id, Grid.status, Grid.due, Grid.bars.start, Grid.bars.due} \subseteq Named \cup {None}
         /\ Grid.bars.due \in {None, Grid.due}
         /\ \A i \in DOMAIN rows, h \in Named \cup {None} : Value(Grid, i, h) \in Cell
<1>1. \A w : ResolveHeader(Headers, w) \in Named \cup {None}
  BY ResolveNamed
<1>2. /\ Grid.rows = RowDicts /\ DOMAIN RowDicts = DOMAIN rows
      /\ Grid.id = ResolveHeader(Headers, Schema.id)
      /\ Grid.status = ResolveHeader(Headers, Schema.status)
      /\ Grid.due = ResolveHeader(Headers, GetDueColumn(Schema, Headers))
      /\ Grid.bars = TimelineColumns
  BY DEF Grid, RowDicts
<1>3. /\ TimelineColumns.start \in Named \cup {None}
      /\ TimelineColumns.due \in {None, ResolveHeader(Headers, GetDueColumn(Schema, Headers))}
  BY <1>1 DEF TimelineColumns, GetDueColumn
<1>4. Blank \in Cell
  <2>1. <<>> \in Seq(Seq(Nat))
    OBVIOUS
  <2> QED
    BY <2>1 DEF Blank, Cell
<1>5. \A i \in DOMAIN rows, h \in Named \cup {None} : Value(Grid, i, h) \in Cell
  BY <1>2, <1>4, ValueType DEF Value
<1> QED
  BY <1>1, <1>2, <1>3, <1>5

-----------------------------------------------------------------------------
(* What is late *)

Late == {i \in DOMAIN rows : IsOverdue(Grid, i)}

\* The grid's overdue filter leaves the late rows.
LEMMA FilterLate ==
  ASSUME TypeInv
  PROVE  FilterRows(Grid, [NoFilter EXCEPT !.overdue = TRUE], <<>>) = Late
<1> DEFINE f == [NoFilter EXCEPT !.overdue = TRUE]
<1>1. f.q = Blank /\ f.status = Blank /\ f.person = <<>> /\ f.overdue
  BY DEF NoFilter
<1> QED
  BY <1>1, GridType DEF FilterRows, Late

\* The workload counts them.
LEMMA WorkloadLate ==
  ASSUME TypeInv, NEW resolver, NEW p \in DOMAIN Workload(Grid, resolver)
  PROVE  Workload(Grid, resolver)[p].overdue_items =
            Cardinality({c \in Credits(Grid, resolver) : c.person = p /\ c.row \in Late})
<1>1. \A c \in Credits(Grid, resolver) : c.row \in DOMAIN rows
  BY GridType DEF Credits
<1>2. Workload(Grid, resolver)[p].overdue_items =
            Cardinality({c \in Credits(Grid, resolver) : c.person = p /\ IsOverdue(Grid, c.row)})
  BY DEF Workload
<1>3. {c \in Credits(Grid, resolver) : c.person = p /\ IsOverdue(Grid, c.row)} =
        {c \in Credits(Grid, resolver) : c.person = p /\ c.row \in Late}
  BY <1>1 DEF Late
<1> QED
  BY <1>2, <1>3

\* So does the digest, which looks further ahead.
LEMMA DigestLate ==
  ASSUME TypeInv
  PROVE  {i \in Counted(Grid) : Bucket(Grid, i) = "overdue"} = Late
<1> SUFFICES ASSUME NEW i \in DOMAIN rows
             PROVE  (i \in Counted(Grid) /\ Bucket(Grid, i) = "overdue") <=> IsOverdue(Grid, i)
  BY GridType DEF Counted, Late
<1>1. Due(Grid, i) \in Int \cup {NoDay}
  BY GridType DEF Due, ParseDate, Cell
<1>2. today \in Nat /\ Lookahead \in Nat
  BY ViewsAssumption DEF TypeInv
<1>3. Due(Grid, i) \in Int /\ Due(Grid, i) < today => Due(Grid, i) <= today + Lookahead
  BY <1>2
<1>4. i \in Counted(Grid) <=> /\ Due(Grid, i) # NoDay
                              /\ ~ IsFinishedStatus(Value(Grid, i, Grid.status))
                              /\ Due(Grid, i) <= today + Lookahead
  BY GridType DEF Counted
<1>5. Bucket(Grid, i) = "overdue" <=> Due(Grid, i) < today
  BY DEF Bucket
<1> QED
  BY <1>1, <1>3, <1>4, <1>5 DEF IsOverdue

\* The timeline draws a row late when the later of its dates is past.
LEMMA ItemLate ==
  ASSUME TypeInv, NEW i \in DOMAIN rows,
         NEW start, start = Value(Grid, i, Grid.bars.start)
  PROVE  Item(Grid, i).overdue <=>
            /\ IsOverdue(Grid, i)
            /\ Grid.bars.due # None
            /\ start = Blank \/ (ParseDate(start) # NoDay /\ ParseDate(start) < today)
<1> DEFINE due == Value(Grid, i, Grid.bars.due)
           open == ~ IsFinishedStatus(Value(Grid, i, Grid.status))
           a == IF start = Blank THEN ParseDate(due) ELSE ParseDate(start)
           b == IF due = Blank THEN ParseDate(start) ELSE ParseDate(due)
           kind == ClassifyRow(start, due)
           drawn == kind \in {"bar", "milestone"}
           reversed == drawn /\ b < a
           end == IF reversed THEN a ELSE b
<1>1. start \in Cell /\ due \in Cell
  BY GridType
<1>2. /\ ParseDate(start) \in Int \cup {NoDay}
      /\ ParseDate(due) \in Int \cup {NoDay}
      /\ today \in Nat
      /\ NoDay \notin Int
  BY <1>1, ViewsAssumption DEF Cell, ParseDate, TypeInv
<1>3. /\ start = Blank => ParseDate(start) = NoDay
      /\ due = Blank => ParseDate(due) = NoDay
  BY DEF Blank, ParseDate
<1>4. Item(Grid, i).overdue <=> drawn /\ (kind = "bar" \/ start = Blank) /\ end < today /\ open
  BY DEF Item
<1>5. Grid.bars.due = None => due = Blank
  BY DEF Value
<1>6. Grid.bars.due # None => Due(Grid, i) = ParseDate(due)
  BY GridType DEF Due
<1>7. IsOverdue(Grid, i) <=> Due(Grid, i) # NoDay /\ Due(Grid, i) < today /\ open
  BY DEF IsOverdue
<1> DEFINE k == CASE start = Blank /\ due = Blank -> "undated"
                  [] \E cell \in {start, due} : cell # Blank /\ ParseDate(cell) = NoDay -> "unparsed"
                  [] start # Blank /\ due # Blank /\ NoDay \notin {ParseDate(start), ParseDate(due)} -> "bar"
                  [] OTHER -> "milestone"
<1>8. kind = k
  BY DEF ClassifyRow
<1> HIDE DEF due, open, kind, k
<1>9. CASE due = Blank
  <2>1. kind # "bar" /\ (start = Blank => ~ drawn)
    BY <1>8, <1>9 DEF k
  <2> QED
    BY <1>3, <1>4, <1>6, <1>7, <1>9, <2>1
<1>10. CASE due # Blank /\ ParseDate(due) = NoDay
  <2>1. kind = "unparsed"
    BY <1>8, <1>10 DEF k
  <2> QED
    BY <1>4, <1>6, <1>7, <1>5, <1>10, <2>1
<1>11. CASE due # Blank /\ ParseDate(due) # NoDay /\ start = Blank
  <2>1. kind = "milestone" /\ drawn
    BY <1>8, <1>11 DEF k
  <2>2. end = ParseDate(due)
    BY <1>11
  <2> QED
    BY <1>4, <1>5, <1>6, <1>7, <1>11, <2>1, <2>2
<1>12. CASE due # Blank /\ ParseDate(due) # NoDay /\ start # Blank /\ ParseDate(start) = NoDay
  <2>1. kind = "unparsed"
    BY <1>8, <1>12 DEF k
  <2> QED
    BY <1>4, <1>12, <2>1
<1>13. CASE due # Blank /\ ParseDate(due) # NoDay /\ start # Blank /\ ParseDate(start) # NoDay
  <2>1. kind = "bar" /\ drawn
    BY <1>8, <1>13 DEF k
  <2>2. a = ParseDate(start) /\ b = ParseDate(due)
    BY <1>13
  <2>3. end < today <=> ParseDate(start) < today /\ ParseDate(due) < today
    BY <1>2, <1>13, <2>1, <2>2
  <2> QED
    BY <1>4, <1>5, <1>6, <1>7, <1>13, <2>1, <2>3
<1> QED
  BY <1>9, <1>10, <1>11, <1>12, <1>13

\* A blank status is an unfinished one.
LEMMA BlankOpen == ~ IsFinishedStatus(Blank)
BY DEF IsFinishedStatus, Blank

\* The agent's report looks for the status and the deadline where the views do.
LEMMA ReportColumns ==
  ASSUME TypeInv, HeadersDistinct, SameStatus, SummarizeOverdue.ok
  PROVE  LET date == Index(GetDueColumn(Schema, Headers))
             status == Index(Or(Schema.status, DevStatus))
         IN  /\ Grid.due # None
             /\ date # 0
             /\ Index(Or(Schema.id, RicefwId)) # 0
             /\ \A i \in DOMAIN rows :
                   /\ rows[i][date] = Value(Grid, i, Grid.due)
                   /\ (status = 0 \/ ~ IsFinishedStatus(rows[i][status])) <=>
                        ~ IsFinishedStatus(Value(Grid, i, Grid.status))
<1> DEFINE date == Index(GetDueColumn(Schema, Headers))
           status == Index(Or(Schema.status, DevStatus))
<1>1. date # 0 /\ Index(Or(Schema.id, RicefwId)) # 0
  BY DEF SummarizeOverdue
<1>2. /\ Grid.due = ResolveHeader(Headers, GetDueColumn(Schema, Headers))
      /\ Grid.status = ResolveHeader(Headers, Schema.status)
      /\ Grid.rows = RowDicts
  BY DEF Grid
<1>3. Grid.due # None /\ \A i \in DOMAIN rows : rows[i][date] = Value(Grid, i, Grid.due)
  BY <1>1, <1>2, IndexAgrees DEF Value
<1>4. ASSUME NEW i \in DOMAIN rows
      PROVE  (status = 0 \/ ~ IsFinishedStatus(rows[i][status])) <=>
                ~ IsFinishedStatus(Value(Grid, i, Grid.status))
  <2>1. CASE Schema.status = None
    <3>1. status = 0
      BY <2>1 DEF Or, SameStatus
    <3>2. Grid.status = None
      BY <1>2, <2>1 DEF ResolveHeader
    <3> QED
      BY <3>1, <3>2, BlankOpen DEF Value
  <2>2. CASE Schema.status # None /\ Grid.status = None
    <3>1. status = 0
      BY <1>2, <2>2, IndexAgrees DEF Or
    <3> QED
      BY <2>2, <3>1, BlankOpen DEF Value
  <2>3. CASE Schema.status # None /\ Grid.status # None
    <3>1. /\ status \in 1..Len(raw)
          /\ rows[i][status] = Value(Grid, i, Grid.status)
      BY <1>2, <2>3, IndexAgrees DEF Or, Value
    <3>2. status # 0
      BY <3>1, HeadersType
    <3> QED
      BY <3>1, <3>2
  <2> QED
    BY <2>1, <2>2, <2>3
<1> QED
  BY <1>1, <1>3, <1>4

\* It reports the late rows.
LEMMA ReportLate ==
  ASSUME TypeInv, HeadersDistinct, SameStatus, SummarizeOverdue.ok
  PROVE  SummarizeOverdue.overdue = Late
<1> DEFINE date == Index(GetDueColumn(Schema, Headers))
           status == Index(Or(Schema.status, DevStatus))
           open == {i \in DOMAIN rows : status = 0 \/ ~ IsFinishedStatus(rows[i][status])}
           dated == {i \in open : ParseDate(rows[i][date]) # NoDay}
<1>1. SummarizeOverdue.overdue = {i \in dated : ParseDate(rows[i][date]) < today}
  BY ReportColumns DEF SummarizeOverdue
<1>2. \A i \in DOMAIN rows :
        (i \in dated /\ ParseDate(rows[i][date]) < today) <=> IsOverdue(Grid, i)
  BY ReportColumns DEF IsOverdue, Due
<1> QED
  BY <1>1, <1>2 DEF Late

\* In every table the surfaces agree on what is late.
LEMMA TypeOverdue ==
  ASSUME TypeInv
  PROVE  OverdueAgrees
<1> SUFFICES ASSUME NEW g \in {Grid},
                    NEW late \in {FilterRows(g, [NoFilter EXCEPT !.overdue = TRUE], <<>>)},
                    NEW resolver \in Resolvers, NEW report \in {SummarizeOverdue},
                    NEW credits \in {Credits(g, resolver)}, NEW workload \in {Workload(g, resolver)}
             PROVE  /\ \A p \in DOMAIN workload :
                        workload[p].overdue_items = Cardinality({c \in credits : c.person = p /\ c.row \in late})
                    /\ HasDigest(g) => {i \in Counted(g) : Bucket(g, i) = "overdue"} = late
                    /\ Timeline(g, DOMAIN rows, None, resolver).overdue =
                        {i \in late :
                            /\ g.bars.due # None
                            /\ LET start == Value(g, i, g.bars.start)
                               IN  start = Blank \/ (ParseDate(start) # NoDay /\ ParseDate(start) < today)}
                    /\ HeadersDistinct /\ SameStatus /\ report.ok => report.overdue = late
  BY DEF OverdueAgrees
<1>0. g = Grid
  OBVIOUS
<1>1. late = Late
  BY <1>0, FilterLate
<1>2. \A p \in DOMAIN workload :
        workload[p].overdue_items = Cardinality({c \in credits : c.person = p /\ c.row \in late})
  <2> SUFFICES ASSUME NEW p \in DOMAIN workload
               PROVE  workload[p].overdue_items = Cardinality({c \in credits : c.person = p /\ c.row \in late})
    OBVIOUS
  <2>1. workload = Workload(Grid, resolver) /\ credits = Credits(Grid, resolver)
    BY <1>0
  <2>2. Workload(Grid, resolver)[p].overdue_items =
            Cardinality({c \in Credits(Grid, resolver) : c.person = p /\ c.row \in Late})
    BY <2>1, WorkloadLate
  <2> QED
    BY <1>1, <2>1, <2>2
<1>3. {i \in Counted(g) : Bucket(g, i) = "overdue"} = late
  BY <1>0, <1>1, DigestLate
<1>4. Timeline(g, DOMAIN rows, None, resolver).overdue =
        {i \in late :
            /\ g.bars.due # None
            /\ LET start == Value(g, i, g.bars.start)
               IN  start = Blank \/ (ParseDate(start) # NoDay /\ ParseDate(start) < today)}
  <2> DEFINE item == [i \in DOMAIN rows |-> Item(g, i)]
  <2>1. Timeline(g, DOMAIN rows, None, resolver).overdue = {i \in DOMAIN rows : item[i].overdue}
    BY DEF Timeline, BuildTimeline
  <2>2. \A i \in DOMAIN rows : item[i].overdue <=>
            /\ i \in Late
            /\ g.bars.due # None
            /\ LET start == Value(g, i, g.bars.start)
               IN  start = Blank \/ (ParseDate(start) # NoDay /\ ParseDate(start) < today)
    BY <1>0, ItemLate DEF Late
  <2>3. Late \subseteq DOMAIN rows
    BY DEF Late
  <2> HIDE DEF item
  <2> QED
    BY <1>1, <2>1, <2>2, <2>3
<1>5. HeadersDistinct /\ SameStatus /\ report.ok => report.overdue = late
  BY <1>1, ReportLate
<1> QED
  BY <1>2, <1>3, <1>4, <1>5

\* The grid's overdue filter, the workload, the digest, the timeline and the agent's report
\* agree on which rows are late, for any tab, schema, aliases and date.
THEOREM OverdueCorrect == Spec => []OverdueAgrees
<1> QED
  BY TabCorrect, TypeOverdue, PTL

-----------------------------------------------------------------------------
(* What is missing *)

\* The health panel's lists, cell by cell.
LEMMA Assessed ==
  ASSUME TypeInv
  PROVE  /\ \A i \in DOMAIN rows, h \in DateHeaders(Grid) :
               <<i, h>> \in AssessTab(Grid).unreadable_date <=>
                    Value(Grid, i, h) # Blank /\ ParseDate(Value(Grid, i, h)) = NoDay
         /\ \A f \in AssessTab(Grid).unreadable_date : f \in (DOMAIN rows) \X DateHeaders(Grid)
         /\ Grid.due # None => /\ Grid.due \in DateHeaders(Grid)
                               /\ AssessTab(Grid).no_deadline = BlankIn(Grid, Grid.due)
         /\ Grid.id # None => AssessTab(Grid).no_id = BlankIn(Grid, Grid.id)
         /\ AssessTab(Grid).duplicate_id =
                IF Grid.id = None THEN {}
                ELSE Duplicates([i \in DOMAIN rows |-> Grid.rows[i][Grid.id]])
<1>1. AssessTab(Grid).unreadable_date =
        {f \in (DOMAIN rows) \X DateHeaders(Grid) :
            LET cell == Grid.rows[f[1]][f[2]] IN cell # Blank /\ ParseDate(cell) = NoDay}
  BY DEF AssessTab
<1>2. None \notin DateHeaders(Grid)
  BY DEF DateHeaders
<1>3. \A i \in DOMAIN rows, h \in DateHeaders(Grid) : Value(Grid, i, h) = Grid.rows[i][h]
  BY <1>2 DEF Value
<1>4. Grid.due # None => Grid.due \in DateHeaders(Grid)
  BY DEF DateHeaders
<1>5. /\ Grid.due # None => AssessTab(Grid).no_deadline = BlankIn(Grid, Grid.due)
      /\ Grid.id # None => AssessTab(Grid).no_id = BlankIn(Grid, Grid.id)
      /\ AssessTab(Grid).duplicate_id =
            IF Grid.id = None THEN {} ELSE Duplicates([i \in DOMAIN rows |-> Grid.rows[i][Grid.id]])
  BY DEF AssessTab
<1>6. \A i \in DOMAIN rows, h \in DateHeaders(Grid) :
        <<i, h>> \in AssessTab(Grid).unreadable_date <=>
            Value(Grid, i, h) # Blank /\ ParseDate(Value(Grid, i, h)) = NoDay
  BY <1>1, <1>3
<1>7. \A f \in AssessTab(Grid).unreadable_date : f \in (DOMAIN rows) \X DateHeaders(Grid)
  BY <1>1
<1> QED
  BY <1>4, <1>5, <1>6, <1>7

\* What is said of a row's deadline, when unread are the rows with an unreadable one.
Said(i, unread) ==
    {said \in {"dated", "missing", "unreadable"} :
        CASE said = "dated"      -> Due(Grid, i) # NoDay
          [] said = "missing"    -> i \in AssessTab(Grid).no_deadline
          [] said = "unreadable" -> i \in unread}

\* With a deadline column a row has a date, or is said to have none, or an unreadable one.
LEMMA DeadlineExplained ==
  ASSUME TypeInv, Grid.due # None, NEW i \in DOMAIN rows,
         NEW unread, unread = {k \in DOMAIN rows : <<k, Grid.due>> \in AssessTab(Grid).unreadable_date}
  PROVE  Cardinality(Said(i, unread)) = 1
<1> DEFINE P(said) == CASE said = "dated"      -> Due(Grid, i) # NoDay
                        [] said = "missing"    -> i \in AssessTab(Grid).no_deadline
                        [] said = "unreadable" -> i \in unread
           cell == Value(Grid, i, Grid.due)
<1>1. P("dated") <=> ParseDate(cell) # NoDay
  BY DEF Due
<1>2. P("missing") <=> cell = Blank
  BY Assessed DEF BlankIn, Value
<1>3. P("unreadable") <=> cell # Blank /\ ParseDate(cell) = NoDay
  BY Assessed
<1>4. cell = Blank => ParseDate(cell) = NoDay
  BY DEF Blank, ParseDate
<1> HIDE DEF P, cell
<1>5. \E s \in {"dated", "missing", "unreadable"} :
        {said \in {"dated", "missing", "unreadable"} : P(said)} = {s}
  <2>1. CASE P("dated")
    BY <1>1, <1>2, <1>3, <1>4, <2>1
  <2>2. CASE P("missing")
    BY <1>1, <1>2, <1>3, <1>4, <2>2
  <2>3. CASE P("unreadable")
    BY <1>1, <1>2, <1>3, <1>4, <2>3
  <2> QED
    BY <1>1, <1>2, <1>3, <2>1, <2>2, <2>3
<1>6. Cardinality({said \in {"dated", "missing", "unreadable"} : P(said)}) = 1
  BY <1>5, FS_Singleton
<1> QED
  BY <1>6 DEF P, Said

\* The start column of the timeline, when the schema names one, is a date column of the panel.
LEMMA StartExplained ==
  ASSUME TypeInv, Grid.bars.start # None, Schema.dates["start"] # None
  PROVE  Grid.bars.start \in DateHeaders(Grid)
<1> DEFINE due == ResolveDueColumn(Schema, Headers)
           taken == due.header \in ReadsAsAStart /\ ~ due.stated
           exclude == IF taken THEN None ELSE due.header
           start == GetStartColumn(Schema, Headers, exclude)
<1>1. Grid.bars.start = ResolveHeader(Headers, IF taken /\ start = None THEN due.header ELSE start)
  BY DEF Grid, TimelineColumns
<1>2. start = IF SameHeader(Schema.dates["start"], exclude) THEN None ELSE Schema.dates["start"]
  BY DEF GetStartColumn
<1>3. ResolveHeader(Headers, None) = None
  BY DEF ResolveHeader
<1>4. start = Schema.dates["start"]
  <2> SUFFICES ASSUME start = None PROVE FALSE
    BY <1>2
  <2>1. exclude # None
    BY <1>2 DEF SameHeader
  <2>2. ~ taken
    BY <2>1
  <2> QED
    BY <1>1, <1>3, <2>2
<1>5. "start" \in DateKeys
  BY DEF DateKeys
<1> HIDE DEF start, taken, due
<1> QED
  BY <1>1, <1>4, <1>5 DEF DateHeaders

\* So a cell that keeps a row off the timeline is listed as unreadable.
LEMMA UnparsedExplained ==
  ASSUME TypeInv, NEW i \in DOMAIN rows, Item(Grid, i).kind = "unparsed",
         Schema.dates["start"] # None \/ Grid.bars.start = None
  PROVE  \E h \in {Grid.bars.start, Grid.bars.due} : <<i, h>> \in AssessTab(Grid).unreadable_date
<1>1. ClassifyRow(Value(Grid, i, Grid.bars.start), Value(Grid, i, Grid.bars.due)) = "unparsed"
  BY DEF Item
<1>2. PICK h \in {Grid.bars.start, Grid.bars.due} :
        Value(Grid, i, h) # Blank /\ ParseDate(Value(Grid, i, h)) = NoDay
  BY <1>1 DEF ClassifyRow
<1>3. h # None
  BY <1>2 DEF Value
<1>4. h \in DateHeaders(Grid)
  BY <1>2, <1>3, GridType, StartExplained, Assessed
<1> QED
  BY <1>2, <1>4, Assessed

\* The agent's unreadable deadlines are the panel's, of the rows that are not finished.
LEMMA ReportUnparsed ==
  ASSUME TypeInv, HeadersDistinct, SameStatus, SummarizeOverdue.ok
  PROVE  SummarizeOverdue.unparsed =
            {i \in DOMAIN rows : /\ <<i, Grid.due>> \in AssessTab(Grid).unreadable_date
                                 /\ ~ IsFinishedStatus(Value(Grid, i, Grid.status))}
<1> DEFINE date == Index(GetDueColumn(Schema, Headers))
           status == Index(Or(Schema.status, DevStatus))
           open == {i \in DOMAIN rows : status = 0 \/ ~ IsFinishedStatus(rows[i][status])}
           dated == {i \in open : ParseDate(rows[i][date]) # NoDay}
<1>1. SummarizeOverdue.unparsed = {i \in open \ dated : rows[i][date] # Blank}
  BY DEF SummarizeOverdue
<1>2. Grid.due # None /\ \A i \in DOMAIN rows :
                   /\ rows[i][date] = Value(Grid, i, Grid.due)
                   /\ (status = 0 \/ ~ IsFinishedStatus(rows[i][status])) <=>
                        ~ IsFinishedStatus(Value(Grid, i, Grid.status))
  BY ReportColumns
<1>3. \A i \in DOMAIN rows : <<i, Grid.due>> \in AssessTab(Grid).unreadable_date <=>
        Value(Grid, i, Grid.due) # Blank /\ ParseDate(Value(Grid, i, Grid.due)) = NoDay
  BY <1>2, Assessed
<1>4. \A i \in DOMAIN rows :
        (i \in open \ dated /\ rows[i][date] # Blank) <=>
            /\ <<i, Grid.due>> \in AssessTab(Grid).unreadable_date
            /\ ~ IsFinishedStatus(Value(Grid, i, Grid.status))
  BY <1>2, <1>3
<1> QED
  BY <1>1, <1>4

\* The agent's duplicated and missing identifiers are the panel's.
LEMMA IdentifiersAgree ==
  ASSUME TypeInv, HeadersDistinct
  PROVE  /\ DuplicateIdAlerts = AssessTab(Grid).duplicate_id
         /\ Grid.id # None =>
                SearchRows(Grid.id, "blank", Blank) = AssessTab(Grid).no_id
<1>1. Grid.id = ResolveHeader(Headers, Schema.id) /\ Grid.rows = RowDicts
  BY DEF Grid
<1>2. CASE Grid.id = None
  <2>1. Index(Schema.id) = 0
    BY <1>1, <1>2, IndexAgrees
  <2> QED
    BY <1>2, <2>1, Assessed DEF DuplicateIdAlerts
<1>3. CASE Grid.id # None
  <2>1. /\ Index(Schema.id) # 0
        /\ \A i \in DOMAIN rows : rows[i][Index(Schema.id)] = Grid.rows[i][Grid.id]
    BY <1>1, <1>3, IndexAgrees
  <2>2. [i \in DOMAIN rows |-> rows[i][Index(Schema.id)]] =
            [i \in DOMAIN rows |-> Grid.rows[i][Grid.id]]
    BY <2>1
  <2>3. DuplicateIdAlerts = AssessTab(Grid).duplicate_id
    BY <1>3, <2>1, <2>2, Assessed DEF DuplicateIdAlerts
  <2>4. ResolveHeader(Headers, Grid.id) = Grid.id
    BY <1>3, GridType DEF ResolveHeader, Named
  <2>5. /\ Index(Grid.id) # 0
        /\ \A i \in DOMAIN rows : rows[i][Index(Grid.id)] = Grid.rows[i][Grid.id]
    BY <1>1, <1>3, <2>4, IndexAgrees
  <2>6. {i \in DOMAIN rows : rows[i][Index(Grid.id)] = Blank} = AssessTab(Grid).no_id
    BY <1>3, <2>5, Assessed DEF BlankIn
  <2>7. SearchRows(Grid.id, "blank", Blank) = AssessTab(Grid).no_id
    BY <2>6 DEF SearchRows
  <2> QED
    BY <2>3, <2>7
<1> QED
  BY <1>2, <1>3

-----------------------------------------------------------------------------
(* Sums *)

\* The sum of the values of a function over a set.
Total(B, S) == MapThenSumSet(LAMBDA x : B[x], S)

\* There are n numbers up to n.
LEMMA UpTo ==
  ASSUME NEW n \in Nat
  PROVE  IsFiniteSet(1..n) /\ Cardinality(1..n) = n
<1>1. Cardinality(1..n) = IF 1 > n THEN 0 ELSE n - 1 + 1
  BY FS_Interval
<1>2. IsFiniteSet(1..n)
  BY FS_Interval
<1>3. (IF 1 > n THEN 0 ELSE n - 1 + 1) = n
  OBVIOUS
<1> QED
  BY <1>1, <1>2, <1>3

\* B says how many members of A fall to each element of S; key says to which one falls.
Shares(B, S, A, key) == \A x \in S : B[x] = Cardinality({a \in A : key[a] = x})

\* The sum of the shares of a finite set is the number of members that fall to one.
LEMMA SumOfShares ==
  ASSUME NEW S, IsFiniteSet(S), NEW A, IsFiniteSet(A), NEW B, NEW key, Shares(B, S, A, key)
  PROVE  Total(B, S) = Cardinality({a \in A : key[a] \in S})
<1> DEFINE Some(s) == CHOOSE x \in s : TRUE
           Part(s) == {a \in A : key[a] \in s}
           Body(g) == [s \in SUBSET S |-> IF s = {} THEN 0 ELSE B[Some(s)] + g[s \ {Some(s)}]]
           f == [s \in SUBSET S |-> Cardinality(Part(s))]
           it == CHOOSE g : g = Body(g)
<1>1. Total(B, S) = it[S]
  BY DEF Total, MapThenSumSet, MapThenFoldSet
<1>2. \A s : IsFiniteSet(Part(s)) /\ Cardinality(Part(s)) \in Nat
  BY FS_Subset, FS_CardinalityType
<1>3. \A s \in SUBSET S : s # {} => Some(s) \in s /\ s \ {Some(s)} \in SUBSET S
  OBVIOUS
<1>4. ASSUME NEW s \in SUBSET S, s # {}
      PROVE  Cardinality(Part(s)) = B[Some(s)] + Cardinality(Part(s \ {Some(s)}))
  <2> DEFINE x == Some(s)
             rest == Part(s \ {x})
             mine == {a \in A : key[a] = x}
  <2>1. x \in s
    BY <1>4
  <2> HIDE DEF x
  <2>2. Part(s) = mine \cup rest /\ mine \cap rest = {}
    BY <2>1
  <2>3. IsFiniteSet(mine) /\ IsFiniteSet(rest)
    BY <1>2, FS_Subset
  <2>4. Cardinality(mine \cup rest) = Cardinality(mine) + Cardinality(rest) - Cardinality(mine \cap rest)
    <3> HIDE DEF mine, rest
    <3> QED
      BY <2>3, FS_Union
  <2>5. Cardinality(mine) = B[x]
    BY <2>1 DEF Shares
  <2>6. Cardinality(mine \cap rest) = 0
    BY <2>2, FS_EmptySet
  <2>7. Cardinality(mine) \in Nat /\ Cardinality(rest) \in Nat
    BY <2>3, FS_CardinalityType
  <2>8. Cardinality(Part(s)) = B[x] + Cardinality(rest)
    <3> HIDE DEF mine, rest, Part
    <3> QED
      BY <2>2, <2>4, <2>5, <2>6, <2>7
  <2> QED
    BY <2>8 DEF x
<1>5. Cardinality(Part({})) = 0
  BY FS_EmptySet
<1>6. f = Body(f)
  <2>1. \A s \in SUBSET S : f[s] = Body(f)[s]
    <3> SUFFICES ASSUME NEW s \in SUBSET S PROVE f[s] = Body(f)[s]
      OBVIOUS
    <3>1. CASE s = {}
      BY <1>5, <3>1
    <3>2. CASE s # {}
      BY <1>3, <1>4, <3>2
    <3> QED
      BY <3>1, <3>2
  <2> QED
    BY <2>1
<1>7. it = Body(it)
  <2> HIDE DEF Body, f
  <2> QED
    BY <1>6
<1> HIDE DEF it
<1> DEFINE bad == {s \in SUBSET S : it[s] # Cardinality(Part(s))}
           sizes == {Cardinality(s) : s \in bad}
<1>8. bad = {}
  <2> SUFFICES ASSUME bad # {} PROVE FALSE
    OBVIOUS
  <2>1. \A s \in SUBSET S : IsFiniteSet(s) /\ Cardinality(s) \in Nat
    BY FS_Subset, FS_CardinalityType
  <2>2. sizes \in SUBSET Nat /\ sizes # {}
    BY <2>1
  <2>3. \E n \in sizes : \A m \in sizes : n <= m
    <3> HIDE DEF sizes
    <3> QED
      BY <2>2, LeastExists
  <2>4. PICK s \in bad : \A t \in bad : Cardinality(s) <= Cardinality(t)
    <3> HIDE DEF bad
    <3> QED
      BY <2>3
  <2>5. CASE s = {}
    <3>1. it[s] = 0
      BY <1>7, <2>5
    <3> QED
      BY <1>5, <2>4, <2>5, <3>1
  <2>6. CASE s # {}
    <3> DEFINE t == s \ {Some(s)}
    <3>1. t \in SUBSET S /\ Some(s) \in s
      BY <1>3, <2>6
    <3>2. Cardinality(t) = Cardinality(s) - 1
      <4> HIDE DEF Some
      <4> QED
        BY <2>1, <3>1, FS_RemoveElement
    <3>3. ~ (Cardinality(s) <= Cardinality(t))
      BY <2>1, <3>2
    <3>4. it[t] = Cardinality(Part(t))
      BY <2>4, <3>1, <3>3
    <3>5. it[s] = B[Some(s)] + it[t]
      BY <1>7, <2>6
    <3> HIDE DEF t, Some, Part
    <3>6. it[s] = Cardinality(Part(s))
      BY <1>4, <2>6, <3>4, <3>5 DEF t
    <3> QED
      BY <2>4, <3>6
  <2> QED
    BY <2>5, <2>6
<1> QED
  BY <1>1, <1>8

-----------------------------------------------------------------------------
(* What is blank *)

\* A row is sent up to its last cell that is not blank, so such a cell is sent.
LEMMA RowLenReaches ==
  ASSUME NEW row \in Seq(Cell), NEW k \in 1..Len(row), row[k] # Blank
  PROVE  ~ (RowLen(row) < k)
<1> DEFINE sent == {c \in DOMAIN row : \E d \in c..Len(row) : row[d] # Blank}
<1>1. Len(row) \in Nat /\ DOMAIN row = 1..Len(row)
  BY LenProperties
<1>2. 1..k \subseteq sent
  BY <1>1
<1>3. IsFiniteSet(sent)
  <2>1. sent \in SUBSET (1..Len(row))
    BY <1>1
  <2> HIDE DEF sent
  <2> QED
    BY <1>1, <2>1, UpTo, FS_Subset
<1>4. Cardinality(1..k) <= Cardinality(sent) /\ Cardinality(sent) \in Nat
  <2> HIDE DEF sent
  <2> QED
    BY <1>2, <1>3, FS_Subset, FS_CardinalityType
<1>5. Cardinality(1..k) = k
  BY <1>1, UpTo
<1> HIDE DEF sent
<1> QED
  BY <1>1, <1>4, <1>5 DEF RowLen, sent

\* The check counts the blanks of a column as the panel does.
LEMMA BlanksCounted ==
  ASSUME TypeInv, HeadersDistinct, NEW h, NEW bound, bound = ResolveHeader(Headers, h)
  PROVE  BlankFieldCounts(h) =
            IF bound = None THEN Len(rows) ELSE Cardinality(BlankIn(Grid, bound))
<1>1. CASE bound = None
  BY <1>1, IndexAgrees DEF BlankFieldCounts
<1>2. CASE bound # None
  <2>1. /\ Index(h) \in 1..Len(raw)
        /\ \A i \in DOMAIN rows : rows[i][Index(h)] = Grid.rows[i][bound]
    BY <1>2, IndexAgrees, GridType
  <2>2. Index(h) # 0
    BY <2>1, HeadersType
  <2>3. \A i \in DOMAIN rows : RowLen(rows[i]) < Index(h) => rows[i][Index(h)] = Blank
    <3> SUFFICES ASSUME NEW i \in DOMAIN rows, rows[i][Index(h)] # Blank
                 PROVE  ~ (RowLen(rows[i]) < Index(h))
      OBVIOUS
    <3>1. rows[i] \in Seq(Cell) /\ Index(h) \in 1..Len(rows[i])
      BY <2>1 DEF TypeInv
    <3> QED
      BY <3>1, RowLenReaches
  <2>4. {i \in DOMAIN rows : RowLen(rows[i]) < Index(h) \/ rows[i][Index(h)] = Blank} =
            BlankIn(Grid, bound)
    BY <2>1, <2>3 DEF BlankIn
  <2> QED
    BY <1>2, <2>2, <2>4 DEF BlankFieldCounts
<1> QED
  BY <1>1, <1>2

\* The columns of a tab, and its rows, are finitely many.
LEMMA TabFinite ==
  ASSUME TypeInv
  PROVE  /\ IsFiniteSet(Named)
         /\ IsFiniteSet(DOMAIN rows)
         /\ Cardinality(DOMAIN rows) = Len(rows)
         /\ Len(rows) \in Nat
<1>1. Len(rows) \in Nat /\ DOMAIN rows = 1..Len(rows)
  BY LenProperties DEF TypeInv
<1>2. IsFiniteSet(1..Len(rows)) /\ Cardinality(1..Len(rows)) = Len(rows)
  BY <1>1, UpTo
<1>3. IsFiniteSet(DOMAIN Headers)
  BY HeadersType, UpTo
<1>4. Headers \in Surjection(DOMAIN Headers, ToSet(Headers))
  BY DEF Surjection, ToSet, Headers
<1>5. IsFiniteSet(ToSet(Headers))
  BY <1>3, <1>4, FS_Surjection
<1>6. IsFiniteSet(Named)
  BY <1>5, FS_Subset DEF Named
<1> QED
  BY <1>1, <1>2, <1>6

\* The blanks the check counts in the columns of the panel's completeness are the cells the
\* panel does not count as filled.
LEMMA CompletenessAdds ==
  ASSUME TypeInv, HeadersDistinct, NEW fields, fields = Completeness(Grid).fields,
         NEW blanks, blanks = [h \in fields |-> BlankFieldCounts(h)]
  PROVE  Cardinality(fields) * Len(rows) - Completeness(Grid).filled =
            Total(blanks, fields)
<1> DEFINE cells == (DOMAIN rows) \X fields
           full == {f \in cells : Grid.rows[f[1]][f[2]] # Blank}
           empty == cells \ full
           key == [f \in cells |-> f[2]]
<1>1. fields \subseteq Named
  BY ResolveNamed DEF Completeness
<1>2. IsFiniteSet(fields) /\ IsFiniteSet(DOMAIN rows)
  BY <1>1, TabFinite, FS_Subset
<1>3. /\ IsFiniteSet(cells) /\ Cardinality(cells) = Len(rows) * Cardinality(fields)
      /\ Cardinality(fields) \in Nat
  BY <1>2, TabFinite, FS_Product, FS_CardinalityType
<1>4. Completeness(Grid).filled = Cardinality(full)
  <2>1. fields \cap Named = fields
    BY <1>1
  <2> QED
    BY <2>1 DEF Completeness
<1>5. IsFiniteSet(full) /\ IsFiniteSet(empty) /\ cells \cap full = full
  <2>1. full \in SUBSET cells /\ empty \in SUBSET cells
    OBVIOUS
  <2> HIDE DEF cells, full, empty
  <2> QED
    BY <1>3, <2>1, FS_Subset
<1>6. Cardinality(empty) = Cardinality(cells) - Cardinality(full)
  <2> HIDE DEF cells, full
  <2> QED
    <3>1. Cardinality(cells \ full) = Cardinality(cells) - Cardinality(cells \cap full)
      BY <1>3, FS_Difference
    <3> QED
      BY <1>5, <3>1
<1>7. ASSUME NEW h \in fields
      PROVE  blanks[h] = Cardinality({f \in empty : key[f] = h})
  <2> DEFINE at == [i \in BlankIn(Grid, h) |-> <<i, h>>]
             T == {f \in empty : key[f] = h}
  <2>1. h \in Named /\ h # None
    BY <1>1, <1>7 DEF Named
  <2>2. ResolveHeader(Headers, h) = h
    BY <2>1 DEF ResolveHeader, Named
  <2>3. blanks[h] = Cardinality(BlankIn(Grid, h))
    BY <1>7, <2>1, <2>2, BlanksCounted
  <2>4. \A i \in DOMAIN rows : i \in BlankIn(Grid, h) <=> <<i, h>> \in T
    BY <1>7 DEF BlankIn
  <2>5. \A f \in T : f = <<f[1], h>> /\ f[1] \in DOMAIN rows
    BY <1>7
  <2>6. BlankIn(Grid, h) \subseteq DOMAIN rows
    BY DEF BlankIn
  <2>7. at \in Bijection(BlankIn(Grid, h), T)
    <3> HIDE DEF T
    <3> QED
      BY <2>4, <2>5, <2>6 DEF Bijection, Injection, Surjection, IsInjective
  <2>8. IsFiniteSet(BlankIn(Grid, h))
    BY <1>2, <2>6, FS_Subset
  <2>9. Cardinality(T) = Cardinality(BlankIn(Grid, h))
    <3> HIDE DEF T, at
    <3> QED
      BY <2>7, <2>8, FS_Bijection DEF ExistsBijection
  <2> QED
    BY <2>3, <2>9
<1>8. {f \in empty : key[f] \in fields} = empty
  OBVIOUS
<1>9. Total(blanks, fields) = Cardinality(empty)
  <2> HIDE DEF empty, key
  <2>1. Shares(blanks, fields, empty, key)
    BY <1>7 DEF Shares
  <2>2. Total(blanks, fields) = Cardinality({f \in empty : key[f] \in fields})
    BY <1>2, <1>5, <2>1, SumOfShares
  <2> QED
    BY <1>8, <2>2
<1>10. Cardinality(full) \in Nat
  <2> HIDE DEF full
  <2> QED
    BY <1>5, FS_CardinalityType
<1>11. Cardinality(fields) * Len(rows) - Cardinality(full) = Cardinality(empty)
  <2> DEFINE m == Len(rows)
             n == Cardinality(fields)
  <2>1. m \in Nat /\ n \in Nat
    BY <1>3, TabFinite
  <2>2. m * n = n * m
    <3> HIDE DEF m, n
    <3> QED
      BY <2>1
  <2> HIDE DEF full, empty, cells
  <2> QED
    BY <1>3, <1>6, <2>2
<1> QED
  BY <1>4, <1>9, <1>11

-----------------------------------------------------------------------------
(* Folds of sequences *)

\* A set with 0 and with the successor of each of its numbers has all of them, up
\* to a limit.
LEMMA CountUp ==
  ASSUME NEW N \in Nat, NEW S, 0 \in S, \A n \in 1..N : n - 1 \in S => n \in S
  PROVE  0..N \subseteq S
<1> DEFINE Missing == {n \in 0..N : n \notin S}
<1> SUFFICES ASSUME Missing # {} PROVE FALSE
  OBVIOUS
<1>1. \E x \in Missing : \A y \in Missing : x <= y
  <2>1. Missing \in SUBSET Nat
    OBVIOUS
  <2> HIDE DEF Missing
  <2> QED
    BY <2>1, LeastExists
<1>2. PICK x \in Missing : \A y \in Missing : x <= y
  BY <1>1
<1>3. x \in 1..N /\ x - 1 \in 0..N /\ ~ (x <= x - 1)
  OBVIOUS
<1>4. x - 1 \in S
  BY <1>2, <1>3
<1> QED
  BY <1>3, <1>4

\* A fold takes the places of a sequence from the last to the first.
LEMMA MaxOfPlaces ==
  ASSUME NEW n \in Nat, NEW S \in SUBSET (1..n), S # {}
  PROVE  /\ Max(S) \in S /\ \A x \in S : x <= Max(S)
         /\ S = 1..n => Max(S) = n /\ S \ {Max(S)} = 1..(n - 1)
<1>1. PICK x \in S : \A y \in S : y <= x
  BY GreatestExists
<1>2. \A y \in S : x >= y
  BY <1>1
<1>3. Max(S) \in S /\ \A y \in S : Max(S) >= y
  BY <1>2 DEF Max
<1>4. \A y \in S : y \in 1..n
  OBVIOUS
<1>5. Max(S) \in 1..n /\ \A y \in S : y <= Max(S)
  BY <1>3, <1>4
<1>6. ASSUME S = 1..n PROVE Max(S) = n /\ S \ {Max(S)} = 1..(n - 1)
  <2>1. n \in S
    BY <1>5, <1>6
  <2>2. Max(S) = n
    BY <1>5, <2>1
  <2>3. (1..n) \ {n} = 1..(n - 1)
    OBVIOUS
  <2> QED
    BY <1>6, <2>2, <2>3
<1> QED
  BY <1>3, <1>5, <1>6

\* What is folded into g, place by place, by the steps op takes from base.
Folded(g, op, base, s) ==
    g = [S \in SUBSET (DOMAIN s) |->
            IF S = {} THEN base ELSE op[<<g[S \ {Max(S)}], s[Max(S)]>>]]

\* There is something to be folded.
LEMMA FoldExists ==
  ASSUME NEW A, NEW X, NEW op \in [A \X X -> A], NEW base \in A, NEW s \in Seq(X)
  PROVE  \E g : Folded(g, op, base, s) /\ g \in [SUBSET (DOMAIN s) -> A]
<1> DEFINE Next1(g, S) == IF S = {} THEN base ELSE op[<<g[S \ {Max(S)}], s[Max(S)]>>]
           Upto(n, g) == g \in [SUBSET (1..n) -> A] /\ g = [S \in SUBSET (1..n) |-> Next1(g, S)]
           Reached == {n \in 0..Len(s) : \E g : Upto(n, g)}
<1>1. Len(s) \in Nat /\ DOMAIN s = 1..Len(s) /\ \A i \in 1..Len(s) : s[i] \in X
  BY LenProperties, ElementOfSeq
<1>2. 0 \in Reached
  <2> DEFINE g == [S \in SUBSET (1..0) |-> base]
  <2>1. \A S \in SUBSET (1..0) : S = {}
    OBVIOUS
  <2>2. g \in [SUBSET (1..0) -> A]
    OBVIOUS
  <2>3. g = [S \in SUBSET (1..0) |-> Next1(g, S)]
    BY <2>1
  <2>4. Upto(0, g) /\ 0 \in 0..Len(s)
    BY <1>1, <2>2, <2>3
  <2> HIDE DEF Upto, g
  <2> QED
    BY <2>4
<1>3. ASSUME NEW n \in 1..Len(s), n - 1 \in Reached PROVE n \in Reached
  <2>1. n \in Nat /\ n - 1 \in Nat /\ n \in 0..Len(s) /\ s[n] \in X
    BY <1>1
  <2>2. PICK f : Upto(n - 1, f)
    BY <1>3
  <2> DEFINE g == [S \in SUBSET (1..n) |-> IF n \in S THEN op[<<f[S \ {n}], s[n]>>] ELSE f[S]]
  <2>3. \A S \in SUBSET (1..n) : (n \in S => S \ {n} \in SUBSET (1..(n - 1)))
                              /\ (n \notin S => S \in SUBSET (1..(n - 1)))
    BY <2>1
  <2>4. \A S \in SUBSET (1..n) : g[S] \in A
    BY <2>1, <2>2, <2>3
  <2>5. ASSUME NEW S \in SUBSET (1..n) PROVE g[S] = Next1(g, S)
    <3>1. CASE n \in S
      <4>1. Max(S) = n
        <5>1. Max(S) \in S /\ \A x \in S : x <= Max(S)
          BY <2>1, <3>1, MaxOfPlaces
        <5>2. Max(S) \in 1..n
          BY <5>1
        <5> QED
          BY <2>1, <3>1, <5>1, <5>2
      <4>2. S \ {n} \in SUBSET (1..n) /\ n \notin S \ {n}
        OBVIOUS
      <4>3. g[S \ {n}] = f[S \ {n}]
        BY <4>2
      <4> QED
        BY <3>1, <4>1, <4>3
    <3>2. CASE n \notin S /\ S = {}
      <4>1. f[S] = base /\ g[S] = f[S]
        BY <2>2, <2>3, <3>2
      <4> QED
        BY <3>2, <4>1
    <3>3. CASE n \notin S /\ S # {}
      <4>1. S \in SUBSET (1..(n - 1)) /\ g[S] = f[S]
        BY <2>3, <3>3
      <4>2. f[S] = op[<<f[S \ {Max(S)}], s[Max(S)]>>]
        BY <2>2, <3>3, <4>1
      <4>3. S \ {Max(S)} \in SUBSET (1..n) /\ n \notin S \ {Max(S)}
        BY <3>3
      <4>4. g[S \ {Max(S)}] = f[S \ {Max(S)}]
        BY <4>3
      <4> QED
        BY <3>3, <4>1, <4>2, <4>4
    <3> QED
      BY <3>1, <3>2, <3>3
  <2>6. Upto(n, g)
    <3>1. DOMAIN g = SUBSET (1..n)
      OBVIOUS
    <3> HIDE DEF Next1
    <3>2. g = [S \in SUBSET (1..n) |-> Next1(g, S)]
      BY <2>5
    <3> QED
      BY <2>4, <3>2
  <2> HIDE DEF Upto, g
  <2> QED
    BY <2>1, <2>6
<1>4. Len(s) \in Reached
  <2> HIDE DEF Reached
  <2>1. 0..Len(s) \subseteq Reached
    BY <1>1, <1>2, <1>3, CountUp
  <2> QED
    BY <1>1, <2>1
<1>5. PICK g : Upto(Len(s), g)
  BY <1>4
<1>6. Folded(g, op, base, s)
  BY <1>1, <1>5 DEF Folded
<1> QED
  BY <1>1, <1>5, <1>6

\* Distinct takes in the elements of a sequence one by one.
LEMMA DistinctSteps ==
  ASSUME NEW X, NEW s \in Seq(X)
  PROVE  \E f : /\ f[0] = <<>>
               /\ Distinct(s) = f[Len(s)]
               /\ \A n \in 1..Len(s) :
                     f[n] = IF s[n] \in ToSet(f[n - 1]) THEN f[n - 1] ELSE Append(f[n - 1], s[n])
<1> DEFINE op == [p \in Seq(X) \X X |-> IF p[2] \in ToSet(p[1]) THEN p[1] ELSE Append(p[1], p[2])]
           Body(g) == [S \in SUBSET (DOMAIN s) |->
                        IF S = {} THEN <<>>
                        ELSE IF s[Max(S)] \in ToSet(g[S \ {Max(S)}]) THEN g[S \ {Max(S)}] ELSE Append(g[S \ {Max(S)}], s[Max(S)])]
           it == CHOOSE g : g = Body(g)
           f == [n \in 0..Len(s) |-> it[1..n]]
<1>1. Len(s) \in Nat /\ DOMAIN s = 1..Len(s) /\ \A i \in 1..Len(s) : s[i] \in X
  BY LenProperties, ElementOfSeq
<1>2. Distinct(s) = it[DOMAIN s]
  BY DEF Distinct, FoldLeft, MapThenFoldSet
<1>3. \E g : g = Body(g)
  <2>1. op \in [Seq(X) \X X -> Seq(X)] /\ <<>> \in Seq(X)
    BY AppendProperties, EmptySeq
  <2>2. PICK g : Folded(g, op, <<>>, s) /\ g \in [SUBSET (DOMAIN s) -> Seq(X)]
    <3> HIDE DEF op
    <3> QED
      BY <2>1, FoldExists
  <2>3. \A S \in SUBSET (DOMAIN s) : S # {} =>
            /\ g[S \ {Max(S)}] \in Seq(X)
            /\ s[Max(S)] \in X
    BY <1>1, <2>2, MaxOfPlaces
  <2>4. \A S \in SUBSET (DOMAIN s) : S # {} =>
            op[<<g[S \ {Max(S)}], s[Max(S)]>>] = IF s[Max(S)] \in ToSet(g[S \ {Max(S)}]) THEN g[S \ {Max(S)}] ELSE Append(g[S \ {Max(S)}], s[Max(S)])
    BY <2>3
  <2>5. g = [S \in SUBSET (DOMAIN s) |->
                IF S = {} THEN <<>> ELSE op[<<g[S \ {Max(S)}], s[Max(S)]>>]]
    BY <2>2 DEF Folded
  <2> HIDE DEF op
  <2>6. g = Body(g)
    BY <2>4, <2>5
  <2> QED
    BY <2>6
<1>4. it = Body(it)
  <2> HIDE DEF Body
  <2> QED
    BY <1>3
<1> HIDE DEF it
<1>5. f[0] = <<>>
  <2>1. 1..0 = {} /\ {} \in SUBSET (DOMAIN s)
    OBVIOUS
  <2>2. it[{}] = <<>>
    BY <1>4, <2>1
  <2> QED
    BY <1>1, <2>1, <2>2
<1>6. ASSUME NEW n \in 1..Len(s)
      PROVE  f[n] = IF s[n] \in ToSet(f[n - 1]) THEN f[n - 1] ELSE Append(f[n - 1], s[n])
  <2> DEFINE S == 1..n
  <2>1. n \in Nat /\ n \in 0..Len(s) /\ n - 1 \in 0..Len(s)
    BY <1>1
  <2>2. S \in SUBSET (DOMAIN s) /\ S # {}
    <3>1. \A i \in 1..n : i \in 1..Len(s)
      BY <1>1, <2>1
    <3>2. n \in 1..n
      BY <2>1
    <3> QED
      BY <1>1, <3>1, <3>2
  <2>3. Max(S) = n /\ S \ {Max(S)} = 1..(n - 1)
    BY <2>1, <2>2, MaxOfPlaces
  <2>4. it[S] = IF s[Max(S)] \in ToSet(it[S \ {Max(S)}]) THEN it[S \ {Max(S)}] ELSE Append(it[S \ {Max(S)}], s[Max(S)])
    BY <1>4, <2>2
  <2>5. f[n] = it[S] /\ f[n - 1] = it[1..(n - 1)]
    BY <2>1
  <2> HIDE DEF f, S
  <2> QED
    BY <2>3, <2>4, <2>5
<1>7. Distinct(s) = f[Len(s)]
  BY <1>1, <1>2
<1> QED
  BY <1>5, <1>6, <1>7

\* f[n] is what is kept of the first n names.
OnePerName(f, names) ==
    /\ f[0] = <<>>
    /\ \A n \in 1..Len(names) :
          f[n] = IF \E i \in DOMAIN f[n - 1] : NormalisePerson(f[n - 1][i]) = NormalisePerson(names[n])
                 THEN f[n - 1] ELSE Append(f[n - 1], names[n])

\* So does DistinctPeople, by the names they are compared by.
LEMMA DistinctPeopleSteps ==
  ASSUME NEW names \in Seq(Cell)
  PROVE  \E f : OnePerName(f, names) /\ DistinctPeople(names) = f[Len(names)]
<1> DEFINE op == [p \in Seq(Cell) \X Cell |-> IF \E i \in DOMAIN p[1] : NormalisePerson(p[1][i]) = NormalisePerson(p[2])
                        THEN p[1] ELSE Append(p[1], p[2])]
           Body(g) == [S \in SUBSET (DOMAIN names) |->
                        IF S = {} THEN <<>>
                        ELSE IF \E i \in DOMAIN g[S \ {Max(S)}] : NormalisePerson(g[S \ {Max(S)}][i]) = NormalisePerson(names[Max(S)])
                        THEN g[S \ {Max(S)}] ELSE Append(g[S \ {Max(S)}], names[Max(S)])]
           it == CHOOSE g : g = Body(g)
           f == [n \in 0..Len(names) |-> it[1..n]]
<1>1. Len(names) \in Nat /\ DOMAIN names = 1..Len(names) /\ \A i \in 1..Len(names) : names[i] \in Cell
  BY LenProperties, ElementOfSeq
<1>2. DistinctPeople(names) = it[DOMAIN names]
  BY DEF DistinctPeople, FoldLeft, MapThenFoldSet
<1>3. \E g : g = Body(g)
  <2>1. op \in [Seq(Cell) \X Cell -> Seq(Cell)] /\ <<>> \in Seq(Cell)
    BY AppendProperties, EmptySeq
  <2>2. PICK g : Folded(g, op, <<>>, names) /\ g \in [SUBSET (DOMAIN names) -> Seq(Cell)]
    <3> HIDE DEF op
    <3> QED
      BY <2>1, FoldExists
  <2>3. \A S \in SUBSET (DOMAIN names) : S # {} =>
            /\ g[S \ {Max(S)}] \in Seq(Cell)
            /\ names[Max(S)] \in Cell
    BY <1>1, <2>2, MaxOfPlaces
  <2>4. \A S \in SUBSET (DOMAIN names) : S # {} =>
            op[<<g[S \ {Max(S)}], names[Max(S)]>>] = IF \E i \in DOMAIN g[S \ {Max(S)}] : NormalisePerson(g[S \ {Max(S)}][i]) = NormalisePerson(names[Max(S)])
                        THEN g[S \ {Max(S)}] ELSE Append(g[S \ {Max(S)}], names[Max(S)])
    BY <2>3
  <2>5. g = [S \in SUBSET (DOMAIN names) |->
                IF S = {} THEN <<>> ELSE op[<<g[S \ {Max(S)}], names[Max(S)]>>]]
    BY <2>2 DEF Folded
  <2> HIDE DEF op
  <2>6. g = Body(g)
    BY <2>4, <2>5
  <2> QED
    BY <2>6
<1>4. it = Body(it)
  <2> HIDE DEF Body
  <2> QED
    BY <1>3
<1> HIDE DEF it
<1>5. f[0] = <<>>
  <2>1. 1..0 = {} /\ {} \in SUBSET (DOMAIN names)
    OBVIOUS
  <2>2. it[{}] = <<>>
    BY <1>4, <2>1
  <2> QED
    BY <1>1, <2>1, <2>2
<1>6. ASSUME NEW n \in 1..Len(names)
      PROVE  f[n] = IF \E i \in DOMAIN f[n - 1] : NormalisePerson(f[n - 1][i]) = NormalisePerson(names[n])
                        THEN f[n - 1] ELSE Append(f[n - 1], names[n])
  <2> DEFINE S == 1..n
  <2>1. n \in Nat /\ n \in 0..Len(names) /\ n - 1 \in 0..Len(names)
    BY <1>1
  <2>2. S \in SUBSET (DOMAIN names) /\ S # {}
    <3>1. \A i \in 1..n : i \in 1..Len(names)
      BY <1>1, <2>1
    <3>2. n \in 1..n
      BY <2>1
    <3> QED
      BY <1>1, <3>1, <3>2
  <2>3. Max(S) = n /\ S \ {Max(S)} = 1..(n - 1)
    BY <2>1, <2>2, MaxOfPlaces
  <2>4. it[S] = IF \E i \in DOMAIN it[S \ {Max(S)}] : NormalisePerson(it[S \ {Max(S)}][i]) = NormalisePerson(names[Max(S)])
                        THEN it[S \ {Max(S)}] ELSE Append(it[S \ {Max(S)}], names[Max(S)])
    BY <1>4, <2>2
  <2>5. f[n] = it[S] /\ f[n - 1] = it[1..(n - 1)]
    BY <2>1
  <2> HIDE DEF f, S
  <2> QED
    BY <2>3, <2>4, <2>5
<1>7. DistinctPeople(names) = f[Len(names)]
  BY <1>1, <1>2
<1>8. OnePerName(f, names)
  BY <1>5, <1>6 DEF OnePerName
<1> HIDE DEF f
<1> QED
  BY <1>7, <1>8

\* Canonicals takes in the rows of the alias table one by one.
LEMMA CanonicalsSteps ==
  ASSUME NEW table \in Seq(Alias), NEW key
  PROVE  \E f : /\ f[0] = <<>>
               /\ Canonicals(table, key) = f[Len(table)]
               /\ \A n \in 1..Len(table) :
                     f[n] = IF table[n].alias = key THEN Append(f[n - 1], table[n].canonical) ELSE f[n - 1]
<1> DEFINE op == [p \in Seq(Cell) \X Alias |-> IF p[2].alias = key THEN Append(p[1], p[2].canonical) ELSE p[1]]
           Body(g) == [S \in SUBSET (DOMAIN table) |->
                        IF S = {} THEN <<>>
                        ELSE IF table[Max(S)].alias = key THEN Append(g[S \ {Max(S)}], table[Max(S)].canonical) ELSE g[S \ {Max(S)}]]
           it == CHOOSE g : g = Body(g)
           f == [n \in 0..Len(table) |-> it[1..n]]
<1>1. Len(table) \in Nat /\ DOMAIN table = 1..Len(table) /\ \A i \in 1..Len(table) : table[i] \in Alias
  BY LenProperties, ElementOfSeq
<1>2. Canonicals(table, key) = it[DOMAIN table]
  BY DEF Canonicals, FoldLeft, MapThenFoldSet
<1>3. \E g : g = Body(g)
  <2>1. op \in [Seq(Cell) \X Alias -> Seq(Cell)] /\ <<>> \in Seq(Cell)
    BY AppendProperties, EmptySeq DEF Alias, Somebody
  <2>2. PICK g : Folded(g, op, <<>>, table) /\ g \in [SUBSET (DOMAIN table) -> Seq(Cell)]
    <3> HIDE DEF op
    <3> QED
      BY <2>1, FoldExists
  <2>3. \A S \in SUBSET (DOMAIN table) : S # {} =>
            /\ g[S \ {Max(S)}] \in Seq(Cell)
            /\ table[Max(S)] \in Alias
    BY <1>1, <2>2, MaxOfPlaces
  <2>4. \A S \in SUBSET (DOMAIN table) : S # {} =>
            op[<<g[S \ {Max(S)}], table[Max(S)]>>] = IF table[Max(S)].alias = key THEN Append(g[S \ {Max(S)}], table[Max(S)].canonical) ELSE g[S \ {Max(S)}]
    BY <2>3
  <2>5. g = [S \in SUBSET (DOMAIN table) |->
                IF S = {} THEN <<>> ELSE op[<<g[S \ {Max(S)}], table[Max(S)]>>]]
    BY <2>2 DEF Folded
  <2> HIDE DEF op
  <2>6. g = Body(g)
    BY <2>4, <2>5
  <2> QED
    BY <2>6
<1>4. it = Body(it)
  <2> HIDE DEF Body
  <2> QED
    BY <1>3
<1> HIDE DEF it
<1>5. f[0] = <<>>
  <2>1. 1..0 = {} /\ {} \in SUBSET (DOMAIN table)
    OBVIOUS
  <2>2. it[{}] = <<>>
    BY <1>4, <2>1
  <2> QED
    BY <1>1, <2>1, <2>2
<1>6. ASSUME NEW n \in 1..Len(table)
      PROVE  f[n] = IF table[n].alias = key THEN Append(f[n - 1], table[n].canonical) ELSE f[n - 1]
  <2> DEFINE S == 1..n
  <2>1. n \in Nat /\ n \in 0..Len(table) /\ n - 1 \in 0..Len(table)
    BY <1>1
  <2>2. S \in SUBSET (DOMAIN table) /\ S # {}
    <3>1. \A i \in 1..n : i \in 1..Len(table)
      BY <1>1, <2>1
    <3>2. n \in 1..n
      BY <2>1
    <3> QED
      BY <1>1, <3>1, <3>2
  <2>3. Max(S) = n /\ S \ {Max(S)} = 1..(n - 1)
    BY <2>1, <2>2, MaxOfPlaces
  <2>4. it[S] = IF table[Max(S)].alias = key THEN Append(it[S \ {Max(S)}], table[Max(S)].canonical) ELSE it[S \ {Max(S)}]
    BY <1>4, <2>2
  <2>5. f[n] = it[S] /\ f[n - 1] = it[1..(n - 1)]
    BY <2>1
  <2> HIDE DEF f, S
  <2> QED
    BY <2>3, <2>4, <2>5
<1>7. Canonicals(table, key) = f[Len(table)]
  BY <1>1, <1>2
<1> QED
  BY <1>5, <1>6, <1>7

\* And what is kept of a sequence.
LEMMA OnlySteps ==
  ASSUME NEW X, NEW s \in Seq(X), NEW wanted
  PROVE  \E f : /\ f[0] = <<>>
               /\ Only(s, wanted) = f[Len(s)]
               /\ \A n \in 1..Len(s) :
                     f[n] = IF s[n] \in wanted THEN Append(f[n - 1], s[n]) ELSE f[n - 1]
<1> DEFINE op == [p \in Seq(X) \X X |-> IF p[2] \in wanted THEN Append(p[1], p[2]) ELSE p[1]]
           Body(g) == [S \in SUBSET (DOMAIN s) |->
                        IF S = {} THEN <<>>
                        ELSE IF s[Max(S)] \in wanted THEN Append(g[S \ {Max(S)}], s[Max(S)]) ELSE g[S \ {Max(S)}]]
           it == CHOOSE g : g = Body(g)
           f == [n \in 0..Len(s) |-> it[1..n]]
<1>1. Len(s) \in Nat /\ DOMAIN s = 1..Len(s) /\ \A i \in 1..Len(s) : s[i] \in X
  BY LenProperties, ElementOfSeq
<1>2. Only(s, wanted) = it[DOMAIN s]
  BY DEF Only, FoldLeft, MapThenFoldSet
<1>3. \E g : g = Body(g)
  <2>1. op \in [Seq(X) \X X -> Seq(X)] /\ <<>> \in Seq(X)
    BY AppendProperties, EmptySeq
  <2>2. PICK g : Folded(g, op, <<>>, s) /\ g \in [SUBSET (DOMAIN s) -> Seq(X)]
    <3> HIDE DEF op
    <3> QED
      BY <2>1, FoldExists
  <2>3. \A S \in SUBSET (DOMAIN s) : S # {} =>
            /\ g[S \ {Max(S)}] \in Seq(X)
            /\ s[Max(S)] \in X
    BY <1>1, <2>2, MaxOfPlaces
  <2>4. \A S \in SUBSET (DOMAIN s) : S # {} =>
            op[<<g[S \ {Max(S)}], s[Max(S)]>>] = IF s[Max(S)] \in wanted THEN Append(g[S \ {Max(S)}], s[Max(S)]) ELSE g[S \ {Max(S)}]
    BY <2>3
  <2>5. g = [S \in SUBSET (DOMAIN s) |->
                IF S = {} THEN <<>> ELSE op[<<g[S \ {Max(S)}], s[Max(S)]>>]]
    BY <2>2 DEF Folded
  <2> HIDE DEF op
  <2>6. g = Body(g)
    BY <2>4, <2>5
  <2> QED
    BY <2>6
<1>4. it = Body(it)
  <2> HIDE DEF Body
  <2> QED
    BY <1>3
<1> HIDE DEF it
<1>5. f[0] = <<>>
  <2>1. 1..0 = {} /\ {} \in SUBSET (DOMAIN s)
    OBVIOUS
  <2>2. it[{}] = <<>>
    BY <1>4, <2>1
  <2> QED
    BY <1>1, <2>1, <2>2
<1>6. ASSUME NEW n \in 1..Len(s)
      PROVE  f[n] = IF s[n] \in wanted THEN Append(f[n - 1], s[n]) ELSE f[n - 1]
  <2> DEFINE S == 1..n
  <2>1. n \in Nat /\ n \in 0..Len(s) /\ n - 1 \in 0..Len(s)
    BY <1>1
  <2>2. S \in SUBSET (DOMAIN s) /\ S # {}
    <3>1. \A i \in 1..n : i \in 1..Len(s)
      BY <1>1, <2>1
    <3>2. n \in 1..n
      BY <2>1
    <3> QED
      BY <1>1, <3>1, <3>2
  <2>3. Max(S) = n /\ S \ {Max(S)} = 1..(n - 1)
    BY <2>1, <2>2, MaxOfPlaces
  <2>4. it[S] = IF s[Max(S)] \in wanted THEN Append(it[S \ {Max(S)}], s[Max(S)]) ELSE it[S \ {Max(S)}]
    BY <1>4, <2>2
  <2>5. f[n] = it[S] /\ f[n - 1] = it[1..(n - 1)]
    BY <2>1
  <2> HIDE DEF f, S
  <2> QED
    BY <2>3, <2>4, <2>5
<1>7. Only(s, wanted) = f[Len(s)]
  BY <1>1, <1>2
<1> QED
  BY <1>5, <1>6, <1>7

-----------------------------------------------------------------------------
(* Lists of names and rows *)

\* Appending adds one member, and no second one if it was not there.
LEMMA AppendMember ==
  ASSUME NEW X, NEW q \in Seq(X), NEW x \in X
  PROVE  /\ Append(q, x) \in Seq(X)
         /\ Len(Append(q, x)) = Len(q) + 1
         /\ Len(q) \in Nat
         /\ \A i \in 1..Len(q) : Append(q, x)[i] = q[i]
         /\ Append(q, x)[Len(q) + 1] = x
         /\ ToSet(Append(q, x)) = ToSet(q) \cup {x}
         /\ IsInjective(q) /\ x \notin ToSet(q) => IsInjective(Append(q, x))
<1> DEFINE a == Append(q, x)
<1>1. /\ a \in Seq(X) /\ Len(a) = Len(q) + 1 /\ Len(q) \in Nat
      /\ \A i \in 1..Len(q) : a[i] = q[i]
      /\ a[Len(q) + 1] = x
  BY AppendProperties, LenProperties
<1>2. DOMAIN a = 1..(Len(q) + 1) /\ DOMAIN q = 1..Len(q)
  BY <1>1, LenProperties
<1> HIDE DEF a
<1>3. \A i \in DOMAIN a : (i \in DOMAIN q /\ a[i] = q[i]) \/ (i = Len(q) + 1 /\ a[i] = x)
  BY <1>1, <1>2
<1>4. DOMAIN q \subseteq DOMAIN a /\ Len(q) + 1 \in DOMAIN a
  BY <1>1, <1>2
<1>5. ToSet(a) = ToSet(q) \cup {x}
  <2>1. ToSet(a) \subseteq ToSet(q) \cup {x}
    BY <1>3 DEF ToSet
  <2>2. ToSet(q) \cup {x} \subseteq ToSet(a)
    BY <1>1, <1>2, <1>4 DEF ToSet
  <2> QED
    BY <2>1, <2>2
<1>6. IsInjective(q) /\ x \notin ToSet(q) => IsInjective(a)
  BY <1>3 DEF IsInjective, ToSet
<1> QED
  BY <1>1, <1>5, <1>6 DEF a

\* A sequence is one of any set that has its members.
LEMMA MembersType ==
  ASSUME NEW X, NEW Y, NEW q \in Seq(X), \A x \in ToSet(q) : x \in Y
  PROVE  q \in Seq(Y)
<1>1. Len(q) \in Nat /\ DOMAIN q = 1..Len(q) /\ q \in [1..Len(q) -> X]
  BY LenProperties
<1>2. \A i \in 1..Len(q) : q[i] \in Y
  BY <1>1 DEF ToSet
<1>3. q \in [1..Len(q) -> Y]
  BY <1>1, <1>2
<1> QED
  BY <1>1, <1>3

\* Distinct keeps the members of a sequence, once each.
LEMMA DistinctProperties ==
  ASSUME NEW X, NEW s \in Seq(X)
  PROVE  /\ Distinct(s) \in Seq(X)
         /\ ToSet(Distinct(s)) = ToSet(s)
         /\ IsInjective(Distinct(s))
<1>1. PICK f : /\ f[0] = <<>>
               /\ Distinct(s) = f[Len(s)]
               /\ \A n \in 1..Len(s) :
                     f[n] = IF s[n] \in ToSet(f[n - 1]) THEN f[n - 1] ELSE Append(f[n - 1], s[n])
  BY DistinctSteps
<1>2. Len(s) \in Nat /\ DOMAIN s = 1..Len(s) /\ \A i \in 1..Len(s) : s[i] \in X
  BY LenProperties, ElementOfSeq
<1> DEFINE Reached == {n \in 0..Len(s) :
                        /\ f[n] \in Seq(X)
                        /\ IsInjective(f[n])
                        /\ ToSet(f[n]) = {s[i] : i \in 1..n}}
<1>3. 0 \in Reached
  <2>1. <<>> \in Seq(X) /\ IsInjective(<<>>) /\ ToSet(<<>>) = {}
    BY EmptySeq DEF IsInjective, ToSet
  <2>2. {s[i] : i \in 1..0} = {} /\ 0 \in 0..Len(s)
    BY <1>2
  <2> QED
    BY <1>1, <2>1, <2>2
<1>4. ASSUME NEW n \in 1..Len(s), n - 1 \in Reached PROVE n \in Reached
  <2>1. n \in 0..Len(s) /\ s[n] \in X
    BY <1>2
  <2>2. f[n - 1] \in Seq(X) /\ IsInjective(f[n - 1]) /\ ToSet(f[n - 1]) = {s[i] : i \in 1..(n - 1)}
    BY <1>4
  <2>3. {s[i] : i \in 1..n} = {s[i] : i \in 1..(n - 1)} \cup {s[n]}
    <3>1. 1..n = (1..(n - 1)) \cup {n}
      BY <1>2
    <3> QED
      BY <3>1
  <2>4. f[n] = IF s[n] \in ToSet(f[n - 1]) THEN f[n - 1] ELSE Append(f[n - 1], s[n])
    BY <1>1
  <2>5. CASE s[n] \in ToSet(f[n - 1])
    BY <2>1, <2>2, <2>3, <2>4, <2>5
  <2>6. CASE s[n] \notin ToSet(f[n - 1])
    <3>1. /\ f[n] \in Seq(X) /\ IsInjective(f[n])
          /\ ToSet(f[n]) = ToSet(f[n - 1]) \cup {s[n]}
      BY <2>1, <2>2, <2>4, <2>6, AppendMember
    <3> QED
      BY <2>1, <2>2, <2>3, <3>1
  <2> QED
    BY <2>5, <2>6
<1>5. Len(s) \in Reached
  <2> HIDE DEF Reached
  <2>1. 0..Len(s) \subseteq Reached
    BY <1>2, <1>3, <1>4, CountUp
  <2> QED
    BY <1>2, <2>1
<1> QED
  BY <1>1, <1>2, <1>5 DEF ToSet

\* DistinctPeople keeps one spelling of each name.
LEMMA DistinctPeopleProperties ==
  ASSUME NEW names \in Seq(Cell)
  PROVE  LET kept == DistinctPeople(names)
         IN  /\ kept \in Seq(Cell)
             /\ ToSet(kept) \subseteq ToSet(names)
             /\ \A n \in ToSet(names) : \E k \in ToSet(kept) : NormalisePerson(k) = NormalisePerson(n)
             /\ \A i, j \in DOMAIN kept : NormalisePerson(kept[i]) = NormalisePerson(kept[j]) => i = j
<1>1. PICK f : OnePerName(f, names) /\ DistinctPeople(names) = f[Len(names)]
  BY DistinctPeopleSteps
<1>2. Len(names) \in Nat /\ DOMAIN names = 1..Len(names) /\ \A i \in 1..Len(names) : names[i] \in Cell
  BY LenProperties, ElementOfSeq
<1> DEFINE Good(q, n) ==
              /\ q \in Seq(Cell)
              /\ \A k \in ToSet(q) : \E i \in 1..n : k = names[i]
              /\ \A i \in 1..n : \E k \in ToSet(q) : NormalisePerson(k) = NormalisePerson(names[i])
              /\ \A i, j \in DOMAIN q : NormalisePerson(q[i]) = NormalisePerson(q[j]) => i = j
           Reached == {n \in 0..Len(names) : Good(f[n], n)}
<1>3. 0 \in Reached
  <2>1. <<>> \in Seq(Cell) /\ ToSet(<<>>) = {} /\ DOMAIN <<>> = {}
    BY EmptySeq DEF ToSet
  <2>2. (\A i \in 1..0 : FALSE) /\ 0 \in 0..Len(names)
    BY <1>2
  <2>3. Good(<<>>, 0)
    BY <2>1, <2>2
  <2>4. f[0] = <<>>
    BY <1>1 DEF OnePerName
  <2> QED
    BY <2>2, <2>3, <2>4
<1>4. ASSUME NEW n \in 1..Len(names), n - 1 \in Reached PROVE n \in Reached
  <2> DEFINE q == f[n - 1]
             x == names[n]
  <2>1. n \in 0..Len(names) /\ x \in Cell /\ 1..n = (1..(n - 1)) \cup {n}
    BY <1>2
  <2>2. Good(q, n - 1)
    BY <1>4
  <2>3. f[n] = IF \E i \in DOMAIN q : NormalisePerson(q[i]) = NormalisePerson(x)
               THEN q ELSE Append(q, x)
    BY <1>1 DEF OnePerName
  <2> HIDE DEF q
  <2>4. CASE \E i \in DOMAIN q : NormalisePerson(q[i]) = NormalisePerson(x)
    <3>1. \E k \in ToSet(q) : NormalisePerson(k) = NormalisePerson(x)
      BY <2>4 DEF ToSet
    <3>2. Good(q, n)
      BY <2>1, <2>2, <3>1
    <3> QED
      BY <2>1, <2>3, <2>4, <3>2
  <2>5. CASE ~ \E i \in DOMAIN q : NormalisePerson(q[i]) = NormalisePerson(x)
    <3> DEFINE a == Append(q, x)
    <3>1. /\ a \in Seq(Cell) /\ Len(a) = Len(q) + 1 /\ Len(q) \in Nat
          /\ \A i \in 1..Len(q) : a[i] = q[i]
          /\ a[Len(q) + 1] = x
          /\ ToSet(a) = ToSet(q) \cup {x}
      BY <2>1, <2>2, AppendMember
    <3>2. DOMAIN a = 1..(Len(q) + 1) /\ DOMAIN q = 1..Len(q)
      BY <2>2, <3>1, LenProperties
    <3> HIDE DEF a
    <3>3. \A i \in DOMAIN a : (i \in DOMAIN q /\ a[i] = q[i]) \/ (i = Len(q) + 1 /\ a[i] = x)
      BY <3>1, <3>2
    <3>4. \A i, j \in DOMAIN a : NormalisePerson(a[i]) = NormalisePerson(a[j]) => i = j
      BY <2>2, <2>5, <3>3
    <3>5. Good(a, n)
      BY <2>1, <2>2, <3>1, <3>4
    <3> QED
      BY <2>1, <2>3, <2>5, <3>5 DEF a
  <2> QED
    BY <2>4, <2>5
<1>5. Len(names) \in Reached
  <2> HIDE DEF Reached
  <2>1. 0..Len(names) \subseteq Reached
    BY <1>2, <1>3, <1>4, CountUp
  <2> QED
    BY <1>2, <2>1
<1>6. Good(DistinctPeople(names), Len(names))
  BY <1>1, <1>5
<1>7. \A n : n \in ToSet(names) <=> \E i \in 1..Len(names) : n = names[i]
  BY <1>2 DEF ToSet
<1> QED
  BY <1>6, <1>7

\* Canonicals are the names the rows with a key stand for.
LEMMA CanonicalsProperties ==
  ASSUME NEW table \in Seq(Alias), NEW key
  PROVE  /\ Canonicals(table, key) \in Seq(Cell)
         /\ ToSet(Canonicals(table, key)) =
                {a.canonical : a \in {b \in ToSet(table) : b.alias = key}}
<1>1. PICK f : /\ f[0] = <<>>
               /\ Canonicals(table, key) = f[Len(table)]
               /\ \A n \in 1..Len(table) :
                     f[n] = IF table[n].alias = key THEN Append(f[n - 1], table[n].canonical)
                            ELSE f[n - 1]
  BY CanonicalsSteps
<1>2. /\ Len(table) \in Nat /\ DOMAIN table = 1..Len(table)
      /\ \A i \in 1..Len(table) : table[i].canonical \in Cell
  <2>1. Len(table) \in Nat /\ DOMAIN table = 1..Len(table)
    BY LenProperties
  <2>2. \A i \in 1..Len(table) : table[i] \in Alias
    BY ElementOfSeq
  <2> QED
    BY <2>1, <2>2 DEF Alias, Somebody
<1> DEFINE Up(n) == {table[i].canonical : i \in {k \in 1..n : table[k].alias = key}}
           Reached == {n \in 0..Len(table) : f[n] \in Seq(Cell) /\ ToSet(f[n]) = Up(n)}
<1>3. 0 \in Reached
  <2>1. <<>> \in Seq(Cell) /\ ToSet(<<>>) = {}
    BY EmptySeq DEF ToSet
  <2>2. Up(0) = {} /\ 0 \in 0..Len(table)
    BY <1>2
  <2> QED
    BY <1>1, <2>1, <2>2
<1>4. ASSUME NEW n \in 1..Len(table), n - 1 \in Reached PROVE n \in Reached
  <2>1. n \in 0..Len(table) /\ table[n].canonical \in Cell /\ 1..n = (1..(n - 1)) \cup {n}
    BY <1>2
  <2>2. f[n - 1] \in Seq(Cell) /\ ToSet(f[n - 1]) = Up(n - 1)
    BY <1>4
  <2>3. f[n] = IF table[n].alias = key THEN Append(f[n - 1], table[n].canonical) ELSE f[n - 1]
    BY <1>1
  <2>4. CASE table[n].alias = key
    <3>1. f[n] \in Seq(Cell) /\ ToSet(f[n]) = ToSet(f[n - 1]) \cup {table[n].canonical}
      BY <2>1, <2>2, <2>3, <2>4, AppendMember
    <3>2. Up(n) = Up(n - 1) \cup {table[n].canonical}
      BY <2>1, <2>4
    <3> QED
      BY <2>1, <2>2, <3>1, <3>2
  <2>5. CASE table[n].alias # key
    <3>1. Up(n) = Up(n - 1)
      BY <2>1, <2>5
    <3> QED
      BY <2>1, <2>2, <2>3, <2>5, <3>1
  <2> QED
    BY <2>4, <2>5
<1>5. Len(table) \in Reached
  <2> HIDE DEF Reached
  <2>1. 0..Len(table) \subseteq Reached
    BY <1>2, <1>3, <1>4, CountUp
  <2> QED
    BY <1>2, <2>1
<1>6. Up(Len(table)) = {a.canonical : a \in {b \in ToSet(table) : b.alias = key}}
  BY <1>2 DEF ToSet
<1> QED
  BY <1>1, <1>5, <1>6

\* Only keeps the members that are wanted.
LEMMA OnlyProperties ==
  ASSUME NEW X, NEW s \in Seq(X), NEW wanted
  PROVE  Only(s, wanted) \in Seq(X) /\ ToSet(Only(s, wanted)) = ToSet(s) \cap wanted
<1>1. PICK f : /\ f[0] = <<>>
               /\ Only(s, wanted) = f[Len(s)]
               /\ \A n \in 1..Len(s) :
                     f[n] = IF s[n] \in wanted THEN Append(f[n - 1], s[n]) ELSE f[n - 1]
  BY OnlySteps
<1>2. Len(s) \in Nat /\ DOMAIN s = 1..Len(s) /\ \A i \in 1..Len(s) : s[i] \in X
  BY LenProperties, ElementOfSeq
<1> DEFINE Up(n) == {s[i] : i \in {k \in 1..n : s[k] \in wanted}}
           Reached == {n \in 0..Len(s) : f[n] \in Seq(X) /\ ToSet(f[n]) = Up(n)}
<1>3. 0 \in Reached
  <2>1. <<>> \in Seq(X) /\ ToSet(<<>>) = {}
    BY EmptySeq DEF ToSet
  <2>2. Up(0) = {} /\ 0 \in 0..Len(s)
    BY <1>2
  <2> QED
    BY <1>1, <2>1, <2>2
<1>4. ASSUME NEW n \in 1..Len(s), n - 1 \in Reached PROVE n \in Reached
  <2>1. n \in 0..Len(s) /\ s[n] \in X /\ 1..n = (1..(n - 1)) \cup {n}
    BY <1>2
  <2>2. f[n - 1] \in Seq(X) /\ ToSet(f[n - 1]) = Up(n - 1)
    BY <1>4
  <2>3. f[n] = IF s[n] \in wanted THEN Append(f[n - 1], s[n]) ELSE f[n - 1]
    BY <1>1
  <2>4. CASE s[n] \in wanted
    <3>1. f[n] \in Seq(X) /\ ToSet(f[n]) = ToSet(f[n - 1]) \cup {s[n]}
      BY <2>1, <2>2, <2>3, <2>4, AppendMember
    <3>2. Up(n) = Up(n - 1) \cup {s[n]}
      BY <2>1, <2>4
    <3> QED
      BY <2>1, <2>2, <3>1, <3>2
  <2>5. CASE s[n] \notin wanted
    <3>1. Up(n) = Up(n - 1)
      BY <2>1, <2>5
    <3> QED
      BY <2>1, <2>2, <2>3, <2>5, <3>1
  <2> QED
    BY <2>4, <2>5
<1>5. Len(s) \in Reached
  <2> HIDE DEF Reached
  <2>1. 0..Len(s) \subseteq Reached
    BY <1>2, <1>3, <1>4, CountUp
  <2> QED
    BY <1>2, <2>1
<1>6. Up(Len(s)) = ToSet(s) \cap wanted
  BY <1>2 DEF ToSet
<1> QED
  BY <1>1, <1>5, <1>6

-----------------------------------------------------------------------------
(* Orders *)

\* R is a strict order of S: of no two elements does each come before the other.
StrictOrder(R, S) ==
    /\ \A x \in S : <<x, x>> \notin R
    /\ \A x, y, z \in S : <<x, y>> \in R /\ <<y, z>> \in R => <<x, z>> \in R

\* In a finite set something comes before nothing.
LEMMA LastExists ==
  ASSUME NEW S, IsFiniteSet(S), S # {}, NEW R, StrictOrder(R, S)
  PROVE  \E m \in S : \A x \in S : <<m, x>> \notin R
<1> DEFINE After(x) == {y \in S : <<x, y>> \in R}
           sizes == {Cardinality(After(x)) : x \in S}
<1>1. \A x \in S : IsFiniteSet(After(x)) /\ Cardinality(After(x)) \in Nat
  BY FS_Subset, FS_CardinalityType
<1>2. \E n \in sizes : \A k \in sizes : n <= k
  <2>1. sizes \in SUBSET Nat /\ sizes # {}
    BY <1>1
  <2> HIDE DEF sizes
  <2> QED
    BY <2>1, LeastExists
<1>3. PICK m \in S : \A x \in S : Cardinality(After(m)) <= Cardinality(After(x))
  <2>1. PICK n \in sizes : \A k \in sizes : n <= k
    BY <1>2
  <2> HIDE DEF After
  <2>2. \E m \in S : n = Cardinality(After(m))
    BY <2>1
  <2>3. \A x \in S : Cardinality(After(x)) \in sizes
    OBVIOUS
  <2> QED
    BY <2>1, <2>2, <2>3
<1>4. ASSUME NEW x \in S, <<m, x>> \in R PROVE FALSE
  <2>1. After(x) \subseteq After(m) /\ x \in After(m) /\ x \notin After(x)
    BY <1>4 DEF StrictOrder
  <2> HIDE DEF After
  <2>2. Cardinality(After(x)) <= Cardinality(After(m))
    BY <1>1, <2>1, FS_Subset
  <2>3. Cardinality(After(x)) = Cardinality(After(m))
    BY <1>1, <1>3, <2>2
  <2>4. After(m) = After(x)
    BY <1>1, <2>1, <2>3, FS_Subset
  <2> QED
    BY <2>1, <2>4
<1> QED
  BY <1>4

\* The sequences that list each element of a set once.
LEMMA ListingsOf ==
  ASSUME NEW S, IsFiniteSet(S), NEW s \in SetToSeqs(S)
  PROVE  /\ Cardinality(S) \in Nat
         /\ s \in Seq(S)
         /\ Len(s) = Cardinality(S)
         /\ DOMAIN s = 1..Cardinality(S)
         /\ ToSet(s) = S
         /\ IsInjective(s)
<1> DEFINE n == Cardinality(S)
<1>1. n \in Nat
  BY FS_CardinalityType
<1>2. s \in [1..n -> S] /\ \A i, j \in 1..n : i # j => s[i] # s[j]
  BY DEF SetToSeqs
<1> HIDE DEF n
<1>3. s \in Seq(S) /\ Len(s) = n /\ DOMAIN s = 1..n
  BY <1>1, <1>2
<1>4. s \in Injection(1..n, S)
  BY <1>2 DEF Injection, IsInjective
<1>5. Cardinality(1..n) = Cardinality(S)
  BY <1>1, UpTo DEF n
<1>6. s \in Surjection(1..n, S)
  BY <1>4, <1>5, FS_Injection
<1>7. ToSet(s) = S
  BY <1>3, <1>6 DEF Surjection, ToSet
<1>8. IsInjective(s)
  BY <1>2, <1>3 DEF IsInjective
<1> QED
  BY <1>1, <1>3, <1>7, <1>8 DEF n

\* Sorted: of two elements the one at the later place does not come before the other.
Sorted(s, R) == \A j, k \in DOMAIN s : j < k => <<s[k], s[j]>> \notin R

\* A finite set can be sorted by a strict order.
LEMMA SortedExists ==
  ASSUME NEW S, IsFiniteSet(S), NEW R, StrictOrder(R, S)
  PROVE  \E s \in SetToSeqs(S) : Sorted(s, R)
<1> DEFINE Can(T) == \E s \in SetToSeqs(T) : Sorted(s, R)
           N == Cardinality(S)
           Reached == {n \in 0..N : \A T \in SUBSET S : Cardinality(T) = n => Can(T)}
<1>1. N \in Nat /\ \A T \in SUBSET S : IsFiniteSet(T) /\ Cardinality(T) \in Nat
  BY FS_Subset, FS_CardinalityType
<1>2. 0 \in Reached
  <2> SUFFICES ASSUME NEW T \in SUBSET S, Cardinality(T) = 0 PROVE Can(T)
    BY <1>1
  <2>1. <<>> \in [1..0 -> T]
    OBVIOUS
  <2>2. <<>> \in SetToSeqs(T) /\ DOMAIN <<>> = {}
    BY <2>1 DEF SetToSeqs
  <2> QED
    BY <2>2 DEF Sorted
<1>3. ASSUME NEW n \in 1..N, n - 1 \in Reached PROVE n \in Reached
  <2>1. n \in 0..N /\ n \in Nat
    BY <1>1
  <2> SUFFICES ASSUME NEW T \in SUBSET S, Cardinality(T) = n PROVE Can(T)
    BY <2>1
  <2>2. T # {} /\ IsFiniteSet(T) /\ StrictOrder(R, T)
    <3>1. T # {}
      BY FS_EmptySet
    <3>2. StrictOrder(R, T)
      BY DEF StrictOrder
    <3> QED
      BY <1>1, <3>1, <3>2
  <2>3. PICK m \in T : \A x \in T : <<m, x>> \notin R
    BY <2>2, LastExists
  <2> DEFINE U == T \ {m}
  <2>4. Cardinality(U) = n - 1 /\ U \in SUBSET S
    BY <2>2, FS_RemoveElement
  <2>5. PICK u \in SetToSeqs(U) : Sorted(u, R)
    <3> HIDE DEF U
    <3> QED
      BY <1>3, <2>4
  <2>6. u \in [1..(n - 1) -> U] /\ \A i, j \in 1..(n - 1) : i # j => u[i] # u[j]
    <3> HIDE DEF U
    <3> QED
      BY <2>4 DEF SetToSeqs
  <2> DEFINE s == [i \in 1..n |-> IF i = n THEN m ELSE u[i]]
  <2>7. \A i \in 1..n : i = n \/ i \in 1..(n - 1)
    BY <2>1
  <2>8. s \in [1..n -> T]
    BY <2>6, <2>7
  <2>9. \A i, j \in 1..n : i # j => s[i] # s[j]
    BY <2>6, <2>7
  <2>10. s \in SetToSeqs(T)
    <3> HIDE DEF s
    <3> QED
      BY <2>8, <2>9 DEF SetToSeqs
  <2>11. \A j, k \in 1..n : j < k => <<s[k], s[j]>> \notin R
    <3> SUFFICES ASSUME NEW j \in 1..n, NEW k \in 1..n, j < k PROVE <<s[k], s[j]>> \notin R
      OBVIOUS
    <3>1. j \in 1..(n - 1) /\ s[j] = u[j] /\ s[j] \in T
      BY <2>1, <2>6
    <3>2. CASE k = n
      BY <2>3, <3>1, <3>2
    <3>3. CASE k # n
      <4>1. k \in 1..(n - 1) /\ s[k] = u[k]
        BY <2>7, <3>3
      <4> QED
        BY <2>5, <2>6, <3>1, <4>1 DEF Sorted
    <3> QED
      BY <3>2, <3>3
  <2>12. Sorted(s, R)
    BY <2>11 DEF Sorted
  <2> HIDE DEF s
  <2> QED
    BY <2>10, <2>12
<1>4. N \in Reached
  <2> HIDE DEF Reached
  <2>1. 0..N \subseteq Reached
    BY <1>1, <1>3, <1>2, CountUp
  <2> QED
    BY <1>1, <2>1
<1> QED
  BY <1>4

\* Rows in the order of the sheet are each there once.
LEMMA InOrderProperties ==
  ASSUME NEW n \in Nat, NEW S \in SUBSET (1..n)
  PROVE  /\ InOrder(S) \in Seq(Nat)
         /\ ToSet(InOrder(S)) = S
         /\ IsInjective(InOrder(S))
<1> DEFINE c == Cardinality(S)
           Below(i) == {j \in S : j < i}
           rank == [i \in S |-> Cardinality(Below(i))]
<1>1. IsFiniteSet(S) /\ c \in Nat /\ S \subseteq Nat
  <2>1. S \subseteq Nat
    OBVIOUS
  <2> QED
    BY <2>1, UpTo, FS_Subset, FS_CardinalityType
<1>2. \A i \in S : IsFiniteSet(Below(i)) /\ Cardinality(Below(i)) \in Nat
  BY <1>1, FS_Subset, FS_CardinalityType
<1>3. \A i \in S : Cardinality(Below(i)) \in 0..(c - 1)
  <2> SUFFICES ASSUME NEW i \in S PROVE Cardinality(Below(i)) \in 0..(c - 1)
    OBVIOUS
  <2>1. Below(i) \in SUBSET S /\ i \notin Below(i)
    BY <1>1
  <2>2. Cardinality(Below(i)) <= c /\ Cardinality(Below(i)) # c
    <3> HIDE DEF Below
    <3> QED
      BY <1>1, <2>1, FS_Subset
  <2> HIDE DEF Below
  <2> QED
    BY <1>1, <1>2, <2>2
<1>4. \A i, j \in S : i < j => Cardinality(Below(i)) < Cardinality(Below(j))
  <2> SUFFICES ASSUME NEW i \in S, NEW j \in S, i < j
               PROVE  Cardinality(Below(i)) < Cardinality(Below(j))
    OBVIOUS
  <2>1. Below(i) \in SUBSET Below(j) /\ i \in Below(j) /\ i \notin Below(i)
    <3>1. i \in Nat /\ j \in Nat /\ \A x \in S : x \in Nat
      BY <1>1
    <3>2. ~ (i < i) /\ \A x \in S : x < i => x < j
      BY <3>1
    <3> QED
      BY <3>2
  <2>2. Cardinality(Below(i)) <= Cardinality(Below(j)) /\ Cardinality(Below(i)) # Cardinality(Below(j))
    <3> HIDE DEF Below
    <3> QED
      BY <1>2, <2>1, FS_Subset
  <2> HIDE DEF Below
  <2> QED
    BY <1>2, <2>2
<1>5. rank \in Injection(S, 0..(c - 1))
  <2>1. rank \in [S -> 0..(c - 1)]
    BY <1>3
  <2>2. \A i, j \in S : rank[i] = rank[j] => i = j
    <3> SUFFICES ASSUME NEW i \in S, NEW j \in S, i # j PROVE rank[i] # rank[j]
      OBVIOUS
    <3>1. i < j \/ j < i
      BY <1>1
    <3>2. rank[i] < rank[j] \/ rank[j] < rank[i]
      BY <1>4, <3>1
    <3>3. rank[i] \in Nat /\ rank[j] \in Nat
      BY <1>2
    <3> HIDE DEF rank
    <3> QED
      BY <3>2, <3>3
  <2> HIDE DEF rank
  <2> QED
    BY <2>1, <2>2 DEF Injection, IsInjective
<1>6. IsFiniteSet(0..(c - 1)) /\ Cardinality(0..(c - 1)) = c
  <2>1. IsFiniteSet(0..(c - 1)) /\ Cardinality(0..(c - 1)) = IF 0 > c - 1 THEN 0 ELSE c - 1 - 0 + 1
    BY <1>1, FS_Interval, SMTT(30)
  <2> QED
    BY <1>1, <2>1
<1>7. rank \in Surjection(S, 0..(c - 1))
  <2> HIDE DEF rank
  <2> QED
    BY <1>5, <1>6, FS_Injection
<1>8. \A k \in 1..c : \E i \in S : Cardinality(Below(i)) = k - 1
  <2>1. \A r \in 0..(c - 1) : \E i \in S : rank[i] = r
    <3> HIDE DEF rank
    <3> QED
      BY <1>7 DEF Surjection
  <2>2. \A k \in 1..c : k - 1 \in 0..(c - 1)
    BY <1>1
  <2> QED
    BY <2>1, <2>2
<1> DEFINE s == InOrder(S)
<1>9. s = [k \in 1..c |-> CHOOSE i \in S : Cardinality(Below(i)) = k - 1]
  BY DEF InOrder
<1>10. \A k \in 1..c : s[k] \in S /\ Cardinality(Below(s[k])) = k - 1
  <2> HIDE DEF c, Below
  <2> QED
    BY <1>8, <1>9
<1>11. DOMAIN s = 1..c /\ s \in [1..c -> Nat]
  <2> HIDE DEF Below, c
  <2>1. DOMAIN s = 1..c
    BY <1>9
  <2>2. \A k \in 1..c : s[k] \in Nat
    BY <1>1, <1>10
  <2> QED
    BY <1>9, <2>2
<1> HIDE DEF s
<1>12. \A i \in S : \E k \in 1..c : s[k] = i
  <2> SUFFICES ASSUME NEW i \in S PROVE \E k \in 1..c : s[k] = i
    OBVIOUS
  <2> DEFINE k == Cardinality(Below(i)) + 1
  <2>1. k \in 1..c /\ k - 1 = Cardinality(Below(i))
    <3> HIDE DEF Below
    <3> QED
      BY <1>1, <1>3
  <2>2. s[k] \in S /\ Cardinality(Below(s[k])) = Cardinality(Below(i))
    BY <1>10, <2>1
  <2>3. s[k] = i
    <3>1. rank[s[k]] = rank[i] /\ s[k] \in DOMAIN rank /\ i \in DOMAIN rank
      BY <2>2
    <3> HIDE DEF rank
    <3> QED
      BY <1>5, <3>1 DEF Injection, IsInjective
  <2> QED
    BY <2>1, <2>3
<1>13. \A k, l \in 1..c : s[k] = s[l] => k = l
  <2> HIDE DEF Below, c
  <2> SUFFICES ASSUME NEW k \in 1..c, NEW l \in 1..c, s[k] = s[l] PROVE k = l
    OBVIOUS
  <2>1. k - 1 = l - 1
    BY <1>10
  <2> QED
    BY <1>1, <2>1
<1>14. s \in Seq(Nat)
  BY <1>1, <1>11
<1>15. ToSet(s) = S
  <2> HIDE DEF Below, c
  <2> QED
    BY <1>10, <1>11, <1>12 DEF ToSet
<1>16. IsInjective(s)
  BY <1>11, <1>13 DEF IsInjective
<1> QED
  BY <1>14, <1>15, <1>16 DEF s

-----------------------------------------------------------------------------
(* Flattened lists *)

\* No two places of a sequence have elements of one key.
Once(key, q) == \A i, j \in DOMAIN q : key[q[i]] = key[q[j]] => i = j

\* One list after the other has the members of both.
LEMMA ConcatMembers ==
  ASSUME NEW X, NEW q \in Seq(X), NEW r \in Seq(X)
  PROVE  /\ q \o r \in Seq(X)
         /\ ToSet(q \o r) = ToSet(q) \cup ToSet(r)
         /\ \A key : (/\ Once(key, q) /\ Once(key, r)
                      /\ \A x \in ToSet(q), y \in ToSet(r) : key[x] # key[y])
                     => Once(key, q \o r)
<1> DEFINE c == q \o r
           m == Len(q)
           n == Len(r)
<1>1. m \in Nat /\ n \in Nat /\ DOMAIN q = 1..m /\ DOMAIN r = 1..n
  BY LenProperties
<1>2. c \in Seq(X) /\ Len(c) = m + n /\ \A i \in 1..(m + n) : c[i] = IF i <= m THEN q[i] ELSE r[i - m]
  BY ConcatProperties
<1>3. DOMAIN c = 1..(m + n)
  BY <1>2, LenProperties
<1> HIDE DEF c, m, n
<1>4. \A i \in 1..(m + n) : \/ i \in 1..m /\ c[i] = q[i]
                            \/ i - m \in 1..n /\ i > m /\ c[i] = r[i - m]
  <2> SUFFICES ASSUME NEW i \in 1..(m + n)
               PROVE  \/ i \in 1..m /\ c[i] = q[i]
                      \/ i - m \in 1..n /\ i > m /\ c[i] = r[i - m]
    OBVIOUS
  <2>1. (i <= m /\ i \in 1..m) \/ (~ (i <= m) /\ i - m \in 1..n /\ i > m)
    BY <1>1
  <2> QED
    BY <1>2, <2>1
<1>5. \A i \in 1..m : i \in 1..(m + n) /\ c[i] = q[i]
  BY <1>1, <1>2
<1>6. \A i \in 1..n : i + m \in 1..(m + n) /\ c[i + m] = r[i]
  <2> SUFFICES ASSUME NEW i \in 1..n PROVE i + m \in 1..(m + n) /\ c[i + m] = r[i]
    OBVIOUS
  <2> DEFINE k == i + m
  <2>1. k \in 1..(m + n) /\ ~ (k <= m) /\ k - m = i
    BY <1>1
  <2> HIDE DEF k
  <2>2. c[k] = r[k - m]
    BY <1>2, <2>1
  <2> QED
    BY <2>1, <2>2 DEF k
<1>7. ToSet(c) = ToSet(q) \cup ToSet(r)
  <2>1. ToSet(c) \subseteq ToSet(q) \cup ToSet(r)
    BY <1>1, <1>3, <1>4 DEF ToSet
  <2>2. ToSet(q) \cup ToSet(r) \subseteq ToSet(c)
    BY <1>1, <1>3, <1>5, <1>6 DEF ToSet
  <2> QED
    BY <2>1, <2>2
<1>8. ASSUME NEW key, Once(key, q), Once(key, r),
             \A x \in ToSet(q), y \in ToSet(r) : key[x] # key[y]
      PROVE  Once(key, c)
  <2> SUFFICES ASSUME NEW i \in 1..(m + n), NEW j \in 1..(m + n), key[c[i]] = key[c[j]] PROVE i = j
    BY <1>3 DEF Once
  <2>1. \A x \in 1..m, y \in 1..n : key[q[x]] # key[r[y]]
    BY <1>1, <1>8 DEF ToSet
  <2>2. CASE i \in 1..m /\ c[i] = q[i] /\ j \in 1..m /\ c[j] = q[j]
    BY <1>1, <1>8, <2>2 DEF Once
  <2>3. CASE i - m \in 1..n /\ c[i] = r[i - m] /\ j - m \in 1..n /\ c[j] = r[j - m]
    <3>1. i - m = j - m
      BY <1>1, <1>8, <2>3 DEF Once
    <3> QED
      BY <1>1, <3>1
  <2>4. CASE i \in 1..m /\ c[i] = q[i] /\ j - m \in 1..n /\ c[j] = r[j - m]
    BY <2>1, <2>4
  <2>5. CASE i - m \in 1..n /\ c[i] = r[i - m] /\ j \in 1..m /\ c[j] = q[j]
    BY <2>1, <2>5
  <2> QED
    BY <1>4, <2>2, <2>3, <2>4, <2>5
<1> QED
  BY <1>2, <1>7, <1>8 DEF c

\* Flattening takes in the lists one by one.
LEMMA FlattenSteps ==
  ASSUME NEW X, NEW ss \in Seq(Seq(X))
  PROVE  \E f : /\ f[0] = <<>>
                /\ FlattenSeq(ss) = f[Len(ss)]
                /\ \A n \in 1..Len(ss) : f[n - 1] \in Seq(X) => f[n] = f[n - 1] \o ss[n]
<1> DEFINE N == Len(ss)
           Body(g, n) == [i \in 1..n |-> IF i = 1 THEN ss[i] ELSE g[i - 1] \o ss[i]]
           it == CHOOSE g : g = Body(g, N)
           Reached == {n \in 0..N : \E g : g = Body(g, n)}
<1>1. N \in Nat /\ DOMAIN ss = 1..N /\ \A i \in 1..N : ss[i] \in Seq(X)
  BY LenProperties, ElementOfSeq
<1>2. 0 \in Reached
  <2> DEFINE g == [i \in 1..0 |-> <<>>]
  <2>1. g = Body(g, 0)
    OBVIOUS
  <2> HIDE DEF g, Body
  <2> QED
    BY <1>1, <2>1
<1>3. ASSUME NEW n \in 1..N, n - 1 \in Reached PROVE n \in Reached
  <2>1. PICK h : h = Body(h, n - 1)
    BY <1>3
  <2> DEFINE last == IF n = 1 THEN ss[n] ELSE h[n - 1] \o ss[n]
             g == [i \in 1..n |-> IF i = n THEN last ELSE h[i]]
  <2>2. \A i \in 1..n : g[i] = IF i = 1 THEN ss[i] ELSE g[i - 1] \o ss[i]
    <3> SUFFICES ASSUME NEW i \in 1..n PROVE g[i] = IF i = 1 THEN ss[i] ELSE g[i - 1] \o ss[i]
      OBVIOUS
    <3>1. CASE i = n
      <4>1. CASE n = 1
        BY <3>1, <4>1
      <4>2. CASE n # 1
        <5>1. n - 1 \in 1..n /\ n - 1 # n
          BY <1>1, <4>2
        <5>2. g[n - 1] = h[n - 1]
          BY <5>1
        <5> QED
          BY <3>1, <4>2, <5>2
      <4> QED
        BY <4>1, <4>2
    <3>2. CASE i # n
      <4>1. i \in 1..(n - 1) /\ (i # 1 => i - 1 \in 1..n /\ i - 1 # n)
        BY <1>1, <3>2
      <4>2. h[i] = IF i = 1 THEN ss[i] ELSE h[i - 1] \o ss[i]
        BY <2>1, <4>1
      <4>3. g[i] = h[i] /\ (i # 1 => g[i - 1] = h[i - 1])
        BY <3>2, <4>1
      <4> HIDE DEF g
      <4> QED
        BY <4>2, <4>3
    <3> QED
      BY <3>1, <3>2
  <2>3. g = Body(g, n)
    <3>1. DOMAIN g = 1..n /\ g = [i \in 1..n |-> g[i]]
      OBVIOUS
    <3> HIDE DEF g
    <3> QED
      BY <2>2, <3>1
  <2>4. n \in 0..N
    BY <1>1
  <2> HIDE DEF g, Body
  <2> QED
    BY <2>3, <2>4
<1>4. \E g : g = Body(g, N)
  <2>1. N \in Reached
    <3> HIDE DEF Reached, N
    <3>1. 0..N \subseteq Reached
      BY <1>1, <1>2, <1>3, CountUp
    <3> QED
      BY <1>1, <3>1
  <2> QED
    BY <2>1
<1>5. it = Body(it, N)
  <2> HIDE DEF Body
  <2> QED
    BY <1>4
<1>6. FlattenSeq(ss) = IF N = 0 THEN ss ELSE it[N]
  BY DEF FlattenSeq
<1> HIDE DEF it
<1> DEFINE f == [n \in 0..N |-> IF n = 0 THEN <<>> ELSE it[n]]
<1>7. f[0] = <<>>
  BY <1>1
<1>8. FlattenSeq(ss) = f[N]
  <2>1. CASE N = 0
    BY <1>6, <1>7, <2>1, EmptySeq
  <2>2. CASE N # 0
    BY <1>1, <1>6, <2>2
  <2> QED
    BY <2>1, <2>2
<1>9. ASSUME NEW n \in 1..N, f[n - 1] \in Seq(X) PROVE f[n] = f[n - 1] \o ss[n]
  <2>1. n \in 0..N /\ n - 1 \in 0..N /\ n # 0
    BY <1>1
  <2>2. it[n] = IF n = 1 THEN ss[n] ELSE it[n - 1] \o ss[n]
    BY <1>5
  <2>3. f[n] = it[n]
    BY <2>1
  <2>4. CASE n = 1
    <3>1. f[n - 1] = <<>> /\ ss[n] \in Seq(X)
      BY <1>1, <1>7, <2>4
    <3> HIDE DEF f
    <3> QED
      BY <2>2, <2>3, <2>4, <3>1, ConcatEmptySeq
  <2>5. CASE n # 1
    <3>1. f[n - 1] = it[n - 1]
      BY <2>1, <2>5
    <3> HIDE DEF f
    <3> QED
      BY <2>2, <2>3, <2>5, <3>1
  <2> QED
    BY <2>4, <2>5
<1> HIDE DEF f
<1> QED
  BY <1>7, <1>8, <1>9

\* Flattened, lists keep their members, and their places those of one key.
LEMMA FlattenProperties ==
  ASSUME NEW X, NEW ss \in Seq(Seq(X))
  PROVE  /\ FlattenSeq(ss) \in Seq(X)
         /\ ToSet(FlattenSeq(ss)) = UNION {ToSet(ss[i]) : i \in DOMAIN ss}
         /\ \A key : (/\ \A i \in DOMAIN ss : Once(key, ss[i])
                      /\ \A i, j \in DOMAIN ss : i # j =>
                            \A x \in ToSet(ss[i]), y \in ToSet(ss[j]) : key[x] # key[y])
                     => Once(key, FlattenSeq(ss))
<1> DEFINE N == Len(ss)
           Up(n) == UNION {ToSet(ss[i]) : i \in 1..n}
<1>1. PICK f : /\ f[0] = <<>>
               /\ FlattenSeq(ss) = f[N]
               /\ \A n \in 1..N : f[n - 1] \in Seq(X) => f[n] = f[n - 1] \o ss[n]
  BY FlattenSteps
<1>2. N \in Nat /\ DOMAIN ss = 1..N /\ \A i \in 1..N : ss[i] \in Seq(X)
  BY LenProperties, ElementOfSeq
<1> DEFINE Reached == {n \in 0..N : f[n] \in Seq(X) /\ ToSet(f[n]) = Up(n)}
<1>3. 0 \in Reached
  <2>1. <<>> \in Seq(X) /\ ToSet(<<>>) = {}
    BY EmptySeq DEF ToSet
  <2>2. Up(0) = {} /\ 0 \in 0..N
    BY <1>2
  <2>3. f[0] \in Seq(X) /\ ToSet(f[0]) = {}
    BY <1>1, <2>1
  <2> HIDE DEF Up, N
  <2> QED
    BY <2>2, <2>3
<1>4. \A n \in 1..N : Up(n) = Up(n - 1) \cup ToSet(ss[n])
  <2> SUFFICES ASSUME NEW n \in 1..N PROVE Up(n) = Up(n - 1) \cup ToSet(ss[n])
    OBVIOUS
  <2>1. 1..n = (1..(n - 1)) \cup {n}
    BY <1>2
  <2> QED
    BY <2>1
<1>5. ASSUME NEW n \in 1..N, n - 1 \in Reached PROVE n \in Reached
  <2>1. n \in 0..N /\ ss[n] \in Seq(X)
    BY <1>2
  <2>2. f[n - 1] \in Seq(X) /\ ToSet(f[n - 1]) = Up(n - 1)
    BY <1>5
  <2> HIDE DEF Up
  <2>3. f[n] = f[n - 1] \o ss[n]
    BY <1>1, <2>2
  <2>4. f[n] \in Seq(X) /\ ToSet(f[n]) = Up(n - 1) \cup ToSet(ss[n])
    BY <2>1, <2>2, <2>3, ConcatMembers
  <2> QED
    BY <1>4, <2>1, <2>4
<1>6. 0..N \subseteq Reached
  <2> HIDE DEF Reached, N
  <2> QED
    BY <1>2, <1>3, <1>5, CountUp
<1>7. FlattenSeq(ss) \in Seq(X) /\ ToSet(FlattenSeq(ss)) = UNION {ToSet(ss[i]) : i \in DOMAIN ss}
  <2>1. N \in Reached
    BY <1>2, <1>6
  <2> QED
    BY <1>1, <1>2, <2>1
<1>8. ASSUME NEW key, \A i \in DOMAIN ss : Once(key, ss[i]),
             \A i, j \in DOMAIN ss : i # j =>
                \A x \in ToSet(ss[i]), y \in ToSet(ss[j]) : key[x] # key[y]
      PROVE  Once(key, FlattenSeq(ss))
  <2> DEFINE Fine == {n \in 0..N : Once(key, f[n])}
  <2>1. 0 \in Fine
    BY <1>1, <1>2 DEF Once
  <2>2. ASSUME NEW n \in 1..N, n - 1 \in Fine PROVE n \in Fine
    <3>0. n \in 0..N /\ n - 1 \in 0..N
      BY <1>2
    <3>1. n \in 0..N /\ ss[n] \in Seq(X) /\ Once(key, ss[n]) /\ n - 1 \in 0..N
      BY <1>2, <1>8, <3>0
    <3>2. f[n - 1] \in Seq(X) /\ ToSet(f[n - 1]) = Up(n - 1) /\ Once(key, f[n - 1])
      BY <1>6, <2>2, <3>1
    <3>3. \A x \in Up(n - 1), y \in ToSet(ss[n]) : key[x] # key[y]
      <4> SUFFICES ASSUME NEW x \in Up(n - 1), NEW y \in ToSet(ss[n]) PROVE key[x] # key[y]
        OBVIOUS
      <4>1. PICK i \in 1..(n - 1) : x \in ToSet(ss[i])
        OBVIOUS
      <4>2. i \in DOMAIN ss /\ n \in DOMAIN ss /\ i # n
        BY <1>2
      <4> QED
        BY <1>8, <4>1, <4>2
    <3> HIDE DEF Up
    <3>4. f[n] = f[n - 1] \o ss[n]
      BY <1>1, <3>2
    <3>5. Once(key, f[n - 1] \o ss[n])
      BY <3>1, <3>2, <3>3, ConcatMembers
    <3> QED
      BY <3>1, <3>4, <3>5
  <2>3. N \in Fine
    <3> HIDE DEF Fine, N
    <3>1. 0..N \subseteq Fine
      BY <1>2, <2>1, <2>2, CountUp
    <3> QED
      BY <1>2, <3>1
  <2> QED
    BY <1>1, <2>3
<1> QED
  BY <1>7, <1>8

-----------------------------------------------------------------------------
(* Who a cell names *)

\* What replacing the parts of a record leaves.
LEMMA PartsReplaced ==
  ASSUME NEW D, NEW P, NEW A, NEW c \in [day : D, parts : P, as : A], NEW q
  PROVE  [c EXCEPT !.parts = q] = [day |-> c.day, parts |-> q, as |-> c.as]
  OBVIOUS

\* Each part of a cell is a cell of one part.
LEMMA SplitCellType ==
  ASSUME NEW cell \in Cell
  PROVE  SplitCell(cell) \in Seq(Somebody) /\ Len(SplitCell(cell)) = Len(cell.parts)
<1> DEFINE part(i) == [cell EXCEPT !.parts = <<cell.parts[i]>>]
           n == Len(cell.parts)
<1>1. cell.parts \in Seq(Seq(Nat)) /\ cell.day \in Int \cup {NoDay} /\ cell.as \in Nat
  BY DEF Cell
<1>2. n \in Nat /\ DOMAIN cell.parts = 1..n /\ \A i \in 1..n : cell.parts[i] \in Seq(Nat)
  BY <1>1, LenProperties, ElementOfSeq
<1>3. ASSUME NEW i \in 1..n PROVE part(i) \in Somebody
  <2>1. <<cell.parts[i]>> \in Seq(Seq(Nat)) /\ <<cell.parts[i]>> # <<>>
    BY <1>2
  <2>2. part(i) = [day |-> cell.day, parts |-> <<cell.parts[i]>>, as |-> cell.as]
    BY PartsReplaced, SMTT(30) DEF Cell
  <2> QED
    BY <1>1, <2>1, <2>2 DEF Somebody, Cell, NormalisePerson
<1>4. SplitCell(cell) = [i \in 1..n |-> part(i)]
  BY <1>2 DEF SplitCell
<1> HIDE DEF part
<1>5. SplitCell(cell) \in [1..n -> Somebody]
  BY <1>3, <1>4
<1>6. \A k \in Nat : \A s \in [1..k -> Somebody] : s \in Seq(Somebody) /\ Len(s) = k
  OBVIOUS
<1> QED
  BY <1>2, <1>5, <1>6

\* A surface has the alias table, or an empty one.
LEMMA ResolverType ==
  ASSUME TypeInv, NEW resolver \in Resolvers
  PROVE  resolver \in Seq(Alias)
<1>1. <<>> \in Seq(Alias)
  BY EmptySeq
<1> QED
  BY <1>1 DEF TypeInv, Resolvers

\* A name is looked up to names of somebody.
LEMMA LookupType ==
  ASSUME NEW resolver \in Seq(Alias), NEW name \in Somebody
  PROVE  Lookup(resolver, name) \in Seq(Somebody) /\ Lookup(resolver, name) # <<>>
<1> DEFINE found == Canonicals(resolver, NormalisePerson(name))
<1>1. found \in Seq(Cell) /\ ToSet(found) = {a.canonical : a \in {b \in ToSet(resolver) : b.alias = NormalisePerson(name)}}
  BY CanonicalsProperties
<1>2. \A a \in ToSet(resolver) : a.canonical \in Somebody
  <2>1. DOMAIN resolver = 1..Len(resolver)
    BY LenProperties
  <2>2. \A i \in 1..Len(resolver) : resolver[i] \in Alias
    BY ElementOfSeq
  <2> QED
    BY <2>1, <2>2 DEF ToSet, Alias
<1>3. found \in Seq(Somebody)
  <2> HIDE DEF found
  <2>1. \A n \in ToSet(found) : n \in Somebody
    BY <1>1, <1>2
  <2> QED
    BY <1>1, <2>1, MembersType
<1>4. <<name>> \in Seq(Somebody)
  OBVIOUS
<1> QED
  BY <1>3, <1>4 DEF Lookup

\* There are no numbers up to 0.
LEMMA UpToNone ==
  ASSUME NEW n \in Nat
  PROVE  1..n = {} <=> n = 0
<1>1. n # 0 => 1 \in 1..n
  OBVIOUS
<1>2. n = 0 => 1..n = {}
  OBVIOUS
<1> QED
  BY <1>1, <1>2

\* A list is empty when nobody is in it.
LEMMA NobodyListed ==
  ASSUME NEW X, NEW s \in Seq(X)
  PROVE  s = <<>> <=> ToSet(s) = {}
<1>1. Len(s) \in Nat /\ DOMAIN s = 1..Len(s)
  BY LenProperties
<1>2. DOMAIN s = {} <=> Len(s) = 0
  BY <1>1, UpToNone
<1>3. s = <<>> <=> DOMAIN s = {}
  BY <1>2, EmptySeq
<1> QED
  BY <1>3 DEF ToSet

\* Whom a cell resolves to: people, each once, nobody for a cell without a name, and for
\* a cell spelled like an alias everybody the alias stands for.
LEMMA Resolved ==
  ASSUME NEW resolver \in Seq(Alias), NEW cell \in Cell, NEW names, names = ResolveCell(resolver, cell)
  PROVE  /\ names \in Seq(Somebody)
         /\ \A i, j \in DOMAIN names : NormalisePerson(names[i]) = NormalisePerson(names[j]) => i = j
         /\ names = <<>> <=> NormalisePerson(cell) = <<>>
         /\ cell = Blank => names = <<>>
         /\ \A a \in ToSet(resolver) :
                a.alias = NormalisePerson(cell) =>
                    \E n \in ToSet(names) : NormalisePerson(n) = NormalisePerson(a.canonical)
<1> DEFINE whole == Canonicals(resolver, NormalisePerson(cell))
           parts == SplitCell(cell)
           looked == [i \in DOMAIN parts |-> Lookup(resolver, parts[i])]
<1>0. ASSUME NEW q \in Seq(Somebody)
      PROVE  /\ DistinctPeople(q) \in Seq(Somebody)
             /\ \A i, j \in DOMAIN DistinctPeople(q) :
                    NormalisePerson(DistinctPeople(q)[i]) = NormalisePerson(DistinctPeople(q)[j]) => i = j
             /\ \A n \in ToSet(q) : \E k \in ToSet(DistinctPeople(q)) : NormalisePerson(k) = NormalisePerson(n)
             /\ DistinctPeople(q) = <<>> <=> ToSet(q) = {}
  <2>1. Somebody \subseteq Cell
    BY DEF Somebody
  <2>2. q \in Seq(Cell)
    BY <2>1, SeqMonotonic
  <2>3. \A n \in ToSet(q) : n \in Somebody
    BY ElementOfSeq, LenProperties DEF ToSet
  <2>4. /\ DistinctPeople(q) \in Seq(Cell)
        /\ ToSet(DistinctPeople(q)) \subseteq ToSet(q)
        /\ \A n \in ToSet(q) : \E k \in ToSet(DistinctPeople(q)) : NormalisePerson(k) = NormalisePerson(n)
        /\ \A i, j \in DOMAIN DistinctPeople(q) :
               NormalisePerson(DistinctPeople(q)[i]) = NormalisePerson(DistinctPeople(q)[j]) => i = j
    BY <2>2, DistinctPeopleProperties
  <2>5. DistinctPeople(q) \in Seq(Somebody)
    BY <2>3, <2>4, MembersType
  <2>6. DistinctPeople(q) = <<>> <=> ToSet(q) = {}
    <3>1. \A r \in Seq(Somebody) : r = <<>> <=> ToSet(r) = {}
      BY NobodyListed
    <3> QED
      BY <2>4, <2>5, <3>1
  <2> QED
    BY <2>4, <2>5, <2>6
<1>1. /\ whole \in Seq(Cell)
      /\ ToSet(whole) = {a.canonical : a \in {b \in ToSet(resolver) : b.alias = NormalisePerson(cell)}}
  BY CanonicalsProperties
<1>2. \A a \in ToSet(resolver) : a.canonical \in Somebody /\ a.alias # <<>>
  <2>1. DOMAIN resolver = 1..Len(resolver)
    BY LenProperties
  <2>2. \A i \in 1..Len(resolver) : resolver[i] \in Alias
    BY ElementOfSeq
  <2> QED
    BY <2>1, <2>2 DEF ToSet, Alias
<1>3. whole \in Seq(Somebody)
  <2> HIDE DEF whole
  <2>1. \A n \in ToSet(whole) : n \in Somebody
    BY <1>1, <1>2
  <2> QED
    BY <1>1, <2>1, MembersType
<1>4. /\ looked \in Seq(Seq(Somebody))
      /\ Len(looked) = Len(cell.parts)
      /\ \A i \in 1..Len(cell.parts) : looked[i] # <<>>
  <2>1. parts \in Seq(Somebody)
    BY SplitCellType
  <2>2. Len(parts) \in Nat /\ DOMAIN parts = 1..Len(parts) /\ \A i \in 1..Len(parts) : parts[i] \in Somebody
    <3> HIDE DEF parts
    <3> QED
      BY <2>1, LenProperties, ElementOfSeq
  <2> HIDE DEF parts
  <2>3. \A i \in 1..Len(parts) :
            Lookup(resolver, parts[i]) \in Seq(Somebody) /\ Lookup(resolver, parts[i]) # <<>>
    BY <2>2, LookupType
  <2>4. looked \in [1..Len(parts) -> Seq(Somebody)] /\ \A i \in 1..Len(parts) : looked[i] # <<>>
    BY <2>2, <2>3
  <2>5. looked \in Seq(Seq(Somebody)) /\ Len(looked) = Len(parts)
    BY <2>2, <2>4
  <2> QED
    BY <2>2, <2>4, <2>5, SplitCellType DEF parts
<1>5. /\ FlattenSeq(looked) \in Seq(Somebody)
      /\ ToSet(FlattenSeq(looked)) = {} <=> cell.parts = <<>>
  <2> HIDE DEF looked
  <2>1. /\ FlattenSeq(looked) \in Seq(Somebody)
        /\ ToSet(FlattenSeq(looked)) = UNION {ToSet(looked[i]) : i \in DOMAIN looked}
    BY <1>4, FlattenProperties
  <2>2. DOMAIN looked = 1..Len(cell.parts)
    BY <1>4, LenProperties
  <2>3. \A i \in DOMAIN looked : ToSet(looked[i]) # {}
    <3>1. \A i \in DOMAIN looked : looked[i] \in Seq(Somebody)
      BY <1>4, <2>2, ElementOfSeq
    <3> QED
      BY <1>4, <2>2, <3>1, NobodyListed
  <2>4. ToSet(FlattenSeq(looked)) = {} <=> DOMAIN looked = {}
    <3>1. ASSUME NEW i \in DOMAIN looked PROVE ToSet(FlattenSeq(looked)) # {}
      <4>1. PICK n \in ToSet(looked[i]) : TRUE
        BY <2>3
      <4>2. n \in ToSet(FlattenSeq(looked))
        BY <2>1, <4>1
      <4> QED
        BY <4>2
    <3>2. ASSUME NEW n \in ToSet(FlattenSeq(looked)) PROVE DOMAIN looked # {}
      BY <2>1, <3>2
    <3> QED
      BY <3>1, <3>2
  <2>5. cell.parts \in Seq(Seq(Nat))
    BY DEF Cell
  <2>6. cell.parts = <<>> <=> 1..Len(cell.parts) = {}
    <3>1. Len(cell.parts) \in Nat
      BY <2>5, LenProperties
    <3>2. 1..Len(cell.parts) = {} <=> Len(cell.parts) = 0
      BY <3>1, UpToNone
    <3> QED
      BY <2>5, <3>2, EmptySeq
  <2> QED
    BY <2>1, <2>2, <2>4, <2>6
<1>6. names = CASE cell = Blank -> <<>>
                [] cell # Blank /\ whole # <<>> -> DistinctPeople(whole)
                [] OTHER -> DistinctPeople(FlattenSeq(looked))
  BY DEF ResolveCell
<1> HIDE DEF whole, looked
<1>7. CASE cell = Blank
  <2>1. names = <<>>
    BY <1>6, <1>7
  <2>2. NormalisePerson(cell) = <<>>
    BY <1>7 DEF Blank, NormalisePerson
  <2>3. <<>> \in Seq(Somebody) /\ DOMAIN <<>> = {}
    BY EmptySeq
  <2> QED
    BY <1>2, <2>1, <2>2, <2>3
<1>8. CASE cell # Blank /\ whole # <<>>
  <2>1. names = DistinctPeople(whole)
    BY <1>6, <1>8
  <2>2. \A a \in ToSet(resolver) : a.alias = NormalisePerson(cell) => a.canonical \in ToSet(whole)
    BY <1>1
  <2>3. ToSet(whole) # {}
    BY <1>3, <1>8, NobodyListed
  <2>4. NormalisePerson(cell) # <<>>
    BY <1>1, <1>2, <2>3
  <2> QED
    BY <1>0, <1>3, <1>8, <2>1, <2>2, <2>3, <2>4
<1>9. CASE cell # Blank /\ whole = <<>>
  <2>1. names = DistinctPeople(FlattenSeq(looked))
    BY <1>6, <1>9
  <2>2. ToSet(whole) = {}
    BY <1>9 DEF ToSet
  <2>3. \A a \in ToSet(resolver) : a.alias # NormalisePerson(cell)
    BY <1>1, <2>2
  <2> QED
    BY <1>0, <1>5, <1>9, <2>1, <2>3 DEF NormalisePerson
<1> QED
  BY <1>7, <1>8, <1>9

-----------------------------------------------------------------------------
(* Groups of rows *)

\* The day the first of finitely many bars starts.
LEMMA EarliestType ==
  ASSUME NEW S \in SUBSET Int, IsFiniteSet(S)
  PROVE  EarliestStart(S) \in Int \cup {NoDay}
<1>1. CASE S = {}
  BY <1>1 DEF EarliestStart
<1>2. CASE S # {}
  <2> DEFINE R == {p \in S \X S : p[2] < p[1]}
  <2>1. StrictOrder(R, S)
    <3>1. \A x, y \in S : <<x, y>> \in R <=> y < x
      OBVIOUS
    <3>2. \A x, y, z \in S : ~ (x < x) /\ (y < x /\ z < y => z < x)
      OBVIOUS
    <3> HIDE DEF R
    <3> QED
      BY <3>1, <3>2 DEF StrictOrder
  <2>2. PICK m \in S : \A x \in S : <<m, x>> \notin R
    <3> HIDE DEF R
    <3> QED
      BY <1>2, <2>1, LastExists
  <2>3. \A x \in S : m <= x
    <3>1. \A x \in S : x \in Int /\ (<<m, x>> \in R <=> x < m)
      OBVIOUS
    <3>2. \A x \in S : x \in Int /\ ~ (x < m)
      BY <2>2, <3>1
    <3> QED
      BY <3>2
  <2>4. EarliestStart(S) \in S
    BY <1>2, <2>3 DEF EarliestStart
  <2> QED
    BY <2>4
<1> QED
  BY <1>1, <1>2

\* The rows shown that can be drawn.
Drawable(shown, item) == {i \in shown : item[i].kind \in {"bar", "milestone"}}

\* The group of a label: the rows under it that can be drawn.
RowsUnder(shown, labels, l) == {i \in shown : l \in labels[i]}
GroupOf(shown, item, labels, l) ==
    [label |-> l,
     count |-> Cardinality(RowsUnder(shown, labels, l)),
     start |-> EarliestStart({item[i].start : i \in RowsUnder(shown, labels, l) \cap Drawable(shown, item)}),
     items |-> InOrder(RowsUnder(shown, labels, l) \cap Drawable(shown, item))]
GroupsOf(shown, item, labels) == {GroupOf(shown, item, labels, l) : l \in UNION Range(labels)}

\* Finitely many groups with a label each, no row twice in one, and drawn in one of them.
Labelled(groups, drawn) ==
    /\ IsFiniteSet(groups)
    /\ \A a \in groups : a.items \in Seq(Nat) /\ IsInjective(a.items) /\ a.start \in Int \cup {NoDay}
    /\ \A a, b \in groups : a.label = b.label => a = b
    /\ UNION {ToSet(a.items) : a \in groups} = drawn

\* Groups have a label each, and between them every row that can be drawn.
LEMMA GroupsProperties ==
  ASSUME NEW n \in Nat, NEW shown \in SUBSET (1..n), NEW item, NEW labels,
         DOMAIN labels = shown,
         \A i \in shown : labels[i] # {} /\ IsFiniteSet(labels[i]),
         \A i \in Drawable(shown, item) : item[i].start \in Int
  PROVE  Labelled(GroupsOf(shown, item, labels), Drawable(shown, item))
<1> SUFFICES ASSUME NEW G, G = GroupsOf(shown, item, labels) PROVE Labelled(G, Drawable(shown, item))
  OBVIOUS
<1> DEFINE L == UNION Range(labels)
           under(l) == RowsUnder(shown, labels, l) \cap Drawable(shown, item)
           grp(l) == GroupOf(shown, item, labels, l)
<1>1. IsFiniteSet(shown)
  BY UpTo, FS_Subset
<1>2. IsFiniteSet(L)
  <2> DEFINE f == [i \in shown |-> labels[i]]
  <2>1. f \in Surjection(shown, Range(labels))
    BY DEF Surjection, Range
  <2> HIDE DEF f
  <2>2. IsFiniteSet(Range(labels))
    BY <1>1, <2>1, FS_Surjection
  <2>3. \A T \in Range(labels) : IsFiniteSet(T)
    BY DEF Range
  <2> QED
    BY <2>2, <2>3, FS_UNION
<1>3. IsFiniteSet(G)
  <2> DEFINE f == [l \in L |-> grp(l)]
  <2>1. f \in Surjection(L, G)
    BY DEF Surjection, GroupsOf
  <2> HIDE DEF f, L
  <2> QED
    BY <1>2, <2>1, FS_Surjection
<1>4. \A l : /\ grp(l).label = l
             /\ grp(l).items = InOrder(under(l))
             /\ grp(l).start = EarliestStart({item[i].start : i \in under(l)})
  BY DEF GroupOf
<1>5. \A a \in G : \E l \in L : a = grp(l)
  BY DEF GroupsOf
<1>6. \A l : under(l) \in SUBSET (1..n)
  BY DEF RowsUnder
<1>7. ASSUME NEW l PROVE InOrder(under(l)) \in Seq(Nat) /\ ToSet(InOrder(under(l))) = under(l) /\ IsInjective(InOrder(under(l)))
  <2> HIDE DEF under
  <2> QED
    BY <1>6, InOrderProperties
<1>8. ASSUME NEW l PROVE EarliestStart({item[i].start : i \in under(l)}) \in Int \cup {NoDay}
  <2> DEFINE S == {item[i].start : i \in under(l)}
             f == [i \in under(l) |-> item[i].start]
  <2>1. S \in SUBSET Int
    OBVIOUS
  <2>2. under(l) \in SUBSET shown
    BY DEF Drawable
  <2>3. IsFiniteSet(under(l))
    <3> HIDE DEF under
    <3> QED
      BY <1>1, <2>2, FS_Subset
  <2>4. f \in Surjection(under(l), S)
    <3> HIDE DEF under
    <3> QED
      BY DEF Surjection
  <2>5. IsFiniteSet(S)
    <3> HIDE DEF under, S, f
    <3> QED
      BY <2>3, <2>4, FS_Surjection
  <2> HIDE DEF S
  <2>6. EarliestStart(S) \in Int \cup {NoDay}
    BY <2>1, <2>5, EarliestType
  <2> QED
    BY <2>6 DEF S
<1>9. \A a \in G : a.items \in Seq(Nat) /\ IsInjective(a.items) /\ a.start \in Int \cup {NoDay}
  <2> SUFFICES ASSUME NEW a \in G
               PROVE  a.items \in Seq(Nat) /\ IsInjective(a.items) /\ a.start \in Int \cup {NoDay}
    OBVIOUS
  <2>1. PICK l \in L : a = grp(l)
    BY <1>5
  <2> HIDE DEF grp, under
  <2> QED
    BY <1>4, <1>7, <1>8, <2>1
<1>10. \A a, b \in G : a.label = b.label => a = b
  <2> HIDE DEF grp, under, L
  <2> QED
    BY <1>4, <1>5
<1>11. UNION {ToSet(a.items) : a \in G} = Drawable(shown, item)
  <2>1. ASSUME NEW a \in G PROVE ToSet(a.items) \subseteq Drawable(shown, item)
    <3>1. PICK l \in L : a = grp(l)
      BY <1>5
    <3>2. a.items = InOrder(under(l))
      BY <1>4, <3>1
    <3>3. under(l) \subseteq Drawable(shown, item)
      OBVIOUS
    <3> HIDE DEF under
    <3> QED
      BY <1>7, <3>2, <3>3
  <2>2. ASSUME NEW i \in Drawable(shown, item) PROVE \E a \in G : i \in ToSet(a.items)
    <3>1. i \in shown
      BY DEF Drawable
    <3>2. PICK l : l \in labels[i]
      BY <3>1
    <3>3. l \in L /\ i \in under(l)
      BY <3>1, <3>2 DEF Range, RowsUnder
    <3>4. grp(l) \in G
      BY <3>3 DEF GroupsOf
    <3>5. grp(l).items = InOrder(under(l))
      BY <1>4
    <3> HIDE DEF under, grp
    <3> QED
      BY <1>7, <3>3, <3>4, <3>5
  <2> QED
    BY <2>1, <2>2
<1> QED
  BY <1>3, <1>9, <1>10, <1>11 DEF Labelled

\* Groups can be sorted by their start, each listed once.
LEMMA SortGroupsProperties ==
  ASSUME NEW G, IsFiniteSet(G), \A a \in G : a.start \in Int \cup {NoDay}
  PROVE  SortGroups(G) \in SetToSeqs(G)
<1> DEFINE R == {p \in G \X G : StartsBefore(p[1], p[2])}
<1>1. \A a, b \in G : <<a, b>> \in R <=> StartsBefore(a, b)
  OBVIOUS
<1>2. NoDay \notin Int
  BY ViewsAssumption
<1>3. \A a \in G : ~ StartsBefore(a, a)
  BY <1>2 DEF StartsBefore
<1>4. \A a, b, c \in G : StartsBefore(a, b) /\ StartsBefore(b, c) => StartsBefore(a, c)
  BY <1>2 DEF StartsBefore
<1>5. StrictOrder(R, G)
  <2> HIDE DEF R
  <2> QED
    BY <1>1, <1>3, <1>4 DEF StrictOrder
<1> HIDE DEF R
<1>6. PICK s \in SetToSeqs(G) : Sorted(s, R)
  BY <1>5, SortedExists
<1>7. \A j, k \in DOMAIN s : s[j] \in G /\ s[k] \in G
  BY DEF SetToSeqs
<1>8. \A j, k \in DOMAIN s : j < k => ~StartsBefore(s[k], s[j])
  BY <1>1, <1>6, <1>7 DEF Sorted
<1> QED
  BY <1>8 DEF SortGroups

\* Of one label more than there are taken one is free.
LEMMA OtherFree ==
  ASSUME NEW taken, IsFiniteSet(taken), Cardinality(taken) <= MaxGroups
  PROVE  \E n \in 1..(MaxGroups + 1) :
            Other(n) \notin taken /\ \A m \in 1..(n - 1) : Other(m) \in taken
<1> DEFINE N == MaxGroups + 1
           Free == {n \in 1..N : Other(n) \notin taken}
<1>1. N \in Nat /\ MaxGroups \in Nat /\ Cardinality(taken) \in Nat
  BY ViewsAssumption, FS_CardinalityType
<1>2. \A i, j : Other(i) = Other(j) => i = j
  BY DEF Other, Label
<1>3. Free # {}
  <2> SUFFICES ASSUME \A n \in 1..N : Other(n) \in taken PROVE FALSE
    OBVIOUS
  <2> DEFINE f == [n \in 1..N |-> Other(n)]
  <2>1. f \in [1..N -> taken]
    OBVIOUS
  <2>2. IsFiniteSet(1..N) /\ Cardinality(1..N) = N
    BY <1>1, UpTo
  <2>3. Cardinality(taken) < Cardinality(1..N)
    BY <1>1, <2>2
  <2>4. \E x, y \in 1..N : x # y /\ f[x] = f[y]
    <3> HIDE DEF f, N
    <3> QED
      BY <2>1, <2>2, <2>3, FS_PigeonHole
  <2> QED
    BY <1>2, <2>4
<1>4. \E n \in Free : \A m \in Free : n <= m
  <2>1. Free \in SUBSET Nat
    BY <1>1
  <2> HIDE DEF Free
  <2> QED
    BY <1>3, <2>1, LeastExists
<1>5. PICK n \in Free : \A m \in Free : n <= m
  BY <1>4
<1>6. \A m \in 1..(n - 1) : m \in 1..N /\ ~ (n <= m)
  BY <1>1
<1> QED
  BY <1>5, <1>6

\* The rows of some groups.
RowsOf(groups) == UNION {ToSet(groups[k].items) : k \in DOMAIN groups}

\* Few groups with a label each, and no row twice in one.
WellGrouped(groups) ==
    /\ DOMAIN groups = 1..Len(groups) /\ Len(groups) \in Nat /\ Len(groups) <= MaxGroups + 1
    /\ \A k \in DOMAIN groups : IsInjective(groups[k].items)
    /\ \A j, k \in DOMAIN groups : groups[j].label = groups[k].label => j = k

\* Folded groups keep their rows, once in each group, and have a label each.
LEMMA FoldGroupsProperties ==
  ASSUME NEW G, \A a \in G : a.items \in Seq(Nat) /\ IsInjective(a.items),
         NEW sorted \in Seq(G), \A j, k \in DOMAIN sorted : sorted[j].label = sorted[k].label => j = k
  PROVE  WellGrouped(FoldGroups(sorted)) /\ RowsOf(FoldGroups(sorted)) = RowsOf(sorted)
<1> DEFINE q == FoldGroups(sorted)
           M == MaxGroups
           N == Len(sorted)
           head == SubSeq(sorted, 1, M)
           tail == SubSeq(sorted, M + 1, N)
           taken == {head[k].label : k \in DOMAIN head}
           free == CHOOSE n \in 1..(M + 1) : Other(n) \notin taken /\ \A m \in 1..(n - 1) : Other(m) \in taken
           count == FoldLeft(LAMBDA n, grp : n + grp.count, 0, tail)
           last == [label |-> Other(free), count |-> count, start |-> Head(tail).start, items |-> MergeItems(tail)]
<1>1. M \in Nat /\ N \in Nat /\ DOMAIN sorted = 1..N /\ \A i \in 1..N : sorted[i] \in G
  BY ViewsAssumption, LenProperties, ElementOfSeq
<1>2. q = IF tail = <<>> THEN sorted ELSE Append(head, last)
  BY DEF FoldGroups
<1> HIDE DEF q
<1>3. tail \in Seq(G) /\ Len(tail) = (IF M + 1 <= N THEN N - (M + 1) + 1 ELSE 0)
      /\ \A i \in 1..(N - (M + 1) + 1) : tail[i] = sorted[M + 1 + i - 1]
  BY <1>1, SubSeqProperties
<1>4. CASE N <= M
  <2>1. Len(tail) = 0
    <3>1. ~ (M + 1 <= N)
      BY <1>1, <1>4
    <3> HIDE DEF tail, M, N
    <3> QED
      BY <1>3, <3>1
  <2>2. q = sorted
    <3> HIDE DEF tail
    <3> QED
      BY <1>2, <1>3, <2>1, EmptySeq
  <2>3. \A k \in DOMAIN q : IsInjective(q[k].items)
    BY <1>1, <2>2
  <2>4. \A j, k \in DOMAIN q : q[j].label = q[k].label => j = k
    BY <2>2
  <2>5. DOMAIN q = 1..Len(q) /\ Len(q) \in Nat /\ Len(q) <= MaxGroups + 1
    BY <1>1, <1>4, <2>2
  <2>6. WellGrouped(q)
    BY <2>3, <2>4, <2>5 DEF WellGrouped
  <2> QED
    BY <2>2, <2>6 DEF q
<1>5. CASE ~ (N <= M)
  <2>1. Len(tail) = N - M /\ N - M \in Nat /\ N - M # 0 /\ \A i \in 1..(N - M) : M + i \in 1..N /\ tail[i] = sorted[M + i]
    <3>0. M \in Nat /\ N \in Nat /\ ~ (N <= M)
      BY <1>1, <1>5
    <3>1. M + 1 <= N /\ N - (M + 1) + 1 = N - M /\ N - M \in Nat /\ N - M # 0
      <4> HIDE DEF M, N
      <4> QED
        BY <3>0
    <3>2. \A i \in 1..(N - M) : M + i \in 1..N /\ M + 1 + i - 1 = M + i
      BY <1>1, <1>5
    <3> HIDE DEF tail, M, N
    <3> QED
      BY <1>3, <3>1, <3>2
  <2>2. head \in Seq(G) /\ Len(head) = M /\ \A i \in 1..M : i \in 1..N /\ head[i] = sorted[i]
    <3>1. \A i \in 1..M : sorted[i] \in G /\ i \in 1..N
      BY <1>1, <1>5
    <3> QED
      BY <1>1, <1>5, <3>1, SubSeqProperties
  <2>3. tail # <<>>
    <3> HIDE DEF tail
    <3> QED
      BY <2>1, EmptySeq
  <2>4. q = Append(head, last)
    <3> HIDE DEF head, last, tail
    <3> QED
      BY <1>2, <2>3
  <2>5. DOMAIN tail = 1..(N - M) /\ DOMAIN head = 1..M
    <3> HIDE DEF head, tail
    <3> QED
      BY <1>3, <2>1, <2>2, LenProperties
  <2> DEFINE lists == [k \in DOMAIN tail |-> tail[k].items]
  <2>6. lists \in Seq(Seq(Nat)) /\ DOMAIN lists = 1..(N - M)
    <3>1. \A k \in 1..(N - M) : tail[k].items \in Seq(Nat)
      BY <1>1, <2>1
    <3> HIDE DEF tail
    <3>2. lists \in [1..(N - M) -> Seq(Nat)]
      BY <2>5, <3>1
    <3> QED
      BY <2>1, <3>2
  <2>7. IsInjective(MergeItems(tail)) /\ ToSet(MergeItems(tail)) = UNION {ToSet(lists[k]) : k \in DOMAIN lists}
    <3>1. MergeItems(tail) = Distinct(FlattenSeq(lists))
      BY DEF MergeItems
    <3> HIDE DEF lists, tail
    <3>2. FlattenSeq(lists) \in Seq(Nat) /\ ToSet(FlattenSeq(lists)) = UNION {ToSet(lists[k]) : k \in DOMAIN lists}
      BY <2>6, FlattenProperties
    <3> QED
      BY <3>1, <3>2, DistinctProperties
  <2>8. last.label = Other(free) /\ last.items = MergeItems(tail)
    OBVIOUS
  <2>9. Other(free) \notin taken
    <3>1. IsFiniteSet(taken) /\ Cardinality(taken) <= M
      <4> DEFINE f == [k \in 1..M |-> head[k].label]
      <4>1. f \in Surjection(1..M, taken)
        BY <2>5 DEF Surjection
      <4>2. IsFiniteSet(1..M) /\ Cardinality(1..M) = M
        BY <1>1, UpTo
      <4> HIDE DEF f, taken, M
      <4> QED
        BY <4>1, <4>2, FS_Surjection
    <3>2. \E n \in 1..(M + 1) : Other(n) \notin taken /\ \A m \in 1..(n - 1) : Other(m) \in taken
      <4> HIDE DEF taken
      <4> QED
        BY <3>1, OtherFree
    <3> HIDE DEF taken
    <3> QED
      BY <3>2
  <2> HIDE DEF last
  <2>10. /\ Append(head, last) \in Seq(G \cup {last})
         /\ Len(Append(head, last)) = M + 1
         /\ \A i \in 1..M : Append(head, last)[i] = sorted[i]
         /\ Append(head, last)[M + 1] = last
    <3> HIDE DEF head
    <3>1. head \in Seq(G \cup {last})
      BY <2>2, SeqMonotonic
    <3> QED
      BY <2>2, <3>1, AppendProperties
  <2>11. DOMAIN q = 1..(M + 1) /\ Len(q) = M + 1
    BY <2>4, <2>10, LenProperties
  <2>12. \A i \in 1..(M + 1) : (i \in 1..M /\ i \in 1..N /\ q[i] = sorted[i] /\ q[i] = head[i]) \/ (i = M + 1 /\ q[i] = last)
    <3>1. \A i \in 1..(M + 1) : i \in 1..M \/ i = M + 1
      BY <1>1
    <3> HIDE DEF head
    <3> QED
      BY <2>2, <2>4, <2>10, <3>1
  <2>13. \A k \in DOMAIN q : IsInjective(q[k].items)
    BY <1>1, <2>7, <2>8, <2>11, <2>12
  <2>14. \A j, k \in DOMAIN q : q[j].label = q[k].label => j = k
    <3>1. \A i \in 1..M : head[i].label \in taken
      BY <2>5
    <3> HIDE DEF head, taken
    <3> QED
      BY <1>1, <2>8, <2>9, <2>11, <2>12, <3>1
  <2>15. \A x : x \in ToSet(last.items) <=> \E k \in 1..(N - M) : x \in ToSet(sorted[M + k].items)
    <3>1. \A k \in 1..(N - M) : lists[k] = sorted[M + k].items
      BY <2>1, <2>5
    <3> HIDE DEF lists, M, N, tail
    <3>2. \A x : x \in ToSet(last.items) <=> \E k \in 1..(N - M) : x \in ToSet(lists[k])
      BY <2>6, <2>7, <2>8
    <3> QED
      BY <3>1, <3>2
  <2>16. RowsOf(q) = RowsOf(sorted)
    <3>1. ASSUME NEW k \in DOMAIN q, NEW x \in ToSet(q[k].items)
          PROVE  \E j \in DOMAIN sorted : x \in ToSet(sorted[j].items)
      <4>1. CASE k \in 1..N /\ q[k] = sorted[k]
        BY <1>1, <3>1, <4>1
      <4>2. CASE q[k] = last
        BY <1>1, <2>1, <2>15, <3>1, <4>2
      <4> QED
        BY <2>11, <2>12, <4>1, <4>2
    <3>2. ASSUME NEW j \in DOMAIN sorted, NEW x \in ToSet(sorted[j].items)
          PROVE  \E k \in DOMAIN q : x \in ToSet(q[k].items)
      <4>1. CASE j <= M
        <5>1. j \in 1..M /\ j \in 1..(M + 1) /\ j # M + 1
          BY <1>1, <4>1
        <5>2. q[j] = sorted[j]
          BY <2>12, <5>1
        <5> QED
          BY <2>11, <3>2, <5>1, <5>2
      <4>2. CASE ~ (j <= M)
        <5> DEFINE k == j - M
        <5>1. k \in 1..(N - M) /\ M + k = j /\ M + 1 \in 1..(M + 1)
          BY <1>1, <4>2
        <5> HIDE DEF k
        <5>2. x \in ToSet(last.items)
          BY <2>15, <3>2, <5>1
        <5>3. q[M + 1] = last
          BY <2>4, <2>10
        <5> QED
          BY <2>11, <5>1, <5>2, <5>3
      <4> QED
        BY <4>1, <4>2
    <3>3. ASSUME NEW x \in RowsOf(q) PROVE x \in RowsOf(sorted)
      <4>1. PICK k \in DOMAIN q : x \in ToSet(q[k].items)
        BY DEF RowsOf
      <4>2. PICK j \in DOMAIN sorted : x \in ToSet(sorted[j].items)
        BY <3>1, <4>1
      <4> QED
        BY <4>2 DEF RowsOf
    <3>4. ASSUME NEW x \in RowsOf(sorted) PROVE x \in RowsOf(q)
      <4>1. PICK j \in DOMAIN sorted : x \in ToSet(sorted[j].items)
        BY DEF RowsOf
      <4>2. PICK k \in DOMAIN q : x \in ToSet(q[k].items)
        BY <3>2, <4>1
      <4> QED
        BY <4>2 DEF RowsOf
    <3> QED
      BY <3>3, <3>4
  <2>17. Len(q) \in Nat /\ Len(q) <= MaxGroups + 1
    BY <1>1, <2>11
  <2>18. DOMAIN q = 1..Len(q)
    BY <2>11
  <2>19. WellGrouped(q)
    BY <2>13, <2>14, <2>17, <2>18 DEF WellGrouped
  <2> QED
    BY <2>16, <2>19 DEF q
<1> QED
  BY <1>4, <1>5

-----------------------------------------------------------------------------
(* The timeline *)

\* No column is both ends of the bars.
LEMMA BarsApart ==
  ASSUME TypeInv, Grid.bars.start # None
  PROVE  Grid.bars.start # Grid.bars.due
<1> DEFINE due == ResolveDueColumn(Schema, Headers)
           taken == due.header \in ReadsAsAStart /\ ~ due.stated
           exclude == IF taken THEN None ELSE due.header
           start == GetStartColumn(Schema, Headers, exclude)
<1>1. /\ Grid.bars.start = ResolveHeader(Headers, IF taken /\ start = None THEN due.header ELSE start)
      /\ Grid.bars.due = IF taken THEN None ELSE ResolveHeader(Headers, due.header)
  BY DEF Grid, TimelineColumns
<1>2. ~ SameHeader(start, exclude)
  <2> HIDE DEF exclude
  <2>1. CASE Schema.dates["start"] # None
    BY <2>1 DEF GetStartColumn, SameHeader
  <2>2. CASE Schema.dates["start"] = None
    <3> DEFINE S == {h \in ReadsAsAStart : ~SameHeader(h, exclude)}
    <3>1. start = FirstIn(Headers, S)
      BY <2>2 DEF GetStartColumn
    <3>2. FirstIn(Headers, S) = None \/ FirstIn(Headers, S) \in S
      <4> HIDE DEF S
      <4> QED
        BY HeadersType, FirstInProperties
    <3> HIDE DEF start
    <3> QED
      BY <3>1, <3>2 DEF SameHeader
  <2> QED
    BY <2>1, <2>2
<1> HIDE DEF start
<1>3. CASE taken
  BY <1>1, <1>3
<1>4. CASE ~ taken
  <2>1. /\ Grid.bars.start = ResolveHeader(Headers, start)
        /\ Grid.bars.due = ResolveHeader(Headers, due.header)
        /\ ~ SameHeader(start, due.header)
    BY <1>1, <1>2, <1>4
  <2> HIDE DEF due, taken
  <2>2. SameHeader(Grid.bars.start, start)
    BY <2>1, ResolveNamed
  <2>3. CASE Grid.bars.due = None
    BY <2>3
  <2>4. CASE Grid.bars.due # None
    <3>1. SameHeader(Grid.bars.due, due.header)
      BY <2>1, <2>4, ResolveNamed
    <3> QED
      BY <2>1, <2>2, <3>1 DEF SameHeader
  <2> QED
    BY <2>3, <2>4
<1> QED
  BY <1>3, <1>4

\* Every row is of one of the kinds, and one that can be drawn starts on a day.
LEMMA ItemType ==
  ASSUME TypeInv, NEW i \in DOMAIN rows
  PROVE  /\ Item(Grid, i).kind \in Kinds
         /\ Item(Grid, i).kind \in {"bar", "milestone"} => Item(Grid, i).start \in Int
<1> DEFINE start == Value(Grid, i, Grid.bars.start)
           due == Value(Grid, i, Grid.bars.due)
           kind == ClassifyRow(start, due)
           a == IF start = Blank THEN ParseDate(due) ELSE ParseDate(start)
           b == IF due = Blank THEN ParseDate(start) ELSE ParseDate(due)
<1>1. start \in Cell /\ due \in Cell
  BY GridType
<1>2. ParseDate(start) \in Int \cup {NoDay} /\ ParseDate(due) \in Int \cup {NoDay}
  BY <1>1 DEF Cell, ParseDate
<1>3. Item(Grid, i).kind = kind /\ (Item(Grid, i).start = a \/ Item(Grid, i).start = b)
  BY DEF Item
<1> HIDE DEF start, due
<1>4. kind \in Kinds
  BY DEF ClassifyRow, Kinds
<1>5. ASSUME kind \in {"bar", "milestone"} PROVE a \in Int /\ b \in Int
  <2>1. /\ ~ (start = Blank /\ due = Blank)
        /\ start # Blank => ParseDate(start) # NoDay
        /\ due # Blank => ParseDate(due) # NoDay
    BY <1>5 DEF ClassifyRow
  <2> QED
    BY <1>2, <2>1
<1> HIDE DEF kind, a, b
<1> QED
  BY <1>3, <1>4, <1>5

\* A row is under a label at least, and under finitely many.
LEMMA GroupLabelsType ==
  ASSUME TypeInv, NEW resolver \in Resolvers, NEW i \in DOMAIN rows, NEW by \in Named \cup {None}
  PROVE  GroupLabels(Grid, by, i, resolver) # {} /\ IsFiniteSet(GroupLabels(Grid, by, i, resolver))
<1> DEFINE cell == Value(Grid, i, by)
           names == ResolveCell(resolver, cell)
           labels == {Label(names[k].parts, names[k].as) : k \in DOMAIN names}
<1>1. cell \in Cell
  BY GridType
<1>2. names \in Seq(Somebody)
  <2> HIDE DEF cell
  <2> QED
    BY <1>1, ResolverType, Resolved
<1>3. Len(names) \in Nat /\ DOMAIN names = 1..Len(names) /\ (names # <<>> => Len(names) # 0)
  <2> HIDE DEF names
  <2> QED
    BY <1>2, LenProperties, EmptySeq
<1>4. \/ GroupLabels(Grid, by, i, resolver) = labels /\ names # <<>>
      \/ \E l : GroupLabels(Grid, by, i, resolver) = {l}
  <2>1. GroupLabels(Grid, by, i, resolver) =
            CASE by = None -> {AllRows}
              [] by # None /\ by \in ToSet(Grid.people) -> IF names = <<>> THEN {Unassigned} ELSE labels
              [] OTHER -> {IF cell = Blank THEN BlankGroup ELSE Label(cell.parts, cell.as)}
    BY DEF GroupLabels
  <2> HIDE DEF names, labels, cell
  <2> QED
    BY <2>1
<1>5. CASE GroupLabels(Grid, by, i, resolver) = labels /\ names # <<>>
  <2> DEFINE f == [k \in DOMAIN names |-> Label(names[k].parts, names[k].as)]
  <2> HIDE DEF names
  <2>1. 1 \in DOMAIN names
    BY <1>3, <1>5
  <2>2. labels # {}
    BY <2>1
  <2>3. f \in Surjection(DOMAIN names, labels)
    BY DEF Surjection
  <2>4. IsFiniteSet(DOMAIN names)
    BY <1>3, UpTo
  <2>5. IsFiniteSet(labels)
    <3> HIDE DEF labels, f
    <3> QED
      BY <2>3, <2>4, FS_Surjection
  <2> QED
    BY <1>5, <2>2, <2>5
<1>6. CASE \E l : GroupLabels(Grid, by, i, resolver) = {l}
  BY <1>6, FS_Singleton
<1> QED
  BY <1>4, <1>5, <1>6

\* What is known of the rows shown: their items, their labels, and how many are of each kind.
Items(shown) == [i \in shown |-> Item(Grid, i)]
LabelsOf(by, shown, resolver) == [i \in shown |-> GroupLabels(Grid, by, i, resolver)]
KindCounts(shown) == [k \in Kinds |-> Cardinality({i \in shown : Items(shown)[i].kind = k})]
Drawn(shown) == {i \in shown : Item(Grid, i).kind \in {"bar", "milestone"}}

\* The parts of the panel.
LEMMA Built ==
  ASSUME NEW shown, NEW by, NEW resolver
  PROVE  /\ Timeline(Grid, shown, by, resolver).start_header = Grid.bars.start
         /\ Timeline(Grid, shown, by, resolver).due_header = Grid.bars.due
         /\ Timeline(Grid, shown, by, resolver).counts = KindCounts(shown)
         /\ Timeline(Grid, shown, by, resolver).groups =
                IF Drawable(shown, Items(shown)) = {} \/ {Grid.bars.start, Grid.bars.due} = {None} THEN <<>>
                ELSE FoldGroups(SortGroups(GroupsOf(shown, Items(shown), LabelsOf(by, shown, resolver))))
BY DEF Timeline, BuildTimeline, Drawable, GroupsOf, GroupOf, RowsUnder, Items, LabelsOf, KindCounts

\* The kinds add up to the rows.
LEMMA KindsAddUp ==
  ASSUME TypeInv, NEW shown \in SUBSET (DOMAIN rows)
  PROVE  Total(KindCounts(shown), Kinds) = Cardinality(shown)
<1> DEFINE key == [i \in shown |-> Item(Grid, i).kind]
           counts == KindCounts(shown)
<1>1. IsFiniteSet(shown)
  BY TabFinite, FS_Subset
<1>2. IsFiniteSet(Kinds)
  <2>1. IsFiniteSet({"bar"})
    BY FS_Singleton
  <2>2. IsFiniteSet({"bar"} \cup {"milestone"})
    BY <2>1, FS_AddElement
  <2>3. IsFiniteSet(({"bar"} \cup {"milestone"}) \cup {"undated"})
    BY <2>2, FS_AddElement
  <2>4. IsFiniteSet((({"bar"} \cup {"milestone"}) \cup {"undated"}) \cup {"unparsed"})
    BY <2>3, FS_AddElement
  <2>5. Kinds = (({"bar"} \cup {"milestone"}) \cup {"undated"}) \cup {"unparsed"}
    BY DEF Kinds
  <2> QED
    BY <2>4, <2>5
<1>3. \A i \in shown : key[i] \in Kinds
  BY ItemType
<1>4. \A k \in Kinds : counts[k] = Cardinality({i \in shown : key[i] = k})
  <2> SUFFICES ASSUME NEW k \in Kinds PROVE counts[k] = Cardinality({i \in shown : key[i] = k})
    OBVIOUS
  <2>1. {i \in shown : key[i] = k} = {i \in shown : Items(shown)[i].kind = k}
    BY DEF Items
  <2> QED
    BY <2>1 DEF KindCounts
<1> HIDE DEF key, counts
<1>5. Shares(counts, Kinds, shown, key)
  BY <1>4 DEF Shares
<1>6. Total(counts, Kinds) = Cardinality({i \in shown : key[i] \in Kinds})
  BY <1>1, <1>2, <1>5, SumOfShares
<1>7. {i \in shown : key[i] \in Kinds} = shown
  BY <1>3
<1> QED
  BY <1>6, <1>7 DEF counts

\* The groups of a timeline have every row that can be drawn, once in each group.
LEMMA GroupsWhole ==
  ASSUME TypeInv, NEW by \in Named \cup {None}, NEW shown \in SUBSET (DOMAIN rows),
         NEW resolver \in Resolvers,
         NEW groups, groups = Timeline(Grid, shown, by, resolver).groups
  PROVE  /\ WellGrouped(groups)
         /\ groups # <<>> => Drawn(shown) = RowsOf(groups)
         /\ groups = <<>> => Drawn(shown) = {} \/ (Grid.bars.start = None /\ Grid.bars.due = None)
<1> DEFINE n == Len(rows)
           item == Items(shown)
           labels == LabelsOf(by, shown, resolver)
           G == GroupsOf(shown, item, labels)
           sorted == SortGroups(G)
<1>1. n \in Nat /\ DOMAIN rows = 1..n /\ MaxGroups \in Nat /\ shown \in SUBSET (1..n)
  BY LenProperties, ViewsAssumption DEF TypeInv
<1>2. Drawable(shown, item) = Drawn(shown)
  BY DEF Drawable, Drawn, Items
<1>3. groups = IF Drawn(shown) = {} \/ {Grid.bars.start, Grid.bars.due} = {None} THEN <<>>
               ELSE FoldGroups(sorted)
  BY <1>2, Built
<1>4. \A i \in Drawable(shown, item) : item[i].start \in Int
  BY ItemType DEF Drawable, Items
<1>5. DOMAIN labels = shown /\ \A i \in shown : labels[i] # {} /\ IsFiniteSet(labels[i])
  BY GroupLabelsType DEF LabelsOf
<1> HIDE DEF item, labels, n
<1>6. /\ IsFiniteSet(G)
      /\ \A a \in G : a.items \in Seq(Nat) /\ IsInjective(a.items) /\ a.start \in Int \cup {NoDay}
      /\ \A a, b \in G : a.label = b.label => a = b
      /\ UNION {ToSet(a.items) : a \in G} = Drawable(shown, item)
  <2>1. Labelled(G, Drawable(shown, item))
    BY <1>1, <1>4, <1>5, GroupsProperties
  <2> QED
    BY <2>1 DEF Labelled
<1> HIDE DEF G
<1>7. sorted \in Seq(G) /\ ToSet(sorted) = G /\ IsInjective(sorted)
  <2>1. sorted \in SetToSeqs(G)
    BY <1>6, SortGroupsProperties
  <2> HIDE DEF sorted
  <2> QED
    BY <1>6, <2>1, ListingsOf
<1> HIDE DEF sorted
<1>8. \A k \in DOMAIN sorted : sorted[k] \in G
  BY <1>7 DEF ToSet
<1>9. \A j, k \in DOMAIN sorted : sorted[j].label = sorted[k].label => j = k
  BY <1>6, <1>7, <1>8 DEF IsInjective
<1>10. RowsOf(sorted) = Drawn(shown)
  <2>1. {ToSet(sorted[k].items) : k \in DOMAIN sorted} = {ToSet(a.items) : a \in G}
    BY <1>7 DEF ToSet
  <2> QED
    BY <1>2, <1>6, <2>1 DEF RowsOf
<1>11. WellGrouped(FoldGroups(sorted)) /\ RowsOf(FoldGroups(sorted)) = RowsOf(sorted)
  <2>1. \A a \in G : a.items \in Seq(Nat) /\ IsInjective(a.items)
    BY <1>6
  <2> QED
    BY <1>7, <1>9, <2>1, FoldGroupsProperties
<1>12. RowsOf(<<>>) = {} /\ WellGrouped(<<>>)
  <2>1. DOMAIN <<>> = {} /\ Len(<<>>) = 0 /\ 1..0 = {}
    OBVIOUS
  <2>2. 0 <= MaxGroups + 1
    BY <1>1
  <2> QED
    BY <2>1, <2>2 DEF RowsOf, WellGrouped
<1> QED
  BY <1>3, <1>10, <1>11, <1>12

\* In every table the timeline is whole, whichever rows are left and however it is grouped.
LEMMA TypeTimeline ==
  ASSUME TypeInv
  PROVE  TimelineWhole
<1> SUFFICES ASSUME NEW g \in {Grid}, NEW by \in {None} \cup GroupableHeaders(g),
                    NEW shown \in {DOMAIN rows, FilterRows(g, [NoFilter EXCEPT !.overdue = TRUE], <<>>)},
                    NEW resolver \in Resolvers, NEW t \in {Timeline(g, shown, by, resolver)},
                    NEW drawn \in {{i \in shown : Item(g, i).kind \in {"bar", "milestone"}}}
             PROVE  /\ t.start_header # None => t.start_header # t.due_header
                    /\ MapThenSumSet(LAMBDA k : t.counts[k], Kinds) = Cardinality(shown)
                    /\ t.groups # <<>> => drawn = UNION {ToSet(t.groups[k].items) : k \in DOMAIN t.groups}
                    /\ t.groups = <<>> => drawn = {} \/ (t.start_header = None /\ t.due_header = None)
                    /\ \A k \in DOMAIN t.groups : IsInjective(t.groups[k].items)
                    /\ IsInjective([k \in DOMAIN t.groups |-> t.groups[k].label])
                    /\ Len(t.groups) <= MaxGroups + 1
  BY DEF TimelineWhole
<1>1. g = Grid
  OBVIOUS
<1>2. by \in Named \cup {None}
  BY DEF GroupableHeaders
<1>3. shown \in SUBSET (DOMAIN rows)
  BY <1>1, FilterLate DEF Late
<1>4. t = Timeline(Grid, shown, by, resolver) /\ drawn = Drawn(shown)
  BY <1>1 DEF Drawn
<1>5. t.start_header = Grid.bars.start /\ t.due_header = Grid.bars.due /\ t.counts = KindCounts(shown)
  BY <1>4, Built
<1>6. MapThenSumSet(LAMBDA k : t.counts[k], Kinds) = Cardinality(shown)
  <2>1. Total(t.counts, Kinds) = Cardinality(shown)
    BY <1>3, <1>5, KindsAddUp
  <2> QED
    BY <2>1 DEF Total
<1>7. t.start_header # None => t.start_header # t.due_header
  BY <1>5, BarsApart
<1>8. /\ WellGrouped(t.groups)
      /\ t.groups # <<>> => drawn = RowsOf(t.groups)
      /\ t.groups = <<>> => drawn = {} \/ (t.start_header = None /\ t.due_header = None)
  BY <1>2, <1>3, <1>4, <1>5, GroupsWhole
<1>9. IsInjective([k \in DOMAIN t.groups |-> t.groups[k].label])
  BY <1>8 DEF WellGrouped, IsInjective
<1> QED
  BY <1>6, <1>7, <1>8, <1>9 DEF WellGrouped, RowsOf

\* A timeline is whole, however it is grouped and filtered, for any tab, schema, aliases and date.
THEOREM TimelineCorrect == Spec => []TimelineWhole
<1> QED
  BY TabCorrect, TypeTimeline, PTL

-----------------------------------------------------------------------------
(* The schema *)

\* The schema in use has a list of columns for its people, and a column map.
SchemaInv ==
    /\ Schema.people \in Seq(Header)
    /\ Schema.column_map \in Seq(ColumnEntry)

\* The stated columns are those with a header.
LEMMA StatedProperties ==
  ASSUME NEW X, NEW s \in Seq(X)
  PROVE  Stated(s) \in Seq(Spelling) /\ ToSet(Stated(s)) = ToSet(s) \cap Spelling
<1>1. Only(s, Spelling) \in Seq(X) /\ ToSet(Only(s, Spelling)) = ToSet(s) \cap Spelling
  BY OnlyProperties
<1>2. \A h \in ToSet(Only(s, Spelling)) : h \in Spelling
  BY <1>1
<1>3. Only(s, Spelling) \in Seq(Spelling)
  BY <1>1, <1>2, MembersType
<1> QED
  BY <1>1, <1>3 DEF Stated

\* A list with one element is one, whatever the element.
LEMMA OneElement ==
  ASSUME NEW x
  PROVE  <<x>> \in Seq({x})
  OBVIOUS

\* A function of the places of a list makes a list.
LEMMA MappedType ==
  ASSUME NEW X, NEW s \in Seq(X), NEW Y, NEW e, \A i \in DOMAIN s : e[i] \in Y
  PROVE  [i \in DOMAIN s |-> e[i]] \in Seq(Y) /\ Len([i \in DOMAIN s |-> e[i]]) = Len(s)
<1>1. Len(s) \in Nat /\ DOMAIN s = 1..Len(s)
  BY LenProperties
<1>2. [i \in DOMAIN s |-> e[i]] \in [1..Len(s) -> Y]
  BY <1>1
<1> QED
  BY <1>1, <1>2

\* Repaired, a schema still has one.
LEMMA NormaliseType ==
  ASSUME NEW X, NEW schema, {"people", "column_map"} \subseteq DOMAIN schema, schema.people \in Seq(X)
  PROVE  /\ Normalise(schema).people \in Seq(Header)
         /\ Normalise(schema).column_map = schema.column_map
         /\ DOMAIN Normalise(schema) = DOMAIN schema
<1> DEFINE listed == Distinct(Stated(schema.people))
           people == IF listed = <<>> THEN Stated(<<schema.assignee>>) ELSE listed
<1>1. Stated(schema.people) \in Seq(Spelling)
  BY StatedProperties
<1>2. listed \in Seq(Spelling)
  BY <1>1, DistinctProperties
<1>3. Stated(<<schema.assignee>>) \in Seq(Spelling)
  BY OneElement, StatedProperties
<1>4. people \in Seq(Header)
  <2>1. people \in Seq(Spelling)
    BY <1>2, <1>3
  <2> HIDE DEF people
  <2> QED
    BY <2>1, SeqMonotonic DEF Header
<1> HIDE DEF people
<1>5. /\ Normalise(schema).people = people
      /\ Normalise(schema).column_map = schema.column_map
      /\ DOMAIN Normalise(schema) = DOMAIN schema
  BY DEF Normalise, people
<1> QED
  BY <1>4, <1>5

\* So does the guessed one.
LEMMA FallbackType ==
  ASSUME TypeInv, NEW names
  PROVE  \E X : StructuralFallback(raw, names).people \in Seq(X)
<1> DEFINE stripped == [i \in DOMAIN raw |-> IF raw[i] = None THEN None ELSE Strip[raw[i]]]
           headers == Stated(stripped)
           found == Only(headers, Reads(PeopleWords)) \o Only(headers, names)
           s == Distinct(found)
           X == {Verbatim(raw, h) : h \in Spelling}
<1>1. stripped \in Seq(Header)
  <2>1. stripped = Headers
    BY DEF Headers
  <2>2. Len(raw) \in Nat /\ Headers \in [1..Len(raw) -> Header]
    BY HeadersType DEF Headers
  <2> QED
    BY <2>1, <2>2
<1>2. headers \in Seq(Spelling)
  <2> HIDE DEF stripped
  <2> QED
    BY <1>1, StatedProperties
<1>3. found \in Seq(Spelling)
  <2> HIDE DEF headers
  <2>1. Only(headers, Reads(PeopleWords)) \in Seq(Spelling) /\ Only(headers, names) \in Seq(Spelling)
    BY <1>2, OnlyProperties
  <2> QED
    BY <2>1, ConcatProperties
<1>4. s \in Seq(Spelling)
  <2> HIDE DEF found
  <2> QED
    BY <1>3, DistinctProperties
<1>5. StructuralFallback(raw, names).people = [i \in DOMAIN s |-> Verbatim(raw, s[i])]
  BY DEF StructuralFallback
<1> HIDE DEF s
<1>6. Len(s) \in Nat /\ DOMAIN s = 1..Len(s) /\ \A i \in 1..Len(s) : s[i] \in Spelling
  BY <1>4, LenProperties, ElementOfSeq
<1>7. [i \in DOMAIN s |-> Verbatim(raw, s[i])] \in [1..Len(s) -> X]
  BY <1>6
<1>8. [i \in DOMAIN s |-> Verbatim(raw, s[i])] \in Seq(X)
  <2> HIDE DEF X
  <2> QED
    BY <1>6, <1>7
<1> QED
  BY <1>5, <1>8

\* The map detection keeps is one, whatever the model gives for it.
LEMMA BuiltMapType ==
  ASSUME TypeInv, NEW given \in Synonyms \cup {None}
  PROVE  BuildColumnMap(Headers, given) \in Seq(ColumnEntry)
<1> DEFINE real == Distinct(Stated(Headers))
           kept == IF given = None THEN <<>>
                   ELSE Only(given, {e \in ToSet(given) : e.canonical \in ToSet(real)})
           missing == Only(real, {h \in ToSet(real) : \A e \in ToSet(kept) : e.canonical # h})
           Itself(h) == IF given = None THEN {Fold[h]} ELSE {}
           added == [m \in DOMAIN missing |-> Entry(missing[m], Itself(missing[m]))]
<1>1. Headers \in Seq(Header)
  <2>1. Len(raw) \in Nat /\ Headers \in [1..Len(raw) -> Header]
    BY HeadersType DEF Headers
  <2> QED
    BY <2>1
<1>2. real \in Seq(Spelling)
  BY <1>1, StatedProperties, DistinctProperties
<1>3. kept \in Seq(ColumnEntry)
  <2> HIDE DEF real
  <2>1. CASE given = None
    BY <2>1, EmptySeq
  <2>2. CASE given # None
    <3>1. given \in Seq(ColumnEntry)
      BY <2>2, AnswersAssumption
    <3>2. Only(given, {e \in ToSet(given) : e.canonical \in ToSet(real)}) \in Seq(ColumnEntry)
      BY <3>1, OnlyProperties
    <3> QED
      BY <2>2, <3>2
  <2> QED
    BY <2>1, <2>2
<1>4. missing \in Seq(Spelling)
  <2> HIDE DEF real, kept
  <2> QED
    BY <1>2, OnlyProperties
<1>5. added \in Seq(ColumnEntry)
  <2> HIDE DEF missing
  <2>1. Len(missing) \in Nat /\ DOMAIN missing = 1..Len(missing)
    BY <1>4, LenProperties
  <2>2. \A h \in Spelling : Fold[h] \in Range(Fold)
    BY SpellingAssumption DEF Range
  <2>3. \A h \in Spelling : Entry(h, Itself(h)) \in ColumnEntry
    BY <2>2 DEF Entry, ColumnEntry
  <2>4. \A m \in 1..Len(missing) : missing[m] \in Spelling
    BY <1>4, <2>1, ElementOfSeq
  <2>5. added \in [1..Len(missing) -> ColumnEntry]
    <3> HIDE DEF Itself
    <3> QED
      BY <2>1, <2>3, <2>4
  <2> HIDE DEF added
  <2> QED
    BY <2>1, <2>5
<1>6. kept \o added \in Seq(ColumnEntry)
  <2> HIDE DEF kept, added
  <2> QED
    BY <1>3, <1>5, ConcatProperties
<1>7. BuildColumnMap(Headers, given) = IF real = <<>> THEN ColumnAliases ELSE kept \o added
  BY DEF BuildColumnMap
<1> HIDE DEF real, kept, added
<1> QED
  BY <1>6, <1>7, ColumnMapAssumption

\* And what detection stores has both.
LEMMA DetectType ==
  ASSUME TypeInv, NEW answer \in Answers \cup {None}, NEW given \in Synonyms \cup {None}
  PROVE  /\ DetectSchemaConfig(answer, given).people \in Seq(Header)
         /\ DetectSchemaConfig(answer, given).column_map \in Seq(ColumnEntry)
<1> DEFINE names == {h \in Named : ReadsAsPeople(ColumnNamed(h))}
           schema == IF answer = None THEN StructuralFallback(raw, names) ELSE answer
           map == BuildColumnMap(Headers, given)
<1>1. {"people", "column_map"} \subseteq DOMAIN schema
  <2>1. {"people", "column_map"} \subseteq DOMAIN StructuralFallback(raw, names)
    BY DEF StructuralFallback
  <2>2. {"people", "column_map"} \subseteq DOMAIN EmptySchema
    BY DEF EmptySchema
  <2> HIDE DEF names
  <2> QED
    BY <2>1, <2>2, AnswersAssumption
<1>2. \E X : schema.people \in Seq(X)
  <2> HIDE DEF names
  <2>1. CASE answer = None
    BY <2>1, FallbackType
  <2>2. CASE answer # None
    BY <2>2, AnswersAssumption
  <2> QED
    BY <2>1, <2>2
<1>3. DetectSchemaConfig(answer, given) = [Normalise(schema) EXCEPT !.column_map = map]
  BY DEF DetectSchemaConfig
<1> HIDE DEF schema
<1>4. /\ Normalise(schema).people \in Seq(Header)
      /\ {"people", "column_map"} \subseteq DOMAIN Normalise(schema)
  BY <1>1, <1>2, NormaliseType
<1>5. map \in Seq(ColumnEntry)
  BY BuiltMapType
<1> HIDE DEF map
<1>6. /\ DetectSchemaConfig(answer, given).people = Normalise(schema).people
      /\ DetectSchemaConfig(answer, given).column_map = map
  BY <1>3, <1>4
<1> QED
  BY <1>4, <1>5, <1>6

\* A configuration of tabs has the schema of this tab, or none for it.
LEMMA ConfigurationType ==
  ASSUME NEW schema
  PROVE  /\ GetTabSchema(Configuration([t \in {Tab} |-> schema]), Tab) = schema
         /\ GetTabSchema(Configuration(<<>>), Tab) = EmptySchema
<1>1. Tab \in DOMAIN [t \in {Tab} |-> schema] /\ [t \in {Tab} |-> schema][Tab] = schema
  OBVIOUS
<1>2. DOMAIN <<>> = {}
  OBVIOUS
<1>3. \A tabs : Configuration(tabs).multi = TRUE /\ Configuration(tabs).tabs = tabs
  BY DEF Configuration
<1> QED
  BY <1>1, <1>2, <1>3 DEF GetTabSchema

\* No list of people is one, too, and so is no map.
LEMMA EmptySchemaType ==
  /\ EmptySchema.people \in Seq(Header)
  /\ EmptySchema.column_map \in Seq(ColumnEntry)
  BY EmptySeq DEF EmptySchema

\* Every start has a schema with a list of people's columns and a column map.
LEMMA SchemaInit == Init => SchemaInv
<1> SUFFICES ASSUME Init PROVE SchemaInv
  OBVIOUS
<1>1. TypeInv
  BY TypeInit
<1>2. CASE config = Configuration(<<>>)
  BY <1>2, ConfigurationType, EmptySchemaType DEF SchemaInv, Schema
<1>3. CASE \E a \in Answers \cup {None}, m \in Synonyms \cup {None} : config = Detected(a, m)
  <2>1. PICK a \in Answers \cup {None}, m \in Synonyms \cup {None} : config = Detected(a, m)
    BY <1>3
  <2>2. Schema = DetectSchemaConfig(a, m)
    BY <2>1, ConfigurationType DEF Schema, Detected
  <2> QED
    BY <1>1, <2>2, DetectType DEF SchemaInv
<1> QED
  BY <1>2, <1>3 DEF Init

\* Detecting and submitting schemas keeps it.
LEMMA SchemaStep ==
  ASSUME TypeInv, SchemaInv, [Next]_vars
  PROVE  SchemaInv'
<1>1. CASE DetectAllTabs
  <2>1. PICK answer \in Answers \cup {None}, given \in Synonyms \cup {None}, tracker \in BOOLEAN :
            config' = IF tracker THEN Detected(answer, given) ELSE Configuration(<<>>)
    BY <1>1 DEF DetectAllTabs
  <2>2. Schema' = IF tracker THEN DetectSchemaConfig(answer, given) ELSE EmptySchema
    BY <2>1, ConfigurationType DEF Schema, Detected
  <2> QED
    BY <2>2, DetectType, EmptySchemaType DEF SchemaInv
<1>2. CASE UpdateProject
  <2>1. PICK schema \in Answers :
            config' = NormaliseConfig([multi |-> FALSE, tabs |-> <<>>, flat |-> schema])
    BY <1>2 DEF UpdateProject
  <2>2. Schema' = Normalise(schema)
    BY <2>1 DEF Schema, GetTabSchema, NormaliseConfig
  <2>3. /\ {"people", "column_map"} \subseteq DOMAIN schema
        /\ schema.people \in Seq(Spelling \cup {None})
        /\ schema.column_map \in Seq(ColumnEntry)
    BY AnswersAssumption DEF EmptySchema
  <2> QED
    BY <2>2, <2>3, NormaliseType DEF SchemaInv
<1>3. CASE UNCHANGED config
  BY <1>3 DEF SchemaInv, Schema
<1>4. (EditCell \/ RenameHeader \/ CreateAlias \/ DeleteAlias \/ NextDay \/ UNCHANGED vars) => UNCHANGED config
  BY DEF EditCell, RenameHeader, CreateAlias, DeleteAlias, NextDay, vars
<1> QED
  BY <1>1, <1>2, <1>3, <1>4 DEF Next

\* Whatever is edited, renamed, detected, submitted or merged, the tab stays a table, the
\* aliases stay well typed, and the schema in use has a list of columns for its people, each a
\* header or none, and a column map that is a list of headers with their terms.
THEOREM TypeCorrect == Spec => [](TypeInv /\ SchemaInv)
<1>1. Init => TypeInv /\ SchemaInv
  BY TypeInit, SchemaInit
<1>2. TypeInv /\ SchemaInv /\ [Next]_vars => (TypeInv /\ SchemaInv)'
  BY TypeStep, SchemaStep
<1> QED
  BY <1>1, <1>2, PTL DEF Spec

-----------------------------------------------------------------------------
(* The column a report is about *)

\* The reports find a column of the tab.
LEMMA IndexNamed ==
  ASSUME TypeInv, NEW h \in Named
  PROVE  Index(h) \in 1..Len(raw) /\ SameHeader(Headers[Index(h)], h)
<1> DEFINE hits == {c \in DOMAIN Headers : SameHeader(Headers[c], h)}
<1>1. h # None /\ \E c \in 1..Len(raw) : Headers[c] = h
  BY HeadersType
<1>2. hits \in SUBSET (1..Len(raw)) /\ hits # {} /\ Len(raw) \in Nat
  BY <1>1, HeadersType DEF SameHeader
<1>3. \E c \in hits : \A d \in hits : d <= c
  <2> HIDE DEF hits
  <2> QED
    BY <1>2, GreatestExists
<1>4. Index(h) = CHOOSE c \in hits : \A d \in hits : d <= c
  BY <1>1, <1>2 DEF Index
<1>5. Index(h) \in hits
  <2> HIDE DEF hits
  <2> QED
    BY <1>3, <1>4
<1> QED
  BY <1>2, <1>5

\* What a map makes of a term is one of its headers.
LEMMA ResolvedColumn ==
  ASSUME NEW map \in Seq(ColumnEntry), map # <<>>, NEW term
  PROVE  \/ ResolveColumn(term, map) = None
         \/ \E e \in ToSet(map) : ResolveColumn(term, map) = e.canonical
<1> DEFINE Key(e) == Fold[map[e].canonical]
           close == FirstIn(Alike[Fold[term]], {Key(e) : e \in DOMAIN map})
           hits == {e \in DOMAIN map : Fold[term] = Key(e) \/ Fold[term] \in map[e].terms}
           near == {e \in DOMAIN map : Key(e) = close}
           First(E) == IF E = {} THEN None
                       ELSE map[CHOOSE e \in E : \A f \in E : e <= f].canonical
<1>1. ResolveColumn(term, map) = IF hits # {} THEN First(hits) ELSE First(near)
  BY DEF ResolveColumn
<1>2. Len(map) \in Nat /\ DOMAIN map = 1..Len(map)
  BY LenProperties
<1>3. ASSUME NEW E \in SUBSET (DOMAIN map), E # {}
      PROVE  \E e \in ToSet(map) : First(E) = e.canonical
  <2>1. E \in SUBSET Nat
    BY <1>2
  <2>2. \E e \in E : \A f \in E : e <= f
    BY <1>3, <2>1, LeastExists
  <2>3. PICK e \in DOMAIN map : First(E) = map[e].canonical
    BY <1>3, <2>2
  <2> QED
    BY <2>3 DEF ToSet
<1>4. hits \in SUBSET (DOMAIN map) /\ near \in SUBSET (DOMAIN map) /\ First({}) = None
  OBVIOUS
<1> HIDE DEF hits, near, First
<1> QED
  BY <1>1, <1>3, <1>4

\* While the headers of the tab's map are there, no field is taken for a missing column.
LEMMA CurrentColumn ==
  ASSUME TypeInv, SchemaInv, MapCurrent, NEW field \in Named
  PROVE  Index(Canonical(field)) # 0
<1> DEFINE found == ResolveColumn(field, Schema.column_map)
<1>1. CASE found = None
  <2>1. Canonical(field) = field
    BY <1>1 DEF Canonical, Or
  <2>2. Index(field) \in 1..Len(raw)
    BY IndexNamed
  <2> QED
    BY <2>1, <2>2, HeadersType
<1>2. CASE found # None
  <2>1. Canonical(field) = found
    BY <1>2 DEF Canonical, Or
  <2>2. \E e \in ToSet(Schema.column_map) : found = e.canonical
    <3>1. Schema.column_map \in Seq(ColumnEntry) /\ Schema.column_map # <<>>
      BY DEF SchemaInv, MapCurrent
    <3> QED
      BY <1>2, <3>1, ResolvedColumn
  <2> HIDE DEF found
  <2> QED
    BY <2>1, <2>2 DEF MapCurrent
<1> QED
  BY <1>1, <1>2

\* With an identifier column in the tab, the rows of a report are named by it.
LEMMA IdColumnFound ==
  ASSUME TypeInv, HeadersDistinct, Grid.id # None
  PROVE  Index(IdColumn) # 0
<1>1. Grid.id = ResolveHeader(Headers, Schema.id)
  BY DEF Grid
<1>2. Schema.id # None
  BY <1>1 DEF ResolveHeader
<1>3. IdColumn = Schema.id
  <2>1. config.multi /\ Tab \notin DOMAIN config.tabs => Schema.id = None
    BY DEF Schema, GetTabSchema, EmptySchema
  <2> QED
    BY <1>2, <2>1 DEF IdColumn
<1>4. Index(Schema.id) \in 1..Len(raw)
  BY <1>1, IndexAgrees
<1> QED
  BY <1>3, <1>4, HeadersType

\* A report of blank fields lists the blanks of the column it says it read; those of the
\* identifiers are the panel's.
LEMMA BlankReport ==
  ASSUME TypeInv, HeadersDistinct, NEW field, BlankFields(field).ok
  PROVE  LET blank == BlankFields(field)
         IN  /\ blank.rows = BlankIn(Grid, ResolveHeader(Headers, blank.field))
             /\ SameHeader(blank.field, Grid.id) => blank.rows = AssessTab(Grid).no_id
<1> DEFINE canonical == Canonical(field)
           h == ResolveHeader(Headers, canonical)
<1>1. BlankFields(field).field = canonical
  BY DEF BlankFields
<1>2. /\ Index(canonical) # 0
      /\ BlankFields(field).rows = {i \in DOMAIN rows : rows[i][Index(canonical)] = Blank}
  BY DEF BlankFields
<1> HIDE DEF canonical
<1>3. h # None
  BY <1>2, IndexAgrees
<1>4. \A i \in DOMAIN rows : rows[i][Index(canonical)] = Grid.rows[i][h]
  BY <1>3, IndexAgrees, GridType
<1>5. BlankFields(field).rows = BlankIn(Grid, h)
  BY <1>2, <1>4 DEF BlankIn
<1>6. ASSUME SameHeader(canonical, Grid.id)
      PROVE  BlankFields(field).rows = AssessTab(Grid).no_id
  <2>1. Grid.id # None /\ Grid.id \in Named /\ Fold[canonical] = Fold[Grid.id]
    BY <1>6, GridType DEF SameHeader
  <2>2. h \in Named /\ Fold[h] = Fold[canonical]
    BY <1>3, ResolveNamed DEF SameHeader
  <2>3. h = Grid.id
    BY <2>1, <2>2, OneSpelling
  <2> QED
    BY <1>5, <2>1, <2>3, Assessed
<1> QED
  BY <1>1, <1>5, <1>6

-----------------------------------------------------------------------------
(* What the panel explains *)

\* In every table the panel accounts for what the reports pass over.
LEMMA TypeHealth ==
  ASSUME TypeInv, SchemaInv
  PROVE  HealthExplains
<1> SUFFICES ASSUME NEW g \in {Grid}, NEW health \in {AssessTab(g)}, NEW report \in {SummarizeOverdue},
                    NEW unread \in {{i \in DOMAIN rows : <<i, g.due>> \in health.unreadable_date}},
                    NEW fields \in {health.completeness.fields}
             PROVE  /\ g.due # None => \A i \in DOMAIN rows :
                            Cardinality({said \in {"dated", "missing", "unreadable"} :
                                CASE said = "dated"      -> Due(g, i) # NoDay
                                  [] said = "missing"    -> i \in health.no_deadline
                                  [] said = "unreadable" -> i \in unread}) = 1
                    /\ \A i \in DOMAIN rows :
                            (/\ Item(g, i).kind = "unparsed"
                             /\ Schema.dates["start"] # None \/ g.bars.start = None)
                            => \E h \in {g.bars.start, g.bars.due} : <<i, h>> \in health.unreadable_date
                    /\ HeadersDistinct =>
                            /\ SameStatus /\ report.ok =>
                                    report.unparsed = {i \in unread : ~ IsFinishedStatus(Value(g, i, g.status))}
                            /\ DuplicateIdAlerts = health.duplicate_id
                            /\ g.id # None => SearchRows(g.id, "blank", Blank) = health.no_id
                            /\ g.id # None /\ MapCurrent => \A field \in Named : BlankFields(field).ok
                            /\ \A field \in Named : \A blank \in {BlankFields(field)} : blank.ok =>
                                    /\ blank.rows = BlankIn(g, ResolveHeader(Headers, blank.field))
                                    /\ SameHeader(blank.field, g.id) => blank.rows = health.no_id
                            /\ \A h \in CriticalFields : \A bound \in {ResolveHeader(Headers, h)} :
                                    BlankFieldCounts(h) =
                                        IF bound = None THEN Len(rows) ELSE Cardinality(BlankIn(g, bound))
                            /\ \A blanks \in {[h \in fields |-> BlankFieldCounts(h)]} :
                                    Cardinality(fields) * Len(rows) - health.completeness.filled =
                                        MapThenSumSet(LAMBDA h : blanks[h], fields)
  BY DEF HealthExplains
<1>1. g = Grid /\ health = AssessTab(Grid) /\ report = SummarizeOverdue
  OBVIOUS
<1>2. unread = {k \in DOMAIN rows : <<k, Grid.due>> \in AssessTab(Grid).unreadable_date}
  BY <1>1
<1>3. g.due # None => \A i \in DOMAIN rows :
        Cardinality({said \in {"dated", "missing", "unreadable"} :
            CASE said = "dated"      -> Due(g, i) # NoDay
              [] said = "missing"    -> i \in health.no_deadline
              [] said = "unreadable" -> i \in unread}) = 1
  <2> SUFFICES ASSUME g.due # None, NEW i \in DOMAIN rows
               PROVE  Cardinality({said \in {"dated", "missing", "unreadable"} :
                        CASE said = "dated"      -> Due(g, i) # NoDay
                          [] said = "missing"    -> i \in health.no_deadline
                          [] said = "unreadable" -> i \in unread}) = 1
    OBVIOUS
  <2>1. Cardinality(Said(i, unread)) = 1
    BY <1>1, <1>2, DeadlineExplained
  <2> QED
    BY <1>1, <2>1 DEF Said
<1>4. \A i \in DOMAIN rows :
        (/\ Item(g, i).kind = "unparsed"
         /\ Schema.dates["start"] # None \/ g.bars.start = None)
        => \E h \in {g.bars.start, g.bars.due} : <<i, h>> \in health.unreadable_date
  BY <1>1, UnparsedExplained
<1>5. ASSUME HeadersDistinct, SameStatus, report.ok
      PROVE  report.unparsed = {i \in unread : ~ IsFinishedStatus(Value(g, i, g.status))}
  BY <1>1, <1>2, <1>5, ReportUnparsed
<1>6. ASSUME HeadersDistinct
      PROVE  /\ DuplicateIdAlerts = health.duplicate_id
             /\ g.id # None => SearchRows(g.id, "blank", Blank) = health.no_id
  BY <1>1, <1>6, IdentifiersAgree
<1>7. ASSUME HeadersDistinct
      PROVE  \A h \in CriticalFields : \A bound \in {ResolveHeader(Headers, h)} :
                BlankFieldCounts(h) =
                    IF bound = None THEN Len(rows) ELSE Cardinality(BlankIn(g, bound))
  BY <1>1, <1>7, BlanksCounted
<1>8. ASSUME HeadersDistinct
      PROVE  \A blanks \in {[h \in fields |-> BlankFieldCounts(h)]} :
                Cardinality(fields) * Len(rows) - health.completeness.filled =
                    MapThenSumSet(LAMBDA h : blanks[h], fields)
  <2>1. health.completeness = Completeness(Grid)
    BY <1>1 DEF AssessTab
  <2>2. fields = Completeness(Grid).fields
    BY <2>1
  <2> SUFFICES ASSUME NEW blanks \in {[h \in fields |-> BlankFieldCounts(h)]}
               PROVE  Cardinality(fields) * Len(rows) - health.completeness.filled =
                        MapThenSumSet(LAMBDA h : blanks[h], fields)
    OBVIOUS
  <2>3. Cardinality(fields) * Len(rows) - Completeness(Grid).filled = Total(blanks, fields)
    BY <1>8, <2>2, CompletenessAdds
  <2> QED
    BY <2>1, <2>3 DEF Total
<1>9. ASSUME HeadersDistinct, g.id # None, MapCurrent
      PROVE  \A field \in Named : BlankFields(field).ok
  BY <1>1, <1>9, CurrentColumn, IdColumnFound DEF BlankFields
<1>10. ASSUME HeadersDistinct
       PROVE  \A field \in Named : \A blank \in {BlankFields(field)} : blank.ok =>
                /\ blank.rows = BlankIn(g, ResolveHeader(Headers, blank.field))
                /\ SameHeader(blank.field, g.id) => blank.rows = health.no_id
  BY <1>1, <1>10, BlankReport
<1> QED
  BY <1>3, <1>4, <1>5, <1>6, <1>7, <1>8, <1>9, <1>10

\* The health panel accounts for every row a date report passes over, and the agent finds
\* what the panel finds, for any tab, schema, aliases and date.
THEOREM HealthCorrect == Spec => []HealthExplains
<1> QED
  BY TypeCorrect, TypeHealth, PTL

-----------------------------------------------------------------------------
(* The columns of the people *)

\* The people's columns of the grid are columns of the tab, namely those that the schema's
\* resolve to.
LEMMA PeopleColumns ==
  ASSUME TypeInv, SchemaInv
  PROVE  /\ Grid.people \in Seq(Named)
         /\ ToSet(Grid.people) \subseteq Named
         /\ \A h : h \in ToSet(Grid.people) <=>
                h # None /\ \E p \in ToSet(GetPeopleColumns(Schema)) : h = ResolveHeader(Headers, p)
         /\ \A p \in ToSet(GetPeopleColumns(Schema)) : p \in Spelling
<1> DEFINE columns == GetPeopleColumns(Schema)
           bound == [i \in DOMAIN columns |-> ResolveHeader(Headers, columns[i])]
<1>1. columns \in Seq(Spelling)
  <2>1. Stated(Schema.people) \in Seq(Spelling)
    BY StatedProperties DEF SchemaInv
  <2>2. Stated(<<Schema.assignee>>) \in Seq(Spelling)
    BY OneElement, StatedProperties
  <2> QED
    BY <2>1, <2>2 DEF GetPeopleColumns
<1>2. Grid.people = Stated(bound)
  BY DEF Grid, BindColumns
<1> HIDE DEF columns
<1>3. Len(columns) \in Nat /\ DOMAIN columns = 1..Len(columns) /\ \A i \in 1..Len(columns) : columns[i] \in Spelling
  BY <1>1, LenProperties, ElementOfSeq
<1>4. \A w : ResolveHeader(Headers, w) \in Named \cup {None}
  BY ResolveNamed
<1>5. bound \in Seq(Named \cup {None})
  <2>1. bound \in [1..Len(columns) -> Named \cup {None}]
    BY <1>3, <1>4
  <2> HIDE DEF bound
  <2> QED
    BY <1>3, <2>1
<1>6. Stated(bound) \in Seq(Spelling) /\ ToSet(Stated(bound)) = ToSet(bound) \cap Spelling
  <2> HIDE DEF bound
  <2> QED
    BY <1>5, StatedProperties
<1>7. \A h : h \in ToSet(bound) <=> \E p \in ToSet(columns) : h = ResolveHeader(Headers, p)
  BY <1>3 DEF ToSet
<1>8. Named \subseteq Spelling /\ None \notin Spelling
  BY HeadersType, SpellingAssumption
<1> HIDE DEF bound
<1>9. \A h : h \in ToSet(Grid.people) <=>
            h # None /\ \E p \in ToSet(columns) : h = ResolveHeader(Headers, p)
  BY <1>2, <1>4, <1>6, <1>7, <1>8
<1>10. ToSet(Grid.people) \subseteq Named
  BY <1>4, <1>9
<1>11. Grid.people \in Seq(Named)
  <2>1. \A h \in ToSet(Grid.people) : h \in Named
    BY <1>10
  <2> QED
    BY <1>2, <1>6, <2>1, MembersType
<1>12. \A p \in ToSet(columns) : p \in Spelling
  BY <1>3 DEF ToSet
<1> QED
  BY <1>9, <1>10, <1>11, <1>12 DEF columns

\* The columns shown as people's are then the columns they are read from.
LEMMA DescribedRead ==
  ASSUME TypeInv, SchemaInv, HeadersDistinct
  PROVE  DescribedAsPeople = ToSet(Grid.people)
<1>1. ASSUME NEW h \in Named, NEW p \in ToSet(GetPeopleColumns(Schema)), SameHeader(p, h)
      PROVE  h \in ToSet(Grid.people)
  <2> DEFINE w == ResolveHeader(Headers, p)
  <2>1. PICK c \in 1..Len(raw) : Headers[c] = h
    BY HeadersType
  <2>2. p # None /\ SameHeader(Headers[c], p)
    BY <1>1, <2>1 DEF SameHeader
  <2>3. w \in Named /\ SameHeader(w, p)
    BY <2>2, ResolveNamed
  <2>4. w # None /\ Fold[w] = Fold[h]
    BY <1>1, <2>3 DEF SameHeader
  <2>5. w = h
    <3> HIDE DEF w
    <3> QED
      BY <2>3, <2>4, OneSpelling
  <2> QED
    BY <2>4, <2>5, PeopleColumns
<1>2. ASSUME NEW h \in ToSet(Grid.people)
      PROVE  h \in Named /\ \E p \in ToSet(GetPeopleColumns(Schema)) : SameHeader(p, h)
  <2>1. PICK p \in ToSet(GetPeopleColumns(Schema)) : h = ResolveHeader(Headers, p) /\ h # None
    BY PeopleColumns
  <2>2. h \in Named /\ SameHeader(h, p)
    BY <2>1, ResolveNamed
  <2> QED
    BY <2>2 DEF SameHeader
<1> QED
  BY <1>1, <1>2 DEF DescribedAsPeople

-----------------------------------------------------------------------------
(* Who is responsible *)

\* Whom a column of a row names.
NamesIn(i, h, resolver) == ResolveCell(resolver, RowDicts[i][h])

\* In the role of some people's column a row names the person.
Responsible(i, role, person, resolver) ==
    \E h \in ToSet(Grid.people) :
        Fold[h] = role /\ \E n \in ToSet(NamesIn(i, h, resolver)) : NormalisePerson(n) = person

\* Where a row names somebody, and what of it no place of the row has in common with another.
Assignment == [role : {Fold[h] : h \in Spelling}, person : Somebody]
RoleAndPerson == [x \in Assignment |-> <<x.role, NormalisePerson(x.person)>>]

\* A column names people, each once, nobody in a cell without a name, and everybody an alias stands for.
LEMMA NamesType ==
  ASSUME TypeInv, NEW resolver \in Resolvers, NEW i \in DOMAIN rows, NEW h \in Named
  PROVE  /\ NamesIn(i, h, resolver) \in Seq(Somebody)
         /\ \A a, b \in DOMAIN NamesIn(i, h, resolver) :
                NormalisePerson(NamesIn(i, h, resolver)[a]) = NormalisePerson(NamesIn(i, h, resolver)[b]) => a = b
         /\ NamesIn(i, h, resolver) = <<>> <=> NormalisePerson(RowDicts[i][h]) = <<>>
         /\ RowDicts[i][h] = Blank => NamesIn(i, h, resolver) = <<>>
         /\ \A a \in ToSet(resolver) :
                a.alias = NormalisePerson(RowDicts[i][h]) =>
                    \E n \in ToSet(NamesIn(i, h, resolver)) : NormalisePerson(n) = NormalisePerson(a.canonical)
<1> DEFINE cell == RowDicts[i][h]
           names == NamesIn(i, h, resolver)
<1>1. cell \in Cell /\ names = ResolveCell(resolver, cell)
  BY ValueType DEF NamesIn
<1> HIDE DEF cell, names
<1>2. /\ names \in Seq(Somebody)
      /\ \A a, b \in DOMAIN names : NormalisePerson(names[a]) = NormalisePerson(names[b]) => a = b
      /\ names = <<>> <=> NormalisePerson(cell) = <<>>
      /\ cell = Blank => names = <<>>
      /\ \A a \in ToSet(resolver) :
             a.alias = NormalisePerson(cell) =>
                 \E n \in ToSet(names) : NormalisePerson(n) = NormalisePerson(a.canonical)
  BY <1>1, ResolverType, Resolved
<1> QED
  BY <1>2 DEF cell, names

\* The names a column is credited with, each in the column's role.
InRole(h, names) == [k \in DOMAIN names |-> [role |-> Fold[h], person |-> names[k]]]

\* They are places of that role and those names.
LEMMA InRoleProperties ==
  ASSUME NEW h \in Spelling, NEW names \in Seq(Somebody),
         \A a, b \in DOMAIN names : NormalisePerson(names[a]) = NormalisePerson(names[b]) => a = b
  PROVE  /\ InRole(h, names) \in Seq(Assignment)
         /\ \A x : x \in ToSet(InRole(h, names)) <=>
                \E n \in ToSet(names) : x = [role |-> Fold[h], person |-> n]
         /\ Once(RoleAndPerson, InRole(h, names))
<1> DEFINE q == InRole(h, names)
           place(k) == [role |-> Fold[h], person |-> names[k]]
<1>1. Len(names) \in Nat /\ DOMAIN names = 1..Len(names) /\ \A k \in 1..Len(names) : names[k] \in Somebody
  BY LenProperties, ElementOfSeq
<1>2. \A k \in DOMAIN names : place(k) \in Assignment
  BY <1>1 DEF Assignment
<1>3. DOMAIN q = DOMAIN names /\ \A k \in DOMAIN names : q[k] = place(k)
  BY DEF InRole
<1>4. q = [k \in 1..Len(names) |-> place(k)]
  BY <1>1 DEF InRole
<1>5. q \in Seq(Assignment)
  <2>1. q \in [1..Len(names) -> Assignment]
    BY <1>1, <1>2, <1>4
  <2> HIDE DEF q
  <2> QED
    BY <1>1, <2>1
<1> HIDE DEF q
<1>6. \A x : x \in ToSet(q) <=> \E n \in ToSet(names) : x = [role |-> Fold[h], person |-> n]
  BY <1>3 DEF ToSet
<1>7. Once(RoleAndPerson, q)
  <2> SUFFICES ASSUME NEW a \in DOMAIN q, NEW b \in DOMAIN q, RoleAndPerson[q[a]] = RoleAndPerson[q[b]]
               PROVE  a = b
    BY DEF Once
  <2>1. RoleAndPerson[q[a]] = <<Fold[h], NormalisePerson(names[a])>>
    BY <1>2, <1>3 DEF RoleAndPerson
  <2>2. RoleAndPerson[q[b]] = <<Fold[h], NormalisePerson(names[b])>>
    BY <1>2, <1>3 DEF RoleAndPerson
  <2>3. NormalisePerson(names[a]) = NormalisePerson(names[b])
    <3>1. \A x, y, z : <<x, y>> = <<x, z>> => y = z
      OBVIOUS
    <3> QED
      BY <2>1, <2>2, <3>1
  <2>4. a \in DOMAIN names /\ b \in DOMAIN names
    BY <1>3
  <2> QED
    BY <2>3, <2>4
<1> QED
  BY <1>5, <1>6, <1>7 DEF q

\* A row's assignments are the names in its people's columns; none is there twice when no two
\* headers differ by case alone and no people's column is listed twice.
LEMMA AssignmentsProperties ==
  ASSUME TypeInv, SchemaInv, NEW resolver \in Resolvers, NEW i \in DOMAIN rows
  PROVE  /\ Assignments(Grid, i, resolver) \in Seq(Assignment)
         /\ \A x : x \in ToSet(Assignments(Grid, i, resolver)) <=>
                \E h \in ToSet(Grid.people) : \E n \in ToSet(NamesIn(i, h, resolver)) :
                    x = [role |-> Fold[h], person |-> n]
         /\ HeadersDistinct /\ IsInjective(Grid.people) => Once(RoleAndPerson, Assignments(Grid, i, resolver))
<1> DEFINE P == Grid.people
           ss == [c \in DOMAIN P |-> InRole(P[c], NamesIn(i, P[c], resolver))]
           q == Assignments(Grid, i, resolver)
<1>1. q = FlattenSeq(ss)
  BY GridType DEF Assignments, CollectAssignments, InRole, NamesIn
<1>2. Len(P) \in Nat /\ DOMAIN P = 1..Len(P) /\ \A c \in 1..Len(P) : P[c] \in Named
  BY PeopleColumns, LenProperties, ElementOfSeq
<1>3. Named \subseteq Spelling
  BY HeadersType
<1> HIDE DEF P, q
<1>4. ASSUME NEW c \in 1..Len(P)
      PROVE  /\ ss[c] \in Seq(Assignment)
             /\ \A x : x \in ToSet(ss[c]) <=>
                    \E n \in ToSet(NamesIn(i, P[c], resolver)) : x = [role |-> Fold[P[c]], person |-> n]
             /\ Once(RoleAndPerson, ss[c])
  <2>1. ss[c] = InRole(P[c], NamesIn(i, P[c], resolver))
    BY <1>2
  <2>2. P[c] \in Named /\ P[c] \in Spelling
    BY <1>2, <1>3
  <2> HIDE DEF ss
  <2> QED
    BY <2>1, <2>2, NamesType, InRoleProperties
<1>5. ss \in Seq(Seq(Assignment)) /\ DOMAIN ss = 1..Len(P)
  <2>1. ss \in [1..Len(P) -> Seq(Assignment)]
    BY <1>2, <1>4
  <2> HIDE DEF ss
  <2> QED
    BY <1>2, <2>1
<1> HIDE DEF ss
<1>6. q \in Seq(Assignment) /\ ToSet(q) = UNION {ToSet(ss[c]) : c \in DOMAIN ss}
  BY <1>1, <1>5, FlattenProperties
<1>7. \A x : x \in ToSet(q) <=> \E c \in 1..Len(P) : x \in ToSet(ss[c])
  BY <1>5, <1>6
<1>8. \A x : x \in ToSet(q) <=>
            \E h \in ToSet(P) : \E n \in ToSet(NamesIn(i, h, resolver)) : x = [role |-> Fold[h], person |-> n]
  <2>1. \A h : h \in ToSet(P) <=> \E c \in 1..Len(P) : h = P[c]
    BY <1>2 DEF ToSet
  <2>2. \A x : x \in ToSet(q) <=>
            \E c \in 1..Len(P) : \E n \in ToSet(NamesIn(i, P[c], resolver)) : x = [role |-> Fold[P[c]], person |-> n]
    BY <1>4, <1>7
  <2> QED
    BY <2>1, <2>2
<1>9. ASSUME HeadersDistinct, IsInjective(P) PROVE Once(RoleAndPerson, q)
  <2>1. ASSUME NEW c \in DOMAIN ss, NEW d \in DOMAIN ss, c # d,
               NEW x \in ToSet(ss[c]), NEW y \in ToSet(ss[d])
        PROVE  RoleAndPerson[x] # RoleAndPerson[y]
    <3>1. P[c] # P[d] /\ P[c] \in Named /\ P[d] \in Named
      BY <1>2, <1>5, <1>9, <2>1 DEF IsInjective
    <3>2. Fold[P[c]] # Fold[P[d]]
      BY <1>9, <3>1, OneSpelling
    <3>3. PICK m \in ToSet(NamesIn(i, P[c], resolver)) : x = [role |-> Fold[P[c]], person |-> m]
      BY <1>4, <1>5, <2>1
    <3>4. PICK n \in ToSet(NamesIn(i, P[d], resolver)) : y = [role |-> Fold[P[d]], person |-> n]
      BY <1>4, <1>5, <2>1
    <3>5. x \in Assignment /\ y \in Assignment
      <4>1. ss[c] \in Seq(Assignment) /\ ss[d] \in Seq(Assignment)
        BY <1>4, <1>5
      <4> QED
        BY <2>1, <4>1, LenProperties, ElementOfSeq DEF ToSet
    <3>6. RoleAndPerson[x][1] = Fold[P[c]] /\ RoleAndPerson[y][1] = Fold[P[d]]
      BY <3>3, <3>4, <3>5 DEF RoleAndPerson
    <3> QED
      BY <3>2, <3>6
  <2>2. \A c \in DOMAIN ss : Once(RoleAndPerson, ss[c])
    BY <1>4, <1>5
  <2> QED
    BY <1>1, <1>5, <2>1, <2>2, FlattenProperties
<1> QED
  BY <1>6, <1>8, <1>9 DEF P, q

\* A credit is a place of a row's assignments.
LEMMA CreditsAre ==
  ASSUME TypeInv, NEW resolver
  PROVE  \A c : c \in Credits(Grid, resolver) <=>
            \E i \in DOMAIN rows : \E a \in DOMAIN Assignments(Grid, i, resolver) :
                c = [row |-> i, role |-> Assignments(Grid, i, resolver)[a].role, at |-> a,
                     person |-> NormalisePerson(Assignments(Grid, i, resolver)[a].person)]
  BY GridType DEF Credits

\* A row credits whoever is responsible for it in some role, and nobody else.
LEMMA Credited ==
  ASSUME TypeInv, SchemaInv, NEW resolver \in Resolvers, NEW i \in DOMAIN rows, NEW role, NEW person
  PROVE  (\E c \in Credits(Grid, resolver) : c.row = i /\ c.role = role /\ c.person = person)
            <=> Responsible(i, role, person, resolver)
<1> DEFINE q == Assignments(Grid, i, resolver)
<1>1. \A x : x \in ToSet(q) <=>
            \E h \in ToSet(Grid.people) : \E n \in ToSet(NamesIn(i, h, resolver)) :
                x = [role |-> Fold[h], person |-> n]
  BY AssignmentsProperties
<1>2. \A x : x \in ToSet(q) <=> \E a \in DOMAIN q : x = q[a]
  BY DEF ToSet
<1>3. ASSUME NEW c \in Credits(Grid, resolver), c.row = i, c.role = role, c.person = person
      PROVE  Responsible(i, role, person, resolver)
  <2>1. PICK a \in DOMAIN q : c.role = q[a].role /\ c.person = NormalisePerson(q[a].person)
    BY <1>3, CreditsAre
  <2>2. PICK h \in ToSet(Grid.people) : \E n \in ToSet(NamesIn(i, h, resolver)) :
            q[a] = [role |-> Fold[h], person |-> n]
    BY <1>1, <1>2
  <2> HIDE DEF q
  <2> QED
    BY <1>3, <2>1, <2>2 DEF Responsible
<1>4. ASSUME Responsible(i, role, person, resolver)
      PROVE  \E c \in Credits(Grid, resolver) : c.row = i /\ c.role = role /\ c.person = person
  <2>1. PICK h \in ToSet(Grid.people) :
            Fold[h] = role /\ \E n \in ToSet(NamesIn(i, h, resolver)) : NormalisePerson(n) = person
    BY <1>4 DEF Responsible
  <2>0. PICK n \in ToSet(NamesIn(i, h, resolver)) : NormalisePerson(n) = person
    BY <2>1
  <2>2. PICK a \in DOMAIN q : q[a] = [role |-> role, person |-> n]
    BY <1>1, <1>2, <2>0, <2>1
  <2>3. [row |-> i, role |-> q[a].role, at |-> a, person |-> NormalisePerson(q[a].person)] \in Credits(Grid, resolver)
    BY CreditsAre
  <2> HIDE DEF q
  <2> QED
    BY <2>0, <2>2, <2>3
<1> QED
  BY <1>3, <1>4

\* A credit is a row's, and a person's.
LEMMA CreditType ==
  ASSUME TypeInv, SchemaInv, NEW resolver \in Resolvers, NEW c \in Credits(Grid, resolver)
  PROVE  c.row \in DOMAIN rows /\ c.person # <<>> /\ Responsible(c.row, c.role, c.person, resolver)
<1>1. PICK i \in DOMAIN rows : c.row = i
  BY CreditsAre
<1>2. Responsible(i, c.role, c.person, resolver)
  BY <1>1, Credited
<1>3. c.person # <<>>
  <2>1. PICK h \in ToSet(Grid.people) :
            \E n \in ToSet(NamesIn(i, h, resolver)) : NormalisePerson(n) = c.person
    BY <1>2 DEF Responsible
  <2>0. PICK n \in ToSet(NamesIn(i, h, resolver)) : NormalisePerson(n) = c.person
    BY <2>1
  <2>2. h \in Named
    BY PeopleColumns
  <2>3. NamesIn(i, h, resolver) \in Seq(Somebody)
    BY <2>2, NamesType
  <2>4. n \in Somebody
    BY <2>0, <2>3, LenProperties, ElementOfSeq DEF ToSet
  <2> QED
    BY <2>0, <2>4 DEF Somebody
<1> QED
  BY <1>1, <1>2, <1>3

\* The rows the person filter picks for a person in a role, and those that credit them.
Picked(p, r, resolver) == FilterRows(Grid, [NoFilter EXCEPT !.person = p, !.role = r], resolver)
Crediting(p, r, resolver) == {c.row : c \in {d \in Credits(Grid, resolver) : d.person = p /\ r \in {None, d.role}}}

\* Filtered by a person and a role, the grid shows the rows that credit the person in the role.
LEMMA PersonFilter ==
  ASSUME TypeInv, SchemaInv, NEW resolver \in Resolvers, NEW p, p # <<>>, NEW r
  PROVE  Picked(p, r, resolver) = Crediting(p, r, resolver)
<1> USE DEF Picked, Crediting
<1> DEFINE f == [NoFilter EXCEPT !.person = p, !.role = r]
<1>1. f.q = Blank /\ f.status = Blank /\ f.person = p /\ f.role = r /\ f.overdue = FALSE
  BY DEF NoFilter
<1>2. \A i : i \in FilterRows(Grid, f, resolver) <=> i \in DOMAIN rows /\ p \in PeopleOf(Grid, i, r, resolver)
  <2> HIDE DEF f
  <2> QED
    BY <1>1, GridType DEF FilterRows
<1>3. \A i \in DOMAIN rows : p \in PeopleOf(Grid, i, r, resolver) <=>
            \E h \in ToSet(Grid.people) :
                (r = None \/ Fold[h] = r) /\ \E n \in ToSet(NamesIn(i, h, resolver)) : NormalisePerson(n) = p
  <2>1. \A i \in DOMAIN rows, h \in ToSet(Grid.people) : NamesIn(i, h, resolver) = ResolveCell(resolver, Grid.rows[i][h])
    BY GridType DEF NamesIn
  <2>2. \A i \in DOMAIN rows : p \in PeopleOf(Grid, i, r, resolver) <=>
            \E h \in ToSet(Grid.people) :
                /\ r = None \/ Fold[h] = r
                /\ \E k \in DOMAIN ResolveCell(resolver, Grid.rows[i][h]) :
                       NormalisePerson(ResolveCell(resolver, Grid.rows[i][h])[k]) = p
    <3> TAKE i \in DOMAIN rows
    <3> DEFINE wanted == {x \in ToSet(Grid.people) : r = None \/ Fold[x] = r}
               named(h) == {NormalisePerson(ResolveCell(resolver, Grid.rows[i][h])[k]) :
                                k \in DOMAIN ResolveCell(resolver, Grid.rows[i][h])}
    <3>1. PeopleOf(Grid, i, r, resolver) = UNION {named(h) : h \in wanted}
      BY DEF PeopleOf
    <3>2. \A h : p \in named(h) <=>
            \E k \in DOMAIN ResolveCell(resolver, Grid.rows[i][h]) :
                NormalisePerson(ResolveCell(resolver, Grid.rows[i][h])[k]) = p
      OBVIOUS
    <3> HIDE DEF named
    <3>3. p \in UNION {named(h) : h \in wanted} <=> \E h \in wanted : p \in named(h)
      OBVIOUS
    <3> QED
      BY <3>1, <3>2, <3>3
  <2>3. \A i \in DOMAIN rows : p \in PeopleOf(Grid, i, r, resolver) <=>
            \E h \in ToSet(Grid.people) :
                /\ r = None \/ Fold[h] = r
                /\ \E k \in DOMAIN NamesIn(i, h, resolver) : NormalisePerson(NamesIn(i, h, resolver)[k]) = p
    BY <2>1, <2>2
  <2>4. \A i, h : (\E k \in DOMAIN NamesIn(i, h, resolver) : NormalisePerson(NamesIn(i, h, resolver)[k]) = p)
                    <=> \E n \in ToSet(NamesIn(i, h, resolver)) : NormalisePerson(n) = p
    BY DEF ToSet
  <2> QED
    BY <2>3, <2>4
<1>4. \A i \in DOMAIN rows : p \in PeopleOf(Grid, i, r, resolver) <=>
            \E role : r \in {None, role} /\ Responsible(i, role, p, resolver)
  <2>1. \A i, role : Responsible(i, role, p, resolver) <=>
            \E h \in ToSet(Grid.people) :
                Fold[h] = role /\ \E n \in ToSet(NamesIn(i, h, resolver)) : NormalisePerson(n) = p
    BY DEF Responsible
  <2> TAKE i \in DOMAIN rows
  <2>2. ASSUME p \in PeopleOf(Grid, i, r, resolver)
        PROVE  \E role : r \in {None, role} /\ Responsible(i, role, p, resolver)
    <3>1. PICK h \in ToSet(Grid.people) :
            (r = None \/ Fold[h] = r) /\ \E n \in ToSet(NamesIn(i, h, resolver)) : NormalisePerson(n) = p
      BY <1>3, <2>2
    <3>2. r \in {None, Fold[h]} /\ Responsible(i, Fold[h], p, resolver)
      BY <2>1, <3>1
    <3> QED
      BY <3>2
  <2>3. ASSUME NEW role, r \in {None, role}, Responsible(i, role, p, resolver)
        PROVE  p \in PeopleOf(Grid, i, r, resolver)
    <3>1. PICK h \in ToSet(Grid.people) :
            Fold[h] = role /\ \E n \in ToSet(NamesIn(i, h, resolver)) : NormalisePerson(n) = p
      BY <2>1, <2>3
    <3> QED
      BY <1>3, <2>3, <3>1
  <2> QED
    BY <2>2, <2>3
<1>5. ASSUME NEW i \in FilterRows(Grid, f, resolver)
      PROVE  \E c \in Credits(Grid, resolver) : c.person = p /\ r \in {None, c.role} /\ i = c.row
  BY <1>2, <1>4, Credited
<1>6. ASSUME NEW c \in Credits(Grid, resolver), c.person = p, r \in {None, c.role}
      PROVE  c.row \in FilterRows(Grid, f, resolver)
  BY <1>2, <1>4, <1>6, CreditType
<1> HIDE DEF f
<1>7. FilterRows(Grid, f, resolver) = {c.row : c \in {d \in Credits(Grid, resolver) : d.person = p /\ r \in {None, d.role}}}
  BY <1>5, <1>6
<1> QED
  BY <1>7 DEF f

\* A row without credits is assigned to nobody.
LEMMA NoCredits ==
  ASSUME TypeInv, SchemaInv, NEW resolver \in Resolvers, NEW i \in DOMAIN rows
  PROVE  Assignments(Grid, i, resolver) = <<>> <=> \A c \in Credits(Grid, resolver) : c.row # i
<1> DEFINE q == Assignments(Grid, i, resolver)
<1>1. q \in Seq(Assignment)
  BY AssignmentsProperties
<1>2. q = <<>> <=> DOMAIN q = {}
  <2> HIDE DEF q
  <2>1. Len(q) \in Nat /\ DOMAIN q = 1..Len(q)
    BY <1>1, LenProperties
  <2>2. DOMAIN q = {} => Len(q) = 0
    BY <2>1
  <2> QED
    BY <1>1, <2>2, EmptySeq
<1>3. ASSUME NEW c \in Credits(Grid, resolver), c.row = i PROVE DOMAIN q # {}
  BY <1>3, CreditsAre
<1>4. ASSUME NEW a \in DOMAIN q PROVE \E c \in Credits(Grid, resolver) : c.row = i
  <2> DEFINE c == [row |-> i, role |-> q[a].role, at |-> a, person |-> NormalisePerson(q[a].person)]
  <2>1. c \in Credits(Grid, resolver)
    BY CreditsAre
  <2> QED
    BY <2>1
<1> QED
  BY <1>2, <1>3, <1>4

\* The digest tells a row that is due to everybody the row credits, or as nobody's.
LEMMA DigestNames ==
  ASSUME TypeInv, SchemaInv, NEW resolver \in Resolvers, HasDigest(Grid), NEW i \in Counted(Grid)
  PROVE  LET digest == Digest(Grid, resolver)
             named == {p \in DOMAIN digest.people :
                          \E c \in digest.people[p].overdue \cup digest.people[p].due_soon : c.row = i}
         IN  /\ named = {c.person : c \in {d \in Credits(Grid, resolver) : d.row = i}}
             /\ i \in digest.unassigned <=> named = {}
<1> DEFINE digest == Digest(Grid, resolver)
           lines == {c \in Credits(Grid, resolver) : c.row \in Counted(Grid)}
           named == {p \in DOMAIN digest.people :
                        \E c \in digest.people[p].overdue \cup digest.people[p].due_soon : c.row = i}
           credited == {c.person : c \in {d \in Credits(Grid, resolver) : d.row = i}}
<1>1. /\ DOMAIN digest.people = {c.person : c \in lines}
      /\ \A p \in {c.person : c \in lines} :
            \A c : c \in digest.people[p].overdue \cup digest.people[p].due_soon <=> c \in lines /\ c.person = p
  BY DEF Digest, Bucket
<1>2. i \in digest.unassigned <=> Assignments(Grid, i, resolver) = <<>>
  BY DEF Digest
<1>3. i \in DOMAIN rows
  BY GridType DEF Counted
<1> HIDE DEF digest
<1>4. \A p : p \in named <=> \E c \in Credits(Grid, resolver) : c.row = i /\ c.person = p
  BY <1>1
<1>5. \A p : p \in credited <=> \E c \in Credits(Grid, resolver) : c.row = i /\ c.person = p
  OBVIOUS
<1>6. named = credited
  BY <1>4, <1>5
<1>7. i \in digest.unassigned <=> named = {}
  BY <1>2, <1>3, <1>4, NoCredits
<1> QED
  BY <1>6, <1>7 DEF digest

\* A row said to be nobody's credits nobody.
LEMMA UnassignedUncredited ==
  ASSUME TypeInv, SchemaInv, NEW resolver \in Resolvers
  PROVE  AssessTab(Grid).unassigned \cap {c.row : c \in Credits(Grid, resolver)} = {}
<1>1. ASSUME NEW i \in AssessTab(Grid).unassigned
      PROVE  \A h \in ToSet(Grid.people) : i \in DOMAIN rows /\ RowDicts[i][h] = Blank
  BY <1>1, GridType DEF AssessTab
<1>2. ASSUME NEW c \in Credits(Grid, resolver) PROVE c.row \notin AssessTab(Grid).unassigned
  <2>1. c.row \in DOMAIN rows /\ Responsible(c.row, c.role, c.person, resolver)
    BY CreditType
  <2>2. PICK h \in ToSet(Grid.people) : ToSet(NamesIn(c.row, h, resolver)) # {}
    BY <2>1 DEF Responsible
  <2>3. h \in Named
    BY PeopleColumns
  <2>4. NamesIn(c.row, h, resolver) # <<>>
    BY <2>2 DEF ToSet
  <2>5. RowDicts[c.row][h] # Blank
    BY <2>1, <2>3, <2>4, NamesType
  <2> QED
    BY <1>1, <2>5
<1> QED
  BY <1>2

\* A cell spelled like an alias credits every name the alias stands for.
LEMMA AliasCredited ==
  ASSUME TypeInv, SchemaInv, NEW resolver \in Resolvers, NEW a \in ToSet(resolver), NEW i \in DOMAIN rows,
         NEW h \in ToSet(Grid.people), NormalisePerson(RowDicts[i][h]) = a.alias
  PROVE  \E c \in Credits(Grid, resolver) : /\ c.row = i /\ c.role = Fold[h]
                                  /\ c.person = NormalisePerson(a.canonical)
<1>1. h \in Named
  BY PeopleColumns
<1>2. \E n \in ToSet(NamesIn(i, h, resolver)) : NormalisePerson(n) = NormalisePerson(a.canonical)
  BY <1>1, NamesType
<1>3. Responsible(i, Fold[h], NormalisePerson(a.canonical), resolver)
  BY <1>2 DEF Responsible
<1> QED
  BY <1>3, Credited

\* The roles of a row that credit somebody are those whose cell names somebody, whatever table
\* the names are resolved with.
LEMMA RolesTaken ==
  ASSUME TypeInv, SchemaInv, NEW resolver \in Resolvers
  PROVE  {<<c.row, c.role>> : c \in Credits(Grid, resolver)} =
            {<<f[1], Fold[f[2]]>> :
                f \in {e \in (DOMAIN rows) \X ToSet(Grid.people) : NamesSomebody(Grid.rows[e[1]][e[2]])}}
<1> DEFINE taken == {e \in (DOMAIN rows) \X ToSet(Grid.people) : NamesSomebody(Grid.rows[e[1]][e[2]])}
<1>1. \A i \in DOMAIN rows, h \in ToSet(Grid.people) :
        <<i, h>> \in taken <=> ToSet(NamesIn(i, h, resolver)) # {}
  <2> SUFFICES ASSUME NEW i \in DOMAIN rows, NEW h \in ToSet(Grid.people)
               PROVE  <<i, h>> \in taken <=> ToSet(NamesIn(i, h, resolver)) # {}
    OBVIOUS
  <2>1. h \in Named
    BY PeopleColumns
  <2>2. /\ NamesIn(i, h, resolver) \in Seq(Somebody)
        /\ NamesIn(i, h, resolver) = <<>> <=> NormalisePerson(RowDicts[i][h]) = <<>>
    BY <2>1, NamesType
  <2>3. ToSet(NamesIn(i, h, resolver)) # {} <=> NormalisePerson(RowDicts[i][h]) # <<>>
    BY <2>2, NobodyListed
  <2> QED
    BY <2>3, GridType DEF NamesSomebody
<1>2. ASSUME NEW c \in Credits(Grid, resolver)
      PROVE  \E f \in taken : <<c.row, c.role>> = <<f[1], Fold[f[2]]>>
  <2>1. c.row \in DOMAIN rows /\ Responsible(c.row, c.role, c.person, resolver)
    BY CreditType
  <2>2. PICK h \in ToSet(Grid.people) : Fold[h] = c.role /\ ToSet(NamesIn(c.row, h, resolver)) # {}
    BY <2>1 DEF Responsible
  <2>3. <<c.row, h>> \in taken
    BY <1>1, <2>1, <2>2
  <2> HIDE DEF taken
  <2> QED
    BY <2>2, <2>3
<1>3. ASSUME NEW f \in taken
      PROVE  \E c \in Credits(Grid, resolver) : <<c.row, c.role>> = <<f[1], Fold[f[2]]>>
  <2>1. PICK i \in DOMAIN rows, h \in ToSet(Grid.people) : f = <<i, h>>
    OBVIOUS
  <2>2. PICK n \in ToSet(NamesIn(i, h, resolver)) : TRUE
    BY <1>1, <2>1
  <2>3. Responsible(i, Fold[h], NormalisePerson(n), resolver)
    BY DEF Responsible
  <2>4. PICK c \in Credits(Grid, resolver) : c.row = i /\ c.role = Fold[h]
    BY <2>3, Credited
  <2> HIDE DEF taken
  <2> QED
    BY <2>1, <2>4
<1> HIDE DEF taken
<1>4. {<<c.row, c.role>> : c \in Credits(Grid, resolver)} = {<<f[1], Fold[f[2]]>> : f \in taken}
  BY <1>2, <1>3
<1> QED
  BY <1>4 DEF taken

\* How often a report counts a person, and the credits of the person in a column.
CountOf(counts, p) == Total(counts, {v \in DOMAIN counts : v # Blank /\ NormalisePerson(v) = p})
CreditsIn(h, p, resolver) == {c \in Credits(Grid, resolver) : c.person = p /\ c.role = Fold[h]}

\* A report on a people's column counts a person as often as the column credits them.
LEMMA CountsAgree ==
  ASSUME TypeInv, SchemaInv, HeadersDistinct, IsInjective(Grid.people), NEW resolver \in Resolvers,
         NEW field, NEW report, report = CountByField(field, resolver),
         NEW h \in ToSet(Grid.people), report.ok, SameHeader(h, report.field),
         NEW counts, counts = report.breakdown, NEW p, p # <<>>
  PROVE  CountOf(counts, p) = Cardinality(CreditsIn(h, p, resolver))
<1> DEFINE canonical == Canonical(field)
           column == Index(canonical)
           people == {Fold[q] : q \in ToSet(GetPeopleColumns(Schema))}
           counted == IF column = 0 THEN {} ELSE DOMAIN rows
           found == [i \in counted |-> IF Fold[canonical] \in people
                                       THEN NamesCounted(resolver, rows[i][column])
                                       ELSE {rows[i][column]}]
           Values(i) == IF NamesIn(i, h, resolver) = <<>> THEN {Blank} ELSE ToSet(NamesIn(i, h, resolver))
           S == {v \in DOMAIN counts : v # Blank /\ NormalisePerson(v) = p}
           A == {i \in DOMAIN rows : \E n \in ToSet(NamesIn(i, h, resolver)) : NormalisePerson(n) = p}
           key == [i \in A |-> CHOOSE n \in ToSet(NamesIn(i, h, resolver)) : NormalisePerson(n) = p]
           C == {c \in Credits(Grid, resolver) : c.person = p /\ c.role = Fold[h]}
<1>0. /\ column # 0
      /\ SameHeader(h, canonical)
      /\ counts = [v \in UNION Range(found) |-> Cardinality({i \in counted : v \in found[i]})]
  BY DEF CountByField
<1> HIDE DEF canonical
<1>1. h \in Named /\ h \in Spelling /\ Fold[h] = Fold[canonical]
  BY <1>0, PeopleColumns, HeadersType DEF SameHeader
<1>2. Fold[canonical] \in people
  <2>1. PICK q \in ToSet(GetPeopleColumns(Schema)) : h = ResolveHeader(Headers, q) /\ h # None
    BY PeopleColumns
  <2>2. SameHeader(h, q)
    BY <2>1, ResolveNamed
  <2> QED
    BY <1>1, <2>2 DEF SameHeader
<1>3. \A i \in DOMAIN rows : rows[i][column] = RowDicts[i][h]
  <2>1. ResolveHeader(Headers, canonical) # None
    BY <1>0, IndexAgrees
  <2>2. ResolveHeader(Headers, canonical) = h
    BY <1>1, <2>1, ResolveNamed, OneSpelling DEF SameHeader
  <2> QED
    BY <2>1, <2>2, IndexAgrees
<1>4. counted = DOMAIN rows
  BY <1>0
<1>5. DOMAIN found = DOMAIN rows /\ \A i \in DOMAIN rows : found[i] = Values(i)
  <2> SUFFICES ASSUME NEW i \in DOMAIN rows PROVE found[i] = Values(i)
    BY <1>4
  <2>1. found[i] = NamesCounted(resolver, rows[i][column])
    <3> HIDE DEF people, counted
    <3> QED
      BY <1>2, <1>4
  <2>2. ResolveCell(resolver, rows[i][column]) = NamesIn(i, h, resolver)
    BY <1>3 DEF NamesIn
  <2> QED
    BY <2>1, <2>2 DEF NamesCounted
<1> HIDE DEF found, counted, column
<1>6. \A v : v \in DOMAIN counts <=> \E i \in DOMAIN rows : v \in Values(i)
  <2>1. \A v : v \in UNION Range(found) <=> \E i \in DOMAIN rows : v \in found[i]
    <3> HIDE DEF Values
    <3> QED
      BY <1>5 DEF Range
  <2> HIDE DEF Values
  <2> QED
    BY <1>0, <1>5, <2>1
<1>7. \A v \in DOMAIN counts : counts[v] = Cardinality({i \in DOMAIN rows : v \in Values(i)})
  <2> SUFFICES ASSUME NEW v \in DOMAIN counts
               PROVE  counts[v] = Cardinality({i \in DOMAIN rows : v \in Values(i)})
    OBVIOUS
  <2>1. counts[v] = Cardinality({i \in counted : v \in found[i]})
    BY <1>0
  <2> HIDE DEF Values
  <2>2. {i \in counted : v \in found[i]} = {i \in DOMAIN rows : v \in Values(i)}
    BY <1>4, <1>5
  <2> QED
    BY <2>1, <2>2
<1>8. \A i \in DOMAIN rows : \A m, n \in ToSet(NamesIn(i, h, resolver)) : NormalisePerson(m) = NormalisePerson(n) => m = n
  BY <1>1, NamesType DEF ToSet
<1>9. \A i \in A : key[i] \in ToSet(NamesIn(i, h, resolver)) /\ NormalisePerson(key[i]) = p
  OBVIOUS
<1> HIDE DEF key
<1>10. \A i \in DOMAIN rows : ToSet(NamesIn(i, h, resolver)) # {} => NamesIn(i, h, resolver) # <<>>
  BY DEF ToSet
<1>11. \A i \in DOMAIN rows : \A v : v # Blank /\ NormalisePerson(v) = p =>
            (v \in Values(i) <=> i \in A /\ key[i] = v)
  BY <1>8, <1>9, <1>10
<1>12. NormalisePerson(Blank) # p
  BY DEF NormalisePerson, Blank
<1>13. \A i \in A : key[i] \in S
  BY <1>6, <1>9, <1>11, <1>12
<1>14. \A v \in S : \E i \in A : key[i] = v
  BY <1>6, <1>11
<1>15. IsFiniteSet(A)
  <2>1. IsFiniteSet(DOMAIN rows)
    BY TabFinite
  <2>2. A \subseteq DOMAIN rows
    OBVIOUS
  <2> HIDE DEF A
  <2> QED
    BY <2>1, <2>2, FS_Subset
<1>16. Shares(counts, S, A, key)
  <2> SUFFICES ASSUME NEW v \in S PROVE counts[v] = Cardinality({a \in A : key[a] = v})
    BY DEF Shares
  <2>1. v \in DOMAIN counts /\ v # Blank /\ NormalisePerson(v) = p
    OBVIOUS
  <2>2. \A a \in A : a \in DOMAIN rows
    OBVIOUS
  <2> HIDE DEF A, Values
  <2>3. {i \in DOMAIN rows : v \in Values(i)} = {a \in A : key[a] = v}
    BY <1>11, <2>1, <2>2
  <2> QED
    BY <1>7, <2>1, <2>3
<1>17. IsFiniteSet(S)
  <2> HIDE DEF S, A
  <2> DEFINE f == [i \in A |-> key[i]]
  <2>1. f \in Surjection(A, S)
    BY <1>13, <1>14 DEF Surjection
  <2> HIDE DEF f
  <2> QED
    BY <1>15, <2>1, FS_Surjection
<1>18. Total(counts, S) = Cardinality(A)
  <2> HIDE DEF S, A
  <2>1. Total(counts, S) = Cardinality({a \in A : key[a] \in S})
    BY <1>15, <1>16, <1>17, SumOfShares
  <2>2. {a \in A : key[a] \in S} = A
    BY <1>13
  <2> QED
    BY <2>1, <2>2
<1>19. \A i \in DOMAIN rows : Responsible(i, Fold[h], p, resolver) <=> i \in A
  <2>1. \A g \in ToSet(Grid.people) : Fold[g] = Fold[h] => g = h
    BY <1>1, PeopleColumns, OneSpelling
  <2> QED
    BY <2>1 DEF Responsible
<1>20. \A c \in C : c.row \in A
  BY <1>19, CreditType
<1>21. \A i \in A : \E c \in C : c.row = i
  BY <1>19, Credited
<1>22. ASSUME NEW c \in C, NEW d \in C, c.row = d.row PROVE c = d
  <2> DEFINE i == c.row
             q == Assignments(Grid, i, resolver)
  <2>1. i \in DOMAIN rows
    BY CreditType
  <2>2. PICK a \in DOMAIN q : c = [row |-> i, role |-> q[a].role, at |-> a, person |-> NormalisePerson(q[a].person)]
    BY CreditsAre
  <2>3. PICK b \in DOMAIN q : d = [row |-> i, role |-> q[b].role, at |-> b, person |-> NormalisePerson(q[b].person)]
    BY <1>22, CreditsAre
  <2>4. q \in Seq(Assignment) /\ Once(RoleAndPerson, q)
    BY <2>1, AssignmentsProperties
  <2>5. c.role = q[a].role /\ c.person = NormalisePerson(q[a].person)
        /\ d.role = q[b].role /\ d.person = NormalisePerson(q[b].person)
    BY <2>2, <2>3
  <2> HIDE DEF q
  <2>6. q[a] \in Assignment /\ q[b] \in Assignment
    BY <2>4, LenProperties, ElementOfSeq
  <2>7. RoleAndPerson[q[a]] = <<c.role, c.person>> /\ RoleAndPerson[q[b]] = <<d.role, d.person>>
    BY <2>5, <2>6 DEF RoleAndPerson
  <2>8. a = b
    BY <2>4, <2>7 DEF Once
  <2> QED
    BY <2>2, <2>3, <2>8
<1>23. Cardinality(C) = Cardinality(A)
  <2> HIDE DEF C, A
  <2> DEFINE f == [c \in C |-> c.row]
  <2>1. f \in [C -> A] /\ \A c \in C : f[c] = c.row
    BY <1>20
  <2>2. f \in Injection(C, A)
    BY <1>22, <2>1 DEF Injection, IsInjective
  <2>3. f \in Surjection(C, A)
    BY <1>21, <2>1 DEF Surjection
  <2> HIDE DEF f
  <2> QED
    BY <1>15, <2>2, <2>3, FS_Injection
<1> QED
  BY <1>18, <1>23 DEF CountOf, CreditsIn

-----------------------------------------------------------------------------
(* Misspelled names *)

\* Names are mentioned in finitely many places.
LEMMA MentionsFinite ==
  ASSUME TypeInv, SchemaInv
  PROVE  IsFiniteSet(Mentions(Grid.rows, Grid.people))
<1> DEFINE I == DOMAIN Grid.rows
           K == DOMAIN Grid.people
           part(i, c) == {<<i, c, k>> : k \in DOMAIN Grid.rows[i][Grid.people[c]].parts}
           P == {part(i, c) : i \in I, c \in K}
           f == [x \in I \X K |-> part(x[1], x[2])]
<1>1. Mentions(Grid.rows, Grid.people) = UNION P
  BY DEF Mentions
<1>2. IsFiniteSet(I)
  BY TabFinite, GridType
<1>3. Len(Grid.people) \in Nat /\ K = 1..Len(Grid.people) /\ \A c \in K : Grid.people[c] \in Named
  BY PeopleColumns, LenProperties, ElementOfSeq
<1>4. IsFiniteSet(K)
  BY <1>3, UpTo
<1>5. ASSUME NEW i \in I, NEW c \in K PROVE IsFiniteSet(part(i, c))
  <2> DEFINE parts == Grid.rows[i][Grid.people[c]].parts
             g == [k \in DOMAIN parts |-> <<i, c, k>>]
  <2>1. Grid.rows[i][Grid.people[c]] \in Cell
    BY <1>3, GridType, ValueType
  <2>2. parts \in Seq(Seq(Nat))
    BY <2>1 DEF Cell
  <2>3. IsFiniteSet(DOMAIN parts)
    <3> HIDE DEF parts
    <3>1. Len(parts) \in Nat /\ DOMAIN parts = 1..Len(parts)
      BY <2>2, LenProperties
    <3> QED
      BY <3>1, UpTo
  <2>4. g \in Surjection(DOMAIN parts, part(i, c))
    BY DEF Surjection
  <2> HIDE DEF parts, g, part
  <2> QED
    BY <2>3, <2>4, FS_Surjection
<1>6. IsFiniteSet(I \X K)
  <2> HIDE DEF I, K
  <2> QED
    BY <1>2, <1>4, FS_Product
<1>7. f \in Surjection(I \X K, P)
  <2> HIDE DEF part, I, K
  <2>1. f \in [I \X K -> P]
    OBVIOUS
  <2>2. ASSUME NEW t \in P PROVE \E x \in I \X K : f[x] = t
    <3>1. PICK i \in I, c \in K : t = part(i, c)
      OBVIOUS
    <3>2. f[<<i, c>>] = part(i, c) /\ <<i, c>> \in I \X K
      OBVIOUS
    <3> QED
      BY <3>1, <3>2
  <2> HIDE DEF f, P
  <2> QED
    BY <2>1, <2>2 DEF Surjection
<1>8. IsFiniteSet(P)
  <2> HIDE DEF f, P, I, K
  <2> QED
    BY <1>6, <1>7, FS_Surjection
<1>9. \A t \in P : IsFiniteSet(t)
  <2> SUFFICES ASSUME NEW t \in P PROVE IsFiniteSet(t)
    OBVIOUS
  <2> HIDE DEF part, I, K
  <2>1. PICK i \in I, c \in K : t = part(i, c)
    OBVIOUS
  <2> QED
    BY <1>5, <2>1
<1> HIDE DEF P
<1> QED
  BY <1>1, <1>8, <1>9, FS_UNION

\* An observed name is words, and is observed a number of times.
LEMMA ObservedType ==
  ASSUME TypeInv, SchemaInv, NEW n \in DOMAIN CountObservedNames(Grid.rows, Grid.people)
  PROVE  /\ CountObservedNames(Grid.rows, Grid.people)[n] \in Nat
         /\ Tokens(n) \in Seq(Nat)
<1> DEFINE counts == CountObservedNames(Grid.rows, Grid.people)
           mentions == Mentions(Grid.rows, Grid.people)
           NameAt(m) == SplitCell(Grid.rows[m[1]][Grid.people[m[2]]])[m[3]]
<1>1. \E M \in SUBSET mentions : counts[n] = Cardinality(M)
  BY DEF CountObservedNames
<1>2. counts[n] \in Nat
  <2> HIDE DEF counts, mentions
  <2>1. IsFiniteSet(mentions)
    BY MentionsFinite DEF mentions
  <2> QED
    BY <1>1, <2>1, FS_Subset, FS_CardinalityType
<1>3. \E m \in mentions : n = NameAt(m)
  BY DEF CountObservedNames
<1>4. PICK i \in DOMAIN Grid.rows, c \in DOMAIN Grid.people :
        \E k \in DOMAIN Grid.rows[i][Grid.people[c]].parts :
            n = SplitCell(Grid.rows[i][Grid.people[c]])[k]
  <2>1. PICK m \in mentions : n = NameAt(m)
    BY <1>3
  <2>2. PICK i \in DOMAIN Grid.rows, c \in DOMAIN Grid.people :
          m \in {<<i, c, k>> : k \in DOMAIN Grid.rows[i][Grid.people[c]].parts}
    <3> DEFINE part(i, c) == {<<i, c, k>> : k \in DOMAIN Grid.rows[i][Grid.people[c]].parts}
    <3>1. mentions = UNION {part(i, c) : i \in DOMAIN Grid.rows, c \in DOMAIN Grid.people}
      BY DEF Mentions
    <3> HIDE DEF part, mentions
    <3>2. \E i \in DOMAIN Grid.rows, c \in DOMAIN Grid.people : m \in part(i, c)
      BY <3>1
    <3> QED
      BY <3>2 DEF part
  <2>3. PICK k \in DOMAIN Grid.rows[i][Grid.people[c]].parts : m = <<i, c, k>>
    BY <2>2
  <2>4. m[1] = i /\ m[2] = c /\ m[3] = k
    BY <2>3
  <2>5. n = SplitCell(Grid.rows[i][Grid.people[c]])[k]
    BY <2>1, <2>4
  <2> QED
    BY <2>5
<1> DEFINE cell == Grid.rows[i][Grid.people[c]]
<1>5. cell \in Cell
  <2>1. Grid.people[c] \in Named
    BY PeopleColumns, LenProperties, ElementOfSeq
  <2> QED
    BY <2>1, GridType, ValueType
<1> HIDE DEF cell
<1>6. n \in Somebody
  <2>1. PICK k \in DOMAIN cell.parts : n = SplitCell(cell)[k]
    BY <1>4 DEF cell
  <2>2. SplitCell(cell) \in Seq(Somebody) /\ DOMAIN SplitCell(cell) = DOMAIN cell.parts
    BY <1>5, SplitCellType DEF SplitCell
  <2> QED
    BY <2>1, <2>2, LenProperties, ElementOfSeq
<1>7. Tokens(n) \in Seq(Nat)
  <2>1. n.parts \in Seq(Seq(Nat)) /\ n.parts # <<>>
    BY <1>6 DEF Somebody, Cell, NormalisePerson
  <2>2. 1 \in 1..Len(n.parts)
    BY <2>1, EmptySeq, LenProperties
  <2> QED
    BY <2>1, <2>2, ElementOfSeq DEF Tokens
<1> QED
  BY <1>2, <1>7

\* Two misspellings of one name are offered both ways only when the words of one are some of
\* the other's.
LEMMA MergesOneWay ==
  ASSUME TypeInv, SchemaInv, NEW counts, counts = CountObservedNames(Grid.rows, Grid.people),
         NEW a \in DOMAIN counts, NEW b \in DOMAIN counts, IsTypoOf(a, b),
         b \in SuggestMerges(counts)[a], a \in SuggestMerges(counts)[b]
  PROVE  \/ ToSet(Tokens(a)) \in (SUBSET ToSet(Tokens(b))) \ {ToSet(Tokens(b))}
         \/ ToSet(Tokens(b)) \in (SUBSET ToSet(Tokens(a))) \ {ToSet(Tokens(a))}
<1> DEFINE s == Tokens(a)
           t == Tokens(b)
           n == Len(s)
<1>1. s \in Seq(Nat) /\ t \in Seq(Nat) /\ counts[a] \in Nat /\ counts[b] \in Nat
  BY ObservedType
<1>2. Len(t) = n /\ \E i \in Differ(a, b) : TRUE
  BY DEF IsTypoOf
<1>3. n \in Nat /\ DOMAIN s = 1..n /\ DOMAIN t = 1..n /\ \A i \in 1..n : s[i] \in Nat /\ t[i] \in Nat
  <2> HIDE DEF s, t
  <2> QED
    BY <1>1, <1>2, LenProperties, ElementOfSeq
<1>4. Differ(a, b) = {i \in 1..n : s[i] # t[i]} /\ Differ(b, a) = {i \in 1..n : s[i] # t[i]}
  BY <1>3 DEF Differ
<1>5. PICK i \in 1..n : s[i] # t[i]
  BY <1>2, <1>4
<1>6. ASSUME NEW x \in Seq(Nat), NEW y \in Seq(Nat), Len(x) = n, Len(y) = n, x[i] # y[i]
      PROVE  ~ IsStrictPrefix(x, y)
  <2> HIDE DEF n
  <2>1. SubSeq(x, 1, n)[i] = x[i] /\ SubSeq(y, 1, n)[i] = y[i]
    BY <1>3, <1>5, <1>6, SubSeqProperties
  <2> QED
    BY <1>6, <2>1 DEF IsStrictPrefix, IsPrefix
<1>7. ~ IsStrictPrefix(s, t) /\ ~ IsStrictPrefix(t, s)
  <2>1. Len(s) = n
    OBVIOUS
  <2> HIDE DEF s, t, n
  <2> QED
    BY <1>1, <1>2, <1>5, <1>6, <2>1
<1>8. ~ (Prefers(counts, a, b) /\ Prefers(counts, b, a))
  <2>1. Prefers(counts, b, a) => counts[b] > counts[a] \/ (counts[b] = counts[a] /\ s[i] < t[i])
    BY <1>4, <1>5 DEF Prefers
  <2>2. Prefers(counts, a, b) => counts[a] > counts[b] \/ (counts[a] = counts[b] /\ t[i] < s[i])
    BY <1>4, <1>5 DEF Prefers
  <2>3. s[i] \in Nat /\ t[i] \in Nat
    BY <1>3
  <2> HIDE DEF s, t
  <2> QED
    BY <1>1, <2>1, <2>2, <2>3
<1>9. \/ ToSet(s) \subseteq ToSet(t) /\ ToSet(s) # ToSet(t)
      \/ ToSet(t) \subseteq ToSet(s) /\ ToSet(t) # ToSet(s)
      \/ Prefers(counts, b, a)
  BY <1>7 DEF SuggestMerges
<1>10. \/ ToSet(s) \subseteq ToSet(t) /\ ToSet(s) # ToSet(t)
       \/ ToSet(t) \subseteq ToSet(s) /\ ToSet(t) # ToSet(s)
       \/ Prefers(counts, a, b)
  BY <1>7 DEF SuggestMerges
<1>11. \/ ToSet(s) \subseteq ToSet(t) /\ ToSet(s) # ToSet(t)
       \/ ToSet(t) \subseteq ToSet(s) /\ ToSet(t) # ToSet(s)
  BY <1>8, <1>9, <1>10
<1> QED
  BY <1>11

\* In every table the surfaces agree on whom a row belongs to.
LEMMA TypePeople ==
  ASSUME TypeInv, SchemaInv
  PROVE  PeopleAgree
<1> SUFFICES ASSUME NEW g \in {Grid}, NEW resolver \in Resolvers, NEW health \in {AssessTab(g)},
                    NEW credits \in {Credits(g, resolver)}, NEW digest \in {Digest(g, resolver)}
             PROVE
        /\ \A p \in DOMAIN Workload(g, resolver), r \in {None} \cup {c.role : c \in credits} :
                FilterRows(g, [NoFilter EXCEPT !.person = p, !.role = r], resolver) =
                    {c.row : c \in {d \in credits : d.person = p /\ r \in {None, d.role}}}
        /\ HasDigest(g) => \A i \in Counted(g) :
                LET named == {p \in DOMAIN digest.people :
                                \E c \in digest.people[p].overdue \cup digest.people[p].due_soon : c.row = i}
                IN  /\ named = {c.person : c \in {d \in credits : d.row = i}}
                    /\ i \in digest.unassigned <=> named = {}
        /\ HeadersDistinct => DescribedAsPeople = ToSet(g.people)
        /\ health.unassigned \cap {c.row : c \in credits} = {}
        /\ {<<c.row, c.role>> : c \in credits} =
                {<<f[1], Fold[f[2]]>> :
                    f \in {e \in (DOMAIN rows) \X ToSet(g.people) : NamesSomebody(g.rows[e[1]][e[2]])}}
        /\ MapCurrent => \A field \in Named : CountByField(field, resolver).ok
        /\ HeadersDistinct /\ IsInjective(g.people) =>
                \A field \in Named : \A report \in {CountByField(field, resolver)} :
                \A h \in {p \in ToSet(g.people) : report.ok /\ SameHeader(p, report.field)} :
                \A counts \in {report.breakdown}, p \in {c.person : c \in credits} :
                    Total(counts, {v \in DOMAIN counts : v # Blank /\ NormalisePerson(v) = p}) =
                        Cardinality({c \in credits : c.person = p /\ c.role = Fold[h]})
        /\ \A a \in ToSet(resolver), i \in DOMAIN rows, h \in ToSet(g.people) :
                NormalisePerson(g.rows[i][h]) = a.alias =>
                    \E c \in credits : /\ c.row = i /\ c.role = Fold[h]
                                      /\ c.person = NormalisePerson(a.canonical)
        /\ \A a, b \in DOMAIN health.duplicate_people :
                (/\ IsTypoOf(a, b)
                 /\ b \in health.duplicate_people[a]
                 /\ a \in health.duplicate_people[b])
                => \/ ToSet(Tokens(a)) \in (SUBSET ToSet(Tokens(b))) \ {ToSet(Tokens(b))}
                   \/ ToSet(Tokens(b)) \in (SUBSET ToSet(Tokens(a))) \ {ToSet(Tokens(a))}
  BY DEF PeopleAgree, Total
<1>1. g = Grid /\ credits = Credits(Grid, resolver) /\ health = AssessTab(Grid) /\ digest = Digest(Grid, resolver)
  OBVIOUS
<1>2. \A c \in credits : c.person # <<>>
  BY <1>1, CreditType
<1>3. ASSUME NEW p \in DOMAIN Workload(g, resolver), NEW r
      PROVE  FilterRows(g, [NoFilter EXCEPT !.person = p, !.role = r], resolver) =
                {c.row : c \in {d \in credits : d.person = p /\ r \in {None, d.role}}}
  <2>1. p \in {c.person : c \in credits}
    BY <1>1 DEF Workload
  <2>2. p # <<>>
    BY <1>2, <2>1
  <2>3. Picked(p, r, resolver) = Crediting(p, r, resolver)
    BY <2>2, PersonFilter
  <2> QED
    BY <1>1, <2>3 DEF Picked, Crediting
<1>4. ASSUME HasDigest(g), NEW i \in Counted(g)
      PROVE  LET named == {p \in DOMAIN digest.people :
                              \E c \in digest.people[p].overdue \cup digest.people[p].due_soon : c.row = i}
             IN  /\ named = {c.person : c \in {d \in credits : d.row = i}}
                 /\ i \in digest.unassigned <=> named = {}
  BY <1>1, <1>4, DigestNames
<1>5. HeadersDistinct => DescribedAsPeople = ToSet(g.people)
  BY <1>1, DescribedRead
<1>6. health.unassigned \cap {c.row : c \in credits} = {}
  BY <1>1, UnassignedUncredited
<1>7. ASSUME HeadersDistinct, IsInjective(g.people), NEW field, NEW report \in {CountByField(field, resolver)},
             NEW h \in ToSet(g.people), report.ok, SameHeader(h, report.field),
             NEW counts \in {report.breakdown}, NEW p \in {c.person : c \in credits}
      PROVE  CountOf(counts, p) = Cardinality(CreditsIn(h, p, resolver))
  <2>1. /\ report = CountByField(field, resolver) /\ counts = report.breakdown /\ p # <<>>
        /\ HeadersDistinct /\ IsInjective(Grid.people) /\ h \in ToSet(Grid.people)
        /\ report.ok /\ SameHeader(h, report.field)
    BY <1>1, <1>2, <1>7
  <2> QED
    BY <2>1, CountsAgree
<1>8. ASSUME NEW a \in ToSet(resolver), NEW i \in DOMAIN rows, NEW h \in ToSet(g.people),
             NormalisePerson(g.rows[i][h]) = a.alias
      PROVE  \E c \in credits : /\ c.row = i /\ c.role = Fold[h]
                                /\ c.person = NormalisePerson(a.canonical)
  <2>1. NormalisePerson(RowDicts[i][h]) = a.alias
    BY <1>1, <1>8, GridType
  <2> QED
    BY <1>1, <2>1, AliasCredited
<1>9. ASSUME NEW a \in DOMAIN health.duplicate_people, NEW b \in DOMAIN health.duplicate_people,
             IsTypoOf(a, b), b \in health.duplicate_people[a], a \in health.duplicate_people[b]
      PROVE  \/ ToSet(Tokens(a)) \in (SUBSET ToSet(Tokens(b))) \ {ToSet(Tokens(b))}
             \/ ToSet(Tokens(b)) \in (SUBSET ToSet(Tokens(a))) \ {ToSet(Tokens(a))}
  <2> DEFINE counts == CountObservedNames(Grid.rows, Grid.people)
  <2>1. health.duplicate_people = SuggestMerges(counts)
    BY <1>1 DEF AssessTab
  <2>2. DOMAIN SuggestMerges(counts) = DOMAIN counts
    BY DEF SuggestMerges
  <2>3. counts = CountObservedNames(Grid.rows, Grid.people)
    OBVIOUS
  <2> HIDE DEF counts
  <2> QED
    BY <1>9, <2>1, <2>2, <2>3, MergesOneWay
<1>10. \A p \in DOMAIN Workload(g, resolver), r \in {None} \cup {c.role : c \in credits} :
            FilterRows(g, [NoFilter EXCEPT !.person = p, !.role = r], resolver) =
                {c.row : c \in {d \in credits : d.person = p /\ r \in {None, d.role}}}
  BY <1>3
<1>11. HasDigest(g) => \A i \in Counted(g) :
            LET named == {p \in DOMAIN digest.people :
                            \E c \in digest.people[p].overdue \cup digest.people[p].due_soon : c.row = i}
            IN  /\ named = {c.person : c \in {d \in credits : d.row = i}}
                /\ i \in digest.unassigned <=> named = {}
  BY <1>4
<1>12. HeadersDistinct /\ IsInjective(g.people) =>
            \A field \in Named : \A report \in {CountByField(field, resolver)} :
            \A h \in {p \in ToSet(g.people) : report.ok /\ SameHeader(p, report.field)} :
            \A counts \in {report.breakdown}, p \in {c.person : c \in credits} :
                Total(counts, {v \in DOMAIN counts : v # Blank /\ NormalisePerson(v) = p}) =
                    Cardinality({c \in credits : c.person = p /\ c.role = Fold[h]})
  <2> SUFFICES ASSUME HeadersDistinct, IsInjective(g.people), NEW field \in Named,
                      NEW report \in {CountByField(field, resolver)},
                      NEW h \in {p \in ToSet(g.people) : report.ok /\ SameHeader(p, report.field)},
                      NEW counts \in {report.breakdown}, NEW p \in {c.person : c \in credits}
               PROVE  Total(counts, {v \in DOMAIN counts : v # Blank /\ NormalisePerson(v) = p}) =
                        Cardinality({c \in credits : c.person = p /\ c.role = Fold[h]})
    OBVIOUS
  <2>1. h \in ToSet(g.people) /\ report.ok /\ SameHeader(h, report.field)
    OBVIOUS
  <2>2. CountOf(counts, p) = Cardinality(CreditsIn(h, p, resolver))
    BY <1>7, <2>1
  <2> QED
    BY <1>1, <2>2 DEF CountOf, CreditsIn
<1>13. \A a \in ToSet(resolver), i \in DOMAIN rows, h \in ToSet(g.people) :
            NormalisePerson(g.rows[i][h]) = a.alias =>
                \E c \in credits : /\ c.row = i /\ c.role = Fold[h]
                                  /\ c.person = NormalisePerson(a.canonical)
  BY <1>8
<1>14. \A a, b \in DOMAIN health.duplicate_people :
            (/\ IsTypoOf(a, b)
             /\ b \in health.duplicate_people[a]
             /\ a \in health.duplicate_people[b])
            => \/ ToSet(Tokens(a)) \in (SUBSET ToSet(Tokens(b))) \ {ToSet(Tokens(b))}
               \/ ToSet(Tokens(b)) \in (SUBSET ToSet(Tokens(a))) \ {ToSet(Tokens(a))}
  BY <1>9
<1>15. {<<c.row, c.role>> : c \in credits} =
            {<<f[1], Fold[f[2]]>> :
                f \in {e \in (DOMAIN rows) \X ToSet(g.people) : NamesSomebody(g.rows[e[1]][e[2]])}}
  BY <1>1, RolesTaken
<1>16. MapCurrent => \A field \in Named : CountByField(field, resolver).ok
  BY CurrentColumn DEF CountByField
<1> QED
  BY <1>5, <1>6, <1>10, <1>11, <1>12, <1>13, <1>14, <1>15, <1>16, Zenon

\* The workload, the person filter, the digest, the health panel and the agent's counts agree
\* on who a row belongs to, for any tab, schema, aliases and date.
THEOREM PeopleCorrect == Spec => []PeopleAgree
<1> QED
  BY TypeCorrect, TypePeople, PTL
=============================================================================
