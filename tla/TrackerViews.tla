----------------------------- MODULE TrackerViews -----------------------------
(***************************************************************************)
(* One tab of a tracker and everything the application says about it: the  *)
(* grid and its filters, the workload, the digest, the timeline, the       *)
(* health panel, and the agent's overdue, count and data quality reports.  *)
(* Each is computed from the rows, the stored schema and the alias table   *)
(* whenever it is asked for, by code that repeats part of the others'.     *)
(*                                                                         *)
(* The state is what people change: the cells and headers of the sheet,    *)
(* the schema an admin detects or submits, the aliases an admin records,   *)
(* and the date.                                                           *)
(***************************************************************************)
EXTENDS TrackerPeople

CONSTANTS
    Tab,
    Sheets,         \* the header row and the data rows the tab may start with
    Renamings,      \* pairs of a column and the header somebody gives it
    CellsOf,        \* for each column, what its cells may hold
    Answers,        \* schemas the language model or an admin may give
    Synonyms,       \* column maps the language model may give
    AliasPairs,     \* the alias and canonical name an admin may submit
    DevStatus, RicefwId,    \* the headers summarize falls back on
    Lookahead,      \* days the digest looks ahead
    LastDay,        \* bound: the last date of a behaviour
    MaxChanges,     \* bound: how often anything is changed
    MaxGroups,      \* groups a timeline shows before it folds the rest
    OtherWord,      \* the word Other
    MinSample, MinDistinct, NameWords     \* what a column of names looks like

ASSUME ViewsAssumption ==
    /\ {DevStatus, RicefwId} \subseteq Spelling
    /\ {Lookahead, LastDay, MaxChanges, MaxGroups, MinSample, MinDistinct} \subseteq Nat
    /\ NoDay \notin Int

\* A tab is read as a table: a header or none, and a cell, for each of its columns.
ASSUME SheetsAssumption ==
    /\ CellsOf \in Seq(SUBSET Cell)
    /\ \A sheet \in Sheets :
        /\ sheet[1] \in Seq(Spelling \cup {None}) /\ Len(sheet[1]) = Len(CellsOf)
        /\ sheet[2] \in Seq(Seq(Cell))
        /\ \A i \in DOMAIN sheet[2] : Len(sheet[2][i]) = Len(CellsOf)
    /\ \A r \in Renamings : r[2] \in Spelling \cup {None}

\* What an admin submits as a name is nothing, or has a part.
ASSUME AliasesAssumption ==
    \A pair \in AliasPairs :
        pair[1] \in Cell /\ pair[2] \in Cell /\ (NormalisePerson(pair[2]) = <<>> => pair[2] = Blank)

\* A schema somebody gives has the fields of one, and a list of columns for its people.
ASSUME AnswersAssumption ==
    /\ \A answer \in Answers :
        /\ DOMAIN answer = DOMAIN EmptySchema
        /\ answer.people \in Seq(Spelling \cup {None})
        /\ answer.column_map \in Seq(ColumnEntry)
    /\ Synonyms \subseteq Seq(ColumnEntry)
    /\ None \notin Synonyms

VARIABLES
    raw,        \* the header row as the sheet spells it
    rows,       \* the data rows, cell by cell
    config,     \* the project's schema_config
    aliases,    \* its person_aliases
    today,
    changes     \* how many changes there have been

vars == <<raw, rows, config, aliases, today, changes>>

-----------------------------------------------------------------------------
(* The tab as every view reads it *)

Schema == GetTabSchema(config, Tab)

Headers == [c \in DOMAIN raw |-> IF raw[c] = None THEN None ELSE Strip[raw[c]]]
Named == ToSet(Headers) \ {None}

\* A row keyed by header; of two columns with one header the last counts.
RowDict(row) ==
    [h \in Named |-> row[CHOOSE c \in DOMAIN Headers :
                            /\ Headers[c] = h
                            /\ \A d \in DOMAIN Headers : Headers[d] = h => d <= c]]
RowDicts == [i \in DOMAIN rows |-> RowDict(rows[i])]

\* core/timeline.py takes a guessed deadline that reads as a start for the start.
TimelineColumns ==
    LET due == ResolveDueColumn(Schema, Headers)
        taken == due.header \in ReadsAsAStart /\ ~ due.stated
        start == GetStartColumn(Schema, Headers, IF taken THEN None ELSE due.header)
    IN  [start |-> ResolveHeader(Headers, IF taken /\ start = None THEN due.header ELSE start),
         due   |-> IF taken THEN None ELSE ResolveHeader(Headers, due.header)]

\* The columns the views agree on, and the rows under them.
Grid ==
    [rows   |-> RowDicts,
     people |-> BindColumns(GetPeopleColumns(Schema), Headers),
     id     |-> ResolveHeader(Headers, Schema.id),
     status |-> ResolveHeader(Headers, Schema.status),
     due    |-> ResolveHeader(Headers, GetDueColumn(Schema, Headers)),
     bars   |-> TimelineColumns]

Value(g, i, h) == IF h = None THEN Blank ELSE g.rows[i][h]
Due(g, i) == ParseDate(Value(g, i, g.due))

-----------------------------------------------------------------------------
(* api/dashboard.py: the grid's filters and the workload.  A surface       *)
(* resolves names with a table it loads for itself: the aliases, or none   *)
(* when the database fails it.                                             *)

Resolvers == {aliases, <<>>}

\* Mutant: work due today is already late.
IsOverdueToday(g, i) ==
    /\ Due(g, i) # NoDay
    /\ Due(g, i) <= today
    /\ ~ IsFinishedStatus(Value(g, i, g.status))

IsOverdue(g, i) ==
    /\ Due(g, i) # NoDay
    /\ Due(g, i) < today
    /\ ~ IsFinishedStatus(Value(g, i, g.status))

WordsIn(cell) == ToSet(FlattenSeq(cell.parts))
Matches(cell, needle) == WordsIn(needle) \subseteq WordsIn(cell)

NoFilter == [q |-> Blank, status |-> Blank, person |-> <<>>, role |-> None, overdue |-> FALSE]

\* Mutant: the filter matches the names as the cells spell them.
PeopleSpelled(g, i, role, resolver) ==
    UNION {{<<part>> : part \in ToSet(g.rows[i][h].parts)} :
              h \in {p \in ToSet(g.people) : role = None \/ Fold[p] = role}}

PeopleOf(g, i, role, resolver) ==
    UNION {LET names == ResolveCell(resolver, g.rows[i][h])
           IN  {NormalisePerson(names[k]) : k \in DOMAIN names} :
              h \in {p \in ToSet(g.people) : role = None \/ Fold[p] = role}}

FilterRows(g, f, resolver) ==
    {i \in DOMAIN g.rows :
        /\ f.q # Blank => \E h \in Named : Matches(g.rows[i][h], f.q)
        /\ f.status # Blank /\ g.status # None => Matches(g.rows[i][g.status], f.status)
        /\ f.person # <<>> => f.person \in PeopleOf(g, i, f.role, resolver)
        /\ f.overdue => IsOverdue(g, i)}

\* The columns the grid shows as naming people.
DescribedAsPeople ==
    {h \in Named : \E p \in ToSet(GetPeopleColumns(Schema)) : SameHeader(p, h)}

\* Every (row, role, person) the analytics credit.
Assignments(g, i, resolver) == CollectAssignments(g.rows[i], g.people, resolver)
Credits(g, resolver) ==
    UNION {LET found == Assignments(g, i, resolver)
           IN  {[row |-> i, role |-> found[a].role, at |-> a,
                 person |-> NormalisePerson(found[a].person)] : a \in DOMAIN found} :
              i \in DOMAIN g.rows}

Workload(g, resolver) ==
    LET credits == Credits(g, resolver)
    IN  [p \in {c.person : c \in credits} |->
            [total_items   |-> Cardinality({c \in credits : c.person = p}),
             overdue_items |-> Cardinality({c \in credits : c.person = p /\ IsOverdue(g, c.row)})]]

-----------------------------------------------------------------------------
(* core/digest.py *)

Bucket(g, i) == IF Due(g, i) < today THEN "overdue" ELSE "due_soon"

Counted(g) ==
    {i \in DOMAIN g.rows :
        /\ Due(g, i) # NoDay
        /\ ~ IsFinishedStatus(Value(g, i, g.status))
        /\ Due(g, i) <= today + Lookahead}

HasDigest(g) == g.due # None /\ g.people # <<>>

\* The digest: what each person is told, and what nobody is responsible for.
Digest(g, resolver) ==
    LET counted == IF HasDigest(g) THEN Counted(g) ELSE {}
        lines == {c \in Credits(g, resolver) : c.row \in counted}
        Section(p, bucket) == {c \in lines : c.person = p /\ Bucket(g, c.row) = bucket}
    IN  [people |-> [p \in {c.person : c \in lines} |->
                        [overdue |-> Section(p, "overdue"), due_soon |-> Section(p, "due_soon")]],
         unassigned |-> {i \in counted : Assignments(g, i, resolver) = <<>>},
         rows |-> Cardinality(counted)]

-----------------------------------------------------------------------------
(* core/timeline.py *)

Kinds == {"bar", "milestone", "undated", "unparsed"}

ClassifyRow(start, due) ==
    CASE start = Blank /\ due = Blank -> "undated"
      [] \E cell \in {start, due} : cell # Blank /\ ParseDate(cell) = NoDay -> "unparsed"
      [] start # Blank /\ due # Blank /\ NoDay \notin {ParseDate(start), ParseDate(due)} -> "bar"
      [] OTHER -> "milestone"

\* A row as it is drawn: the pair of a bar is put in order.
Item(g, i) ==
    LET start == Value(g, i, g.bars.start)
        due == Value(g, i, g.bars.due)
        kind == ClassifyRow(start, due)
        a == IF start = Blank THEN ParseDate(due) ELSE ParseDate(start)
        b == IF due = Blank THEN ParseDate(start) ELSE ParseDate(due)
        drawn == kind \in {"bar", "milestone"}
        reversed == drawn /\ b < a
        end == IF reversed THEN a ELSE b
    IN  [row |-> i, kind |-> kind,
         start |-> IF reversed THEN b ELSE a,
         end |-> end,
         overdue |-> /\ drawn
                     /\ kind = "bar" \/ start = Blank
                     /\ end < today
                     /\ ~ IsFinishedStatus(Value(g, i, g.status))]

\* A group's label is a text; Other is the text the folded groups go under.
Label(parts, as) == [parts |-> parts, as |-> as]
AllRows == Label(<<>>, 1)
Unassigned == Label(<<>>, 2)
BlankGroup == Label(<<>>, 3)
Other(n) == Label(<< <<OtherWord>> >>, n)

GroupLabels(g, by, i, resolver) ==
    LET cell == Value(g, i, by)
        names == ResolveCell(resolver, cell)
    IN  CASE by = None -> {AllRows}
          [] by # None /\ by \in ToSet(g.people) ->
                IF names = <<>> THEN {Unassigned}
                ELSE {Label(names[k].parts, names[k].as) : k \in DOMAIN names}
          [] OTHER -> {IF cell = Blank THEN BlankGroup ELSE Label(cell.parts, cell.as)}

GroupableHeaders(g) ==
    {h \in Named \ {g.bars.start, g.bars.due} :
        \/ h \in ToSet(g.people)
        \/ Cardinality({g.rows[i][h] : i \in DOMAIN rows} \ {Blank}) \in 1..MaxGroups}

EditableHeaders(g) == ({g.bars.start, g.bars.due, g.status} \cup ToSet(g.people)) \ {None}

EarliestStart(starts) ==
    IF starts = {} THEN NoDay ELSE CHOOSE s \in starts : \A t \in starts : s <= t

StartsBefore(a, b) == a.start # NoDay /\ (b.start = NoDay \/ a.start < b.start)

\* The groups earliest first, those with nothing drawn last; of two that start together
\* the code puts the alphabetically first label first, here the choice is open.
SortGroups(groups) ==
    CHOOSE s \in SetToSeqs(groups) : \A j, k \in DOMAIN s : j < k => ~StartsBefore(s[k], s[j])

\* Rows in the order of the sheet: before the k-th of them there are k - 1.
InOrder(S) == [k \in 1..Cardinality(S) |-> CHOOSE i \in S : Cardinality({j \in S : j < i}) = k - 1]

\* Mutant: the groups' rows one after the other.
ConcatItems(groups) == FlattenSeq([k \in DOMAIN groups |-> groups[k].items])

\* A row in several of the groups is drawn once.
MergeItems(groups) == Distinct(FlattenSeq([k \in DOMAIN groups |-> groups[k].items]))

\* The groups past MaxGroups become one, under a label no other group has.
FoldGroups(sorted) ==
    LET head == SubSeq(sorted, 1, MaxGroups)
        tail == SubSeq(sorted, MaxGroups + 1, Len(sorted))
        taken == {head[k].label : k \in DOMAIN head}
        free == CHOOSE n \in 1..(MaxGroups + 1) :
                    Other(n) \notin taken /\ \A m \in 1..(n - 1) : Other(m) \in taken
    IN  IF tail = <<>> THEN sorted
        ELSE Append(head, [label |-> Other(free),
                           count |-> FoldLeft(LAMBDA n, grp : n + grp.count, 0, tail),
                           start |-> Head(tail).start,
                           items |-> MergeItems(tail)])

\* The panel, given what is known of each shown row: its item and its groups' labels.
BuildTimeline(g, shown, item, labels) ==
    LET drawn == {i \in shown : item[i].kind \in {"bar", "milestone"}}
        Group(l) ==
            LET mine == {i \in shown : l \in labels[i]}
            IN  [label |-> l,
                 count |-> Cardinality(mine),
                 start |-> EarliestStart({item[i].start : i \in mine \cap drawn}),
                 items |-> InOrder(mine \cap drawn)]
        groups == {Group(l) : l \in UNION Range(labels)}
    IN  [start_header |-> g.bars.start,
         due_header |-> g.bars.due,
         groupable |-> GroupableHeaders(g),
         editable |-> EditableHeaders(g),
         counts |-> [k \in Kinds |-> Cardinality({i \in shown : item[i].kind = k})],
         overdue |-> {i \in shown : item[i].overdue},
         groups |-> IF drawn = {} \/ {g.bars.start, g.bars.due} = {None} THEN <<>>
                    ELSE FoldGroups(SortGroups(groups))]

\* The timeline of the rows a filter leaves, grouped by the column by.
Timeline(g, shown, by, resolver) ==
    BuildTimeline(g, shown, [i \in shown |-> Item(g, i)],
                  [i \in shown |-> GroupLabels(g, by, i, resolver)])

-----------------------------------------------------------------------------
(* What people change *)

Change ==
    /\ changes < MaxChanges
    /\ changes' = changes + 1

EditCell ==
    \E i \in DOMAIN rows, c \in DOMAIN raw : \E cell \in CellsOf[c] \ {rows[i][c]} :
        /\ Change
        /\ rows' = [rows EXCEPT ![i][c] = cell]
        /\ UNCHANGED <<raw, config, aliases, today>>

\* A column is renamed in the sheet; nothing re-reads its meaning.
RenameHeader ==
    \E r \in Renamings :
        /\ Change
        /\ raw' = [raw EXCEPT ![r[1]] = r[2]]
        /\ raw' # raw
        /\ UNCHANGED <<rows, config, aliases, today>>

\* The statistics by which a column's values read as people's names.
ReadsAsPeople(column) ==
    LET filled == {i \in DOMAIN column : column[i] # Blank}
        Same(i) == {j \in filled : column[j].parts = column[i].parts}
        values == {column[i].parts : i \in filled}
        names == {i \in filled : WordsIn(column[i]) \subseteq NameWords}
        repeated == {i \in filled : Cardinality(Same(i)) > 1}
    IN  /\ Cardinality(filled) >= MinSample
        /\ Cardinality(values) >= MinDistinct
        /\ 10 * Cardinality(values) <= 6 * Cardinality(filled)
        /\ 10 * Cardinality(names) >= 8 * Cardinality(filled)
        /\ 10 * Cardinality(repeated) >= 3 * Cardinality(filled)

ColumnNamed(h) == [i \in DOMAIN rows |-> RowDict(rows[i])[h]]

Configuration(tabs) == [multi |-> TRUE, tabs |-> tabs, flat |-> EmptySchema]

\* What detection makes of the tab: the model's answer, or the fallback's when there is none,
\* with a column map of the headers as they are now.
DetectSchemaConfig(answer, given) ==
    LET schema == IF answer = None
                  THEN StructuralFallback(raw, {h \in Named : ReadsAsPeople(ColumnNamed(h))})
                  ELSE answer
    IN  [Normalise(schema) EXCEPT !.column_map = BuildColumnMap(Headers, given)]

Detected(answer, given) == Configuration([t \in {Tab} |-> DetectSchemaConfig(answer, given)])

\* A project is created with what detection makes of its tabs, or with no schema for this one.
Init ==
    /\ \E sheet \in Sheets : raw = sheet[1] /\ rows = sheet[2]
    /\ config \in {Configuration(<<>>)} \cup
                  {Detected(a, m) : a \in Answers \cup {None}, m \in Synonyms \cup {None}}
    /\ aliases = <<>>
    /\ today = 1
    /\ changes = 0

\* An admin runs the detection and saves what it finds; a tab that is no tracker is left out.
DetectAllTabs ==
    \E answer \in Answers \cup {None}, given \in Synonyms \cup {None}, tracker \in BOOLEAN :
        /\ Change
        /\ answer = None => tracker
        /\ config' = IF tracker THEN Detected(answer, given) ELSE Configuration(<<>>)
        /\ UNCHANGED <<raw, rows, aliases, today>>

\* An admin submits a configuration of one tab by hand.
UpdateProject ==
    \E schema \in Answers :
        /\ Change
        /\ config' = NormaliseConfig([multi |-> FALSE, tabs |-> <<>>, flat |-> schema])
        /\ UNCHANGED <<raw, rows, aliases, today>>

CreateAlias ==
    \E pair \in AliasPairs :
        LET key == NormalisePerson(pair[1])
            row == [alias |-> key, canonical |-> pair[2]]
        IN  /\ Change
            /\ key # <<>>
            /\ pair[2] # Blank
            /\ key # NormalisePerson(pair[2])
            /\ row \notin ToSet(aliases)
            /\ aliases' = Append(aliases, row)
            /\ UNCHANGED <<raw, rows, config, today>>

DeleteAlias ==
    \E a \in DOMAIN aliases :
        /\ Change
        /\ aliases' = RemoveAt(aliases, a)
        /\ UNCHANGED <<raw, rows, config, today>>

NextDay ==
    /\ today < LastDay
    /\ today' = today + 1
    /\ UNCHANGED <<raw, rows, config, aliases, changes>>

Next ==
    \/ EditCell
    \/ RenameHeader
    \/ DetectAllTabs
    \/ UpdateProject
    \/ CreateAlias
    \/ DeleteAlias
    \/ NextDay

Spec == Init /\ [][Next]_vars
=============================================================================
