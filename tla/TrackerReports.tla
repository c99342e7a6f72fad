---------------------------- MODULE TrackerReports ----------------------------
(***************************************************************************)
(* The health panel (core/health.py), the agent's reading tools            *)
(* (sheets/read.py) and its data quality check (core/data_quality.py),     *)
(* which read the tab of TrackerViews by code of their own, and what the   *)
(* surfaces owe each other.                                                *)
(***************************************************************************)
EXTENDS TrackerViews

-----------------------------------------------------------------------------
(* The health panel *)

\* Mutant: a deadline the schema does not name is not looked at.
StatedDateHeaders(g) == {ResolveHeader(Headers, Schema.dates[k]) : k \in DateKeys} \ {None}

DateHeaders(g) ==
    ({ResolveHeader(Headers, Schema.dates[k]) : k \in DateKeys} \cup {g.due}) \ {None}

ClaimedHeaders ==
    {ResolveHeader(Headers, h) :
        h \in {Schema.id, Schema.status, Schema.module, Schema.type, Schema.description}
              \cup {Schema.dates[k] : k \in DateKeys} \cup ToSet(GetEffortColumns(Schema))}

UnmappedPeople(g) ==
    {h \in Named \ (ToSet(g.people) \cup ClaimedHeaders) :
        ReadsAsPeople([i \in DOMAIN rows |-> g.rows[i][h]])}

BlankIn(g, h) == {i \in DOMAIN rows : g.rows[i][h] = Blank}

\* Rows that share the value they are addressed by.
Duplicates(values) ==
    {i \in DOMAIN values :
        /\ values[i] # Blank
        /\ \E j \in DOMAIN values \ {i} : values[j].parts = values[i].parts}

Completeness(g) ==
    LET fields == {ResolveHeader(Headers, h) : h \in ToSet(Schema.critical)} \ {None}
    IN  [fields |-> fields,
         filled |-> Cardinality({f \in (DOMAIN rows) \X (fields \cap Named) :
                                    g.rows[f[1]][f[2]] # Blank})]

\* What each check finds, and which checks have no column to look at.
AssessTab(g) ==
    LET Missing(h) == IF h = None THEN {} ELSE BlankIn(g, h)
    IN  [no_id |-> Missing(g.id),
         duplicate_id |-> IF g.id = None THEN {}
                          ELSE Duplicates([i \in DOMAIN rows |-> g.rows[i][g.id]]),
         no_deadline |-> Missing(g.due),
         unreadable_date |-> {f \in (DOMAIN rows) \X DateHeaders(g) :
                                 LET cell == g.rows[f[1]][f[2]]
                                 IN  cell # Blank /\ ParseDate(cell) = NoDay},
         unassigned |-> IF g.people = <<>> THEN {}
                        ELSE {i \in DOMAIN rows : \A h \in ToSet(g.people) : g.rows[i][h] = Blank},
         duplicate_people |-> SuggestMerges(CountObservedNames(g.rows, g.people)),
         unmapped_people |-> UnmappedPeople(g),
         no_status |-> Missing(g.status),
         skipped |-> {<<"no_id", g.id>>, <<"no_deadline", g.due>>, <<"no_status", g.status>>}
                        \cap {<<k, None>> : k \in {"no_id", "no_deadline", "no_status"}},
         completeness |-> Completeness(g)]

-----------------------------------------------------------------------------
(* The agent's reading tools.  They look a column up by position, under    *)
(* the folded header; of two that fold alike the last one counts.          *)

Index(h) ==
    LET hits == IF h = None THEN {} ELSE {c \in DOMAIN Headers : SameHeader(Headers[c], h)}
    IN  IF hits = {} THEN 0 ELSE CHOOSE c \in hits : \A d \in hits : d <= c

Or(h, default) == IF h = None THEN default ELSE h

\* The column summarize takes a field for: what the column map makes of it comes first,
\* a header spelled like it only when the map has nothing.
Canonical(field) == Or(ResolveColumn(field, Schema.column_map), field)

NamesCounted(resolver, cell) ==
    IF ResolveCell(resolver, cell) = <<>> THEN {Blank} ELSE ToSet(ResolveCell(resolver, cell))

\* The report of how often each value, or each person, fills a column; refused when the
\* column the field is taken for is not there.
CountByField(field, resolver) ==
    LET canonical == Canonical(field)
        column == Index(canonical)
        isPeople == Fold[canonical] \in {Fold[p] : p \in ToSet(GetPeopleColumns(Schema))}
        counted == IF column = 0 THEN {} ELSE DOMAIN rows
        values == [i \in counted |-> IF isPeople THEN NamesCounted(resolver, rows[i][column])
                                                 ELSE {rows[i][column]}]
    IN  [ok |-> column # 0,
         field |-> canonical,
         breakdown |-> [v \in UNION Range(values) |->
                           Cardinality({i \in counted : v \in values[i]})]]

\* Only a tab without a schema has a default for the ID column.
IdColumn == IF config.multi /\ Tab \notin DOMAIN config.tabs THEN RicefwId ELSE Schema.id

\* The rows a column is blank in; refused without that column, or without an ID column to
\* name the rows by.
BlankFields(field) ==
    LET canonical == Canonical(field)
        column == Index(canonical)
        ok == column # 0 /\ Index(IdColumn) # 0
    IN  [ok |-> ok,
         field |-> canonical,
         rows |-> IF ok THEN {i \in DOMAIN rows : rows[i][column] = Blank} ELSE {}]

SummarizeOverdue ==
    LET date == Index(GetDueColumn(Schema, Headers))
        status == Index(Or(Schema.status, DevStatus))
        id == Index(Or(Schema.id, RicefwId))
        open == {i \in DOMAIN rows : status = 0 \/ ~ IsFinishedStatus(rows[i][status])}
        dated == {i \in open : ParseDate(rows[i][date]) # NoDay}
    IN  IF date = 0 \/ id = 0 THEN [ok |-> FALSE, overdue |-> {}, unparsed |-> {}]
        ELSE [ok |-> TRUE,
              overdue |-> {i \in dated : ParseDate(rows[i][date]) < today},
              unparsed |-> {i \in open \ dated : rows[i][date] # Blank}]

\* search_rows for one filter on a column that is there.
SearchRows(h, matchType, value) ==
    LET column == Index(h)
        Found(cell) == CASE matchType = "blank"    -> cell = Blank
                         [] matchType = "contains" -> Matches(cell, value)
                         [] matchType = "exact"    -> cell.parts = value.parts
    IN  {i \in DOMAIN rows : Found(rows[i][column])}

-----------------------------------------------------------------------------
(* The data quality check.  It is given the rows as the sheet sends them:  *)
(* without the blank cells at their end.                                   *)

RowLen(row) == Cardinality({c \in DOMAIN row : \E d \in c..Len(row) : row[d] # Blank})

DuplicateIdAlerts ==
    LET column == Index(Schema.id)
    IN  IF column = 0 THEN {} ELSE Duplicates([i \in DOMAIN rows |-> rows[i][column]])

\* The columns whose blanks are counted when none are asked for.
CriticalFields ==
    IF Schema.critical # <<>> THEN ToSet(Schema.critical) ELSE DefaultCriticalHeaders(Schema, Headers)

BlankFieldCounts(h) ==
    LET column == Index(h)
    IN  IF column = 0 THEN Len(rows)
        ELSE Cardinality({i \in DOMAIN rows : RowLen(rows[i]) < column \/ rows[i][column] = Blank})

-----------------------------------------------------------------------------
(* What the surfaces owe each other *)

HeadersDistinct ==
    \A c, d \in DOMAIN Headers : c # d => ~SameHeader(Headers[c], Headers[d])

\* Where the agent's reports look for the status the dashboards look for.
SameStatus == Schema.status # None \/ Index(DevStatus) = 0

NamesSomebody(cell) == NormalisePerson(cell) # <<>>

\* The tab has a column map, and every header in it is still there.
MapCurrent ==
    /\ Schema.column_map # <<>>
    /\ \A e \in ToSet(Schema.column_map) : Index(e.canonical) # 0

\* The grid's overdue filter, the workload, the digest, the timeline and the agent's report
\* agree on which rows are late, whatever is edited, renamed, detected or merged: the timeline
\* leaves out only the rows it cannot draw and those whose other date is still to come, and
\* has none when it takes the guessed deadline for a start; the agent agrees when the schema
\* names the status column and no two headers differ by case alone.
OverdueAgrees ==
    \A g \in {Grid} : \A late \in {FilterRows(g, [NoFilter EXCEPT !.overdue = TRUE], <<>>)} :
    \A resolver \in Resolvers, report \in {SummarizeOverdue} :
    \A credits \in {Credits(g, resolver)}, workload \in {Workload(g, resolver)} :
        /\ \A p \in DOMAIN workload :
                workload[p].overdue_items = Cardinality({c \in credits : c.person = p /\ c.row \in late})
        /\ HasDigest(g) => {i \in Counted(g) : Bucket(g, i) = "overdue"} = late
        /\ Timeline(g, DOMAIN rows, None, resolver).overdue =
                {i \in late :
                    /\ g.bars.due # None
                    /\ LET start == Value(g, i, g.bars.start)
                       IN  start = Blank \/ (ParseDate(start) # NoDay /\ ParseDate(start) < today)}
        /\ HeadersDistinct /\ SameStatus /\ report.ok => report.overdue = late

\* The workload, the person filter, the digest, the health panel and the agent's counts agree
\* on who a row belongs to, whatever the aliases, when each got the alias table or each failed
\* to: the columns shown as people's are the ones they are read from; filtering by a person of
\* the workload shows the rows that credit them, in the role asked for; the digest tells a row
\* to everybody it names, or as nobody's; a row said to name nobody is on no workload; a count
\* the agent gives for a people column has every person of the workload as often, unless the
\* schema names a column twice, whose people the workload then counts twice, and no count is
\* refused while the headers of the tab's column map are there; a cell spelled like an alias
\* belongs to every name the alias stands for; and two misspellings of one name are never
\* offered for merging both ways, unless the words of one are some of the other's.  With the
\* table or without, the roles of a row that are taken are those whose cell names somebody: a
\* surface that alone failed to load the table differs from the others in the names only.
PeopleAgree ==
    \A g \in {Grid} : \A resolver \in Resolvers, health \in {AssessTab(g)} :
    \A credits \in {Credits(g, resolver)}, digest \in {Digest(g, resolver)} :
        /\ \A p \in DOMAIN Workload(g, resolver), r \in {None} \cup {c.role : c \in credits} :
                FilterRows(g, [NoFilter EXCEPT !.person = p, !.role = r], resolver) =
                    {c.row : c \in {d \in credits : d.person = p /\ r \in {None, d.role}}}
        /\ HasDigest(g) => \A i \in Counted(g) :
                LET named == {p \in DOMAIN digest.people :
                                \E c \in digest.people[p].overdue \cup digest.people[p].due_soon : c.row = i}
                IN  /\ named = {c.person : c \in {d \in credits : d.row = i}}
                    /\ i \in digest.unassigned <=> named = {}
        /\ HeadersDistinct => DescribedAsPeople = ToSet(g.people)
        /\ health.unassigned \cap {c.row : c \in credits} = {}
        /\ {<<c.row, c.role>> : c \in credits} =
                {<<f[1], Fold[f[2]]>> :
                    f \in {e \in (DOMAIN rows) \X ToSet(g.people) : NamesSomebody(g.rows[e[1]][e[2]])}}
        /\ MapCurrent => \A field \in Named : CountByField(field, resolver).ok
        /\ HeadersDistinct /\ IsInjective(g.people) =>
                \A field \in Named : \A report \in {CountByField(field, resolver)} :
                \A h \in {p \in ToSet(g.people) : report.ok /\ SameHeader(p, report.field)} :
                \A counts \in {report.breakdown}, p \in {c.person : c \in credits} :
                    MapThenSumSet(LAMBDA v : counts[v],
                                  {v \in DOMAIN counts : v # Blank /\ NormalisePerson(v) = p}) =
                        Cardinality({c \in credits : c.person = p /\ c.role = Fold[h]})
        /\ \A a \in ToSet(resolver), i \in DOMAIN rows, h \in ToSet(g.people) :
                NormalisePerson(g.rows[i][h]) = a.alias =>
                    \E c \in credits : /\ c.row = i /\ c.role = Fold[h]
                                      /\ c.person = NormalisePerson(a.canonical)
        /\ \A a, b \in DOMAIN health.duplicate_people :
                (/\ IsTypoOf(a, b)
                 /\ b \in health.duplicate_people[a]
                 /\ a \in health.duplicate_people[b])
                => \/ ToSet(Tokens(a)) \in (SUBSET ToSet(Tokens(b))) \ {ToSet(Tokens(b))}
                   \/ ToSet(Tokens(b)) \in (SUBSET ToSet(Tokens(a))) \ {ToSet(Tokens(a))}

\* A timeline is whole, however it is grouped and filtered: no column is both ends of its bars,
\* the kinds add up to the rows it was given, every row that can be drawn is in a group and in
\* none twice, the folded groups included, and no two groups share a label.
TimelineWhole ==
    \A g \in {Grid} :
    \A by \in {None} \cup GroupableHeaders(g),
       shown \in {DOMAIN rows, FilterRows(g, [NoFilter EXCEPT !.overdue = TRUE], <<>>)},
       resolver \in Resolvers :
    \A t \in {Timeline(g, shown, by, resolver)} :
    \A drawn \in {{i \in shown : Item(g, i).kind \in {"bar", "milestone"}}} :
        /\ t.start_header # None => t.start_header # t.due_header
        /\ MapThenSumSet(LAMBDA k : t.counts[k], Kinds) = Cardinality(shown)
        /\ t.groups # <<>> => drawn = UNION {ToSet(t.groups[k].items) : k \in DOMAIN t.groups}
        /\ t.groups = <<>> => drawn = {} \/ (t.start_header = None /\ t.due_header = None)
        /\ \A k \in DOMAIN t.groups : IsInjective(t.groups[k].items)
        /\ IsInjective([k \in DOMAIN t.groups |-> t.groups[k].label])
        /\ Len(t.groups) <= MaxGroups + 1

\* The health panel accounts for every row a date report passes over, and the agent finds what
\* the panel finds: with a deadline column each row has a date, or is listed without a deadline,
\* or its cell is listed as unreadable; so is the cell that keeps a row off the timeline, when
\* the start column is the schema's; the agent's unreadable deadlines, duplicated and missing
\* identifiers and blank counts are the panel's; and a report of blank fields lists the blanks
\* of the column it says it read, refused only without an identifier or when a header of the
\* tab's column map is gone.
HealthExplains ==
    \A g \in {Grid} : \A health \in {AssessTab(g)}, report \in {SummarizeOverdue} :
    \A unread \in {{i \in DOMAIN rows : <<i, g.due>> \in health.unreadable_date}},
       fields \in {health.completeness.fields} :
        /\ g.due # None => \A i \in DOMAIN rows :
                Cardinality({said \in {"dated", "missing", "unreadable"} :
                    CASE said = "dated"      -> Due(g, i) # NoDay
                      [] said = "missing"    -> i \in health.no_deadline
                      [] said = "unreadable" -> i \in unread}) = 1
        /\ \A i \in DOMAIN rows :
                (/\ Item(g, i).kind = "unparsed"
                 /\ Schema.dates["start"] # None \/ g.bars.start = None)
                => \E h \in {g.bars.start, g.bars.due} : <<i, h>> \in health.unreadable_date
        /\ HeadersDistinct =>
                /\ SameStatus /\ report.ok =>
                        report.unparsed = {i \in unread : ~ IsFinishedStatus(Value(g, i, g.status))}
                /\ DuplicateIdAlerts = health.duplicate_id
                /\ g.id # None => SearchRows(g.id, "blank", Blank) = health.no_id
                /\ g.id # None /\ MapCurrent => \A field \in Named : BlankFields(field).ok
                /\ \A field \in Named : \A blank \in {BlankFields(field)} : blank.ok =>
                        /\ blank.rows = BlankIn(g, ResolveHeader(Headers, blank.field))
                        /\ SameHeader(blank.field, g.id) => blank.rows = health.no_id
                /\ \A h \in CriticalFields : \A bound \in {ResolveHeader(Headers, h)} :
                        BlankFieldCounts(h) =
                            IF bound = None THEN Len(rows) ELSE Cardinality(BlankIn(g, bound))
                /\ \A blanks \in {[h \in fields |-> BlankFieldCounts(h)]} :
                        Cardinality(fields) * Len(rows) - health.completeness.filled =
                            MapThenSumSet(LAMBDA h : blanks[h], fields)
=============================================================================
