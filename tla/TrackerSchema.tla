---------------------------- MODULE TrackerSchema ----------------------------
(***************************************************************************)
(* How a tab's columns get their meaning: core/schema.py resolves the      *)
(* stored schema against the header row, core/schema_detect.py produces    *)
(* that schema, and core/column_mapper.py tells which column the language  *)
(* model means by a term.                                                  *)
(*                                                                         *)
(* A header is one of the Spelling values.  Strip trims it, as the header  *)
(* row is read; Fold trims and folds its case, as two headers are          *)
(* compared; Words is the set of the words of the code's vocabularies it   *)
(* contains.  None is an absent mapping, and a column without a name.      *)
(* Alike tells, for a folded text, the ones difflib finds close to it,     *)
(* closest first.                                                          *)
(***************************************************************************)
EXTENDS Integers, Sequences, FiniteSets, SequencesExt

CONSTANTS
    Spelling, Strip, Fold, Words, None,
    ColumnAliases,  \* the column map of one customer's tracker, the code's last resort
    Alike

ASSUME SpellingAssumption ==
    /\ None \notin Spelling
    /\ Strip \in [Spelling -> Spelling]
    /\ DOMAIN Fold = Spelling
    /\ \A h \in Spelling : Fold[Strip[h]] = Fold[h]
    /\ DOMAIN Words = Spelling

\* A column map is a list of headers, each with the folded terms people use for it.
ColumnEntry == [canonical : Spelling, terms : SUBSET Range(Fold)]

ASSUME ColumnMapAssumption ==
    /\ ColumnAliases \in Seq(ColumnEntry)
    /\ Alike \in [Range(Fold) -> Seq(Range(Fold))]

-----------------------------------------------------------------------------
(* Headers *)

Reads(vocabulary) == {h \in Spelling : Words[h] \cap vocabulary # {}}

\* The first element of s that is in S, None when there is none.
FirstIn(s, S) ==
    LET hits == {i \in DOMAIN s : s[i] \in S}
    IN  IF hits = {} THEN None ELSE s[CHOOSE i \in hits : \A j \in hits : i <= j]

SameHeader(a, b) ==
    /\ a # None
    /\ b # None
    /\ Fold[a] = Fold[b]

\* The key a wanted column has in a row read under these headers.
ResolveHeader(headers, wanted) ==
    IF wanted = None \/ wanted \in ToSet(headers)
    THEN wanted
    ELSE FirstIn(headers, {h \in Spelling : SameHeader(h, wanted)})

-----------------------------------------------------------------------------
(* The schema of a tab.  The label and the key of a role column are its    *)
(* header without its spacing and case: Fold stands for both.              *)

DateKeys == {"due", "go_live", "signoff", "start", "completion"}

EmptySchema ==
    [id |-> None, status |-> None, module |-> None, type |-> None,
     description |-> None, assignee |-> None,
     dates |-> [k \in DateKeys |-> None],
     people |-> <<>>, effort |-> <<>>, critical |-> <<>>, column_map |-> <<>>]

\* A stored configuration names its tabs, or is itself the schema of one.
GetTabSchema(config, tab) ==
    IF config.multi
    THEN IF tab \in DOMAIN config.tabs THEN config.tabs[tab] ELSE EmptySchema
    ELSE config.flat

\* The elements of s that are in S, in their order.
Only(s, S) == FoldLeft(LAMBDA kept, e : IF e \in S THEN Append(kept, e) ELSE kept, <<>>, s)

Stated(columns) == Only(columns, Spelling)

GetPeopleColumns(schema) ==
    IF Stated(schema.people) # <<>> THEN Stated(schema.people)
    ELSE Stated(<<schema.assignee>>)

GetEffortColumns(schema) == Stated(schema.effort)

BindColumns(columns, headers) ==
    Stated([i \in DOMAIN columns |-> ResolveHeader(headers, columns[i])])

DefaultCriticalHeaders(schema, headers) ==
    {ResolveHeader(headers, h) :
        h \in {schema.id, schema.module, schema.type, schema.description, schema.status}
              \cup ToSet(GetPeopleColumns(schema))} \ {None}

DueWords == {"due", "deadline", "target", "expected", "planned", "go-live", "eta"}

ResolveDueColumn(schema, headers) ==
    CASE schema.dates["due"] # None -> [header |-> schema.dates["due"], stated |-> TRUE]
      [] schema.dates["due"] = None /\ schema.dates["go_live"] # None ->
            [header |-> schema.dates["go_live"], stated |-> TRUE]
      [] OTHER -> [header |-> FirstIn(headers, Reads(DueWords)), stated |-> FALSE]

GetDueColumn(schema, headers) == ResolveDueColumn(schema, headers).header

StartWords == {"start", "begin", "kickoff", "created", "opened", "raised"}

\* A header with the word "by" names who did something, never when.
ReadsAsAStart == {h \in Reads(StartWords) : "by" \notin Words[h]}

GetStartColumn(schema, headers, exclude) ==
    IF schema.dates["start"] # None
    THEN IF SameHeader(schema.dates["start"], exclude) THEN None ELSE schema.dates["start"]
    ELSE FirstIn(headers, {h \in ReadsAsAStart : ~SameHeader(h, exclude)})

-----------------------------------------------------------------------------
(* Detection *)

Distinct(s) ==
    FoldLeft(LAMBDA seen, h : IF h \in ToSet(seen) THEN seen ELSE Append(seen, h), <<>>, s)

\* The repair a detected or submitted schema gets before it is stored.
Normalise(schema) ==
    LET listed == Distinct(Stated(schema.people))
        people == IF listed = <<>> THEN Stated(<<schema.assignee>>) ELSE listed
    IN  [schema EXCEPT !.people   = people,
                       !.effort   = Distinct(Stated(schema.effort)),
                       !.assignee = IF people = <<>> THEN None ELSE Head(people)]

NormaliseConfig(config) ==
    IF config.multi
    THEN [config EXCEPT !.tabs = [t \in DOMAIN config.tabs |-> Normalise(config.tabs[t])]]
    ELSE [config EXCEPT !.flat = Normalise(config.flat)]

\* Verbatim spelling of a stripped header: the last column that strips to it.
Verbatim(raw, h) ==
    raw[CHOOSE i \in DOMAIN raw :
            /\ raw[i] # None /\ Strip[raw[i]] = h
            /\ \A j \in DOMAIN raw : (raw[j] # None /\ Strip[raw[j]] = h) => j <= i]

PeopleWords == {"assigned", "owner", "resource", "developer", "consultant", "lead"}
EffortWords == {"effort", "duration", "estimate", "days"}
FallbackDueWords == {"due", "deadline", "expected", "planned", "target", "eta"}
FallbackStartWords == {"start", "created", "opened", "assigned"}
CompletionWords == {"completion", "completed", "closed", "finished"}

\* The schema guessed from the header row raw when the model's answer cannot be used;
\* nameLike are the columns whose values have the shape of people's names.
StructuralFallback(raw, nameLike) ==
    LET headers == Stated([i \in DOMAIN raw |-> IF raw[i] = None THEN None ELSE Strip[raw[i]]])
        First(vocabulary) == FirstIn(headers, Reads(vocabulary))
        All(S) == Only(headers, S)
        AsSpelled(s) == [i \in DOMAIN s |-> Verbatim(raw, s[i])]
        people == AsSpelled(Distinct(All(Reads(PeopleWords)) \o All(nameLike)))
        due == First(FallbackDueWords)
        completion == First(CompletionWords)
        id == IF headers = <<>> THEN None ELSE Head(headers)
        assignee == IF people = <<>> THEN None ELSE Head(people)
        status == First({"status", "state", "progress", "stage"})
        module == First({"module", "workstream", "area", "team"})
        type == First({"type", "category", "kind", "class"})
        description == First({"description", "summary", "title", "subject"})
    IN  [id |-> id, status |-> status, module |-> module, type |-> type,
         description |-> description, assignee |-> assignee,
         dates |-> [k \in DateKeys |->
             CASE k = "due"        -> due
               [] k = "go_live"    -> First({"go-live"})
               [] k = "signoff"    -> First({"sign-off", "approved"})
               [] k = "start"      -> First(FallbackStartWords)
               [] k = "completion" -> IF completion = due THEN None ELSE completion],
         people |-> people,
         effort |-> AsSpelled(All(Reads(EffortWords))),
         critical |-> Stated(<<id, module, type, description, status, assignee>>),
         column_map |-> <<>>]

-----------------------------------------------------------------------------
(* Column maps *)

Entry(h, terms) == [canonical |-> h, terms |-> terms]

\* The map kept for a header row, of what the model gives for it (None when it fails):
\* its headers are real ones, and every real header is in it.
BuildColumnMap(headers, given) ==
    LET real == Distinct(Stated(headers))
        kept == IF given = None THEN <<>>
                ELSE Only(given, {e \in ToSet(given) : e.canonical \in ToSet(real)})
        missing == Only(real, {h \in ToSet(real) : \A e \in ToSet(kept) : e.canonical # h})
        Itself(h) == IF given = None THEN {Fold[h]} ELSE {}
    IN  IF real = <<>> THEN ColumnAliases
        ELSE kept \o [m \in DOMAIN missing |-> Entry(missing[m], Itself(missing[m]))]

\* The header a map has for a term: the first it names or gives the term to, else the
\* closest.  Without a map the customer's is used, whatever the tab's headers are.
ResolveColumn(term, map) ==
    LET active == IF map = <<>> THEN ColumnAliases ELSE map
        Key(e) == Fold[active[e].canonical]
        close == FirstIn(Alike[Fold[term]], {Key(e) : e \in DOMAIN active})
        hits == {e \in DOMAIN active : Fold[term] = Key(e) \/ Fold[term] \in active[e].terms}
        near == {e \in DOMAIN active : Key(e) = close}
        First(E) == IF E = {} THEN None
                    ELSE active[CHOOSE e \in E : \A f \in E : e <= f].canonical
    IN  IF hits # {} THEN First(hits) ELSE First(near)
=============================================================================
