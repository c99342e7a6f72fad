---------------------------- MODULE TrackerPeople ----------------------------
(***************************************************************************)
(* What a cell says, and who it names: core/people.py, core/aliases.py and *)
(* core/overdue.py.                                                        *)
(*                                                                         *)
(* A cell is the text it holds, already read: the day it parses to (NoDay  *)
(* when it is no date), its parts between the delimiters / and &, each a   *)
(* sequence of words, and a number for the way it is spelled.  Words are   *)
(* numbers in alphabetical order; the parts are what is left of a name     *)
(* when spacing and case are folded away.                                  *)
(***************************************************************************)
EXTENDS TrackerSchema

CONSTANTS
    Finished,       \* the words that contain one of FINISHED_WORDS
    Misspelled,     \* pairs of words of three letters or more within two edits
    NoDay

Cell == [day : Int \cup {NoDay}, parts : Seq(Seq(Nat)), as : Nat]
Blank == [day |-> NoDay, parts |-> <<>>, as |-> 0]
Dated(d) == [day |-> d, parts |-> << <<0>> >>, as |-> 0]

ParseDate(cell) == cell.day
NormalisePerson(cell) == cell.parts

IsFinishedStatus(cell) == \E i \in DOMAIN cell.parts : ToSet(cell.parts[i]) \cap Finished # {}

SplitCell(cell) == [i \in DOMAIN cell.parts |-> [cell EXCEPT !.parts = <<cell.parts[i]>>]]

-----------------------------------------------------------------------------
(* The alias table: rows of a key and the name it stands for, oldest first. *)

Canonicals(aliases, key) ==
    FoldLeft(LAMBDA found, a : IF a.alias = key THEN Append(found, a.canonical) ELSE found,
             <<>>, aliases)

\* One hop: the name an alias yields is not itself looked up.
Lookup(aliases, name) ==
    IF Canonicals(aliases, NormalisePerson(name)) = <<>> THEN <<name>>
    ELSE Canonicals(aliases, NormalisePerson(name))

DistinctPeople(names) ==
    FoldLeft(LAMBDA seen, n : IF \E i \in DOMAIN seen : NormalisePerson(seen[i]) = NormalisePerson(n)
                              THEN seen ELSE Append(seen, n), <<>>, names)

\* Every person a cell names; an alias of the whole cell beats splitting it.
ResolveCell(aliases, cell) ==
    LET whole == Canonicals(aliases, NormalisePerson(cell))
        parts == SplitCell(cell)
    IN  CASE cell = Blank -> <<>>
          [] cell # Blank /\ whole # <<>> -> DistinctPeople(whole)
          [] OTHER -> DistinctPeople(FlattenSeq([i \in DOMAIN parts |-> Lookup(aliases, parts[i])]))

\* The people a row names, each with the role column naming them.
CollectAssignments(row, people, aliases) ==
    FlattenSeq([c \in DOMAIN people |->
        LET names == ResolveCell(aliases, row[people[c]])
        IN  [i \in DOMAIN names |-> [role |-> Fold[people[c]], person |-> names[i]]]])

-----------------------------------------------------------------------------
(* Spellings that may be one person *)

\* Where the rows name somebody, as a set of places, before any alias.
Mentions(rows, people) ==
    UNION {{<<i, c, k>> : k \in DOMAIN rows[i][people[c]].parts} :
               i \in DOMAIN rows, c \in DOMAIN people}

\* How often each person is named, under the spelling that occurs most.
CountObservedNames(rows, people) ==
    LET mentions == Mentions(rows, people)
        NameAt(m) == SplitCell(rows[m[1]][people[m[2]]])[m[3]]
        names == {NameAt(m) : m \in mentions}
        Uses(n) == Cardinality({m \in mentions : NameAt(m) = n})
        Dominant(n) == \A o \in names : NormalisePerson(o) = NormalisePerson(n) =>
                           \/ Uses(o) < Uses(n)
                           \/ Uses(o) = Uses(n) /\ o.as <= n.as
    IN  [n \in {o \in names : Dominant(o)} |->
            Cardinality({m \in mentions : NormalisePerson(NameAt(m)) = NormalisePerson(n)})]

Tokens(name) == name.parts[1]

\* The places where two names of one length differ.
Differ(a, b) == {i \in DOMAIN Tokens(a) : Tokens(a)[i] # Tokens(b)[i]}

IsTypoOf(a, b) ==
    /\ Len(Tokens(a)) = Len(Tokens(b))
    /\ \E i \in Differ(a, b) :
        /\ Differ(a, b) = {i}
        /\ <<Tokens(a)[i], Tokens(b)[i]>> \in Misspelled

\* Of two spellings of one frequency, the alphabetically earlier is merged away.
Prefers(counts, other, name) ==
    \/ counts[other] > counts[name]
    \/ /\ counts[other] = counts[name]
       /\ \A i \in Differ(name, other) : Tokens(name)[i] < Tokens(other)[i]

\* The names each observed name may be merged into.
SuggestMerges(counts) ==
    [name \in DOMAIN counts |->
        {other \in DOMAIN counts \ {name} :
            LET mine == ToSet(Tokens(name))
                its == ToSet(Tokens(other))
            IN  \/ mine \subseteq its /\ mine # its
                \/ IsStrictPrefix(Tokens(name), Tokens(other))
                \/ its \subseteq mine /\ mine # its /\ counts[other] > counts[name]
                \/ IsTypoOf(name, other) /\ Prefers(counts, other, name)}]
=============================================================================
