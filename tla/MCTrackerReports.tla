--------------------------- MODULE MCTrackerReports ---------------------------
(* An instance of TrackerReports for TLC: two rows under seven columns. *)
EXTENDS TrackerReports

Headings == {"Ref", "RICEFW ID", "Due Date", "Planned Start", "Status", "Dev Status",
             "Owner ", "Owner", "OWNER", "QA", "Sign-Off",
             "Business Owner", "Last Used Date", "Std Ref", "Sign-Off Date"}
Stripped == [h \in Headings |-> IF h = "Owner " THEN "Owner" ELSE h]
Folded == [h \in Headings |-> IF h \in {"Owner ", "OWNER"} THEN "Owner" ELSE h]
WordsOf ==
    [h \in Headings |->
        CASE h = "Due Date" -> {"due"}
          [] h = "Planned Start" -> {"planned", "start"}
          [] h \in {"Status", "Dev Status"} -> {"status"}
          [] h \in {"Owner", "Owner ", "OWNER", "Business Owner"} -> {"owner"}
          [] h \in {"Sign-Off", "Sign-Off Date"} -> {"sign-off"}
          [] OTHER -> {}]

\* The entries of COLUMN_ALIASES a heading above is, or is close to.
Legacy == << Entry("RICEFW ID", {"RICEFW ID"}), Entry("Business Owner", {"Business Owner", "Owner"}),
             Entry("Last Used Date", {"Last Used Date"}), Entry("Std Ref", {"Std Ref"}),
             Entry("Sign-Off Date", {"Sign-Off Date"}), Entry("Dev Status", {"Status", "Dev Status"}) >>

\* What difflib finds among them for a heading, at its cutoff of 0.6.
Close ==
    [t \in Range(Folded) |->
        CASE t = "Ref" -> <<"Ref", "Std Ref">>
          [] t = "Due Date" -> <<"Due Date", "Last Used Date">>
          [] t = "Status" -> <<"Status", "Dev Status">>
          [] t = "Dev Status" -> <<"Dev Status", "Status">>
          [] t = "Sign-Off" -> <<"Sign-Off", "Sign-Off Date">>
          [] OTHER -> <<t>>]

TwoDates == <<"Ref", "Due Date", "Planned Start", "Status", "Owner ", "QA", "Sign-Off">>
OneDate == <<"RICEFW ID", "Planned Start", None, "Status", "Owner ", "QA", "Sign-Off">>
Renamed == {<<2, "Planned Start">>, <<4, "Dev Status">>, <<6, "OWNER">>}

\* Words: 1 Ann, 2 Anm (a misspelling), 3 Bob, 4 Cat, 5 Lee, 6 Other, 8 open, 9 completed.
Typos == {<<1, 2>>, <<2, 1>>}
Person(w) == [day |-> NoDay, parts |-> <<w>>, as |-> 1]
Shared(v, w) == [day |-> NoDay, parts |-> <<v, w>>, as |-> 1]
AnnLee == Person(<<1, 5>>)
Slash == [day |-> NoDay, parts |-> <<>>, as |-> 1]
Word(w) == Person(<<w>>)
Dates == {Blank, Dated(1), Dated(3), Word(8)}

Cells ==
    << {Blank, Word(10), Word(11)}, Dates, Dates, {Blank, Word(8), Word(9)},
       {Blank, Slash, AnnLee, [AnnLee EXCEPT !.as = 2], Person(<<2, 5>>), Person(<<1>>),
        Shared(<<1>>, <<3>>)},
       {Blank, AnnLee, Word(6)}, {Blank, Dated(1)} >>

Tracked ==
    { << TwoDates,
         << <<Word(10), Dated(1), Dated(3), Word(8), Shared(<<1>>, <<3>>), AnnLee, Blank>>,
            <<Word(11), Dated(3), Blank, Word(9), AnnLee, AnnLee, Dated(1)>> >> >>,
      << OneDate,
         << <<Word(10), Blank, Word(8), Blank, Slash, Shared(<<3>>, <<4>>), Blank>>,
            <<Word(10), Dated(1), Dated(1), Word(8), Person(<<2, 5>>), Word(6), Blank>> >> >> }

\* The model gives one header the term another one is, and one that is not there.
Claiming == << Entry("Owner", {"Owner", "QA"}), Entry("Std Ref", {"Ref"}) >>

Mapped ==
    [EmptySchema EXCEPT !.id = "Ref", !.status = "Status",
        !.dates["due"] = "Due Date", !.dates["start"] = "Planned Start",
        !.dates["signoff"] = "Sign-Off",
        !.people = <<"Owner ", "QA">>, !.critical = <<"Ref", "Owner ">>]
Sparse == [EmptySchema EXCEPT !.id = "RICEFW ID", !.assignee = "Owner ", !.module = "QA"]

\* A schema may name one column twice, spelled as the sheet does and trimmed.
Doubled == [Mapped EXCEPT !.people = <<"Owner ", "Owner">>, !.column_map = Claiming]

SynonymsGiven == {Claiming}
AnswersGiven == {Mapped, Sparse, Doubled}

Merges == {<<Person(<<1>>), AnnLee>>, <<AnnLee, Person(<<1>>)>>,
           <<Shared(<<1>>, <<3>>), Word(4)>>, <<Person(<<1>>), Word(3)>>}
=============================================================================
