---------------------------- MODULE MCSheetWrite ----------------------------
(* Instances of SheetWrite for TLC. *)
EXTENDS SheetWrite

\* Two rows, with an ID each or with one for both.
TwoRows == {<<1, 2>>, <<1, 1>>}
=============================================================================
