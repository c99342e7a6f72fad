----------------------------- MODULE MCGridEdits ----------------------------
(* Instances of GridEdits for TLC: two edits, of one cell or of two. *)
EXTENDS GridEdits

CONSTANTS c1, c2

OneOrTwoCells == {<<c1, c1>>, <<c1, c2>>}
=============================================================================
