---------------------------- MODULE MCRowsCache -----------------------------
(* Instances of RowsCache for TLC. *)
EXTENDS RowsCache, TLC

Symmetry == Permutations(Readers)
=============================================================================
