---------------------------- MODULE MCWriteQueue ----------------------------
(* Instances of WriteQueue for TLC: every job overwrites the same cell. *)
EXTENDS WriteQueue, TLC

CONSTANT cell

MCCells  == {cell}
MCTarget == [j \in Jobs |-> cell]
Symmetry == Permutations(Jobs)
=============================================================================
