--------------------------- MODULE MCWatchChannel ---------------------------
(* Instances of WatchChannel for TLC. *)
EXTENDS WatchChannel, TLC

Symmetry == Permutations(Readers) \cup Permutations(Admins) \cup Permutations(Channels)
=============================================================================
