------------------------------- MODULE MCTrash -------------------------------
(* Two processes, two files of one name, two names in the trash.           *)
EXTENDS Trash, TLC

Symmetry == Permutations(Procs) \cup Permutations(Paths) \cup Permutations(Items)
=============================================================================
