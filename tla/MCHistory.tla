------------------------------ MODULE MCHistory ------------------------------
(* Two items, two folders, up to two tasks at once; none is distinguished. *)
EXTENDS History

Symmetry == Permutations(Items) \cup Permutations(Folders) \cup Permutations(Slots)
=============================================================================
