-------------------------- MODULE MCLocalFileSystem --------------------------
(* Items of two parts, a destination with two names to keep beside it.     *)
EXTENDS LocalFileSystem, TLC

Symmetry == Permutations(Parts)
=============================================================================
