------------------------------- MODULE MCTask -------------------------------
(* Task on a request of a few sources. *)
EXTENDS Task
=============================================================================
