---------------------------- MODULE MCHelperPool ----------------------------
(* Two calls on two helper threads.                                        *)
EXTENDS HelperPool
=============================================================================
