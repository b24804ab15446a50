-------------------------- MODULE MCDirectoryLister --------------------------
(* A folder in Top, and the trash.                                         *)
EXTENDS DirectoryLister

CONSTANTS D, trash
ChangesDef == [f \in Folders \cup {Top} |-> IF f = trash THEN 1 ELSE 2]
=============================================================================
