----------------------------- MODULE Thumbnailers -----------------------------
(***************************************************************************)
(* Thumbnailers (files/thumbnails/thumbnailers.cpp): the programs that make *)
(* thumbnails of one type, found in the user's folder and the system's,    *)
(* which are read again when they changed, and one of them run as a child  *)
(* that may hang.                                                          *)
(***************************************************************************)
EXTENDS Naturals, FiniteSetsExt

CONSTANT MaxEvents   \* bounds what is installed, removed and asked for

\* The user's folder, which comes first, and the system's; each can have a file, of the same name.
Folders == {1, 2}
NoFolder == 0

VARIABLES
  there,      \* the folders that have the file, those whose program is there, and the folders' times
  table,      \* m_commands: the folder its file is from, m_directories: their times, and whether m_checked is recent
  scan,       \* a refresh under way: the times read, and what it found in each folder so far
  missed,     \* what came or went since the last refresh that no folder's time tells
  child,      \* the child of a call of generate(), and where that call is
  kernel,     \* whether it has pidfd_open()
  events      \* counts towards MaxEvents

vars == <<there, table, scan, missed, child, kernel, events>>

NoScan == [on |-> FALSE, times |-> [d \in Folders |-> 0], next |-> NoFolder, found |-> NoFolder, seen |-> FALSE]
Event == events < MaxEvents /\ events' = events + 1

-----------------------------------------------------------------------------
(* command(), with the mutex held.                                         *)

\* refreshLocked(): the folders' times first.
Refresh ==
  /\ ~scan.on /\ ~table.recent
  /\ table' = [table EXCEPT !.recent = TRUE]
  /\ scan' = IF there.times = table.times THEN NoScan ELSE [NoScan EXCEPT !.on = TRUE, !.times = there.times, !.next = 1]
  /\ UNCHANGED <<there, missed, child, kernel, events>>

\* Then their files: one hides the same file of a later folder, also if its program is not there.
ReadFolder ==
  LET d == scan.next
      found == IF d \in there.files /\ d \in there.programs /\ ~scan.seen THEN d ELSE scan.found IN
  /\ scan.on
  /\ IF d < 2
     THEN scan' = [scan EXCEPT !.next = d + 1, !.found = found, !.seen = @ \/ d \in there.files] /\ UNCHANGED table
     ELSE scan' = NoScan /\ table' = [table EXCEPT !.from = found, !.times = scan.times]
  /\ missed' = missed \ {d}
  /\ UNCHANGED <<there, child, kernel, events>>

Elapses == table.recent /\ ~scan.on /\ table' = [table EXCEPT !.recent = FALSE] /\ UNCHANGED <<there, scan, missed, child, kernel, events>>

-----------------------------------------------------------------------------
(* generate(): the child, and the thread that waits for it.                *)

Step(step) == child' = [child EXCEPT !.step = step]
Rest == UNCHANGED <<there, table, scan, missed, kernel, events>>

\* The program can have gone since.
Spawn ==
  /\ Event /\ child.step = "none" /\ ~scan.on /\ table.from # NoFolder
  /\ child' = IF table.from \in there.programs THEN [child EXCEPT !.step = "waiting", !.process = "runs"]
              ELSE [child EXCEPT !.step = "answered"]
  /\ UNCHANGED <<there, table, scan, missed, kernel>>

Exits == child.process = "runs" /\ (\E image \in BOOLEAN : child' = [child EXCEPT !.process = "zombie", !.image = image]) /\ Rest

\* waitFor(): it exited, or is stopped after ten seconds, with all it started.
Reaped ==
  /\ child.step = "waiting" /\ child.process = "zombie"
  /\ child' = [child EXCEPT !.step = "answered", !.process = "reaped", !.told = child.image] /\ Rest
TimesOut ==
  /\ child.step = "waiting" /\ child.process \in {"runs", "zombie"}
  /\ child' = [child EXCEPT !.step = "stopping", !.process = IF @ = "runs" THEN "killed" ELSE @] /\ Rest
Dies == child.process = "killed" /\ child' = [child EXCEPT !.process = "zombie"] /\ Rest

\* waitFor() with no timeout: without a pidfd it looks once.
StopWaited ==
  /\ child.step = "stopping"
  /\ \/ child.process = "zombie" /\ child' = [child EXCEPT !.step = "answered", !.process = "reaped"]
     \/ child.process = "killed" /\ ~kernel.pidfd /\ Step("answered")
  /\ Rest

-----------------------------------------------------------------------------
(* What is installed and removed.  A folder's time can stay when it changes *)
(* twice within one tick.                                                  *)

FileChanges ==
  /\ Event
  /\ \E d \in Folders, told \in BOOLEAN :
       /\ there' = [there EXCEPT !.files = SymDiff(@, {d}), !.times[d] = IF told THEN @ + 1 ELSE @]
       /\ missed' = IF told THEN missed ELSE missed \cup {d}
  /\ UNCHANGED <<table, scan, child, kernel>>

ProgramChanges ==
  /\ Event
  /\ \E d \in Folders : there' = [there EXCEPT !.programs = SymDiff(@, {d})] /\ missed' = missed \cup {d}
  /\ UNCHANGED <<table, scan, child, kernel>>

Init ==
  /\ \E files, programs \in SUBSET Folders :
       there = [files |-> files, programs |-> programs, times |-> [d \in Folders |-> 1]]
  /\ table = [from |-> NoFolder, times |-> [d \in Folders |-> 0], recent |-> FALSE]
  /\ scan = NoScan /\ missed = {} /\ events = 0
  /\ \E pidfd \in BOOLEAN : kernel = [pidfd |-> pidfd]
  /\ child = [step |-> "none", process |-> "none", image |-> FALSE, told |-> FALSE]

Next ==
  \/ Refresh \/ ReadFolder \/ Elapses
  \/ Spawn \/ Exits \/ Reaped \/ TimesOut \/ Dies \/ StopWaited
  \/ FileChanges \/ ProgramChanges

Spec == Init /\ [][Next]_vars

-----------------------------------------------------------------------------
(* Properties.                                                             *)

\* Every variable holds a value of its kind.
TypeOK ==
  /\ there.files \subseteq Folders /\ there.programs \subseteq Folders /\ missed \subseteq Folders
  /\ table.from \in Folders \cup {NoFolder} /\ events \in 0..MaxEvents
  /\ child.step \in {"none", "waiting", "stopping", "answered"}
  /\ child.process \in {"none", "runs", "killed", "zombie", "reaped"}

\* The thumbnailer of the type is the one installed, or the next refresh finds that out: what changes while the
\* folders are read is not taken for read.
FollowsFolders ==
  LET first == IF there.files = {} THEN NoFolder ELSE Min(there.files) IN
  ~scan.on /\ missed = {} /\ table.times = there.times =>
    table.from = IF first \in there.programs THEN first ELSE NoFolder

\* A call that was answered leaves no process behind, not even one that died, and only a child that ended by
\* itself made a thumbnail; without a pidfd one that was stopped can stay.
LeavesNoChild ==
  child.step = "answered" =>
    /\ child.process \in {"none", "reaped"} \/ ~kernel.pidfd
    /\ child.process # "runs" /\ (child.told => child.process = "reaped" /\ child.image)
=============================================================================
