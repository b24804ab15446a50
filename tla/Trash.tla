-------------------------------- MODULE Trash --------------------------------
(***************************************************************************)
(* One trash folder (files/trash.cpp): the processes of a session that     *)
(* trash, restore, remove and empty, each under the lock of the folder,    *)
(* and that can be killed, cancelled or cut off from power between any two *)
(* system calls.  Moves are what module LocalFileSystem shows them to be:  *)
(* one rename, or a copy published whole and then a removal.               *)
(***************************************************************************)
EXTENDS Naturals, Functions

CONSTANTS
  Procs,
  Paths,              \* places outside the trash, whose file names are all Base
  Items,
  Base, Uuids,        \* names in the trash: the file name, or that and an identifier
  None

Names == {Base} \cup Uuids

ASSUME TrashAssumption == Base \notin Uuids /\ None \notin Items \cup Procs \cup Paths \cup Names

VARIABLES
  home,         \* what lies at each of Paths
  files, info,  \* the folders files and info, by name
  sizes,        \* the lines of directorysizes, which other implementations write
  lock,         \* who holds .lock
  proc,         \* each process's call
  \* What the properties look back on.
  origin,       \* where the item of each name came in from
  discarded,    \* what was removed, emptied or replaced, as asked for
  untidy        \* a call was killed or failed where it cannot clean up

folder == <<home, files, info, sizes>>
past == <<origin, discarded, untidy>>
vars == <<home, files, info, sizes, lock, proc, origin, discarded, untidy>>

Policies == {"Fail", "Skip", "KeepBoth", "Replace", "Ask"}
Idle == [pc |-> "idle", path |-> None, name |-> None, policy |-> "Fail", canceled |-> FALSE]

\* An info file: the path it names, None until it is written, and whether that is on the disk.
NoInfo == [there |-> FALSE, path |-> None, synced |-> FALSE]
Info(path, synced) == [there |-> TRUE, path |-> path, synced |-> synced]

Init ==
  /\ home \in {h \in [Paths -> Items \cup {None}] :
                 /\ \A i \in Items : \E p \in Paths : h[p] = i
                 /\ \A p, q \in Paths : h[p] = h[q] /\ h[p] # None => p = q}
  /\ files = [n \in Names |-> None] /\ info = [n \in Names |-> NoInfo]
  /\ sizes = [n \in Names |-> None]
  /\ lock = None /\ proc = [q \in Procs |-> Idle]
  /\ origin = [n \in Names |-> None] /\ discarded = {} /\ untidy = FALSE

-----------------------------------------------------------------------------
(* Calls begin and end, and take turns.                                    *)

Goto(q, pc) == proc' = [proc EXCEPT ![q].pc = pc] /\ UNCHANGED lock

\* The call returns or throws; its lock goes with it.
End(q) == proc' = [proc EXCEPT ![q] = Idle] /\ lock' = None

Call(q) ==
  /\ proc[q].pc = "idle"
  /\ proc' = [proc EXCEPT ![q].pc = "lock"]
  /\ UNCHANGED <<folder, lock, past>>

\* A call cancelled while it waits; once it has the lock, Fails stands for its checkpoints.
Cancel(q) ==
  /\ proc[q].pc = "lock" /\ ~proc[q].canceled
  /\ proc' = [proc EXCEPT ![q].canceled = TRUE]
  /\ UNCHANGED <<folder, lock, past>>

Begin(pc, path, name, policy) ==
  [pc |-> pc, path |-> path, name |-> name, policy |-> policy, canceled |-> FALSE]
\* What each call does first with the lock in hand; what it was asked for matters no sooner.
Firsts ==
  {Begin("pick", p, None, "Fail") : p \in Paths} \cup
  {Begin("read", None, n, policy) : n \in Names, policy \in Policies} \cup
  {Begin("erase", None, n, "Fail") : n \in Names} \cup
  {Begin("emptyFiles", None, None, "Fail")}

\* Mutant: the lock is not waited for.
LockedOrNot == TRUE
LockFree == lock = None
TakeLock(q) ==
  /\ proc[q].pc = "lock" /\ LockFree
  /\ IF proc[q].canceled
     THEN End(q)
     ELSE (\E first \in Firsts : proc' = [proc EXCEPT ![q] = first]) /\ lock' = q
  /\ UNCHANGED <<folder, past>>

\* The lock is polled, and between two polls the call may find itself cancelled.
StopWaiting(q) ==
  /\ proc[q].pc = "lock" /\ ~LockFree /\ proc[q].canceled
  /\ proc' = [proc EXCEPT ![q] = Idle]
  /\ UNCHANGED <<folder, lock, past>>

-----------------------------------------------------------------------------
(* trash()                                                                 *)

\* Mutant: an info file already there is taken over.
FreshFile(n) == files[n] = None
\* Neither an item nor, by O_EXCL, an info file has the name.
Fresh(n) == files[n] = None /\ ~info[n].there

PickName(q) ==
  /\ proc[q].pc = "pick"
  /\ \E n \in Names :
       /\ Fresh(n) /\ (n # Base => ~Fresh(Base))
       /\ info' = [info EXCEPT ![n] = IF @.there THEN @ ELSE Info(None, FALSE)]
       /\ proc' = [proc EXCEPT ![q].name = n, ![q].pc = "write"]
  /\ UNCHANGED <<home, files, sizes, lock, past>>

\* Uuids bounds the names, where the code finds another.
NoNameLeft(q) ==
  /\ proc[q].pc = "pick" /\ \A n \in Names : ~Fresh(n)
  /\ End(q)
  /\ UNCHANGED <<folder, past>>

WriteInfo(q) ==
  /\ proc[q].pc = "write"
  /\ info' = [info EXCEPT ![proc[q].name] = Info(IF @.path = None THEN proc[q].path ELSE @.path, FALSE)]
  /\ Goto(q, "sync")
  /\ UNCHANGED <<home, files, sizes, past>>

\* Mutant: fsync is left out.
SyncNothing(file) == file
Synced(file) == [file EXCEPT !.synced = TRUE]
SyncInfo(q) ==
  /\ proc[q].pc = "sync"
  /\ info' = [info EXCEPT ![proc[q].name] = Synced(@)]
  /\ Goto(q, "moveIn")
  /\ UNCHANGED <<home, files, sizes, past>>

\* The item comes in by one rename, or as a copy whose original is then removed.
MoveIn(q) ==
  LET p == proc[q].path  n == proc[q].name IN
  /\ proc[q].pc = "moveIn"
  /\ home[p] # None /\ files[n] = None
  /\ files' = [files EXCEPT ![n] = home[p]]
  /\ origin' = [origin EXCEPT ![n] = p]
  /\ \/ home' = [home EXCEPT ![p] = None] /\ End(q)
     \/ UNCHANGED home /\ Goto(q, "removeSource")
  /\ UNCHANGED <<info, sizes, discarded, untidy>>

RemoveSource(q) ==
  /\ proc[q].pc = "removeSource"
  /\ home' = [home EXCEPT ![proc[q].path] = None]
  /\ End(q)
  /\ UNCHANGED <<files, info, sizes, past>>

\* Writing, flushing or moving fails or is cancelled, or the source is gone.
TrashFails(q) ==
  /\ proc[q].pc \in {"write", "sync", "moveIn", "removeSource"}
  /\ Goto(q, "catch")
  /\ UNCHANGED <<folder, past>>

\* Mutant: the info file is left behind.
LeaveInfo(q) == FALSE
\* The item did not come in.
NotMoved(q) == files[proc[q].name] = None
Catch(q) ==
  /\ proc[q].pc = "catch"
  /\ info' = [info EXCEPT ![proc[q].name] = IF NotMoved(q) THEN NoInfo ELSE @]
  /\ End(q)
  /\ UNCHANGED <<home, files, sizes, past>>

-----------------------------------------------------------------------------
(* restore()                                                               *)

ReadInfo(q) ==
  LET file == info[proc[q].name] IN
  /\ proc[q].pc = "read"
  /\ IF file.path = None THEN End(q)
     ELSE proc' = [proc EXCEPT ![q].path = file.path, ![q].pc = "moveOut"] /\ UNCHANGED lock
  /\ UNCHANGED <<folder, past>>

\* The item goes to a place, whose item, if any, is discarded.
Out(q, p) ==
  LET item == files[proc[q].name] IN
  /\ home' = [home EXCEPT ![p] = item]
  /\ discarded' = IF proc[q].policy = "Replace" THEN discarded \cup ({home[p]} \ {None}) ELSE discarded
  /\ \/ files' = [files EXCEPT ![proc[q].name] = None] /\ Goto(q, "unlink")
     \/ UNCHANGED files /\ Goto(q, "removeTrashed")
  /\ UNCHANGED <<info, sizes, origin, untidy>>

\* Mutant: the item goes where it came from whatever lies there now.
AnyPlace(p) == TRUE
Vacant(p) == home[p] = None
MoveOut(q) ==
  LET n == proc[q].name  p == proc[q].path  policy == proc[q].policy IN
  /\ proc[q].pc = "moveOut"
  /\ files[n] # None
  /\ IF Vacant(p) \/ policy = "Replace" THEN Out(q, p)
     ELSE /\ \/ policy \in {"Skip", "Fail"} /\ End(q) /\ UNCHANGED <<folder, past>>
             \/ policy = "Ask" /\ Goto(q, "ask") /\ UNCHANGED <<folder, past>>
             \/ policy = "KeepBoth" /\ \E r \in Paths : Vacant(r) /\ Out(q, r)

\* The user answers while the lock is held.
Answer(q) ==
  /\ proc[q].pc = "ask"
  /\ \E policy \in Policies \ {"Ask"} : proc' = [proc EXCEPT ![q].policy = policy, ![q].pc = "moveOut"]
  /\ UNCHANGED <<folder, lock, past>>

RemoveTrashed(q) ==
  /\ proc[q].pc = "removeTrashed"
  /\ files' = [files EXCEPT ![proc[q].name] = None]
  /\ Goto(q, "unlink")
  /\ UNCHANGED <<home, info, sizes, past>>

\* Also remove() ends so: the info file goes after its item, then the cached size.
Unlink(q) ==
  /\ proc[q].pc = "unlink"
  /\ info' = [info EXCEPT ![proc[q].name] = NoInfo]
  /\ Goto(q, "forget")
  /\ UNCHANGED <<home, files, sizes, past>>

\* Mutant: the cached size stays.
Keep(n) == sizes
Forgotten(n) == [sizes EXCEPT ![n] = None]
Forget(q) ==
  /\ proc[q].pc = "forget"
  /\ sizes' = Forgotten(proc[q].name)
  /\ End(q)
  /\ UNCHANGED <<home, files, info, past>>

-----------------------------------------------------------------------------
(* remove() and empty()                                                    *)

Erase(q, n, pc) ==
  /\ files' = [files EXCEPT ![n] = None]
  /\ discarded' = discarded \cup ({files[n]} \ {None})
  /\ proc' = [proc EXCEPT ![q].name = n, ![q].pc = pc]
  /\ UNCHANGED <<home, info, sizes, lock, origin, untidy>>

RemoveItem(q) == proc[q].pc = "erase" /\ Erase(q, proc[q].name, "unlink")

EmptyItem(q) ==
  /\ proc[q].pc = "emptyFiles"
  /\ \E n \in Names : files[n] # None /\ Erase(q, n, "emptyInfo")

EmptyInfo(q) ==
  /\ proc[q].pc = "emptyInfo"
  /\ info' = [info EXCEPT ![proc[q].name] = NoInfo]
  /\ Goto(q, "emptyFiles")
  /\ UNCHANGED <<home, files, sizes, past>>

FilesEmptied(q) ==
  /\ proc[q].pc = "emptyFiles" /\ \A n \in Names : files[n] = None
  /\ Goto(q, "emptyInfos")
  /\ UNCHANGED <<folder, past>>

EmptyOrphan(q) ==
  /\ proc[q].pc = "emptyInfos"
  /\ \E n \in Names : info[n].there /\ info' = [info EXCEPT ![n] = NoInfo]
  /\ UNCHANGED <<home, files, sizes, lock, proc, past>>

DropSizes(q) ==
  /\ proc[q].pc = "emptyInfos" /\ \A n \in Names : ~info[n].there
  /\ sizes' = [n \in Names |-> None]
  /\ End(q)
  /\ UNCHANGED <<home, files, info, past>>

-----------------------------------------------------------------------------
(* What goes wrong, and what others do.                                    *)

\* A system call fails, or a checkpoint finds the call cancelled.
Fails(q) ==
  /\ proc[q].pc \in {"pick", "read", "moveOut", "removeTrashed", "unlink", "forget", "erase",
                     "emptyFiles", "emptyInfo", "emptyInfos"}
  /\ End(q)
  /\ untidy' = (untidy \/ proc[q].pc \notin {"pick", "read", "moveOut"})
  /\ UNCHANGED <<folder, origin, discarded>>

Killed(q) ==
  /\ proc[q].pc # "idle"
  /\ proc' = [proc EXCEPT ![q] = Idle]
  /\ lock' = IF lock = q THEN None ELSE lock
  /\ untidy' = (untidy \/ lock = q)
  /\ UNCHANGED <<folder, origin, discarded>>

\* An info file not flushed comes back empty.
PowerCut ==
  /\ proc' = [q \in Procs |-> Idle] /\ lock' = None
  /\ info' = [n \in Names |-> IF info[n].there /\ ~info[n].synced THEN Info(None, TRUE) ELSE info[n]]
  /\ untidy' = (untidy \/ lock # None)
  /\ UNCHANGED <<home, files, sizes, origin, discarded>>

\* Another program moves an item outside the trash, but to no place that a copy is being removed from.
OtherMoves ==
  /\ \E p, r \in Paths : /\ home[p] # None /\ home[r] = None
                         /\ \A q \in Procs : proc[q].pc = "removeSource" => proc[q].path # r
                         /\ home' = [home EXCEPT ![r] = home[p], ![p] = None]
  /\ UNCHANGED <<files, info, sizes, lock, proc, past>>

\* Another implementation of the trash caches the size of a trashed folder.
OtherCaches ==
  /\ \E n \in Names : files[n] # None /\ sizes' = [sizes EXCEPT ![n] = files[n]]
  /\ UNCHANGED <<home, files, info, lock, proc, past>>

Trashing(q) == PickName(q) \/ NoNameLeft(q) \/ WriteInfo(q) \/ SyncInfo(q) \/ MoveIn(q) \/ RemoveSource(q)
                 \/ TrashFails(q) \/ Catch(q)
Restoring(q) == ReadInfo(q) \/ MoveOut(q) \/ Answer(q) \/ RemoveTrashed(q) \/ Unlink(q) \/ Forget(q)
Emptying(q) == RemoveItem(q) \/ EmptyItem(q) \/ EmptyInfo(q) \/ FilesEmptied(q) \/ EmptyOrphan(q) \/ DropSizes(q)
Step(q) == TakeLock(q) \/ StopWaiting(q) \/ Trashing(q) \/ Restoring(q) \/ Emptying(q) \/ Fails(q)

Next ==
  \/ \E q \in Procs : Call(q) \/ Cancel(q) \/ Step(q) \/ Killed(q)
  \/ PowerCut \/ OtherMoves \/ OtherCaches

Spec == Init /\ [][Next]_vars

-----------------------------------------------------------------------------
(* Properties.                                                             *)

\* Every variable holds a value of its kind, and a call past its waiting holds the lock.
TypeOK ==
  /\ home \in [Paths -> Items \cup {None}]
  /\ files \in [Names -> Items \cup {None}] /\ sizes \in [Names -> Items \cup {None}]
  /\ info \in [Names -> [there : BOOLEAN, path : Paths \cup {None}, synced : BOOLEAN]]
  /\ \A q \in Procs : lock = q <=> proc[q].pc \notin {"idle", "lock"}

\* An item in the trash has at every moment, and after a power cut, an info file that names the
\* place it came from, whatever was trashed, restored or left behind under its name before.
InfoNamesOrigin ==
  \A n \in Names : files[n] # None =>
    info[n].there /\ info[n].synced /\ info[n].path = origin[n]

\* An item is outside, in the trash or was discarded because someone asked for it.
NothingLost == \A i \in Items : i \in Range(home) \cup Range(files) \cup discarded

\* Unless a call was killed or failed halfway, a trash nobody works on has no info file without
\* an item, and no cached size of anything but the item of that name.
TidyAtRest ==
  lock = None /\ ~untidy =>
    \A n \in Names : /\ info[n].there => files[n] # None
                     /\ sizes[n] \in {None, files[n]}
=============================================================================
