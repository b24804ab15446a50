----------------------------- MODULE TrashProofs -----------------------------
(***************************************************************************)
(* Proofs about Trash for every number of processes, places, items and     *)
(* names.  The lock makes whoever holds it the only one whose step touches *)
(* the folder (Locked); what that one may rely on between two of its       *)
(* system calls (Relies) gives, one on top of the other, that info files   *)
(* name origins, that nothing is lost and that a trash is tidy at rest.    *)
(***************************************************************************)
EXTENDS Trash, TLAPS

Resting == {"idle", "lock"}
Trashes == {"write", "sync", "moveIn", "removeSource", "catch"}
Restores == {"moveOut", "ask", "removeTrashed"}
Places == Resting \cup {"pick"} \cup Trashes \cup {"read"} \cup Restores
            \cup {"unlink", "forget", "erase", "emptyFiles", "emptyInfo", "emptyInfos"}

Calls == [pc : Places, path : Paths \cup {None}, name : Names \cup {None}, policy : Policies, canceled : BOOLEAN]

Types ==
  /\ home \in [Paths -> Items \cup {None}]
  /\ files \in [Names -> Items \cup {None}] /\ sizes \in [Names -> Items \cup {None}]
  /\ info \in [Names -> [there : BOOLEAN, path : Paths \cup {None}, synced : BOOLEAN]]
  /\ origin \in [Names -> Paths \cup {None}]
  /\ proc \in [Procs -> Calls]

\* Whoever is past its waiting holds the lock, and so there is one of them.
Locked ==
  /\ lock \in Procs \cup {None}
  /\ \A q \in Procs : lock = q <=> proc[q].pc \notin Resting

\* What a call knows of its arguments, and of the folder between its system calls.
Relies(q) ==
  LET pc == proc[q].pc  p == proc[q].path  n == proc[q].name IN
  /\ pc \in {"pick"} \cup Trashes \cup Restores => p \in Paths
  /\ pc \notin Resting \cup {"pick", "emptyFiles", "emptyInfos"} => n \in Names
  /\ pc \in {"write", "sync", "moveIn"} => files[n] = None /\ info[n].there
  /\ pc = "write" => info[n].path = None
  /\ pc \in {"sync", "moveIn"} => info[n].path = p
  /\ pc = "moveIn" => info[n].synced
  /\ pc = "removeSource" => files[n] # None /\ home[p] \in {None, files[n]}
  /\ pc = "removeTrashed" => files[n] # None /\ files[n] \in Range(home)
  /\ pc \in {"unlink", "emptyInfo"} => files[n] = None
  /\ pc = "emptyInfos" => \A m \in Names : files[m] = None

Reliable == Types /\ Locked /\ \A q \in Procs : Relies(q)

\* What a step of q leaves to show when no one else is past its waiting.
LEMMA Alone ==
  ASSUME Locked, NEW q \in Procs, proc[q].pc \notin Resting
  PROVE  lock = q /\ \A r \in Procs \ {q} : proc[r].pc \in Resting
BY DEF Locked

\* One call moves on, or ends, while the others rest.
LEMMA LockedMoves ==
  ASSUME Reliable, NEW q \in Procs, proc[q].pc \notin Resting,
         NEW c \in Calls, proc' = [proc EXCEPT ![q] = c],
         \/ c.pc \notin Resting /\ UNCHANGED lock
         \/ c.pc \in Resting /\ lock' = None
  PROVE  /\ Locked' /\ proc' \in [Procs -> Calls] /\ proc'[q] = c
         /\ \A r \in Procs \ {q} : proc'[r].pc \in Resting
<1>1. lock = q /\ \A r \in Procs \ {q} : proc[r].pc \in Resting
  BY Alone DEF Reliable
<1>2. proc' \in [Procs -> Calls] /\ proc'[q] = c /\ \A r \in Procs \ {q} : proc'[r] = proc[r]
  BY DEF Reliable, Types
<1> QED BY <1>1, <1>2, TrashAssumption DEF Locked

\* Whoever rests relies on nothing.
LEMMA OthersRely ==
  ASSUME NEW q \in Procs, Relies(q)', \A r \in Procs \ {q} : proc'[r].pc \in Resting
  PROVE  \A r \in Procs : Relies(r)'
BY DEF Relies, Resting, Trashes, Restores

\* A step of the one call under way, or of one that takes the lock.
LEMMA ReliableMoves ==
  ASSUME Reliable, NEW q \in Procs, proc[q].pc \notin Resting,
         NEW c \in Calls, proc' = [proc EXCEPT ![q] = c],
         \/ c.pc \notin Resting /\ UNCHANGED lock
         \/ c.pc \in Resting /\ lock' = None,
         /\ home' \in [Paths -> Items \cup {None}]
         /\ files' \in [Names -> Items \cup {None}] /\ sizes' \in [Names -> Items \cup {None}]
         /\ info' \in [Names -> [there : BOOLEAN, path : Paths \cup {None}, synced : BOOLEAN]]
         /\ origin' \in [Names -> Paths \cup {None}],
         proc'[q] = c => Relies(q)'
  PROVE  Reliable'
<1>1. /\ Locked' /\ proc' \in [Procs -> Calls] /\ proc'[q] = c
      /\ \A r \in Procs \ {q} : proc'[r].pc \in Resting
  BY LockedMoves
<1> QED BY <1>1, OthersRely DEF Reliable, Types

\* An item is erased, and its info file comes next.
LEMMA EraseReliable ==
  ASSUME Reliable, NEW q \in Procs, proc[q].pc \notin Resting, NEW n \in Names,
         NEW pc \in {"unlink", "emptyInfo"}, Erase(q, n, pc)
  PROVE  Reliable'
<1>1. Types
  BY DEF Reliable
<1>2. PICK d \in Calls : proc' = [proc EXCEPT ![q] = d] /\ d.pc = pc /\ d.name = n
  <2> DEFINE e == [[proc[q] EXCEPT !.name = n] EXCEPT !.pc = pc]
  <2>1. e \in Calls /\ e.pc = pc /\ e.name = n
    BY <1>1 DEF Types, Calls, Places
  <2>2. proc' = [proc EXCEPT ![q] = e]
    BY <1>1 DEF Types, Erase, Calls
  <2> QED BY <2>1, <2>2
<1>3. /\ files' \in [Names -> Items \cup {None}] /\ files'[n] = None
      /\ UNCHANGED <<home, info, sizes, lock, origin>>
  BY <1>1, TrashAssumption DEF Types, Erase
<1>4. d.pc \notin Resting
  BY <1>2 DEF Resting
<1>5. proc'[q] = d => Relies(q)'
  BY <1>2, <1>3 DEF Relies, Resting, Trashes, Restores
<1>6. \/ d.pc \notin Resting /\ UNCHANGED lock
      \/ d.pc \in Resting /\ lock' = None
  BY <1>3, <1>4
<1>7. /\ home' \in [Paths -> Items \cup {None}] /\ sizes' \in [Names -> Items \cup {None}]
      /\ info' \in [Names -> [there : BOOLEAN, path : Paths \cup {None}, synced : BOOLEAN]]
      /\ origin' \in [Names -> Paths \cup {None}]
  BY <1>1, <1>3 DEF Types
<1> QED BY ZenonT(60), <1>2, <1>3, <1>5, <1>6, <1>7, ReliableMoves

LEMMA TrashingReliable == ASSUME Reliable, NEW q \in Procs, Trashing(q) PROVE Reliable'
<1> USE TrashAssumption
<1> DEFINE c == proc[q]
<1>0. proc[q] \in Calls /\ Relies(q) /\ Types
  BY DEF Reliable, Types
<1>1. CASE PickName(q)
  <2>1. PICK n \in Names :
          /\ files[n] = None
          /\ info' = [info EXCEPT ![n] = Info(None, FALSE)]
          /\ proc' = [proc EXCEPT ![q].name = n, ![q].pc = "write"]
    BY <1>0, <1>1 DEF PickName, Fresh, Types
  <2>2. PICK d \in Calls : proc' = [proc EXCEPT ![q] = d] /\ d.pc = "write" /\ d.name = n /\ d.path = c.path
    <3> DEFINE e == [[c EXCEPT !.name = n] EXCEPT !.pc = "write"]
    <3>1. e \in Calls /\ e.pc = "write" /\ e.name = n /\ e.path = c.path
      BY <1>0 DEF Calls, Places, Trashes
    <3>2. proc' = [proc EXCEPT ![q] = e]
      BY <1>0, <2>1 DEF Types, Calls
    <3> QED BY <3>1, <3>2
  <2>3. /\ c.pc = "pick" /\ c.path \in Paths /\ UNCHANGED <<home, files, sizes, lock, origin>>
    BY <1>0, <1>1 DEF PickName, past, Relies, Trashes, Resting
  <2>6. /\ info' \in [Names -> [there : BOOLEAN, path : Paths \cup {None}, synced : BOOLEAN]]
        /\ info'[n].there /\ info'[n].path = None
    BY <1>0, <2>1 DEF Info, Types
  <2>4. proc'[q] = d => Relies(q)'
    BY <2>1, <2>2, <2>3, <2>6 DEF Relies, Resting, Trashes, Restores
  <2>5. d.pc \notin Resting /\ c.pc \notin Resting
    BY <2>2, <2>3 DEF Resting
  <2> QED BY <1>0, <2>2, <2>3, <2>4, <2>5, <2>6, ReliableMoves DEF Types
<1>2. CASE NoNameLeft(q)
  BY <1>0, <1>2, ReliableMoves DEF NoNameLeft, End, Idle, Policies, folder, past, Relies, Types, Calls, Places, Resting, Trashes, Restores
<1>3. CASE WriteInfo(q)
  BY <1>0, <1>3, ReliableMoves DEF WriteInfo, Goto, Info, past, Relies, Types, Calls, Places, Resting, Trashes, Restores
<1>4. CASE SyncInfo(q)
  <2>1. c.name \in Names /\ c.pc = "sync"
    BY <1>0, <1>4 DEF SyncInfo, Relies, Resting
  <2>2. /\ info' \in [Names -> [there : BOOLEAN, path : Paths \cup {None}, synced : BOOLEAN]]
        /\ info'[c.name].there = info[c.name].there /\ info'[c.name].path = info[c.name].path
        /\ info'[c.name].synced
    <3>1. PICK file \in [there : BOOLEAN, path : Paths \cup {None}, synced : BOOLEAN] : file = info[c.name]
      BY <1>0, <2>1 DEF Types
    <3>2. info' = [info EXCEPT ![c.name] = [file EXCEPT !.synced = TRUE]]
      BY <1>4, <3>1 DEF SyncInfo, Synced
    <3> QED BY <1>0, <2>1, <3>1, <3>2 DEF Types
  <2> QED
    BY ZenonT(60), <1>0, <1>4, <2>1, <2>2, ReliableMoves
    DEF SyncInfo, Goto, past, Relies, Types, Calls, Places, Resting, Trashes, Restores
<1>5. CASE MoveIn(q)
  <2>1. /\ c.path \in Paths /\ c.name \in Names /\ c.pc = "moveIn"
        /\ files' \in [Names -> Items \cup {None}] /\ files'[c.name] = home[c.path] /\ home[c.path] # None
        /\ origin' \in [Names -> Paths \cup {None}] /\ UNCHANGED <<info, sizes>>
    BY <1>0, <1>5 DEF MoveIn, Relies, Types, Resting, Trashes
  <2>2. CASE home' = [home EXCEPT ![c.path] = None] /\ End(q)
    BY ZenonT(60), <1>0, <2>1, <2>2, ReliableMoves
    DEF End, Idle, Policies, Relies, Types, Calls, Places, Resting, Trashes, Restores
  <2>3. CASE UNCHANGED home /\ Goto(q, "removeSource")
    BY <1>0, <2>1, <2>3, ReliableMoves
    DEF Goto, Relies, Types, Calls, Places, Resting, Trashes, Restores
  <2> QED BY <1>5, <2>2, <2>3 DEF MoveIn
<1>6. CASE RemoveSource(q)
  BY <1>0, <1>6, ReliableMoves DEF RemoveSource, End, Idle, Policies, past, Relies, Types, Calls, Places, Resting, Trashes, Restores
<1>7. CASE TrashFails(q)
  BY ZenonT(60), <1>0, <1>7, ReliableMoves DEF TrashFails, Goto, folder, past, Relies, Types, Calls, Places, Resting, Trashes, Restores
<1>8. CASE Catch(q)
  BY ZenonT(60), <1>0, <1>8, ReliableMoves DEF Catch, End, Idle, Policies, NoInfo, past, Relies, Types, Calls, Places, Resting, Trashes, Restores
<1> QED BY <1>1, <1>2, <1>3, <1>4, <1>5, <1>6, <1>7, <1>8 DEF Trashing

LEMMA RestoringReliable == ASSUME Reliable, NEW q \in Procs, Restoring(q) PROVE Reliable'
<1> USE TrashAssumption
<1> DEFINE c == proc[q]
<1>0. proc[q] \in Calls /\ Relies(q) /\ Types
  BY DEF Reliable, Types
<1>1. CASE ReadInfo(q)
  <2>1. c.name \in Names /\ c.pc = "read" /\ info[c.name].path \in Paths \cup {None} /\ UNCHANGED <<folder, past>>
    BY <1>0, <1>1 DEF ReadInfo, Relies, Types, Resting
  <2>2. CASE End(q)
    BY <1>0, <2>1, <2>2, ReliableMoves
    DEF End, Idle, Policies, folder, past, Relies, Types, Calls, Places, Resting, Trashes, Restores
  <2>3. CASE /\ info[c.name].path # None
             /\ proc' = [proc EXCEPT ![q].path = info[c.name].path, ![q].pc = "moveOut"] /\ UNCHANGED lock
    <3>1. info[c.name].path \in Paths
      BY <2>1, <2>3
    <3>2. PICK d \in Calls : /\ d.pc = "moveOut" /\ d.path = info[c.name].path /\ d.name = c.name
                             /\ proc' = [proc EXCEPT ![q] = d]
      <4> DEFINE e == [[c EXCEPT !.path = info[c.name].path] EXCEPT !.pc = "moveOut"]
      <4>1. e \in Calls /\ e.pc = "moveOut" /\ e.path = info[c.name].path /\ e.name = c.name
        BY <1>0, <2>1, <3>1 DEF Calls, Places, Restores
      <4>2. proc' = [proc EXCEPT ![q] = e]
        BY <1>0, <2>3 DEF Types, Calls
      <4> QED BY <4>1, <4>2
    <3>3. proc'[q] = d => Relies(q)'
      BY <2>1, <3>1, <3>2 DEF folder, past, Relies, Resting, Trashes, Restores
    <3>4. d.pc \notin Resting /\ c.pc \notin Resting
      BY <2>1, <3>2 DEF Resting
    <3> QED
      BY ZenonT(60), <1>0, <2>1, <2>3, <3>2, <3>3, <3>4, ReliableMoves DEF folder, past, Types
  <2> QED BY <1>1, <2>2, <2>3 DEF ReadInfo
<1>2. CASE MoveOut(q)
  <2>1. c.name \in Names /\ c.path \in Paths /\ c.pc = "moveOut" /\ files[c.name] \in Items
    BY <1>0, <1>2 DEF MoveOut, Relies, Types, Resting, Restores
  <2>2. ASSUME NEW p \in Paths, Out(q, p) PROVE Reliable'
    <3>1. /\ home' \in [Paths -> Items \cup {None}] /\ files[c.name] \in Range(home') /\ UNCHANGED <<info, sizes, origin>>
      BY <1>0, <2>1, <2>2 DEF Out, Types, Range
    <3>2. CASE files' = [files EXCEPT ![c.name] = None] /\ Goto(q, "unlink")
      BY <1>0, <2>1, <3>1, <3>2, ReliableMoves
      DEF Goto, Relies, Types, Calls, Places, Resting, Trashes, Restores
    <3>3. CASE UNCHANGED files /\ Goto(q, "removeTrashed")
      BY <1>0, <2>1, <3>1, <3>3, ReliableMoves
      DEF Goto, Relies, Types, Calls, Places, Resting, Trashes, Restores
    <3> QED BY <2>2, <3>2, <3>3 DEF Out
  <2>3. CASE End(q) /\ UNCHANGED <<folder, past>>
    BY <1>0, <2>1, <2>3, ReliableMoves
    DEF End, Idle, Policies, folder, past, Relies, Types, Calls, Places, Resting, Trashes, Restores
  <2>4. CASE Goto(q, "ask") /\ UNCHANGED <<folder, past>>
    BY <1>0, <2>1, <2>4, ReliableMoves
    DEF Goto, folder, past, Relies, Types, Calls, Places, Resting, Trashes, Restores
  <2> QED BY <1>2, <2>1, <2>2, <2>3, <2>4 DEF MoveOut
<1>3. CASE Answer(q)
  <2>1. PICK d \in Calls : /\ proc' = [proc EXCEPT ![q] = d]
                           /\ d.pc = "moveOut" /\ d.name = c.name /\ d.path = c.path
    <3>1. PICK policy \in Policies : proc' = [proc EXCEPT ![q].policy = policy, ![q].pc = "moveOut"]
      BY <1>3 DEF Answer
    <3> DEFINE e == [[c EXCEPT !.policy = policy] EXCEPT !.pc = "moveOut"]
    <3>2. e \in Calls /\ e.pc = "moveOut" /\ e.name = c.name /\ e.path = c.path
      BY <1>0 DEF Calls, Places, Restores
    <3>3. proc' = [proc EXCEPT ![q] = e]
      BY <1>0, <3>1 DEF Types, Calls
    <3> QED BY <3>2, <3>3
  <2>2. c.pc = "ask" /\ c.name \in Names /\ c.path \in Paths /\ UNCHANGED <<home, files, info, sizes, lock, origin>>
    BY <1>0, <1>3 DEF Answer, folder, past, Relies, Resting, Restores
  <2>3. proc'[q] = d => Relies(q)'
    BY <1>0, <2>1, <2>2 DEF Relies, Resting, Trashes, Restores
  <2>4. d.pc \notin Resting /\ c.pc \notin Resting
    BY <2>1, <2>2 DEF Resting
  <2> QED BY <1>0, <2>1, <2>2, <2>3, <2>4, ReliableMoves DEF Types
<1>4. CASE RemoveTrashed(q)
  BY <1>0, <1>4, ReliableMoves DEF RemoveTrashed, Goto, past, Relies, Types, Calls, Places, Resting, Trashes, Restores
<1>5. CASE Unlink(q)
  BY <1>0, <1>5, ReliableMoves DEF Unlink, Goto, NoInfo, past, Relies, Types, Calls, Places, Resting, Trashes, Restores
<1>6. CASE Forget(q)
  BY <1>0, <1>6, ReliableMoves DEF Forget, Forgotten, End, Idle, Policies, past, Relies, Types, Calls, Places, Resting, Trashes, Restores
<1> QED BY <1>1, <1>2, <1>3, <1>4, <1>5, <1>6 DEF Restoring

LEMMA EmptyingReliable == ASSUME Reliable, NEW q \in Procs, Emptying(q) PROVE Reliable'
<1> USE TrashAssumption
<1> DEFINE c == proc[q]
<1>0. proc[q] \in Calls /\ Relies(q) /\ Types
  BY DEF Reliable, Types
<1>1. CASE RemoveItem(q)
  <2>1. c.name \in Names /\ c.pc \notin Resting
    BY <1>0, <1>1 DEF RemoveItem, Relies, Resting
  <2> QED BY <1>1, <2>1, EraseReliable DEF RemoveItem
<1>2. CASE EmptyItem(q)
  BY <1>2, EraseReliable DEF EmptyItem, Resting
<1>3. CASE EmptyInfo(q)
  BY <1>0, <1>3, ReliableMoves DEF EmptyInfo, Goto, NoInfo, past, Relies, Types, Calls, Places, Resting, Trashes, Restores
<1>4. CASE FilesEmptied(q)
  BY <1>0, <1>4, ReliableMoves DEF FilesEmptied, Goto, folder, past, Relies, Types, Calls, Places, Resting, Trashes, Restores
<1>5. CASE EmptyOrphan(q)
  BY <1>0, <1>5, Alone DEF EmptyOrphan, NoInfo, past, Reliable, Locked, Relies, Types, Resting, Trashes, Restores
<1>6. CASE DropSizes(q)
  BY <1>0, <1>6, ReliableMoves DEF DropSizes, End, Idle, Policies, past, Relies, Types, Calls, Places, Resting, Trashes, Restores
<1> QED BY <1>1, <1>2, <1>3, <1>4, <1>5, <1>6 DEF Emptying

-----------------------------------------------------------------------------
(* The steps of those who rest, and of others.                             *)

LEMMA TakeLockReliable == ASSUME Reliable, NEW q \in Procs, TakeLock(q) PROVE Reliable'
<1> USE TrashAssumption
<1>1. /\ lock = None /\ \A r \in Procs : proc[r].pc \in Resting
      /\ proc \in [Procs -> Calls] /\ UNCHANGED <<home, files, info, sizes, origin>>
  BY DEF TakeLock, LockFree, folder, past, Reliable, Types, Locked
<1>2. CASE End(q)
  <2>1. proc' \in [Procs -> Calls] /\ lock' = None /\ \A r \in Procs : proc'[r].pc \in Resting
    BY <1>1, <1>2 DEF End, Idle, Calls, Places, Resting, Policies
  <2> QED BY <1>1, <2>1 DEF Reliable, Types, Locked, Relies, Resting, Trashes, Restores
<1>3. ASSUME NEW first \in Firsts, proc' = [proc EXCEPT ![q] = first], lock' = q PROVE Reliable'
  <2>1. /\ first \in Calls /\ first.pc \in {"pick", "read", "erase", "emptyFiles"}
        /\ first.pc = "pick" => first.path \in Paths
        /\ first.pc \in {"read", "erase"} => first.name \in Names
    <3>1. \E pc \in {"pick", "read", "erase", "emptyFiles"}, p \in Paths \cup {None}, n \in Names \cup {None},
             policy \in Policies :
               /\ first = Begin(pc, p, n, policy)
               /\ pc = "pick" => p \in Paths
               /\ pc \in {"read", "erase"} => n \in Names
      BY DEF Firsts, Policies
    <3> QED BY <3>1 DEF Begin, Calls, Places
  <2>2. /\ proc' \in [Procs -> Calls] /\ proc'[q] = first
        /\ \A r \in Procs \ {q} : proc'[r].pc \in Resting
    BY <1>1, <1>3, <2>1
  <2>3. Relies(q)'
    BY <2>1, <2>2 DEF Relies, Resting, Trashes, Restores
  <2>4. Locked'
    BY <1>3, <2>1, <2>2 DEF Locked, Resting
  <2> QED BY <1>1, <2>2, <2>3, <2>4, OthersRely DEF Reliable, Types
<1> QED BY <1>2, <1>3 DEF TakeLock

\* A call that begins to wait, is cancelled as it waits, or gives up.
LEMMA RestReliable ==
  ASSUME Reliable, NEW q \in Procs, Call(q) \/ Cancel(q) \/ StopWaiting(q) PROVE Reliable'
<1>1. PICK c \in Calls : c.pc \in Resting /\ proc' = [proc EXCEPT ![q] = c]
  <2>1. proc[q] \in Calls
    BY DEF Reliable, Types
  <2>2. CASE Call(q)
    BY <2>1, <2>2 DEF Call, Calls, Places, Resting
  <2>3. CASE Cancel(q)
    BY <2>1, <2>3 DEF Cancel, Calls, Places, Resting
  <2>4. CASE StopWaiting(q)
    BY <2>1, <2>4, TrashAssumption DEF StopWaiting, Idle, Calls, Places, Resting, Policies
  <2> QED BY <2>2, <2>3, <2>4
<1>2. proc[q].pc \in Resting /\ UNCHANGED <<home, files, info, sizes, origin, lock>>
  BY DEF Call, Cancel, StopWaiting, Resting, folder, past
<1>3. /\ proc' \in [Procs -> Calls]
      /\ \A r \in Procs : proc'[r] = proc[r] \/ (r = q /\ proc[r].pc \in Resting /\ proc'[r].pc \in Resting)
  BY <1>1, <1>2 DEF Reliable, Types
<1>4. Locked'
  BY <1>2, <1>3 DEF Reliable, Locked
<1>5. \A r \in Procs : Relies(r)'
  BY <1>2, <1>3 DEF Reliable, Relies, Resting, Trashes, Restores
<1> QED BY <1>2, <1>3, <1>4, <1>5 DEF Reliable, Types

LEMMA FailsReliable == ASSUME Reliable, NEW q \in Procs, Fails(q) PROVE Reliable'
<1>1. proc[q].pc \notin Resting /\ End(q) /\ UNCHANGED <<home, files, info, sizes, origin>>
  BY DEF Fails, Resting, folder
<1>2. Idle \in Calls /\ Idle.pc \in Resting
  BY DEF Idle, Calls, Places, Resting, Policies
<1> QED
  BY <1>1, <1>2, ReliableMoves DEF End, Relies, Reliable, Types, Resting, Trashes, Restores

LEMMA KilledReliable == ASSUME Reliable, NEW q \in Procs, Killed(q) PROVE Reliable'
<1> USE TrashAssumption
<1>1. /\ UNCHANGED <<home, files, info, sizes, origin>> /\ proc' \in [Procs -> Calls]
      /\ \A r \in Procs : proc'[r] = IF r = q THEN Idle ELSE proc[r]
      /\ lock' = IF lock = q THEN None ELSE lock
  BY DEF Killed, Reliable, Types, folder, Idle, Calls, Places, Resting, Policies
<1>2. Idle.pc \in Resting
  BY DEF Idle, Resting
<1>3. Locked'
  BY <1>1, <1>2 DEF Reliable, Locked
<1>4. \A r \in Procs : Relies(r)'
  BY <1>1, <1>2 DEF Reliable, Relies, Resting, Trashes, Restores
<1> QED BY <1>1, <1>3, <1>4 DEF Reliable, Types

LEMMA PowerCutReliable == ASSUME Reliable, PowerCut PROVE Reliable'
<1> USE TrashAssumption
<1>1. /\ UNCHANGED <<home, files, sizes, origin>> /\ lock' = None
      /\ proc' \in [Procs -> Calls] /\ \A r \in Procs : proc'[r].pc \in Resting
  BY DEF PowerCut, Reliable, Idle, Calls, Places, Resting, Policies
<1>2. info' \in [Names -> [there : BOOLEAN, path : Paths \cup {None}, synced : BOOLEAN]]
  BY DEF PowerCut, Reliable, Types, Info
<1> QED BY <1>1, <1>2 DEF Reliable, Types, Locked, Relies, Resting, Trashes, Restores

\* A place's item lies somewhere else afterwards.
LEMMA MovesKeep ==
  ASSUME Types, NEW p \in Paths, NEW r \in Paths, home[p] # None, home[r] = None,
         home' = [home EXCEPT ![r] = home[p], ![p] = None]
  PROVE  /\ home' \in [Paths -> Items \cup {None}]
         /\ \A i \in Range(home) \ {None} : i \in Range(home')
         /\ \A s \in Paths \ {r} : home'[s] \in {None, home[s]}
<1>1. home' \in [Paths -> Items \cup {None}] /\ p # r
  BY DEF Types
<1>2. /\ home'[r] = home[p] /\ home'[p] = None
      /\ \A s \in Paths \ {p, r} : home'[s] = home[s]
  BY <1>1 DEF Types
<1> QED BY <1>1, <1>2 DEF Types, Range

LEMMA OtherMovesReliable == ASSUME Reliable, OtherMoves PROVE Reliable'
<1>1. PICK p \in Paths, r \in Paths :
        /\ home[p] # None /\ home[r] = None
        /\ \A q \in Procs : proc[q].pc = "removeSource" => proc[q].path # r
        /\ home' = [home EXCEPT ![r] = home[p], ![p] = None]
  BY DEF OtherMoves
<1>2. UNCHANGED <<files, info, sizes, lock, proc, origin>>
  BY DEF OtherMoves, past
<1>3. /\ home' \in [Paths -> Items \cup {None}]
      /\ \A i \in Range(home) \ {None} : i \in Range(home')
      /\ \A s \in Paths \ {r} : home'[s] \in {None, home[s]}
  BY <1>1, MovesKeep DEF Reliable
<1>4. \A q \in Procs : Relies(q)'
  BY ZenonT(60), <1>1, <1>2, <1>3 DEF Reliable, Relies, Resting, Trashes, Restores
<1> QED BY <1>2, <1>3, <1>4 DEF Reliable, Types, Locked

LEMMA OtherCachesReliable == ASSUME Reliable, OtherCaches PROVE Reliable'
BY DEF OtherCaches, past, Reliable, Types, Locked, Relies

LEMMA ReliableInit == Init => Reliable
BY TrashAssumption
DEF Init, Reliable, Types, Locked, Relies, Idle, NoInfo, Calls, Places, Resting, Trashes, Restores, Policies

LEMMA ReliableStep == Reliable /\ [Next]_vars => Reliable'
<1> SUFFICES ASSUME Reliable, [Next]_vars PROVE Reliable'
  OBVIOUS
<1>1. ASSUME NEW q \in Procs, Call(q) \/ Cancel(q) \/ Step(q) \/ Killed(q) PROVE Reliable'
  BY <1>1, RestReliable, TakeLockReliable, TrashingReliable, RestoringReliable, EmptyingReliable,
     FailsReliable, KilledReliable
  DEF Step
<1>2. CASE UNCHANGED vars
  BY <1>2 DEF vars, Reliable, Types, Locked, Relies
<1> QED BY <1>1, <1>2, PowerCutReliable, OtherMovesReliable, OtherCachesReliable DEF Next

THEOREM ReliableAlways == Spec => []Reliable
BY ReliableInit, ReliableStep, PTL DEF Spec

\* Every variable of a trash holds a value of its kind, and a call past its waiting holds the lock
\* (trash.cpp: every public call takes DirectoryLock first).
THEOREM TypeCorrect == Spec => []TypeOK
<1>1. Reliable => TypeOK
  BY DEF Reliable, Types, Locked, Resting, TypeOK
<1> QED BY <1>1, ReliableAlways, PTL

-----------------------------------------------------------------------------
(* Info files name origins.                                                *)

\* Besides an item that comes in, no step changes the info file of an item in the trash.
LEMMA InfoKept ==
  ASSUME Reliable, Next, \A q \in Procs : ~MoveIn(q), NEW n \in Names, files'[n] # None
  PROVE  /\ files[n] # None /\ origin'[n] = origin[n]
         /\ info[n].there /\ info[n].synced => info'[n] = info[n]
<1>1. CASE PowerCut \/ OtherMoves \/ OtherCaches
  BY <1>1 DEF PowerCut, OtherMoves, OtherCaches, past, Reliable, Types
<1>2. ASSUME NEW q \in Procs, Call(q) \/ Cancel(q) \/ TakeLock(q) \/ StopWaiting(q) \/ Fails(q) \/ Killed(q)
      PROVE  UNCHANGED <<files, info, origin>>
  BY <1>2 DEF Call, Cancel, TakeLock, StopWaiting, Fails, Killed, folder, past
<1>3. ASSUME NEW q \in Procs, Trashing(q) PROVE UNCHANGED <<files, origin>> /\ (files[n] # None => info'[n] = info[n])
  <2>1. Relies(q) /\ Types
    BY DEF Reliable
  <2>2. CASE PickName(q)
    BY <2>1, <2>2 DEF PickName, Fresh, past, Types
  <2>3. CASE WriteInfo(q) \/ SyncInfo(q)
    BY <2>1, <2>3 DEF WriteInfo, SyncInfo, past, Relies, Types, Resting
  <2>4. CASE Catch(q)
    BY <2>1, <2>4 DEF Catch, NotMoved, past, Relies, Types, Resting
  <2>5. CASE NoNameLeft(q) \/ RemoveSource(q) \/ TrashFails(q)
    BY <2>5 DEF NoNameLeft, RemoveSource, TrashFails, folder, past
  <2> QED BY <1>3, <2>2, <2>3, <2>4, <2>5 DEF Trashing
<1>4. ASSUME NEW q \in Procs, Restoring(q) \/ Emptying(q)
      PROVE  UNCHANGED origin /\ files[n] # None /\ info'[n] = info[n]
  <2>1. Relies(q) /\ Types
    BY DEF Reliable
  <2>2. CASE ReadInfo(q) \/ Answer(q) \/ Forget(q) \/ FilesEmptied(q) \/ DropSizes(q)
    BY <2>2 DEF ReadInfo, Answer, Forget, FilesEmptied, DropSizes, folder, past
  <2>3. CASE MoveOut(q)
    <3>1. CASE \E p \in Paths : Out(q, p)
      BY <2>1, <3>1 DEF Out, Types
    <3>2. CASE UNCHANGED <<folder, past>>
      BY <3>2 DEF folder, past
    <3>3. q \in Procs /\ proc[q].path \in Paths
      BY <2>1, <2>3 DEF MoveOut, Relies, Restores
    <3> QED BY <2>3, <3>1, <3>2, <3>3 DEF MoveOut
  <2>4. CASE RemoveTrashed(q)
    BY <2>1, <2>4 DEF RemoveTrashed, past, Types
  <2>5. CASE RemoveItem(q) \/ EmptyItem(q)
    BY <2>1, <2>5 DEF RemoveItem, EmptyItem, Erase, Types
  <2>6. CASE Unlink(q) \/ EmptyInfo(q)
    BY <2>1, <2>6 DEF Unlink, EmptyInfo, past, Relies, Types, Resting
  <2>7. CASE EmptyOrphan(q)
    BY <2>1, <2>7 DEF EmptyOrphan, past, Relies, Types
  <2> QED BY <1>4, <2>2, <2>3, <2>4, <2>5, <2>6, <2>7 DEF Restoring, Emptying
<1> QED BY <1>1, <1>2, <1>3, <1>4 DEF Next, Step, Trashing

LEMMA InfoStep == Reliable /\ InfoNamesOrigin /\ [Next]_vars => InfoNamesOrigin'
<1> SUFFICES ASSUME Reliable, InfoNamesOrigin, [Next]_vars, NEW n \in Names, files'[n] # None
             PROVE  info'[n].there /\ info'[n].synced /\ info'[n].path = origin'[n]
  BY DEF InfoNamesOrigin
<1>1. CASE UNCHANGED vars
  BY <1>1 DEF vars, InfoNamesOrigin
<1>2. ASSUME NEW q \in Procs, MoveIn(q) PROVE info'[n].there /\ info'[n].synced /\ info'[n].path = origin'[n]
  BY <1>2 DEF MoveIn, Reliable, Relies, Types, InfoNamesOrigin, Resting
<1>3. CASE Next /\ \A q \in Procs : ~MoveIn(q)
  BY <1>3, InfoKept DEF InfoNamesOrigin
<1> QED BY <1>1, <1>2, <1>3

\* An item in the trash has at every moment, and after a kill or a power cut, an info file on the
\* disk that names the place it came from (trash.cpp: the info file is written and flushed before
\* the item moves in, and goes after it).
THEOREM InfoCorrect == Spec => []InfoNamesOrigin
<1>1. Init => InfoNamesOrigin
  BY DEF Init, InfoNamesOrigin
<1> QED BY <1>1, InfoStep, ReliableAlways, PTL DEF Spec

-----------------------------------------------------------------------------
(* Nothing is lost.                                                        *)

Kept(i) == i \in Range(home) \cup Range(files) \cup discarded

\* An item that leaves one name or place lies at another, or was to go.
LEMMA KeptMoving ==
  ASSUME Reliable, NEW i \in Items, Kept(i), NEW q \in Procs,
         Trashing(q) \/ Restoring(q) \/ Emptying(q)
  PROVE  Kept(i)'
<1> USE TrashAssumption
<1>1. /\ Relies(q) /\ Types /\ i # None
      /\ Range(home) = {home[p] : p \in Paths} /\ Range(files) = {files[n] : n \in Names}
  BY DEF Reliable, Types, Range
<1>2. CASE UNCHANGED <<home, files, discarded>>
  BY <1>2 DEF Kept
<1>3. CASE MoveIn(q)
  <2>1. /\ files' \in [Names -> Items \cup {None}] /\ home' \in [Paths -> Items \cup {None}]
        /\ proc[q].path \in Paths /\ proc[q].name \in Names
        /\ \A p \in Paths \ {proc[q].path} : home'[p] = home[p]
        /\ \A n \in Names \ {proc[q].name} : files'[n] = files[n]
        /\ files[proc[q].name] = None /\ files'[proc[q].name] = home[proc[q].path] /\ UNCHANGED discarded
    BY <1>1, <1>3 DEF MoveIn, Relies, Types, Resting, Trashes
  <2> QED BY <1>1, <2>1 DEF Kept, Range
<1>4. CASE RemoveSource(q)
  <2>1. /\ home' \in [Paths -> Items \cup {None}] /\ proc[q].path \in Paths /\ proc[q].name \in Names
        /\ home[proc[q].path] \in {None, files[proc[q].name]}
        /\ \A p \in Paths \ {proc[q].path} : home'[p] = home[p]
        /\ UNCHANGED <<files, discarded>>
    BY <1>1, <1>4 DEF RemoveSource, past, Relies, Types, Resting, Trashes
  <2> QED BY <1>1, <2>1 DEF Kept, Range
<1>5. ASSUME NEW p \in Paths, Out(q, p), proc[q].name \in Names, Vacant(p) \/ proc[q].policy = "Replace"
      PROVE  Kept(i)'
  <2>1. /\ files' \in [Names -> Items \cup {None}] /\ home' \in [Paths -> Items \cup {None}]
        /\ home'[p] = files[proc[q].name] /\ \A r \in Paths \ {p} : home'[r] = home[r]
        /\ \A n \in Names \ {proc[q].name} : files'[n] = files[n]
        /\ home[p] # None => home[p] \in discarded'
        /\ \A x \in discarded : x \in discarded'
    BY <1>1, <1>5 DEF Out, Vacant, Types
  <2> QED BY <1>1, <2>1 DEF Kept, Range
<1>6. CASE MoveOut(q)
  <2>1. proc[q].name \in Names /\ proc[q].path \in Paths
    BY <1>1, <1>6 DEF MoveOut, Relies, Resting, Restores
  <2>2. CASE UNCHANGED <<folder, past>>
    BY <1>2, <2>2 DEF folder, past
  <2> QED BY <1>5, <1>6, <2>1, <2>2 DEF MoveOut
<1>7. CASE RemoveTrashed(q)
  <2>1. /\ files' \in [Names -> Items \cup {None}] /\ proc[q].name \in Names /\ UNCHANGED <<home, discarded>>
        /\ files[proc[q].name] \in Range(home)
        /\ \A n \in Names \ {proc[q].name} : files'[n] = files[n]
    BY <1>1, <1>7 DEF RemoveTrashed, past, Relies, Types, Resting
  <2> QED BY <1>1, <2>1 DEF Kept, Range
<1>8. ASSUME NEW n \in Names, NEW pc, Erase(q, n, pc) PROVE Kept(i)'
  <2>1. /\ files' \in [Names -> Items \cup {None}] /\ UNCHANGED home
        /\ discarded' = discarded \cup ({files[n]} \ {None})
        /\ \A m \in Names \ {n} : files'[m] = files[m]
    BY <1>1, <1>8 DEF Erase, Types
  <2> QED BY <1>1, <2>1 DEF Kept, Range
<1>9. CASE RemoveItem(q) \/ EmptyItem(q)
  BY <1>1, <1>8, <1>9 DEF RemoveItem, EmptyItem, Relies, Resting
<1> QED
  BY <1>2, <1>3, <1>4, <1>6, <1>7, <1>9
  DEF Trashing, Restoring, Emptying, PickName, NoNameLeft, WriteInfo, SyncInfo, TrashFails, Catch, ReadInfo, Answer,
      Unlink, Forget, EmptyInfo, FilesEmptied, EmptyOrphan, DropSizes, folder, past

LEMMA NothingLostStep == Reliable /\ NothingLost /\ [Next]_vars => NothingLost'
<1> SUFFICES ASSUME Reliable, NothingLost, [Next]_vars, NEW i \in Items PROVE Kept(i)'
  BY DEF NothingLost, Kept
<1>1. Kept(i)
  BY DEF NothingLost, Kept
<1>2. CASE UNCHANGED <<home, files, discarded>>
  BY <1>1, <1>2 DEF Kept
<1>3. CASE OtherMoves
  <2>1. \A j \in Range(home) \ {None} : j \in Range(home')
    BY <1>3, MovesKeep DEF OtherMoves, Reliable
  <2>2. UNCHANGED <<files, discarded>> /\ i # None
    BY <1>3, TrashAssumption DEF OtherMoves, past
  <2> QED BY <1>1, <2>1, <2>2 DEF Kept
<1>4. ASSUME NEW q \in Procs, Trashing(q) \/ Restoring(q) \/ Emptying(q) PROVE Kept(i)'
  BY <1>1, <1>4, KeptMoving
<1> QED
  BY <1>2, <1>3, <1>4
  DEF Next, Step, Call, Cancel, TakeLock, StopWaiting, Fails, Killed, PowerCut, OtherCaches, folder, past, vars

\* However calls fail, are killed or are cut off, and whatever others move meanwhile, an item is
\* outside, in the trash, or was discarded because someone asked for it (trash.cpp:87-434).
THEOREM NothingLostCorrect == Spec => []NothingLost
<1>1. Init => NothingLost
  <2> SUFFICES ASSUME Init, NEW i \in Items PROVE i \in Range(home)
    BY DEF NothingLost
  <2>1. home \in [Paths -> Items \cup {None}] /\ \E p \in Paths : home[p] = i
    BY DEF Init
  <2> QED BY <2>1 DEF Range
<1> QED BY <1>1, NothingLostStep, ReliableAlways, PTL DEF Spec

-----------------------------------------------------------------------------
(* A trash is tidy at rest.                                                *)

Orphan(n) == info[n].there /\ files[n] = None
Stale(n) == sizes[n] \notin {None, files[n]}

\* Whose work it is, after the next steps, to remove an orphan or to forget a size.
Settles(q, n) ==
  proc[q].name = n /\ proc[q].pc \in {"write", "sync", "moveIn", "catch", "unlink", "emptyInfo"}
Forgets(q, n) ==
  \/ proc[q].name = n /\ proc[q].pc \in {"unlink", "forget"}
  \/ proc[q].pc \in {"emptyFiles", "emptyInfo", "emptyInfos"}

Tidying == untidy \/ \A n \in Names : /\ Orphan(n) => \E q \in Procs : Settles(q, n)
                                      /\ Stale(n) => \E q \in Procs : Forgets(q, n)

\* What one call leaves to do is its own, as the others rest.
LEMMA OwnWork ==
  ASSUME Reliable, Tidying, ~untidy, NEW q \in Procs, proc[q].pc \notin Resting, NEW n \in Names
  PROVE  (Orphan(n) => Settles(q, n)) /\ (Stale(n) => Forgets(q, n))
BY Alone DEF Reliable, Tidying, Settles, Forgets, Resting

LEMMA NoWork ==
  ASSUME Reliable, Tidying, ~untidy, lock = None, NEW n \in Names
  PROVE  ~Orphan(n) /\ ~Stale(n)
BY TrashAssumption DEF Reliable, Locked, Tidying, Settles, Forgets, Resting

\* Those who rest, or come to rest or to wait, leave the work with who has it.
LEMMA TidyingSame ==
  ASSUME Tidying, untidy => untidy', UNCHANGED folder,
         \A q \in Procs : proc'[q] = proc[q] \/ proc[q].pc \in Resting
  PROVE  Tidying'
BY DEF Tidying, folder, Orphan, Stale, Settles, Forgets, Resting

\* A call leaves nothing to do but what it will do itself.
LEMMA TidyingWork ==
  ASSUME Reliable, Tidying, NEW q \in Procs, Trashing(q) \/ Restoring(q) \/ Emptying(q) PROVE Tidying'
<1>a. UNCHANGED untidy /\ proc[q].pc \notin Resting
  BY DEF Trashing, Restoring, Emptying, PickName, NoNameLeft, WriteInfo, SyncInfo, MoveIn, RemoveSource, TrashFails,
         Catch, ReadInfo, MoveOut, Out, Answer, RemoveTrashed, Unlink, Forget, RemoveItem, EmptyItem, Erase, EmptyInfo,
         FilesEmptied, EmptyOrphan, DropSizes, past, Resting
<1> SUFFICES ASSUME ~untidy, NEW n \in Names
             PROVE  (Orphan(n)' => Settles(q, n)') /\ (Stale(n)' => Forgets(q, n)')
  BY <1>a DEF Tidying
<1>0. /\ Relies(q) /\ Types /\ (Orphan(n) => Settles(q, n)) /\ (Stale(n) => Forgets(q, n))
  BY <1>a, OwnWork DEF Reliable
<1>1. CASE PickName(q)
  BY <1>0, <1>1 DEF PickName, Fresh, Info, past, Relies, Types, Calls, Resting, Trashes, Restores, Orphan, Stale, Settles, Forgets
<1>2. CASE NoNameLeft(q)
  BY <1>0, <1>2 DEF NoNameLeft, End, folder, past, Relies, Types, Calls, Resting, Trashes, Restores, Orphan, Stale, Settles, Forgets
<1>3. CASE WriteInfo(q)
  BY <1>0, <1>3 DEF WriteInfo, Goto, Info, past, Relies, Types, Calls, Resting, Trashes, Restores, Orphan, Stale, Settles, Forgets
<1>4. CASE SyncInfo(q)
  BY <1>0, <1>4 DEF SyncInfo, Goto, Synced, past, Relies, Types, Calls, Resting, Trashes, Restores, Orphan, Stale, Settles, Forgets
<1>5. CASE MoveIn(q)
  BY <1>0, <1>5 DEF MoveIn, Goto, End, Relies, Types, Calls, Resting, Trashes, Restores, Orphan, Stale, Settles, Forgets
<1>6. CASE RemoveSource(q)
  BY <1>0, <1>6 DEF RemoveSource, End, past, Relies, Types, Calls, Resting, Trashes, Restores, Orphan, Stale, Settles, Forgets
<1>7. CASE TrashFails(q)
  BY <1>0, <1>7 DEF TrashFails, Goto, folder, past, Relies, Types, Calls, Resting, Trashes, Restores, Orphan, Stale, Settles, Forgets
<1>8. CASE Catch(q)
  BY <1>0, <1>8 DEF Catch, NotMoved, End, NoInfo, past, Relies, Types, Calls, Resting, Trashes, Restores, Orphan, Stale, Settles, Forgets
<1>9. CASE ReadInfo(q)
  BY <1>0, <1>9 DEF ReadInfo, End, folder, past, Relies, Types, Calls, Resting, Trashes, Restores, Orphan, Stale, Settles, Forgets
<1>10. CASE Answer(q)
  BY <1>0, <1>10 DEF Answer, folder, past, Relies, Types, Calls, Resting, Trashes, Restores, Orphan, Stale, Settles, Forgets
<1>11. CASE RemoveTrashed(q)
  BY <1>0, <1>11 DEF RemoveTrashed, Goto, past, Relies, Types, Calls, Resting, Trashes, Restores, Orphan, Stale, Settles, Forgets
<1>12. CASE Unlink(q)
  BY <1>0, <1>12 DEF Unlink, Goto, NoInfo, past, Relies, Types, Calls, Resting, Trashes, Restores, Orphan, Stale, Settles, Forgets
<1>13. CASE Forget(q)
  BY <1>0, <1>13 DEF Forget, Forgotten, End, past, Relies, Types, Calls, Resting, Trashes, Restores, Orphan, Stale, Settles, Forgets
<1>14. CASE RemoveItem(q)
  BY <1>0, <1>14 DEF RemoveItem, Erase, Relies, Types, Calls, Resting, Trashes, Restores, Orphan, Stale, Settles, Forgets
<1>15. CASE EmptyItem(q)
  BY <1>0, <1>15 DEF EmptyItem, Erase, Relies, Types, Calls, Resting, Trashes, Restores, Orphan, Stale, Settles, Forgets
<1>16. CASE EmptyInfo(q)
  BY <1>0, <1>16 DEF EmptyInfo, Goto, NoInfo, past, Relies, Types, Calls, Resting, Trashes, Restores, Orphan, Stale, Settles, Forgets
<1>17. CASE FilesEmptied(q)
  BY <1>0, <1>17 DEF FilesEmptied, Goto, folder, past, Relies, Types, Calls, Resting, Trashes, Restores, Orphan, Stale, Settles, Forgets
<1>18. CASE EmptyOrphan(q)
  BY <1>0, <1>18 DEF EmptyOrphan, NoInfo, past, Relies, Types, Calls, Resting, Trashes, Restores, Orphan, Stale, Settles, Forgets
<1>19. CASE DropSizes(q)
  BY <1>0, <1>19 DEF DropSizes, End, past, Relies, Types, Calls, Resting, Trashes, Restores, Orphan, Stale, Settles, Forgets
<1>20. CASE MoveOut(q)
  BY <1>0, <1>20 DEF MoveOut, Out, Goto, End, folder, past, Relies, Types, Calls, Resting, Trashes, Restores, Orphan, Stale, Settles, Forgets
<1> QED BY <1>1, <1>2, <1>3, <1>4, <1>5, <1>6, <1>7, <1>8, <1>9, <1>10, <1>11, <1>12, <1>13, <1>14, <1>15, <1>16, <1>17, <1>18, <1>19, <1>20 DEF Trashing, Restoring, Emptying

LEMMA TidyingStep == Reliable /\ Tidying /\ [Next]_vars => Tidying'
<1> SUFFICES ASSUME Reliable, Tidying, [Next]_vars PROVE Tidying'
  OBVIOUS
<1>1. ASSUME NEW q \in Procs, Trashing(q) \/ Restoring(q) \/ Emptying(q) PROVE Tidying'
  BY <1>1, TidyingWork
<1>2. ASSUME NEW q \in Procs, Call(q) \/ Cancel(q) \/ TakeLock(q) \/ StopWaiting(q) PROVE Tidying'
  <2>1. /\ UNCHANGED folder /\ (untidy => untidy') /\ proc[q].pc \in Resting
        /\ \A r \in Procs : proc'[r] = proc[r] \/ r = q
    BY <1>2 DEF Call, Cancel, TakeLock, End, StopWaiting, past, Resting, Reliable, Types
  <2> QED BY <2>1, TidyingSame
<1>3. ASSUME NEW q \in Procs, Fails(q) PROVE Tidying'
  <2>1. CASE proc[q].pc \in {"pick", "read", "moveOut"}
    <3>1. (untidy => untidy') /\ UNCHANGED folder
      BY <1>3, <2>1 DEF Fails
    <3>2. \A n \in Names : untidy \/ (~Orphan(n) /\ ~Stale(n))
      <4> SUFFICES ASSUME NEW n \in Names, ~untidy PROVE ~Orphan(n) /\ ~Stale(n)
        OBVIOUS
      <4>1. proc[q].pc \notin Resting /\ ~Settles(q, n) /\ ~Forgets(q, n)
        BY <2>1 DEF Settles, Forgets, Resting
      <4> QED BY <4>1, OwnWork
    <3> QED BY <3>1, <3>2 DEF Tidying, Orphan, Stale, folder
  <2>2. CASE proc[q].pc \notin {"pick", "read", "moveOut"}
    BY <1>3, <2>2 DEF Fails, Tidying
  <2> QED BY <2>1, <2>2
<1>4. ASSUME NEW q \in Procs, Killed(q) PROVE Tidying'
  <2>1. CASE lock = q
    BY <1>4, <2>1 DEF Killed, Tidying
  <2>2. CASE lock # q
    <3>1. UNCHANGED folder /\ (untidy => untidy') /\ \A r \in Procs : proc'[r] = proc[r] \/ r = q
      BY <1>4, <2>2 DEF Killed, Reliable, Types
    <3>2. proc[q].pc \in Resting
      BY <2>2 DEF Reliable, Locked
    <3> QED BY <3>1, <3>2, TidyingSame
  <2> QED BY <2>1, <2>2
<1>5. CASE PowerCut
  <2>1. CASE lock # None
    BY <1>5, <2>1 DEF PowerCut, Tidying
  <2>2. CASE lock = None
    <3>1. \A n \in Names : untidy \/ (~Orphan(n) /\ ~Stale(n))
      BY <2>2, NoWork
    <3>2. /\ (untidy => untidy') /\ UNCHANGED <<files, sizes>>
          /\ \A n \in Names : info'[n].there = info[n].there
      <4>1. ASSUME NEW n \in Names PROVE info'[n].there = info[n].there
        BY <1>5, <4>1 DEF PowerCut, Info
      <4> QED BY <1>5, <2>2, <4>1 DEF PowerCut
    <3> QED BY <3>1, <3>2 DEF Tidying, Orphan, Stale
  <2> QED BY <2>1, <2>2
<1>6. CASE OtherMoves
  BY <1>6 DEF OtherMoves, past, Tidying, Orphan, Stale, Settles, Forgets
<1>7. CASE OtherCaches
  <2>1. /\ UNCHANGED <<files, info, proc, untidy>>
        /\ \A n \in Names : sizes'[n] = sizes[n] \/ sizes'[n] = files[n]
    BY <1>7 DEF OtherCaches, past, Reliable, Types
  <2> QED BY <2>1 DEF Tidying, Orphan, Stale, Settles, Forgets
<1>8. CASE UNCHANGED vars
  BY <1>8 DEF vars, Tidying, Orphan, Stale, Settles, Forgets
<1> QED BY <1>1, <1>2, <1>3, <1>4, <1>5, <1>6, <1>7, <1>8 DEF Next, Step

\* Unless a call was killed or failed where it cannot clean up, a trash nobody works on has no info
\* file without an item and no cached size of another item (trash.cpp:87-434).
THEOREM TidyCorrect == Spec => []TidyAtRest
<1>1. Init => Tidying
  BY DEF Init, Tidying, Orphan, Stale, NoInfo
<1>2. Reliable /\ Tidying => TidyAtRest
  BY NoWork DEF TidyAtRest, Orphan, Stale
<1> QED BY <1>1, <1>2, TidyingStep, ReliableAlways, PTL DEF Spec
=============================================================================
