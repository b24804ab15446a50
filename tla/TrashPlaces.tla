----------------------------- MODULE TrashPlaces -----------------------------
(***************************************************************************)
(* Which trash an item goes to, which trashes are listed, and emptying all *)
(* of them (files/trash.cpp, files/trash_directory.cpp), over volumes that *)
(* are mounted at one point or several, one over another.  Trash.tla says  *)
(* what goes on in one of them; here each operation on one is a step.      *)
(***************************************************************************)
EXTENDS Integers, Sequences, FiniteSets

CONSTANTS
  Items, Points,     \* files of the user; folders to mount on
  Volumes,           \* other filesystems than the home's
  HoldsNone,         \* those of a type that holds no trash: memory, remote
  Within,            \* of each, the volume that has it as a subvolume, or None
  None,
  MaxMounts, MaxEvents    \* bound the mount table, and what others do

VARIABLES
  table,     \* the mount table, in its order
  volume,    \* of each: its folder .Trash ("lapsed": no longer sticky), the user's own in that and beside it,
             \* and whether it takes writes
  at,        \* where each item is: its volume or Home, and "out" or the trash it is in
  from,      \* where it was trashed: what its info file says
  run,       \* emptyTrash(): what is left to do, and which items it still is to erase
  tells,     \* whether the kernel says of a folder that it is the root of a mount
  events

vars == <<table, volume, at, from, run, tells, events>>

Home == "home"
Erased == [root |-> None, kind |-> "none"]
Out(root) == [root |-> root, kind |-> "out"]
In(root, kind) == [root |-> root, kind |-> kind]
InTrash(i) == at[i].kind \in {"home", "shared", "user"}
\* A folder, or a trash, is named by the mount point, or the subvolume, it is at the top of, and by its kind.
Directory(point, sub, kind) == [point |-> point, sub |-> sub, kind |-> kind]
HomeWay == Directory(None, None, "out")
HomeTrash == Directory(None, None, "home")
NoRun == [step |-> "none", todo |-> {}, due |-> {}]

Init ==
  /\ table = <<>>
  /\ volume = [v \in Volumes |-> [dot |-> "none", shared |-> "none", user |-> "none", writable |-> TRUE]]
  /\ at \in [Items -> {Out(v) : v \in Volumes}] /\ from = [i \in Items |-> HomeWay]
  /\ run = NoRun /\ tells \in BOOLEAN /\ events = 0

-----------------------------------------------------------------------------
(* What the mount table says.                                              *)

Entries(p) == {k \in DOMAIN table : table[k].point = p}
MountPoints == {p \in Points : Entries(p) # {}}
Latest(some) == CHOOSE k \in some : \A l \in some : l <= k
First(p) == CHOOSE k \in Entries(p) : \A l \in Entries(p) : k <= l

\* mounts(): each mount point once, with what was mounted there last, which hides what was there before.
Mounted(p) == IF Entries(p) = {} THEN None ELSE table[Latest(Entries(p))].volume

HoldsTrash(v) == v \notin HoldsNone

\* What a name leads to depends on what is mounted by then.
RootOf(d) ==
  IF d.point = None THEN Home
  ELSE IF d.sub = None THEN Mounted(d.point)
  ELSE IF Mounted(d.point) = Within[d.sub] THEN d.sub ELSE None

SharedUsable(v) == volume[v].dot = "sticky"

\* trashDirectories(): the home trash, and of each volume that can hold any those the user has; a volume
\* that is mounted twice has them at the point listed first.
Usable ==
  {d \in {Directory(p, None, kind) : p \in MountPoints, kind \in {"shared", "user"}} :
     /\ HoldsTrash(RootOf(d)) /\ volume[RootOf(d)][d.kind] = "own"
     /\ d.kind = "shared" => SharedUsable(RootOf(d))}
SameTrash(d, e) == RootOf(d) = RootOf(e) /\ d.kind = e.kind
Directories == {HomeTrash} \cup {d \in Usable : \A e \in Usable : SameTrash(d, e) => First(d.point) <= First(e.point)}

-----------------------------------------------------------------------------
(* LocalFileSystem::trash(), restore().                                    *)

\* The ways to what is on a volume: where it is mounted, and as a subvolume where that is.
Ways(v) ==
  IF v = Home THEN {HomeWay}
  ELSE {way \in {Directory(p, sub, "out") : p \in MountPoints, sub \in {None, v}} : RootOf(way) = v}

\* mountPointOf(): a subvolume has a device of its own, which passes for a mount where the kernel does not tell.
MountPointOf(way) == IF way.sub # None /\ tells THEN [way EXCEPT !.sub = None] ELSE way

\* volumeTakesTrash(): what the table does not list takes one.
TakesTrash(top) == top.sub # None \/ HoldsTrash(Mounted(top.point))

\* prepareVolumeTrash(): whether items can be moved there, the folders being made where there are none.
CanPrepare(v, kind) ==
  /\ volume[v].writable /\ volume[v][kind] # "other"
  /\ kind = "shared" => SharedUsable(v)

\* trashFor(): the volume's own, shared rather than not, or the home trash.
TrashFor(way) ==
  LET top == MountPointOf(way)
      kinds == IF RootOf(top) # Home /\ TakesTrash(top) THEN {k \in {"shared", "user"} : CanPrepare(RootOf(top), k)} ELSE {} IN
  IF kinds = {} THEN HomeTrash
  ELSE [top EXCEPT !.kind = IF "shared" \in kinds THEN "shared" ELSE "user"]

Redone(i) == run' = [run EXCEPT !.due = @ \ {i}]

\* The move into the trash may fail; a trash made for it stays.
Trash(i) ==
  /\ at[i].kind = "out"
  /\ \E way \in Ways(at[i].root), moved \in BOOLEAN :
       LET d == TrashFor(way) IN
       /\ moved /\ at[i].root \in Volumes => volume[at[i].root].writable
       /\ volume' = IF d = HomeTrash THEN volume ELSE [volume EXCEPT ![RootOf(d)][d.kind] = "own"]
       /\ IF moved
          THEN /\ at' = [at EXCEPT ![i] = In(RootOf(d), d.kind)]
               /\ from' = [from EXCEPT ![i] = way]
               /\ Redone(i)
          ELSE UNCHANGED <<at, from, run>>
  /\ UNCHANGED <<table, tells, events>>

\* resolvedPath(): a volume's trash says where on the volume, or in a subvolume of it.
ResolvedPath(i) == IF from[i].sub # None THEN from[i].sub ELSE at[i].root

\* The home trash says a path, whatever is mounted there now.
BackTo(i) ==
  IF at[i].root # Home THEN ResolvedPath(i) ELSE IF RootOf(from[i]) = None THEN Home ELSE RootOf(from[i])

Restore(i) ==
  /\ \E d \in Directories : at[i] = In(RootOf(d), d.kind)
  /\ \A v \in {at[i].root, BackTo(i)} \cap Volumes : volume[v].writable
  /\ at' = [at EXCEPT ![i] = Out(BackTo(i))]
  /\ from' = [from EXCEPT ![i] = HomeWay]
  /\ Redone(i)
  /\ UNCHANGED <<table, volume, tells, events>>

-----------------------------------------------------------------------------
(* LocalFileSystem::emptyTrash().                                          *)

ItemsIn(root, kind) == {i \in Items : at[i] = In(root, kind)}

StartEmpty ==
  /\ run.step # "going"
  /\ LET todo == {[dir |-> d, root |-> RootOf(d)] : d \in Directories} IN
     run' = [step |-> "going", todo |-> todo,
             due |-> UNION {ItemsIn(t.root, t.dir.kind) : t \in todo}]
  /\ UNCHANGED <<table, volume, at, from, tells, events>>

Erase(some) == at' = [i \in Items |-> IF i \in some THEN Erased ELSE at[i]]

\* Whether there is a trash where its path leads now, the volume having gone or another one come.
StillThere(d) == RootOf(d) \in Volumes => volume[RootOf(d)][d.kind] # "none"
Reached(d) == IF RootOf(d) # None /\ StillThere(d) THEN ItemsIn(RootOf(d), d.kind) ELSE {}
Left(t, some) == [run EXCEPT !.todo = @ \ {t}, !.due = @ \ some]
Gone(t) == IF RootOf(t.dir) = t.root THEN {} ELSE ItemsIn(t.root, t.dir.kind)

\* empty(): all of a trash, or some of it before it fails and is passed over.
EmptyOne ==
  /\ run.step = "going"
  /\ \E t \in run.todo :
       LET root == RootOf(t.dir) IN
       \/ /\ root \in Volumes /\ StillThere(t.dir) => volume[root].writable
          /\ Erase(Reached(t.dir))
          /\ run' = Left(t, Reached(t.dir) \cup Gone(t))
       \/ /\ root # None /\ StillThere(t.dir)
          /\ \E gone \in SUBSET Reached(t.dir) :
               (gone # {} /\ root \in Volumes => volume[root].writable) /\ Erase(gone)
          /\ run' = Left(t, ItemsIn(root, t.dir.kind) \cup Gone(t))
  /\ UNCHANGED <<table, volume, from, tells, events>>

Cancel ==
  /\ run.step = "going"
  /\ \E t \in run.todo : \E gone \in SUBSET Reached(t.dir) :
       /\ gone # {} /\ RootOf(t.dir) \in Volumes => volume[RootOf(t.dir)].writable
       /\ Erase(gone)
  /\ run' = NoRun
  /\ UNCHANGED <<table, volume, from, tells, events>>

\* The first of the failures, if any, is thrown now.
EndEmpty ==
  /\ run.step = "going" /\ run.todo = {}
  /\ run' = [run EXCEPT !.step = "ended"]
  /\ UNCHANGED <<table, volume, at, from, tells, events>>

-----------------------------------------------------------------------------
(* The system and its administrator.                                       *)

Mount ==
  /\ Len(table) < MaxMounts
  /\ \E p \in Points, v \in Volumes : table' = Append(table, [point |-> p, volume |-> v])
  /\ UNCHANGED <<volume, at, from, run, tells, events>>

Unmount ==
  /\ \E p \in MountPoints :
       table' = [k \in 1 .. Len(table) - 1 |-> IF k < Latest(Entries(p)) THEN table[k] ELSE table[k + 1]]
  /\ UNCHANGED <<volume, at, from, run, tells, events>>

\* The shared folder is made, made sticky or not; another user's folder is in the way; a medium is read-only.
Others ==
  /\ events < MaxEvents /\ events' = events + 1
  /\ \E v \in Volumes :
       \/ volume' = [volume EXCEPT ![v].dot = "sticky"]
       \/ volume' = [volume EXCEPT ![v].dot = IF @ \in {"sticky", "lapsed"} THEN "lapsed" ELSE "plain"]
       \/ \E kind \in {"shared", "user"} :
            /\ volume[v][kind] = "none" /\ (kind = "shared" => volume[v].dot # "none")
            /\ volume' = [volume EXCEPT ![v][kind] = "other"]
       \/ volume' = [volume EXCEPT ![v].writable = ~@]
  /\ UNCHANGED <<table, at, from, run, tells>>

Next ==
  \/ \E i \in Items : Trash(i) \/ Restore(i)
  \/ StartEmpty \/ EmptyOne \/ Cancel \/ EndEmpty \/ Mount \/ Unmount \/ Others

Spec == Init /\ [][Next]_vars

-----------------------------------------------------------------------------
(* Properties.                                                             *)

\* Every variable holds a value of its kind.
TypeOK ==
  /\ table \in Seq([point : Points, volume : Volumes]) /\ Len(table) <= MaxMounts
  /\ volume \in [Volumes -> [dot : {"none", "plain", "sticky", "lapsed"}, shared : {"none", "own", "other"},
                             user : {"none", "own", "other"}, writable : BOOLEAN]]
  /\ \A i \in Items : at[i] = Erased \/ (at[i].root \in Volumes \cup {Home} /\ at[i].kind # "none")
  /\ run.due \subseteq Items

\* What was thrown away can be found: an item in a volume's trash is in one trash of the listing, and
\* in no second one, wherever the volume is mounted by now and however often.  A shared trash is left out
\* once its administrator has made it no longer one; and so is one at the top of a subvolume that is not mounted itself,
\* which an older kernel's ways lead to and the listing does not.
ListedOnce ==
  \A i \in Items : InTrash(i) /\ at[i].root # Home =>
    LET v == at[i].root IN
    (\E p \in Points : Mounted(p) = v) /\ (at[i].kind = "shared" => volume[v].dot # "lapsed") =>
      Cardinality({d \in Directories : In(RootOf(d), d.kind) = at[i]}) = 1

\* Nothing is thrown away on a volume whose trash nobody lists or a shutdown takes.
NotOnThose == \A i \in Items : InTrash(i) => at[i].root \notin HoldsNone

\* A run that was not cancelled leaves nothing of what it began with, but in trashes that failed or
\* whose volume went: "a volume that fails to empty [...] does not keep the others full" (trash.cpp:413).
EmptiesOthers == run.step = "ended" => run.due = {}
=============================================================================
