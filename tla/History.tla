------------------------------- MODULE History -------------------------------
(***************************************************************************)
(* The undo and redo stacks of TaskController (files/task.cpp:457-618).    *)
(*                                                                         *)
(* Items lie in places: folders, the trash, or nowhere.  A request takes a *)
(* set of items from one place to another; a task carries it out item by   *)
(* item on its own thread (module Task), next to other tasks, and is       *)
(* recorded when the finish closure it posted reaches the loop.            *)
(***************************************************************************)
EXTENDS Naturals, Sequences, FiniteSets, SequencesExt

CONSTANTS
  Items,
  Folders,
  Slots,              \* bounds the tasks alive at once
  MaxHistory          \* kMaxHistory

ASSUME HistoryAssumption == MaxHistory \in Nat \ {0} /\ IsFiniteSet(Items) /\ IsFiniteSet(Slots)

\* An item lies in a folder or in the trash, where its info file names the folder it came from.
At(folder) == <<"at", folder>>
InTrash(folder) == <<"trash", folder>>
Absent == <<"absent">>  \* a copy not made yet
Gone == <<"gone">>      \* deleted, or emptied from the trash
Trashed == {InTrash(f) : f \in Folders}
Living == {At(f) : f \in Folders}
AnyTrash == <<"trash">> \* where EmptyTrash takes from
Places == Living \cup Trashed \cup {Absent, Gone}

Ops == {"Copy", "Move", "Trash", "Restore", "Delete", "EmptyTrash"}
Histories == {"Fresh", "Undo", "Redo"}

\* A TaskRequest: which items it takes, from where, to where.
Request(op, items, from, to) == [op |-> op, items |-> items, from |-> from, to |-> to]
Requests == [op : Ops, items : SUBSET Items, from : Places \cup {AnyTrash}, to : Places]

VARIABLES
  place,        \* where each item is
  undo, redo,   \* m_undo, m_redo, the newest last
  tasks,        \* the task in each slot, or NoTask
  posted,       \* the slots whose finish closure is on the loop, oldest first
  \* What the properties look back on.
  origin,       \* where undoing everything would put each item
  coherent,     \* one task at a time so far, and nothing done that cannot be taken back
  emptied,      \* the items an EmptyTrash recorded as successful removed
  crossed       \* a task from before a fresh operation added to the redo stack after it

vars == <<place, undo, redo, tasks, posted, origin, coherent, emptied, crossed>>

NoTask == [phase |-> "none"]
NewTask(request, history) ==
  [phase |-> "queued", request |-> request, history |-> history, canceled |-> FALSE,
   completed |-> {}, outputs |-> {}, merged |-> FALSE, error |-> "none", forked |-> FALSE]

Free == {s \in Slots : tasks[s] = NoTask}
Idle == Free = Slots

Init ==
  /\ place \in [Items -> Living \cup {Absent}]
  /\ undo = <<>> /\ redo = <<>>
  /\ tasks = [s \in Slots |-> NoTask] /\ posted = <<>>
  /\ origin = place
  /\ coherent = TRUE /\ emptied = {} /\ crossed = FALSE

\* The history stops being coherent when the condition holds; nothing is looked back on then.
Remember(still, from, gone) ==
  /\ coherent' = (coherent /\ still)
  /\ origin' = IF coherent' THEN from ELSE [i \in Items |-> Gone]
  /\ emptied' = IF coherent' THEN gone ELSE {}

-----------------------------------------------------------------------------
(* submit, undo, redo, cancel: the UI thread.                              *)

\* A fresh submission forks the history of the undos and redos still under way.
Forked(slots) == [s \in Slots |-> IF tasks[s] # NoTask THEN [tasks[s] EXCEPT !.forked = TRUE] ELSE tasks[s]]

Launch(slot, request, history) ==
  /\ slot \in Free
  /\ tasks' = [(IF history = "Fresh" THEN Forked(Slots) ELSE tasks)
                 EXCEPT ![slot] = NewTask(request, history)]
  /\ Remember(Idle, origin, emptied)
  /\ UNCHANGED <<place, posted, crossed>>

\* What the user can ask for: every item lies where the request takes it from.
Ask(op, items, from, to) == [op : {op}, items : SUBSET items \ {{}}, from : {from}, to : to]
Within(where) == {i \in Items : place[i] = where}
FreshRequests ==
  UNION
    {Ask("Copy", Within(Absent), Absent, Living),
     UNION {Ask("Move", Within(p), p, Living \ {p}) : p \in Living \cup Trashed},
     UNION {Ask("Trash", Within(At(f)), At(f), {InTrash(f)}) : f \in Folders},
     UNION {Ask("Restore", Within(InTrash(f)), InTrash(f), {At(f)}) : f \in Folders},
     UNION {Ask("Delete", Within(p), p, {Gone}) : p \in Living \cup Trashed},
     {Request("EmptyTrash", {}, AnyTrash, Gone)}}

SubmitFresh ==
  \E slot \in Slots, request \in FreshRequests :
    /\ redo' = <<>>
    /\ Launch(slot, request, "Fresh")
    /\ UNCHANGED undo

Undo ==
  /\ undo # <<>>
  /\ undo' = Front(undo)
  /\ \E slot \in Slots : Launch(slot, Last(undo), "Undo")
  /\ UNCHANGED redo

Redo ==
  /\ redo # <<>>
  /\ redo' = Front(redo)
  /\ \E slot \in Slots : Launch(slot, Last(redo), "Redo")
  /\ UNCHANGED undo

Cancel ==
  \E s \in Slots \ Free :
    /\ tasks[s].phase # "ended" /\ ~tasks[s].canceled
    /\ tasks' = [tasks EXCEPT ![s].canceled = TRUE]
    /\ UNCHANGED <<place, undo, redo, posted, origin, coherent, emptied, crossed>>

-----------------------------------------------------------------------------
(* The threads of the tasks.                                               *)

\* The task starts; EmptyTrash lists what it is to empty.
Start(s) ==
  /\ tasks[s] # NoTask /\ tasks[s].phase = "queued"
  /\ tasks' = [tasks EXCEPT ![s].phase = "running",
                 ![s].request.items = IF tasks[s].request.op = "EmptyTrash" THEN {i \in Items : place[i] \in Trashed} ELSE @]
  /\ UNCHANGED <<place, undo, redo, posted, origin, coherent, emptied, crossed>>

Running(s) == tasks[s] # NoTask /\ tasks[s].phase = "running"
\* Mutant: the loop takes in what was not asked for.
LeftAnywhere(s) == Items \ tasks[s].completed
Left(s) == tasks[s].request.items \ tasks[s].completed

\* One item is moved; merging it into a folder already there makes the task irreversible.
MoveItem(s) ==
  /\ Running(s)
  /\ \E i \in Left(s), merges \in BOOLEAN :
       /\ IF tasks[s].request.from = AnyTrash THEN place[i] \in Trashed ELSE place[i] = tasks[s].request.from
       /\ merges => tasks[s].request.op \in {"Copy", "Move"}
       /\ place' = [place EXCEPT ![i] = tasks[s].request.to]
       /\ tasks' = [tasks EXCEPT ![s].completed = @ \cup {i}, ![s].outputs = @ \cup {i},
                                 ![s].merged = @ \/ merges]
  /\ UNCHANGED <<undo, redo, posted, origin, coherent, emptied, crossed>>

\* A conflict answered with Skip: the item is completed and stays where it is.
SkipItem(s) ==
  /\ Running(s) /\ tasks[s].request.op \in {"Copy", "Move", "Restore"}
  /\ \E i \in Left(s) : tasks' = [tasks EXCEPT ![s].completed = @ \cup {i}]
  /\ Remember(tasks[s].history = "Fresh", origin, emptied)
  /\ UNCHANGED <<place, undo, redo, posted, crossed>>

\* The thread ends: everything is done, an item failed, or the task was cancelled.
End(s) ==
  /\ Running(s)
  /\ \E error \in {"none", "failed", "canceled"} :
       /\ error = "none" => Left(s) = {}
       /\ error = "canceled" => tasks[s].canceled
       /\ tasks' = [tasks EXCEPT ![s].phase = "ended", ![s].error = error]
  /\ posted' = Append(posted, s)
  /\ UNCHANGED <<place, undo, redo, origin, coherent, emptied, crossed>>

-----------------------------------------------------------------------------
(* record(): the finish closure reaches the loop.                          *)

InverseOp(op) == CASE op = "Trash" -> "Restore" [] op = "Move" -> "Move" [] OTHER -> "Trash"

\* inverse(): nothing without outputs, after a merge, for what deletes, or out of a trash.
InverseOf(t) ==
  IF \/ t.outputs = {} \/ t.merged \/ t.request.op \in {"Delete", "EmptyTrash"}
     \/ (t.request.op = "Move" /\ t.request.from \in Trashed)
  THEN <<>>
  ELSE <<Request(InverseOp(t.request.op), t.outputs, t.request.to,
                 IF t.request.op = "Copy" THEN InTrash(t.request.to[2]) ELSE t.request.from)>>

\* Mutant: nothing is trimmed.
TrimNone(stack) == stack
\* The newest MaxHistory entries.
Trim(stack) == IF Len(stack) > MaxHistory THEN SubSeq(stack, Len(stack) - MaxHistory + 1, Len(stack)) ELSE stack
Dropped(stack) == SubSeq(stack, 1, Len(stack) - Len(Trim(stack)))

\* Mutant: a cancelled undo goes back on its stack whole.
RemainingWhole(t) ==
  IF t.history = "Fresh" \/ t.error # "canceled" \/ t.request.items = t.completed
  THEN <<>>
  ELSE <<t.request>>

\* A cancelled undo or redo keeps what it did not reach, on the stack it came from.
Remaining(t) ==
  IF t.history = "Fresh" \/ t.error # "canceled" \/ t.request.items = t.completed
  THEN <<>>
  ELSE <<[t.request EXCEPT !.items = @ \ t.completed]>>

\* The entries at some of a stack's positions, in their order.
Select(stack, kept) ==
  [n \in 1 .. Cardinality(kept) |-> stack[CHOOSE k \in kept : Cardinality({l \in kept : l <= k}) = n]]

\* Mutant: an EmptyTrash drops what would trash again, not what would restore.
ForgetTrashes(t, stack) ==
  IF t.request.op = "EmptyTrash" /\ t.error = "none"
  THEN Select(stack, {k \in DOMAIN stack : stack[k].op # "Trash"})
  ELSE stack

\* A successful EmptyTrash drops what would restore from the trash.
Forget(t, stack) ==
  IF t.request.op = "EmptyTrash" /\ t.error = "none"
  THEN Select(stack, {k \in DOMAIN stack : stack[k].op # "Restore"})
  ELSE stack

Push(stack, back) == IF back = <<>> THEN stack ELSE Trim(stack \o back)

\* Undoing everything no longer undoes the entries trimmed off.
OriginAfter(entries) ==
  [i \in Items |-> IF \E k \in DOMAIN entries : i \in entries[k].items
                   THEN entries[CHOOSE k \in DOMAIN entries :
                                  /\ i \in entries[k].items
                                  /\ \A l \in DOMAIN entries : i \in entries[l].items => l <= k].from
                   ELSE origin[i]]

\* What can no longer be taken back: a merge, an item moved out of the trash, what a failed
\* undo dropped, and the restoring of an item that an EmptyTrash forgot though it has left the trash.
Unrecoverable(t) ==
  \/ \E entry \in Range(undo) \cup Range(redo) :
       Forget(t, <<entry>>) = <<>> /\ \E i \in entry.items : place[i] # Gone
  \/ t.outputs # {} /\ (t.merged \/ (t.request.op = "Move" /\ t.request.from \in Trashed))
  \/ t.history # "Fresh" /\ t.error = "failed"

Record ==
  /\ posted # <<>>
  /\ posted' = Tail(posted)
  /\ LET slot == Head(posted)  t == tasks[slot]  back == InverseOf(t) IN
     /\ tasks' = [tasks EXCEPT ![slot] = NoTask]
     /\ undo' = Forget(t, IF t.history = "Undo" THEN undo \o Remaining(t) ELSE Push(undo, back))
     /\ redo' = Forget(t, IF t.history = "Undo" THEN Push(redo, back) ELSE redo \o Remaining(t))
     /\ Remember(~Unrecoverable(t),
                 IF t.history # "Undo" /\ back # <<>> THEN OriginAfter(Dropped(undo \o back)) ELSE origin,
                 IF t.request.op = "EmptyTrash" /\ t.error = "none" THEN emptied \cup t.outputs ELSE emptied)
     /\ crossed' = (crossed \/ (t.forked /\ Len(redo') > Len(redo)))
  /\ UNCHANGED place

Next ==
  \/ SubmitFresh \/ Undo \/ Redo \/ Cancel \/ Record
  \/ \E s \in Slots : MoveItem(s) \/ SkipItem(s) \/ End(s) \/ Start(s)

Spec == Init /\ [][Next]_vars

-----------------------------------------------------------------------------
(* Properties.                                                             *)

\* Every variable holds a value of its kind.
TypeOK ==
  /\ place \in [Items -> Places] /\ origin \in [Items -> Places]
  /\ undo \in Seq(Requests) /\ redo \in Seq(Requests)
  /\ \A s \in Slots \ Free :
       /\ tasks[s].request \in Requests /\ tasks[s].history \in Histories
       /\ tasks[s].outputs \subseteq tasks[s].completed
       /\ tasks[s].completed \subseteq tasks[s].request.items
       /\ tasks[s].phase = "ended" <=> \E k \in DOMAIN posted : posted[k] = s
  /\ \A k, l \in DOMAIN posted : posted[k] = posted[l] => k = l

\* The entries of a stack newer than the k-th that take an item.
Newer(stack, i, k) == {l \in DOMAIN stack : k < l /\ i \in stack[l].items}

\* Where carrying those out, the newest first, leaves an item that is somewhere now.
LeftBy(stack, i, k, now) ==
  IF Newer(stack, i, k) = {} THEN now
  ELSE stack[CHOOSE l \in Newer(stack, i, k) : \A m \in Newer(stack, i, k) : l <= m].to

\* Each entry finds an item where the newer ones leave it.
Replays(stack, i, now) ==
  \A k \in DOMAIN stack : i \in stack[k].items => stack[k].from = LeftBy(stack, i, k, now)

\* What there was no item of, undone, is in the trash.
Back(where, from) == where = from \/ (from = Absent /\ where \in Trashed)

\* One task at a time, the history stays coherent through cancelled and failed operations,
\* partly done undos and redos, and the trimming of old entries: every entry finds its items
\* where it takes them from, and undoing everything puts each item back where it was before
\* the oldest entry kept, a copy in the trash.
HistoryReplays ==
  Idle /\ coherent =>
    \A i \in Items : place[i] # Gone =>
      /\ Replays(undo, i, place[i]) /\ Replays(redo, i, place[i])
      /\ place[i] # Absent => Back(LeftBy(undo, i, 0, place[i]), origin[i])

\* "Emptied trash items cannot come back" (task.cpp:585): one task at a time, no entry of
\* either stack restores an item the trash was emptied of.
EmptiedForgotten ==
  coherent => \A entry \in Range(undo) \cup Range(redo) :
                   entry.op = "Restore" => entry.items \cap emptied = {}

\* Tasks whose undo (or redo) took its entry off the stack and may give it back.
InFlight(history) == {s \in Slots \ Free : tasks[s].history = history}

\* "A long session must not keep them all" (task.h:190): cancelled undos give entries back past
\* the limit, but with what is in flight a stack exceeds kMaxHistory by fewer than the tasks alive.
HistoryBounded ==
  /\ Len(undo) + Cardinality(InFlight("Undo")) <= MaxHistory + Cardinality(Slots) - 1
  /\ Len(redo) + Cardinality(InFlight("Redo")) <= MaxHistory + Cardinality(Slots) - 1

\* "What was undone before it can no longer be redone" (task.cpp:510): no task submitted
\* before a fresh operation adds to the redo stack after it.
FreshForks == ~crossed
=============================================================================
