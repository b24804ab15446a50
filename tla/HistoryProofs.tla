---------------------------- MODULE HistoryProofs ----------------------------
(***************************************************************************)
(* The undo and redo stacks, for every number of items, of folders, of     *)
(* tasks at once, and every limit.  First their bound, to which only the   *)
(* lengths of the stacks matter, and which tasks are undoing or redoing;   *)
(* then what their entries hold, and that an emptied trash is forgotten;   *)
(* last that the history replays: what each operation on a stack does to   *)
(* the chain of places along which it takes one item, and the invariant    *)
(* that at rest both chains start where the item is, and while a task is   *)
(* under way where it will leave the item or found it.                     *)
(***************************************************************************)
EXTENDS History, FiniteSetTheorems, WellFoundedInduction, TLAPS

-----------------------------------------------------------------------------
(* Lengths.                                                                *)

IsSeq(s) == \E S : s \in Seq(S)

LEMMA SeqLen == ASSUME NEW s, IsSeq(s) PROVE Len(s) \in Nat
BY DEF IsSeq

LEMMA NoneSeq == ASSUME NEW s, s = <<>> PROVE IsSeq(s) /\ Len(s) = 0
<1>1. s \in Seq({}) /\ Len(s) = 0
  OBVIOUS
<1> QED BY <1>1 DEF IsSeq

LEMMA OneSeq == ASSUME NEW s, NEW e, s = <<e>> PROVE IsSeq(s) /\ Len(s) = 1
<1>1. <<e>> \in Seq({e}) /\ Len(<<e>>) = 1
  OBVIOUS
<1> QED BY <1>1 DEF IsSeq

LEMMA SubSeqLen ==
  ASSUME NEW s, IsSeq(s), NEW m \in Nat, NEW n \in Nat, 1 <= m, m <= n + 1, n <= Len(s)
  PROVE  IsSeq(SubSeq(s, m, n)) /\ Len(SubSeq(s, m, n)) = n + 1 - m
<1>1. PICK S : s \in Seq(S)
  BY DEF IsSeq
<1>2. SubSeq(s, m, n) \in Seq(S) /\ Len(SubSeq(s, m, n)) = n + 1 - m
  BY <1>1
<1> QED BY <1>2 DEF IsSeq

LEMMA ConcatLen ==
  ASSUME NEW s, IsSeq(s), NEW t, IsSeq(t)
  PROVE  IsSeq(s \o t) /\ Len(s \o t) = Len(s) + Len(t)
<1>1. PICK S : s \in Seq(S)
  BY DEF IsSeq
<1>2. PICK T : t \in Seq(T)
  BY DEF IsSeq
<1>3. s \in Seq(S \cup T) /\ t \in Seq(S \cup T)
  BY <1>1, <1>2
<1>4. s \o t \in Seq(S \cup T) /\ Len(s \o t) = Len(s) + Len(t)
  BY <1>3
<1> QED BY <1>4 DEF IsSeq

LEMMA FrontLen ==
  ASSUME NEW s, IsSeq(s), s # <<>>
  PROVE  IsSeq(Front(s)) /\ Len(Front(s)) = Len(s) - 1
<1>1. Len(s) \in Nat /\ Len(s) # 0
  BY SeqLen DEF IsSeq
<1>2. PICK n \in Nat : n = Len(s) - 1
  BY <1>1
<1>3. 1 \in Nat /\ 1 <= 1 /\ 1 <= n + 1 /\ n <= Len(s) /\ n + 1 - 1 = n
  BY <1>1, <1>2
<1>4. IsSeq(SubSeq(s, 1, n)) /\ Len(SubSeq(s, 1, n)) = n + 1 - 1
  BY <1>3, SubSeqLen
<1> QED BY <1>2, <1>3, <1>4 DEF Front

LEMMA TrimLen ==
  ASSUME NEW s, IsSeq(s)
  PROVE  IsSeq(Trim(s)) /\ Len(Trim(s)) <= MaxHistory /\ Len(Trim(s)) \in Nat
<1>1. Len(s) \in Nat /\ MaxHistory \in Nat
  BY SeqLen, HistoryAssumption
<1>2. CASE Len(s) > MaxHistory
  <2>1. Len(s) - MaxHistory + 1 \in Nat
    BY <1>1, <1>2
  <2>2. /\ IsSeq(SubSeq(s, Len(s) - MaxHistory + 1, Len(s)))
        /\ Len(SubSeq(s, Len(s) - MaxHistory + 1, Len(s))) = MaxHistory
    BY <1>1, <1>2, <2>1, SubSeqLen
  <2> QED BY <1>1, <1>2, <2>2 DEF Trim
<1>3. CASE ~(Len(s) > MaxHistory)
  BY <1>1, <1>3 DEF Trim
<1> QED BY <1>2, <1>3

LEMMA SelectLen ==
  ASSUME NEW s, IsSeq(s), NEW kept \in SUBSET DOMAIN s
  PROVE  IsSeq(Select(s, kept)) /\ Len(Select(s, kept)) <= Len(s) /\ Len(Select(s, kept)) \in Nat
<1>1. Len(s) \in Nat /\ DOMAIN s = 1 .. Len(s)
  BY DEF IsSeq
<1>2. IsFiniteSet(1 .. Len(s)) /\ Cardinality(1 .. Len(s)) = Len(s)
  BY SMTT(30), <1>1, FS_Interval
<1>3. Cardinality(kept) \in Nat /\ Cardinality(kept) <= Len(s)
  BY <1>1, <1>2, FS_Subset, FS_CardinalityType
<1> DEFINE item(n) == s[CHOOSE k \in kept : Cardinality({l \in kept : l <= k}) = n]
           S == {item(n) : n \in 1 .. Cardinality(kept)}
<1>4. Select(s, kept) = [n \in 1 .. Cardinality(kept) |-> item(n)]
  BY DEF Select
<1> HIDE DEF item
<1>5. Select(s, kept) \in Seq(S) /\ Len(Select(s, kept)) = Cardinality(kept)
  BY <1>3, <1>4
<1> QED BY <1>3, <1>5 DEF IsSeq

LEMMA ForgetLen ==
  ASSUME NEW s, IsSeq(s), NEW t
  PROVE  IsSeq(Forget(t, s)) /\ Len(Forget(t, s)) <= Len(s) /\ Len(Forget(t, s)) \in Nat
<1> DEFINE kept == {k \in DOMAIN s : s[k].op # "Restore"}
<1>1. IsSeq(Select(s, kept)) /\ Len(Select(s, kept)) <= Len(s) /\ Len(Select(s, kept)) \in Nat
  BY SelectLen
<1>2. Len(s) \in Nat
  BY SeqLen
<1> QED BY <1>1, <1>2 DEF Forget

LEMMA RemainingLen ==
  ASSUME NEW t
  PROVE  IsSeq(Remaining(t)) /\ Len(Remaining(t)) \in 0 .. 1
<1>1. Remaining(t) = <<>> \/ \E e : Remaining(t) = <<e>>
  BY DEF Remaining
<1>2. CASE Remaining(t) = <<>>
  BY <1>2, NoneSeq
<1>3. ASSUME NEW e, Remaining(t) = <<e>> PROVE IsSeq(Remaining(t)) /\ Len(Remaining(t)) = 1
  BY <1>3, OneSeq
<1> QED BY <1>1, <1>2, <1>3

LEMMA InverseSeq == ASSUME NEW t PROVE IsSeq(InverseOf(t))
<1>1. InverseOf(t) = <<>> \/ \E e : InverseOf(t) = <<e>>
  BY DEF InverseOf
<1>2. CASE InverseOf(t) = <<>>
  BY <1>2, NoneSeq
<1>3. ASSUME NEW e, InverseOf(t) = <<e>> PROVE IsSeq(InverseOf(t)) /\ Len(InverseOf(t)) = 1
  BY <1>3, OneSeq
<1> QED BY <1>1, <1>2, <1>3

\* What is pushed leaves the stack within the limit, or leaves it alone.
LEMMA PushLen ==
  ASSUME NEW s, IsSeq(s), NEW back, IsSeq(back)
  PROVE  /\ IsSeq(Push(s, back)) /\ Len(Push(s, back)) \in Nat
         /\ Len(Push(s, back)) <= MaxHistory \/ Len(Push(s, back)) = Len(s)
<1>1. IsSeq(s \o back)
  BY ConcatLen
<1> QED BY <1>1, TrimLen, SeqLen DEF Push

-----------------------------------------------------------------------------
(* The invariant.                                                          *)

\* A task's record; its request and what it did are left open.
TaskRecords(request, completed, outputs) ==
  [phase : {"queued", "running", "ended"}, request : {request}, history : Histories,
   canceled : BOOLEAN, completed : {completed}, outputs : {outputs}, merged : BOOLEAN,
   error : {"none", "failed", "canceled"}, forked : BOOLEAN]
TaskOk(t) == \E request, completed, outputs : t \in TaskRecords(request, completed, outputs)

TasksOk ==
  /\ \E T : tasks \in [Slots -> T]
  /\ \A s \in Slots : tasks[s] = NoTask \/ TaskOk(tasks[s])

\* Every closure on the loop is of a task of its own that has ended.
PostedOk ==
  /\ posted \in Seq(Slots)
  /\ \A k \in 1 .. Len(posted) : /\ tasks[posted[k]] # NoTask /\ tasks[posted[k]].phase = "ended"
                                 /\ \A l \in 1 .. Len(posted) : posted[k] = posted[l] => k = l

StacksOk == IsSeq(undo) /\ IsSeq(redo)

HInv == TasksOk /\ PostedOk /\ StacksOk /\ HistoryBounded

LEMMA TaskIsNotNone == ASSUME NEW t, TaskOk(t) PROVE t # NoTask
<1>1. t.phase # "none"
  BY DEF TaskOk, TaskRecords
<1>2. NoTask.phase = "none"
  BY DEF NoTask
<1> QED BY <1>1, <1>2

LEMMA InFlightSet ==
  ASSUME NEW h
  PROVE  InFlight(h) = {s \in Slots : tasks[s] # NoTask /\ tasks[s].history = h}
BY DEF InFlight, Free

LEMMA InFlightFinite ==
  ASSUME NEW h
  PROVE  IsFiniteSet(InFlight(h)) /\ Cardinality(InFlight(h)) \in Nat /\ Cardinality(Slots) \in Nat
<1>1. InFlight(h) \subseteq Slots
  BY DEF InFlight
<1> QED BY <1>1, HistoryAssumption, FS_Subset, FS_CardinalityType

\* A slot that a history does not use leaves room in the bound.
LEMMA InFlightBelow ==
  ASSUME NEW h, NEW s \in Slots, s \notin InFlight(h)
  PROVE  Cardinality(InFlight(h)) <= Cardinality(Slots) - 1
<1>1. InFlight(h) \subseteq Slots \ {s}
  BY DEF InFlight
<1>2. IsFiniteSet(Slots \ {s})
  BY HistoryAssumption, FS_Subset
<1>3. Cardinality(Slots \ {s}) = Cardinality(Slots) - 1
  BY HistoryAssumption, FS_RemoveElement
<1> QED BY <1>1, <1>2, <1>3, FS_Subset

\* A stack's part of HistoryBounded.
Bounded(stack, h) == Len(stack) + Cardinality(InFlight(h)) <= MaxHistory + Cardinality(Slots) - 1

LEMMA BoundedParts == HistoryBounded <=> Bounded(undo, "Undo") /\ Bounded(redo, "Redo")
BY DEF HistoryBounded, Bounded

LEMMA HInvInit == Init => HInv
<1> SUFFICES ASSUME Init PROVE HInv
  OBVIOUS
<1>1. TasksOk
  <2>1. tasks \in [Slots -> {NoTask}]
    BY DEF Init
  <2> QED BY <2>1 DEF TasksOk
<1>2. PostedOk
  BY DEF Init, PostedOk
<1>3. undo = <<>> /\ redo = <<>>
  BY DEF Init
<1>4. StacksOk
  BY <1>3, NoneSeq DEF StacksOk
<1>5. \A h : InFlight(h) = {} /\ Cardinality(InFlight(h)) = 0
  BY InFlightSet, FS_EmptySet DEF Init
<1>6. Cardinality(Slots) \in Nat /\ MaxHistory \in Nat /\ MaxHistory >= 1
  BY HistoryAssumption, FS_CardinalityType
<1>7. HistoryBounded
  BY <1>3, <1>5, <1>6, NoneSeq DEF HistoryBounded
<1> QED BY <1>1, <1>2, <1>4, <1>7 DEF HInv

-----------------------------------------------------------------------------
(* Steps that touch no stack.                                              *)

\* Of one task, which stays in its slot.
LEMMA OneTask ==
  ASSUME HInv, NEW s \in Slots, tasks[s] # NoTask, UNCHANGED <<undo, redo>>,
         NEW u, TaskOk(u), u.history = tasks[s].history, tasks' = [tasks EXCEPT ![s] = u],
         \/ UNCHANGED posted /\ u.phase = tasks[s].phase
         \/ UNCHANGED posted /\ tasks[s].phase # "ended"
         \/ posted' = Append(posted, s) /\ tasks[s].phase # "ended" /\ u.phase = "ended"
  PROVE  HInv'
<1>1. tasks'[s] = u /\ \A r \in Slots \ {s} : tasks'[r] = tasks[r]
  BY DEF HInv, TasksOk
<1>2. u # NoTask
  BY TaskIsNotNone
<1>3. TasksOk'
  <2>1. PICK T : tasks \in [Slots -> T]
    BY DEF HInv, TasksOk
  <2>2. tasks' \in [Slots -> T \cup {u}]
    BY <2>1
  <2> QED BY <1>1, <2>2 DEF HInv, TasksOk, TaskOk
<1>4. \A h : InFlight(h)' = InFlight(h)
  BY <1>1, <1>2 DEF InFlight, Free
<1>5. PostedOk'
  <2>1. /\ posted \in Seq(Slots) /\ Len(posted) \in Nat
        /\ \A k \in 1 .. Len(posted) : posted[k] \in Slots
    BY DEF HInv, PostedOk
  <2>2. CASE UNCHANGED posted /\ u.phase = tasks[s].phase
    BY <1>1, <1>2, <2>1, <2>2 DEF HInv, PostedOk
  <2>3. CASE tasks[s].phase # "ended"
    <3>1. \A k \in 1 .. Len(posted) : posted[k] # s /\ tasks'[posted[k]] = tasks[posted[k]]
      BY <1>1, <2>1, <2>3 DEF HInv, PostedOk
    <3>2. CASE UNCHANGED posted
      BY <2>1, <3>1, <3>2 DEF HInv, PostedOk
    <3>3. CASE posted' = Append(posted, s) /\ u.phase = "ended"
      <4>1. /\ posted' \in Seq(Slots) /\ Len(posted') = Len(posted) + 1
            /\ posted'[Len(posted) + 1] = s
            /\ \A k \in 1 .. Len(posted) : posted'[k] = posted[k]
        BY <2>1, <3>3
      <4> QED BY <1>1, <1>2, <2>1, <3>1, <3>3, <4>1 DEF HInv, PostedOk
    <3> QED BY <2>3, <3>2, <3>3
  <2> QED BY <2>2, <2>3
<1>6. HistoryBounded'
  BY <1>4 DEF HInv, HistoryBounded
<1>7. StacksOk'
  BY DEF HInv, StacksOk
<1> QED BY <1>3, <1>5, <1>6, <1>7 DEF HInv

LEMMA OneTaskSteps ==
  ASSUME HInv, NEW s \in Slots, Start(s) \/ MoveItem(s) \/ SkipItem(s) \/ End(s)
  PROVE  HInv'
<1> DEFINE t == tasks[s]
<1>1. t # NoTask /\ TaskOk(t) /\ t.phase # "ended" /\ UNCHANGED <<undo, redo>>
  BY DEF HInv, TasksOk, Start, MoveItem, SkipItem, End, Running
<1>2. PICK r, c, o :
        t \in TaskRecords(r, c, o)
  BY <1>1 DEF TaskOk
<1>3. CASE Start(s)
  <2>1. PICK items : tasks' = [tasks EXCEPT ![s].phase = "running", ![s].request.items = items]
    BY <1>3 DEF Start
  <2> DEFINE u == [t EXCEPT !.phase = "running", !.request = [t.request EXCEPT !.items = items]]
  <2>2. tasks' = [tasks EXCEPT ![s] = u]
    BY <2>1 DEF HInv, TasksOk
  <2>3. TaskOk(u) /\ u.history = t.history
    <3>1. u \in TaskRecords([t.request EXCEPT !.items = items], c, o)
      BY <1>2 DEF TaskRecords
    <3> QED BY <1>2, <3>1 DEF TaskOk, TaskRecords
  <2> QED BY <1>1, <1>3, <2>2, <2>3, OneTask DEF Start
<1>4. CASE MoveItem(s)
  <2>1. PICK i \in Left(s), merges \in BOOLEAN :
          tasks' = [tasks EXCEPT ![s].completed = @ \cup {i}, ![s].outputs = @ \cup {i},
                                 ![s].merged = @ \/ merges]
    BY <1>4 DEF MoveItem
  <2> DEFINE u == [t EXCEPT !.completed = t.completed \cup {i}, !.outputs = t.outputs \cup {i},
                            !.merged = t.merged \/ merges]
  <2>2. tasks' = [tasks EXCEPT ![s] = u]
    BY <2>1 DEF HInv, TasksOk
  <2>3. TaskOk(u) /\ u.history = t.history
    <3>1. u \in TaskRecords(r, t.completed \cup {i}, t.outputs \cup {i})
      BY <1>2 DEF TaskRecords
    <3> QED BY <1>2, <3>1 DEF TaskOk, TaskRecords
  <2> QED BY <1>1, <1>4, <2>2, <2>3, OneTask DEF MoveItem
<1>5. CASE SkipItem(s)
  <2>1. PICK i : tasks' = [tasks EXCEPT ![s].completed = @ \cup {i}]
    BY <1>5 DEF SkipItem
  <2> DEFINE u == [t EXCEPT !.completed = t.completed \cup {i}]
  <2>2. tasks' = [tasks EXCEPT ![s] = u]
    BY <2>1 DEF HInv, TasksOk
  <2>3. TaskOk(u) /\ u.history = t.history
    <3>1. u \in TaskRecords(r, t.completed \cup {i}, o)
      BY <1>2 DEF TaskRecords
    <3> QED BY <1>2, <3>1 DEF TaskOk, TaskRecords
  <2> QED BY <1>1, <1>5, <2>2, <2>3, OneTask DEF SkipItem
<1>6. CASE End(s)
  <2>1. PICK e \in {"none", "failed", "canceled"} :
          tasks' = [tasks EXCEPT ![s].phase = "ended", ![s].error = e]
    BY <1>6 DEF End
  <2> DEFINE u == [t EXCEPT !.phase = "ended", !.error = e]
  <2>2. tasks' = [tasks EXCEPT ![s] = u]
    BY <2>1 DEF HInv, TasksOk
  <2>3. TaskOk(u) /\ u.history = t.history /\ u.phase = "ended"
    <3>1. u \in TaskRecords(r, c, o)
      BY <1>2 DEF TaskRecords
    <3> QED BY <1>2, <3>1 DEF TaskOk, TaskRecords
  <2> QED BY <1>1, <1>6, <2>2, <2>3, OneTask DEF End
<1> QED BY <1>3, <1>4, <1>5, <1>6

LEMMA CancelStep == ASSUME HInv, Cancel PROVE HInv'
<1>1. PICK s \in Slots \ Free :
        /\ tasks[s].phase # "ended"
        /\ tasks' = [tasks EXCEPT ![s].canceled = TRUE]
        /\ UNCHANGED <<undo, redo, posted>>
  BY DEF Cancel
<1> DEFINE u == [tasks[s] EXCEPT !.canceled = TRUE]
<1>2. tasks[s] # NoTask /\ TaskOk(tasks[s])
  BY DEF HInv, TasksOk, Free
<1>3. PICK r, c, o :
        tasks[s] \in TaskRecords(r, c, o)
  BY <1>2 DEF TaskOk
<1>4. u \in TaskRecords(r, c, o)
  BY <1>3 DEF TaskRecords
<1>5. TaskOk(u) /\ u.history = tasks[s].history
  BY <1>3, <1>4 DEF TaskOk, TaskRecords
<1>6. tasks' = [tasks EXCEPT ![s] = u]
  BY <1>1 DEF HInv, TasksOk
<1> QED BY <1>1, <1>2, <1>5, <1>6, OneTask

-----------------------------------------------------------------------------
(* A task is launched.                                                     *)

\* What a launch does to the tasks and to the loop.
LEMMA LaunchTasks ==
  ASSUME HInv, NEW slot, NEW request, NEW h \in Histories, Launch(slot, request, h)
  PROVE  /\ TasksOk' /\ PostedOk'
         /\ slot \in Slots /\ slot \notin InFlight(h)
         /\ InFlight(h)' = InFlight(h) \cup {slot}
         /\ \A g \in Histories \ {h} : InFlight(g)' = InFlight(g) /\ slot \notin InFlight(g)
<1> DEFINE new == NewTask(request, h)
           base == IF h = "Fresh" THEN Forked(Slots) ELSE tasks
<1>1. slot \in Slots /\ tasks[slot] = NoTask /\ tasks' = [base EXCEPT ![slot] = new] /\ UNCHANGED posted
  BY DEF Launch, Free
<1>2. TaskOk(new) /\ new.history = h
  <2>1. new \in TaskRecords(request, {}, {})
    BY DEF NewTask, TaskRecords
  <2> QED BY <2>1 DEF TaskOk, NewTask
<1>3. \A s \in Slots : /\ base[s] = NoTask \/ TaskOk(base[s])
                       /\ base[s] = NoTask <=> tasks[s] = NoTask
                       /\ tasks[s] # NoTask => /\ base[s].history = tasks[s].history
                                               /\ base[s].phase = tasks[s].phase
  <2> SUFFICES ASSUME NEW s \in Slots, tasks[s] # NoTask, h = "Fresh"
               PROVE  /\ TaskOk(base[s]) /\ base[s] # NoTask
                      /\ base[s].history = tasks[s].history /\ base[s].phase = tasks[s].phase
    BY DEF HInv, TasksOk, Forked
  <2>1. PICK r, c, o :
          tasks[s] \in TaskRecords(r, c, o)
    BY DEF HInv, TasksOk, TaskOk
  <2>2. base[s] = [tasks[s] EXCEPT !.forked = TRUE]
    BY DEF Forked
  <2>3. base[s] \in TaskRecords(r, c, o)
    BY <2>1, <2>2 DEF TaskRecords
  <2>4. TaskOk(base[s])
    BY <2>3 DEF TaskOk
  <2> QED BY <2>1, <2>2, <2>4, TaskIsNotNone DEF TaskRecords
<1>4. \E T : base \in [Slots -> T]
  <2>1. CASE h = "Fresh"
    <3>1. Forked(Slots) \in [Slots -> {Forked(Slots)[s] : s \in Slots}]
      BY DEF Forked
    <3> QED BY <2>1, <3>1
  <2>2. CASE h # "Fresh"
    BY <2>2 DEF HInv, TasksOk
  <2> QED BY <2>1, <2>2
<1> HIDE DEF base, new
<1>5. PICK T : base \in [Slots -> T]
  BY <1>4
<1>6. tasks' \in [Slots -> T \cup {new}]
  BY <1>1, <1>5
<1>7. tasks'[slot] = new /\ \A s \in Slots \ {slot} : tasks'[s] = base[s]
  BY <1>1, <1>5
<1>8. new # NoTask
  BY <1>2, TaskIsNotNone
<1>9. TasksOk'
  BY <1>2, <1>3, <1>6, <1>7 DEF TasksOk, TaskOk
<1>10. PostedOk'
  <2>1. /\ posted \in Seq(Slots)
        /\ \A k \in 1 .. Len(posted) : posted[k] \in Slots /\ posted[k] # slot
    BY <1>1 DEF HInv, PostedOk
  <2> QED BY <1>1, <1>3, <1>7, <2>1 DEF HInv, PostedOk
<1>11. \A g : slot \notin InFlight(g)
  BY <1>1 DEF InFlight, Free
<1>12. InFlight(h)' = InFlight(h) \cup {slot}
  BY <1>1, <1>2, <1>3, <1>7, <1>8 DEF InFlight, Free
<1>13. \A g \in Histories \ {h} : InFlight(g)' = InFlight(g)
  BY <1>1, <1>2, <1>3, <1>7, <1>8 DEF InFlight, Free
<1> QED BY <1>1, <1>9, <1>10, <1>11, <1>12, <1>13

LEMMA Sizes ==
  /\ MaxHistory \in Nat /\ MaxHistory >= 1 /\ Cardinality(Slots) \in Nat
  /\ \A h : Cardinality(InFlight(h)) \in Nat
BY HistoryAssumption, InFlightFinite, FS_CardinalityType

\* The launch adds its slot to what is in flight of its history.
LEMMA LaunchCount ==
  ASSUME HInv, NEW slot, NEW request, NEW h \in Histories, Launch(slot, request, h)
  PROVE  /\ Cardinality(InFlight(h))' = Cardinality(InFlight(h)) + 1
         /\ \A g \in Histories \ {h} : Cardinality(InFlight(g))' = Cardinality(InFlight(g))
<1>1. /\ slot \notin InFlight(h) /\ InFlight(h)' = InFlight(h) \cup {slot}
      /\ \A g \in Histories \ {h} : InFlight(g)' = InFlight(g)
  BY LaunchTasks
<1>2. IsFiniteSet(InFlight(h))
  BY InFlightFinite
<1>3. Cardinality(InFlight(h) \cup {slot}) = Cardinality(InFlight(h)) + 1
  BY <1>1, <1>2, FS_AddElement
<1> QED BY <1>1, <1>3

LEMMA UndoStep == ASSUME HInv, Undo PROVE HInv'
<1>1. PICK slot \in Slots : Launch(slot, Last(undo), "Undo")
  BY DEF Undo
<1>2. "Undo" \in Histories /\ "Redo" \in Histories \ {"Undo"}
  BY DEF Histories
<1>3. TasksOk' /\ PostedOk'
  BY <1>1, <1>2, LaunchTasks
<1>4. /\ Cardinality(InFlight("Undo"))' = Cardinality(InFlight("Undo")) + 1
      /\ Cardinality(InFlight("Redo"))' = Cardinality(InFlight("Redo"))
  BY <1>1, <1>2, LaunchCount
<1>5. IsSeq(undo') /\ Len(undo') = Len(undo) - 1 /\ redo' = redo
  BY FrontLen DEF Undo, HInv, StacksOk
<1>6. StacksOk'
  BY <1>5 DEF StacksOk, HInv
<1>7. HistoryBounded'
  <2>1. Len(undo) \in Nat
    BY SeqLen DEF HInv, StacksOk
  <2> QED BY <1>4, <1>5, <2>1, Sizes DEF HInv, HistoryBounded
<1> QED BY <1>3, <1>6, <1>7 DEF HInv

LEMMA RedoStep == ASSUME HInv, Redo PROVE HInv'
<1>1. PICK slot \in Slots : Launch(slot, Last(redo), "Redo")
  BY DEF Redo
<1>2. "Redo" \in Histories /\ "Undo" \in Histories \ {"Redo"}
  BY DEF Histories
<1>3. TasksOk' /\ PostedOk'
  BY <1>1, <1>2, LaunchTasks
<1>4. /\ Cardinality(InFlight("Redo"))' = Cardinality(InFlight("Redo")) + 1
      /\ Cardinality(InFlight("Undo"))' = Cardinality(InFlight("Undo"))
  BY <1>1, <1>2, LaunchCount
<1>5. IsSeq(redo') /\ Len(redo') = Len(redo) - 1 /\ undo' = undo
  BY FrontLen DEF Redo, HInv, StacksOk
<1>6. StacksOk'
  BY <1>5 DEF StacksOk, HInv
<1>7. HistoryBounded'
  <2>1. Len(redo) \in Nat
    BY SeqLen DEF HInv, StacksOk
  <2> QED BY <1>4, <1>5, <2>1, Sizes DEF HInv, HistoryBounded
<1> QED BY <1>3, <1>6, <1>7 DEF HInv

\* The slot the fresh task takes is not redoing, so the redos in flight leave room for it.
LEMMA SubmitFreshStep == ASSUME HInv, SubmitFresh PROVE HInv'
<1>1. PICK slot \in Slots, request \in FreshRequests : Launch(slot, request, "Fresh")
  BY DEF SubmitFresh
<1>2. "Fresh" \in Histories /\ {"Undo", "Redo"} \subseteq Histories \ {"Fresh"}
  BY DEF Histories
<1>3. /\ TasksOk' /\ PostedOk'
      /\ slot \notin InFlight("Redo")
  BY <1>1, <1>2, LaunchTasks
<1>4. /\ Cardinality(InFlight("Undo"))' = Cardinality(InFlight("Undo"))
      /\ Cardinality(InFlight("Redo"))' = Cardinality(InFlight("Redo"))
  BY <1>1, <1>2, LaunchCount
<1>5. Cardinality(InFlight("Redo")) <= Cardinality(Slots) - 1
  BY <1>3, InFlightBelow
<1>6. undo' = undo /\ redo' = <<>>
  BY DEF SubmitFresh
<1>7. IsSeq(redo') /\ Len(redo') = 0
  BY <1>6, NoneSeq
<1>8. StacksOk'
  BY <1>6, <1>7 DEF StacksOk, HInv
<1>9. HistoryBounded'
  BY <1>4, <1>5, <1>6, <1>7, Sizes DEF HInv, HistoryBounded
<1> QED BY <1>3, <1>8, <1>9 DEF HInv

-----------------------------------------------------------------------------
(* A task is recorded.                                                     *)

\* What the record leaves of the tasks and of the loop.
LEMMA RecordTasks ==
  ASSUME HInv, Record
  PROVE  /\ TasksOk' /\ PostedOk'
         /\ Head(posted) \in Slots
         /\ \A h : InFlight(h)' = InFlight(h) \ {Head(posted)}
         /\ \A h : Head(posted) \in InFlight(h) <=> tasks[Head(posted)].history = h
         /\ tasks[Head(posted)].history \in Histories
<1> DEFINE slot == Head(posted)
<1>1. /\ posted \in Seq(Slots) /\ posted # <<>> /\ Len(posted) \in Nat \ {0}
      /\ slot = posted[1] /\ slot \in Slots
  BY DEF HInv, PostedOk, Record
<1>2. /\ posted' \in Seq(Slots) /\ Len(posted') = Len(posted) - 1
      /\ \A k \in 1 .. Len(posted') : posted'[k] = posted[k + 1]
  BY <1>1 DEF Record
<1>3. tasks' = [tasks EXCEPT ![slot] = NoTask]
  BY DEF Record
<1>4. PICK T : tasks \in [Slots -> T]
  BY DEF HInv, TasksOk
<1>5. tasks' \in [Slots -> T \cup {NoTask}]
  BY <1>3, <1>4
<1>6. tasks'[slot] = NoTask /\ \A s \in Slots \ {slot} : tasks'[s] = tasks[s]
  BY <1>1, <1>3, <1>4
<1>7. tasks[slot] # NoTask
  BY <1>1 DEF HInv, PostedOk
<1>8. TasksOk'
  BY <1>5, <1>6 DEF HInv, TasksOk, TaskOk
<1>9. PostedOk'
  <2>1. \A k \in 1 .. Len(posted') : /\ k + 1 \in 1 .. Len(posted)
                                     /\ posted[k + 1] \in Slots /\ posted[k + 1] # slot
    BY <1>1, <1>2 DEF HInv, PostedOk
  <2>2. \A k \in 1 .. Len(posted') : tasks'[posted'[k]] = tasks[posted[k + 1]]
    BY <1>2, <1>6, <2>1
  <2>3. \A k \in 1 .. Len(posted') : tasks'[posted'[k]] # NoTask /\ tasks'[posted'[k]].phase = "ended"
    BY <2>1, <2>2 DEF HInv, PostedOk
  <2>4. \A k, l \in 1 .. Len(posted') : posted'[k] = posted'[l] => k = l
    <3> SUFFICES ASSUME NEW k \in 1 .. Len(posted'), NEW l \in 1 .. Len(posted'), posted'[k] = posted'[l]
                 PROVE  k = l
      OBVIOUS
    <3>1. posted[k + 1] = posted[l + 1] /\ k + 1 \in 1 .. Len(posted) /\ l + 1 \in 1 .. Len(posted)
      BY <1>2, <2>1
    <3>2. k + 1 = l + 1
      BY <3>1 DEF HInv, PostedOk
    <3> QED BY <1>1, <1>2, <3>2
  <2> QED BY <1>2, <2>3, <2>4 DEF PostedOk
<1>10. \A h : InFlight(h)' = InFlight(h) \ {slot}
  BY <1>6 DEF InFlight, Free
<1>11. \A h : slot \in InFlight(h) <=> tasks[slot].history = h
  BY <1>1, <1>7 DEF InFlight, Free
<1>12. tasks[slot].history \in Histories
  BY <1>1, <1>7 DEF HInv, TasksOk, TaskOk, TaskRecords
<1> QED BY <1>1, <1>8, <1>9, <1>10, <1>11, <1>12

\* The stack the task came from gets back at most the one entry the task had taken.
LEMMA GiveBack ==
  ASSUME HInv, Record, NEW h, NEW stack, IsSeq(stack), Bounded(stack, h),
         NEW t, tasks[Head(posted)].history = h
  PROVE  /\ IsSeq(Forget(t, stack \o Remaining(t)))
         /\ Len(Forget(t, stack \o Remaining(t))) + Cardinality(InFlight(h))' <= MaxHistory + Cardinality(Slots) - 1
<1>1. IsSeq(Remaining(t)) /\ Len(Remaining(t)) \in 0 .. 1
  BY RemainingLen
<1>2. PICK longer : longer = stack \o Remaining(t)
  OBVIOUS
<1>3. IsSeq(longer) /\ Len(longer) <= Len(stack) + 1 /\ Len(longer) \in Nat /\ Len(stack) \in Nat
  BY <1>1, <1>2, ConcatLen, SeqLen
<1>4. IsSeq(Forget(t, longer)) /\ Len(Forget(t, longer)) <= Len(longer) /\ Len(Forget(t, longer)) \in Nat
  BY <1>3, ForgetLen
<1>5. InFlight(h)' = InFlight(h) \ {Head(posted)} /\ Head(posted) \in InFlight(h)
  BY RecordTasks
<1>6. Cardinality(InFlight(h) \ {Head(posted)}) = Cardinality(InFlight(h)) - 1
  <2>1. PICK flight : flight = InFlight(h)
    OBVIOUS
  <2>2. IsFiniteSet(flight) /\ Head(posted) \in flight
    BY <1>5, <2>1, InFlightFinite
  <2>3. Cardinality(flight \ {Head(posted)}) = Cardinality(flight) - 1
    BY <2>2, FS_RemoveElement
  <2> QED BY <2>1, <2>3
<1> QED BY <1>2, <1>3, <1>4, <1>5, <1>6, Sizes DEF Bounded

\* The slot of the task recorded has left what is in flight, so a stack pushed to is bounded by
\* its limit and the other slots; a stack nothing is pushed to does not grow.
LEMMA PushedOn ==
  ASSUME HInv, Record, NEW h, NEW stack, IsSeq(stack), Bounded(stack, h), NEW t
  PROVE  /\ IsSeq(Forget(t, Push(stack, InverseOf(t))))
         /\ Len(Forget(t, Push(stack, InverseOf(t)))) + Cardinality(InFlight(h))'
              <= MaxHistory + Cardinality(Slots) - 1
<1>1. IsSeq(InverseOf(t))
  BY InverseSeq
<1>2. PICK pushed : pushed = Push(stack, InverseOf(t))
  OBVIOUS
<1>3. /\ IsSeq(pushed) /\ Len(pushed) \in Nat /\ Len(stack) \in Nat
      /\ Len(pushed) <= MaxHistory \/ Len(pushed) = Len(stack)
  BY <1>1, <1>2, PushLen, SeqLen
<1>4. IsSeq(Forget(t, pushed)) /\ Len(Forget(t, pushed)) <= Len(pushed) /\ Len(Forget(t, pushed)) \in Nat
  BY <1>3, ForgetLen
<1>5. PICK left : left = InFlight(h) \ {Head(posted)}
  OBVIOUS
<1>6. InFlight(h)' = left /\ Head(posted) \in Slots
  BY <1>5, RecordTasks
<1>7. /\ Cardinality(left) \in Nat /\ Cardinality(left) <= Cardinality(InFlight(h))
      /\ Cardinality(left) <= Cardinality(Slots) - 1
  <2>1. left \subseteq InFlight(h) /\ left \subseteq Slots \ {Head(posted)}
    BY <1>5 DEF InFlight
  <2>2. IsFiniteSet(InFlight(h)) /\ IsFiniteSet(Slots \ {Head(posted)})
    BY InFlightFinite, HistoryAssumption, FS_Subset
  <2>3. Cardinality(Slots \ {Head(posted)}) = Cardinality(Slots) - 1
    BY <1>6, HistoryAssumption, FS_RemoveElement
  <2> QED BY <2>1, <2>2, <2>3, FS_Subset, FS_CardinalityType
<1> QED BY <1>2, <1>3, <1>4, <1>6, <1>7, Sizes DEF Bounded

\* A fresh task gives nothing back.
LEMMA NothingBack ==
  ASSUME HInv, Record, NEW stack, IsSeq(stack), Bounded(stack, "Redo"),
         NEW t, t = tasks[Head(posted)], t.history \notin {"Undo", "Redo"}
  PROVE  /\ IsSeq(Forget(t, stack \o Remaining(t)))
         /\ Len(Forget(t, stack \o Remaining(t))) + Cardinality(InFlight("Redo"))'
              <= MaxHistory + Cardinality(Slots) - 1
<1>1. t.history = "Fresh"
  BY RecordTasks DEF Histories
<1>2. Remaining(t) = <<>>
  BY <1>1 DEF Remaining
<1>3. PICK same : same = stack \o Remaining(t)
  OBVIOUS
<1>4. IsSeq(same) /\ Len(same) = Len(stack) /\ Len(stack) \in Nat
  BY <1>2, <1>3, NoneSeq, ConcatLen, SeqLen
<1>5. IsSeq(Forget(t, same)) /\ Len(Forget(t, same)) <= Len(same) /\ Len(Forget(t, same)) \in Nat
  BY <1>4, ForgetLen
<1>6. InFlight("Redo")' = InFlight("Redo")
  BY <1>1, RecordTasks
<1> QED BY <1>3, <1>4, <1>5, <1>6, Sizes DEF Bounded

LEMMA RecordStep == ASSUME HInv, Record PROVE HInv'
<1> DEFINE t == tasks[Head(posted)]
<1>1. /\ undo' = Forget(t, IF t.history = "Undo" THEN undo \o Remaining(t) ELSE Push(undo, InverseOf(t)))
      /\ redo' = Forget(t, IF t.history = "Undo" THEN Push(redo, InverseOf(t)) ELSE redo \o Remaining(t))
  BY DEF Record
<1>2. /\ IsSeq(undo) /\ IsSeq(redo)
      /\ Bounded(undo, "Undo") /\ Bounded(redo, "Redo")
  BY BoundedParts DEF HInv, StacksOk
<1>3. TasksOk' /\ PostedOk'
  BY RecordTasks
<1>4. /\ IsSeq(undo')
      /\ Len(undo') + Cardinality(InFlight("Undo"))' <= MaxHistory + Cardinality(Slots) - 1
  <2>1. CASE t.history = "Undo"
    BY <1>1, <1>2, <2>1, GiveBack
  <2>2. CASE t.history # "Undo"
    BY <1>1, <1>2, <2>2, PushedOn
  <2> QED BY <2>1, <2>2
<1>5. /\ IsSeq(redo')
      /\ Len(redo') + Cardinality(InFlight("Redo"))' <= MaxHistory + Cardinality(Slots) - 1
  <2>1. CASE t.history = "Undo"
    BY <1>1, <1>2, <2>1, PushedOn
  <2>2. CASE t.history = "Redo"
    BY <1>1, <1>2, <2>2, GiveBack
  <2>3. CASE t.history \notin {"Undo", "Redo"}
    BY <1>1, <1>2, <2>3, NothingBack
  <2> QED BY <2>1, <2>2, <2>3
<1> QED BY <1>3, <1>4, <1>5 DEF HInv, StacksOk, HistoryBounded

-----------------------------------------------------------------------------
(* The theorem.                                                            *)

LEMMA HInvStep == ASSUME HInv, [Next]_vars PROVE HInv'
<1>1. CASE SubmitFresh
  BY <1>1, SubmitFreshStep
<1>2. CASE Undo
  BY <1>2, UndoStep
<1>3. CASE Redo
  BY <1>3, RedoStep
<1>4. CASE Cancel
  BY <1>4, CancelStep
<1>5. CASE Record
  BY <1>5, RecordStep
<1>6. CASE \E s \in Slots : MoveItem(s) \/ SkipItem(s) \/ End(s) \/ Start(s)
  BY <1>6, OneTaskSteps
<1>7. CASE UNCHANGED vars
  BY <1>7 DEF vars, HInv, TasksOk, TaskOk, PostedOk, StacksOk, HistoryBounded, InFlight, Free
<1> QED BY <1>1, <1>2, <1>3, <1>4, <1>5, <1>6, <1>7 DEF Next

\* With any number of tasks undoing and redoing at once, cancelled, failed or finished in any
\* order, each stack holds at most kMaxHistory entries and one more for every other task alive
\* (task.cpp:457-618), whatever the items and the limit.
THEOREM BoundedCorrect == Spec => []HistoryBounded
<1>1. Init => HInv
  BY HInvInit
<1>2. HInv /\ [Next]_vars => HInv'
  BY HInvStep
<1>3. HInv => HistoryBounded
  BY DEF HInv
<1> QED BY <1>1, <1>2, <1>3, PTL DEF Spec

-----------------------------------------------------------------------------
(* The entries that Select keeps.                                          *)

Less == {p \in Nat \X Nat : p[1] < p[2]}

LEMMA Least == ASSUME NEW T, T \subseteq Nat, T # {} PROVE \E m \in T : \A k \in T : m <= k
<1>1. IsWellFoundedOn(Less, Nat)
  BY NatLessThanWellFounded DEF OpToRel, Less
<1>2. PICK m \in T : \A k \in T : <<k, m>> \notin Less
  BY <1>1, WFMin
<1>3. ASSUME NEW k \in T PROVE m <= k
  <2>1. k \in Nat /\ m \in Nat /\ <<k, m>> \in Nat \X Nat
    OBVIOUS
  <2>2. ~(<<k, m>>[1] < <<k, m>>[2])
    BY <1>2, <2>1 DEF Less
  <2> QED BY <2>1, <2>2
<1> QED BY <1>3

LEMMA Greatest == ASSUME NEW n \in Nat, NEW T, T \subseteq 1 .. n, T # {} PROVE \E m \in T : \A k \in T : k <= m
<1> DEFINE U == {n - k : k \in T}
<1>1. \A k \in T : k \in Nat /\ k <= n /\ n - k \in Nat
  OBVIOUS
<1>2. U \subseteq Nat /\ U # {}
  BY <1>1
<1> HIDE DEF U
<1>3. PICK u \in U : \A k \in U : u <= k
  BY <1>2, Least
<1>4. PICK m \in T : u = n - m
  BY DEF U
<1>5. ASSUME NEW k \in T PROVE k <= m
  <2>1. n - k \in U
    BY DEF U
  <2> QED BY <1>1, <1>3, <1>4, <2>1
<1> QED BY <1>5

\* Among some positions, one has any given rank.
LEMMA Ranked ==
  ASSUME NEW size \in Nat, NEW kept \in SUBSET (1 .. size), NEW n \in 1 .. Cardinality(kept)
  PROVE  \E k \in kept : Cardinality({l \in kept : l <= k}) = n
<1> DEFINE upTo(k) == {l \in kept : l <= k}
           T == {k \in kept : Cardinality(upTo(k)) >= n}
<1>1. IsFiniteSet(kept) /\ Cardinality(kept) \in Nat
  <2>1. IsFiniteSet(1 .. size)
    BY FS_Interval
  <2> QED BY <2>1, FS_Subset, FS_CardinalityType
<1>2. \A k \in kept : k \in Nat /\ IsFiniteSet(upTo(k)) /\ Cardinality(upTo(k)) \in Nat
  <2> SUFFICES ASSUME NEW k \in kept PROVE k \in Nat /\ IsFiniteSet(upTo(k)) /\ Cardinality(upTo(k)) \in Nat
    OBVIOUS
  <2>1. upTo(k) \subseteq kept
    OBVIOUS
  <2> QED BY <1>1, <2>1, FS_Subset, FS_CardinalityType
<1>3. T # {}
  <2>1. kept # {}
    BY FS_EmptySet
  <2>2. PICK m \in kept : \A k \in kept : k <= m
    BY <2>1, Greatest
  <2>3. upTo(m) = kept
    BY <2>2
  <2> QED BY <1>1, <2>3
<1>4. T \subseteq Nat
  BY <1>2
<1>5. PICK m \in T : \A k \in T : m <= k
  BY <1>3, <1>4, Least
<1> DEFINE below == upTo(m) \ {m}
<1>6. m \in kept /\ m \in Nat /\ IsFiniteSet(below) /\ Cardinality(below) \in Nat
      /\ Cardinality(upTo(m)) = Cardinality(below) + 1 /\ Cardinality(upTo(m)) >= n
  <2>1. m \in kept /\ m \in Nat /\ Cardinality(upTo(m)) >= n /\ m \in upTo(m) /\ IsFiniteSet(upTo(m))
    BY <1>2
  <2>2. IsFiniteSet(below) /\ Cardinality(below) = Cardinality(upTo(m)) - 1
    BY <2>1, FS_RemoveElement
  <2>3. Cardinality(below) \in Nat /\ Cardinality(upTo(m)) \in Nat
    BY <1>2, <2>1, <2>2, FS_CardinalityType
  <2> QED BY <2>1, <2>2, <2>3
<1>7. CASE below = {}
  <2>1. Cardinality(below) = 0
    BY <1>7, FS_EmptySet
  <2> QED BY <1>6, <2>1
<1>8. CASE below # {}
  <2>1. PICK p \in below : \A k \in below : k <= p
    <3>1. below \subseteq 1 .. size
      OBVIOUS
    <3> QED BY <1>8, <3>1, Greatest
  <2>2. p \in kept /\ p \in Nat /\ p < m
    BY <1>2, <1>6
  <2>3. upTo(p) = below
    <3>1. ASSUME NEW l \in below PROVE l \in upTo(p)
      BY <2>1
    <3>2. ASSUME NEW l \in upTo(p) PROVE l \in below
      <4>1. l \in kept /\ l \in Nat /\ l <= p
        BY <1>2
      <4>2. l <= m /\ l # m
        BY <1>6, <2>2, <4>1
      <4> QED BY <4>1, <4>2
    <3> QED BY <3>1, <3>2
  <2>4. ~(Cardinality(upTo(p)) >= n)
    <3>1. p \in T => m <= p
      BY <1>5
    <3> QED BY <1>6, <2>2, <3>1
  <2>5. Cardinality(upTo(p)) = Cardinality(below)
    BY <2>3
  <2> HIDE DEF upTo, below
  <2>6. Cardinality(upTo(m)) = n
    BY <1>6, <2>4, <2>5
  <2> QED BY <1>6, <2>6 DEF upTo
<1> QED BY <1>7, <1>8

-----------------------------------------------------------------------------
(* What the entries hold.                                                  *)

\* What a task may be asked to do, and what a stack may hold of it.
Entries ==
  {r \in Requests :
     /\ r.from # Gone /\ (r.from = AnyTrash => r.op = "EmptyTrash")
     /\ (r.to = Gone <=> r.op \in {"Delete", "EmptyTrash"})
     /\ r.op = "Copy" => r.to \in Living
     /\ r.op = "Restore" => r.items \cap emptied = {}}
Held == {r \in Entries : r.op \notin {"Delete", "EmptyTrash"}}

World ==
  /\ place \in [Items -> Places] /\ origin \in [Items -> Places]
  /\ coherent \in BOOLEAN /\ emptied \subseteq Items
  /\ \A i \in emptied : place[i] = Gone
  /\ ~coherent => emptied = {}

StacksHeld == undo \in Seq(Held) /\ redo \in Seq(Held)

\* What an EmptyTrash removed stays gone; what any other task made was not emptied.
Sound(t) ==
  /\ t.request \in Entries
  /\ t.history # "Fresh" => t.request \in Held
  /\ t.outputs \subseteq t.completed /\ t.completed \subseteq t.request.items
  /\ t.phase = "queued" => t.completed = {}
  /\ t.request.op = "EmptyTrash" => \A i \in t.outputs : place[i] = Gone
  /\ t.request.op \notin {"Delete", "EmptyTrash"} => t.outputs \cap emptied = {}
TasksSound == \A s \in Slots : tasks[s] # NoTask => Sound(tasks[s])

EndedPosted ==
  \A s \in Slots : tasks[s] # NoTask /\ tasks[s].phase = "ended" => \E k \in 1 .. Len(posted) : posted[k] = s
Alone == coherent => \A s, r \in Slots : tasks[s] # NoTask /\ tasks[r] # NoTask => s = r

EInv == World /\ StacksHeld /\ TasksSound /\ EndedPosted /\ Alone

LEMMA PlacesApart ==
  /\ {Gone, Absent} \subseteq Places /\ Living \subseteq Places /\ Trashed \subseteq Places
  /\ AnyTrash \notin Places
  /\ Gone \notin Living \cup Trashed \cup {Absent, AnyTrash} /\ Absent \notin Living \cup Trashed
  /\ \A p \in Living : p[2] \in Folders /\ InTrash(p[2]) \in Trashed
<1>1. /\ Gone[1] = "gone" /\ Absent[1] = "absent" /\ AnyTrash[1] = "trash" /\ Len(AnyTrash) = 1
      /\ \A f : At(f)[1] = "at" /\ InTrash(f)[1] = "trash" /\ Len(InTrash(f)) = 2 /\ At(f)[2] = f
  BY DEF Gone, Absent, AnyTrash, At, InTrash
<1>2. \A p \in Living : p[1] = "at"
  BY <1>1 DEF Living
<1>3. \A p \in Trashed : p[1] = "trash" /\ Len(p) = 2
  BY <1>1 DEF Trashed
<1>4. AnyTrash \notin Places
  BY <1>1, <1>2, <1>3 DEF Places
<1>5. \A p \in Living : p[2] \in Folders /\ InTrash(p[2]) \in Trashed
  BY <1>1 DEF Living, Trashed
<1> QED BY <1>1, <1>2, <1>3, <1>4, <1>5 DEF Places

\* Entries of a set stay in it through all that is done to a stack.
LEMMA StackOps ==
  ASSUME NEW S, NEW stack \in Seq(S)
  PROVE  /\ Trim(stack) \in Seq(S) /\ Dropped(stack) \in Seq(S)
         /\ stack # <<>> => Front(stack) \in Seq(S) /\ Last(stack) \in S
         /\ \A back \in Seq(S) : Push(stack, back) \in Seq(S)
<1>1. ASSUME NEW longer \in Seq(S) PROVE Trim(longer) \in Seq(S) /\ Len(Trim(longer)) <= Len(longer) /\ Len(Trim(longer)) \in Nat
  <2>1. CASE Len(longer) > MaxHistory
    <3>1. /\ Len(longer) \in Nat /\ MaxHistory \in Nat
          /\ Len(longer) - MaxHistory + 1 \in 1 .. Len(longer) + 1
      BY <2>1, HistoryAssumption
    <3>2. Trim(longer) = SubSeq(longer, Len(longer) - MaxHistory + 1, Len(longer))
      BY <2>1 DEF Trim
    <3> QED BY <3>1, <3>2
  <2>2. CASE ~(Len(longer) > MaxHistory)
    BY <2>2 DEF Trim
  <2> QED BY <2>1, <2>2
<1>2. Dropped(stack) \in Seq(S)
  <2>1. Len(stack) - Len(Trim(stack)) \in 0 .. Len(stack)
    BY <1>1
  <2> QED BY <2>1 DEF Dropped
<1>3. ASSUME stack # <<>> PROVE Front(stack) \in Seq(S) /\ Last(stack) \in S
  BY <1>3 DEF Front, Last
<1>4. ASSUME NEW back \in Seq(S) PROVE Push(stack, back) \in Seq(S)
  <2>1. stack \o back \in Seq(S)
    OBVIOUS
  <2> QED BY <1>1, <2>1 DEF Push
<1> QED BY <1>1, <1>2, <1>3, <1>4

LEMMA SelectKept ==
  ASSUME NEW S, NEW stack \in Seq(S), NEW kept \in SUBSET DOMAIN stack
  PROVE  Select(stack, kept) \in Seq({stack[k] : k \in kept})
<1>1. Len(stack) \in Nat /\ kept \in SUBSET (1 .. Len(stack))
  OBVIOUS
<1>2. Cardinality(kept) \in Nat
  <2>1. IsFiniteSet(1 .. Len(stack))
    BY <1>1, FS_Interval
  <2> QED BY <1>1, <2>1, FS_Subset, FS_CardinalityType
<1> DEFINE at(n) == CHOOSE k \in kept : Cardinality({l \in kept : l <= k}) = n
<1>3. \A n \in 1 .. Cardinality(kept) : at(n) \in kept
  BY <1>1, Ranked
<1>4. Select(stack, kept) = [n \in 1 .. Cardinality(kept) |-> stack[at(n)]]
  BY DEF Select
<1> HIDE DEF at
<1> QED BY <1>2, <1>3, <1>4

\* A successful EmptyTrash leaves no entry that restores.
LEMMA ForgetKept ==
  ASSUME NEW S, NEW stack \in Seq(S), NEW t
  PROVE  IF t.request.op = "EmptyTrash" /\ t.error = "none"
         THEN Forget(t, stack) \in Seq({r \in S : r.op # "Restore"})
         ELSE Forget(t, stack) = stack
<1> DEFINE kept == {k \in DOMAIN stack : stack[k].op # "Restore"}
<1>1. Select(stack, kept) \in Seq({stack[k] : k \in kept})
  BY SelectKept
<1>2. {stack[k] : k \in kept} \subseteq {r \in S : r.op # "Restore"}
  OBVIOUS
<1>3. Select(stack, kept) \in Seq({r \in S : r.op # "Restore"})
  BY <1>1, <1>2
<1> QED BY <1>3 DEF Forget

-----------------------------------------------------------------------------
(* Launching.                                                              *)

\* While nothing more is emptied, entries stay entries.
LEMMA EntriesStay ==
  ASSUME emptied' \subseteq emptied
  PROVE  Entries \subseteq Entries' /\ Held \subseteq Held' /\ Seq(Held) \subseteq Seq(Held')
<1>1. Entries \subseteq Entries'
  BY DEF Entries
<1>2. Held \subseteq Held'
  BY <1>1 DEF Held
<1> QED BY <1>1, <1>2

LEMMA FreshAreEntries == ASSUME World PROVE FreshRequests \subseteq Entries
<1> SUFFICES ASSUME NEW r \in FreshRequests PROVE r \in Entries
  OBVIOUS
<1> USE PlacesApart DEF Entries, Requests, Ops, Ask, Within
<1>1. CASE r \in Ask("Copy", Within(Absent), Absent, Living)
  BY <1>1
<1>2. ASSUME NEW p \in Living \cup Trashed, r \in Ask("Move", Within(p), p, Living \ {p}) PROVE r \in Entries
  BY <1>2
<1>3. ASSUME NEW f \in Folders, r \in Ask("Trash", Within(At(f)), At(f), {InTrash(f)}) PROVE r \in Entries
  BY <1>3 DEF Living, Trashed
<1>4. ASSUME NEW f \in Folders, r \in Ask("Restore", Within(InTrash(f)), InTrash(f), {At(f)}) PROVE r \in Entries
  <2>1. r.items \cap emptied = {}
    BY <1>4 DEF World, Trashed
  <2> QED BY <1>4, <2>1 DEF Living, Trashed
<1>5. ASSUME NEW p \in Living \cup Trashed, r \in Ask("Delete", Within(p), p, {Gone}) PROVE r \in Entries
  BY <1>5
<1>6. CASE r = Request("EmptyTrash", {}, AnyTrash, Gone)
  BY <1>6 DEF Request
<1> QED BY <1>1, <1>2, <1>3, <1>4, <1>5, <1>6 DEF FreshRequests

\* Two tasks at once are the end of a coherent history.
LEMMA LaunchSound ==
  ASSUME HInv, EInv, NEW slot, NEW request \in Entries, NEW h \in Histories,
         h # "Fresh" => request \in Held, Launch(slot, request, h)
  PROVE  World' /\ TasksSound' /\ EndedPosted' /\ Alone' /\ Seq(Held) \subseteq Seq(Held')
<1> DEFINE new == NewTask(request, h)
           base == IF h = "Fresh" THEN Forked(Slots) ELSE tasks
<1>1. /\ slot \in Slots /\ tasks[slot] = NoTask /\ tasks' = [base EXCEPT ![slot] = new]
      /\ UNCHANGED <<place, posted>> /\ Remember(Idle, origin, emptied)
  BY DEF Launch, Free
<1>2. World' /\ emptied' \subseteq emptied /\ coherent' = (coherent /\ Idle)
  BY <1>1, PlacesApart DEF EInv, World, Remember
<1>3. Entries \subseteq Entries' /\ Held \subseteq Held' /\ Seq(Held) \subseteq Seq(Held')
  BY <1>2, EntriesStay
<1>4. \A s \in Slots : /\ base[s] = NoTask <=> tasks[s] = NoTask
                       /\ tasks[s] # NoTask => \E forked \in BOOLEAN : base[s] = [tasks[s] EXCEPT !.forked = forked]
  <2>1. ASSUME NEW s \in Slots, tasks[s] # NoTask
        PROVE  /\ [tasks[s] EXCEPT !.forked = TRUE] # NoTask
               /\ tasks[s] = [tasks[s] EXCEPT !.forked = tasks[s].forked] /\ tasks[s].forked \in BOOLEAN
    <3>1. PICK r, c, o : tasks[s] \in TaskRecords(r, c, o)
      BY <2>1 DEF HInv, TasksOk, TaskOk
    <3>2. [tasks[s] EXCEPT !.forked = TRUE] \in TaskRecords(r, c, o)
      BY <3>1 DEF TaskRecords
    <3>3. TaskOk([tasks[s] EXCEPT !.forked = TRUE])
      BY <3>2 DEF TaskOk
    <3> QED BY <3>1, <3>3, TaskIsNotNone DEF TaskRecords
  <2> QED BY <2>1 DEF Forked
<1>5. \E T : base \in [Slots -> T]
  <2>1. Forked(Slots) \in [Slots -> {Forked(Slots)[s] : s \in Slots}]
    BY DEF Forked
  <2> QED BY <2>1 DEF HInv, TasksOk
<1> HIDE DEF base
<1>6. tasks'[slot] = new /\ \A s \in Slots \ {slot} : tasks'[s] = base[s]
  BY <1>1, <1>5
<1>7. \A s \in Slots \ {slot} : tasks'[s] # NoTask =>
        /\ tasks[s] # NoTask /\ Sound(tasks[s])
        /\ \E forked \in BOOLEAN : tasks'[s] = [tasks[s] EXCEPT !.forked = forked]
  BY <1>4, <1>6 DEF EInv, TasksSound
<1>8. \A s \in Slots \ {slot} : tasks'[s] # NoTask =>
        /\ tasks'[s].request = tasks[s].request /\ tasks'[s].history = tasks[s].history
        /\ tasks'[s].outputs = tasks[s].outputs /\ tasks'[s].completed = tasks[s].completed
        /\ tasks'[s].phase = tasks[s].phase
  <2> SUFFICES ASSUME NEW s \in Slots \ {slot}, tasks'[s] # NoTask
               PROVE  /\ tasks'[s].request = tasks[s].request /\ tasks'[s].history = tasks[s].history
                      /\ tasks'[s].outputs = tasks[s].outputs /\ tasks'[s].completed = tasks[s].completed
                      /\ tasks'[s].phase = tasks[s].phase
    OBVIOUS
  <2>1. PICK r, c, o : tasks[s] \in TaskRecords(r, c, o)
    BY <1>7 DEF HInv, TasksOk, TaskOk
  <2> QED BY <1>7, <2>1 DEF TaskRecords
<1>9. \A s \in Slots \ {slot} : tasks'[s] # NoTask => Sound(tasks[s])'
  BY <1>1, <1>2, <1>3, <1>7, <1>8 DEF Sound
<1>10. Sound(tasks[slot])'
  BY <1>3, <1>6 DEF Sound, NewTask, Held
<1>11. TasksSound'
  BY <1>9, <1>10 DEF TasksSound
<1>12. EndedPosted'
  <2>1. new.phase = "queued"
    BY DEF NewTask
  <2> QED BY <1>1, <1>6, <1>7, <1>8, <2>1 DEF EInv, EndedPosted
<1>13. Alone'
  <2>1. ASSUME coherent', NEW s \in Slots \ {slot} PROVE tasks'[s] = NoTask
    BY <1>2, <1>4, <1>6, <2>1 DEF Idle, Free
  <2> QED BY <2>1 DEF Alone
<1> QED BY <1>2, <1>3, <1>11, <1>12, <1>13

LEMMA LaunchSteps == ASSUME HInv, EInv, SubmitFresh \/ Undo \/ Redo PROVE EInv'
<1> USE DEF EInv, StacksHeld, Histories
<1>1. CASE SubmitFresh
  <2>1. PICK slot \in Slots, request \in FreshRequests :
          Launch(slot, request, "Fresh") /\ redo' = <<>> /\ UNCHANGED undo
    BY <1>1 DEF SubmitFresh
  <2>2. request \in Entries
    BY FreshAreEntries
  <2>3. World' /\ TasksSound' /\ EndedPosted' /\ Alone' /\ Seq(Held) \subseteq Seq(Held')
    BY <2>1, <2>2, LaunchSound
  <2> QED BY <2>1, <2>3
<1>2. CASE Undo
  <2>1. PICK slot \in Slots : Launch(slot, Last(undo), "Undo")
    BY <1>2 DEF Undo
  <2>2. undo # <<>> /\ undo' = Front(undo) /\ UNCHANGED redo
    BY <1>2 DEF Undo
  <2>3. Front(undo) \in Seq(Held) /\ Last(undo) \in Held
    BY <2>2, StackOps
  <2>4. Last(undo) \in Entries
    BY <2>3 DEF Held
  <2>5. World' /\ TasksSound' /\ EndedPosted' /\ Alone' /\ Seq(Held) \subseteq Seq(Held')
    BY <2>1, <2>3, <2>4, LaunchSound
  <2> QED BY <2>2, <2>3, <2>5
<1>3. CASE Redo
  <2>1. PICK slot \in Slots : Launch(slot, Last(redo), "Redo")
    BY <1>3 DEF Redo
  <2>2. redo # <<>> /\ redo' = Front(redo) /\ UNCHANGED undo
    BY <1>3 DEF Redo
  <2>3. Front(redo) \in Seq(Held) /\ Last(redo) \in Held
    BY <2>2, StackOps
  <2>4. Last(redo) \in Entries
    BY <2>3 DEF Held
  <2>5. World' /\ TasksSound' /\ EndedPosted' /\ Alone' /\ Seq(Held) \subseteq Seq(Held')
    BY <2>1, <2>3, <2>4, LaunchSound
  <2> QED BY <2>2, <2>3, <2>5
<1> QED BY <1>1, <1>2, <1>3

-----------------------------------------------------------------------------
(* A task on its way.                                                      *)

LEMMA TaskChange ==
  ASSUME HInv, EInv, World', NEW s \in Slots, tasks[s] # NoTask, UNCHANGED <<undo, redo>>,
         NEW u, u # NoTask, tasks' = [tasks EXCEPT ![s] = u], Sound(u)',
         coherent' => coherent, emptied' \subseteq emptied,
         \A i \in Items : place[i] = Gone => place'[i] = Gone,
         \/ UNCHANGED posted /\ (u.phase = "ended" => tasks[s].phase = "ended")
         \/ posted' = Append(posted, s)
  PROVE  EInv'
<1>1. tasks'[s] = u /\ \A r \in Slots \ {s} : tasks'[r] = tasks[r]
  BY DEF HInv, TasksOk
<1>2. Entries \subseteq Entries' /\ Held \subseteq Held' /\ Seq(Held) \subseteq Seq(Held')
  BY EntriesStay
<1>3. StacksHeld'
  BY <1>2 DEF EInv, StacksHeld
<1>4. TasksSound'
  <2>1. ASSUME NEW r \in Slots \ {s}, tasks[r] # NoTask PROVE Sound(tasks[r])'
    <3>1. Sound(tasks[r])
      BY <2>1 DEF EInv, TasksSound
    <3>2. tasks[r].outputs \subseteq Items
      BY <3>1 DEF Sound, Entries, Requests
    <3> QED BY <1>1, <1>2, <3>1, <3>2 DEF Sound
  <2>2. Sound(tasks[s])'
    BY <1>1
  <2> QED BY <1>1, <2>1, <2>2 DEF TasksSound
<1>5. EndedPosted'
  <2>1. posted \in Seq(Slots) /\ Len(posted) \in Nat
    BY DEF HInv, PostedOk
  <2>2. CASE UNCHANGED posted /\ (u.phase = "ended" => tasks[s].phase = "ended")
    BY <1>1, <2>2 DEF EInv, EndedPosted
  <2>3. CASE posted' = Append(posted, s)
    <3>1. /\ Len(posted') = Len(posted) + 1 /\ posted'[Len(posted) + 1] = s
          /\ \A k \in 1 .. Len(posted) : k \in 1 .. Len(posted') /\ posted'[k] = posted[k]
      BY <2>1, <2>3
    <3>2. Len(posted) + 1 \in 1 .. Len(posted')
      BY <2>1, <3>1
    <3> QED BY <1>1, <3>1, <3>2 DEF EInv, EndedPosted
  <2> QED BY <2>2, <2>3
<1>6. Alone'
  BY <1>1 DEF EInv, Alone
<1> QED BY <1>3, <1>4, <1>5, <1>6 DEF EInv

LEMMA TaskSteps ==
  ASSUME HInv, EInv, NEW s \in Slots, Start(s) \/ MoveItem(s) \/ SkipItem(s) \/ End(s)
  PROVE  EInv'
<1>1. PICK t : t = tasks[s]
  OBVIOUS
<1>2. /\ t # NoTask /\ Sound(t) /\ t.request \in Entries /\ UNCHANGED <<undo, redo>>
      /\ tasks[s].phase # "ended"
  BY <1>1 DEF EInv, TasksSound, Sound, Start, MoveItem, SkipItem, End, Running
<1>3. PICK q, c, o : t \in TaskRecords(q, c, o)
  BY <1>1, <1>2 DEF HInv, TasksOk, TaskOk
<1>4. t.request.items \subseteq Items /\ t.request.to \in Places /\ t.request.from # Gone
  BY <1>2 DEF Entries, Requests
<1>5. CASE Start(s)
  <2>1. PICK items \in SUBSET Items :
          /\ tasks' = [tasks EXCEPT ![s].phase = "running", ![s].request.items = items]
          /\ t.request.op # "EmptyTrash" => items = t.request.items
    BY ZenonT(60), <1>1, <1>4, <1>5 DEF Start
  <2>2. PICK request : request = [t.request EXCEPT !.items = items]
    OBVIOUS
  <2>3. PICK u : u = [t EXCEPT !.phase = "running", !.request = request]
    OBVIOUS
  <2>4. tasks' = [tasks EXCEPT ![s] = u]
    <3> DEFINE v == [tasks[s] EXCEPT !.phase = "running", !.request = [tasks[s].request EXCEPT !.items = items]]
    <3>1. tasks' = [tasks EXCEPT ![s].phase = "running", ![s].request.items = items]
      BY <2>1
    <3>2. tasks' = [tasks EXCEPT ![s] = v]
      BY <3>1 DEF HInv, TasksOk
    <3> QED BY <1>1, <2>2, <2>3, <3>2
  <2>5. /\ u.request = request /\ u.history = t.history /\ u.completed = t.completed /\ u.outputs = t.outputs
        /\ u.phase = "running"
    BY <1>3, <2>3 DEF TaskRecords
  <2>6. u # NoTask
    BY <2>5 DEF NoTask
  <2>7. /\ request \in Entries /\ request.op = t.request.op /\ request.items = items
        /\ t.request \in Held => request \in Held
    <3>1. request \in Requests /\ request.items = items
      BY <1>2, <2>2 DEF Entries, Requests
    <3>2. request.op = t.request.op /\ request.from = t.request.from /\ request.to = t.request.to
      BY <1>2, <2>2 DEF Entries, Requests
    <3>3. request \in Entries
      <4>1. request.op = "Restore" => request.items \cap emptied = {}
        BY <1>2, <2>1, <3>1, <3>2 DEF Entries
      <4> QED BY <1>2, <3>1, <3>2, <4>1 DEF Entries
    <3> QED BY <3>1, <3>2, <3>3 DEF Held
  <2>8. UNCHANGED <<place, origin, emptied, coherent, posted>> /\ t.phase = "queued"
    BY <1>1, <1>5 DEF Start
  <2>9. Sound(u)
    BY <1>2, <2>1, <2>5, <2>7, <2>8 DEF Sound
  <2>10. Sound(u)' /\ World'
    BY <2>8, <2>9 DEF EInv, World, Sound, Entries, Held
  <2> QED BY <1>1, <1>2, <2>4, <2>5, <2>6, <2>8, <2>10, TaskChange
<1>6. CASE MoveItem(s)
  <2>1. PICK i \in Left(s), merges \in BOOLEAN :
          /\ IF t.request.from = AnyTrash THEN place[i] \in Trashed ELSE place[i] = t.request.from
          /\ place' = [place EXCEPT ![i] = t.request.to]
          /\ tasks' = [tasks EXCEPT ![s].completed = @ \cup {i}, ![s].outputs = @ \cup {i},
                                    ![s].merged = @ \/ merges]
    BY <1>1, <1>6 DEF MoveItem
  <2>2. PICK u : u = [t EXCEPT !.completed = t.completed \cup {i}, !.outputs = t.outputs \cup {i},
                               !.merged = t.merged \/ merges]
    OBVIOUS
  <2>3. tasks' = [tasks EXCEPT ![s] = u]
    BY <1>1, <2>1, <2>2 DEF HInv, TasksOk
  <2>4. /\ u.request = t.request /\ u.history = t.history /\ u.phase = t.phase
        /\ u.completed = t.completed \cup {i} /\ u.outputs = t.outputs \cup {i}
    BY <1>3, <2>2 DEF TaskRecords
  <2>5. u # NoTask /\ t.phase = "running"
    <3>1. t.phase = "running"
      BY <1>1, <1>6 DEF MoveItem, Running
    <3> QED BY <2>4, <3>1 DEF NoTask
  <2>6. i \in t.request.items /\ i \in Items /\ place[i] # Gone
    BY <1>1, <1>4, <2>1, PlacesApart DEF Left
  <2>7. UNCHANGED <<origin, emptied, coherent, posted>>
    BY <1>6 DEF MoveItem
  <2>8. i \notin emptied
    BY <2>6 DEF EInv, World
  <2>9. place'[i] = t.request.to /\ \A j \in Items \ {i} : place'[j] = place[j]
    BY <2>1, <2>6 DEF EInv, World
  <2>10. World'
    BY <1>4, <2>1, <2>6, <2>7, <2>8, <2>9 DEF EInv, World
  <2>11. t.request.op = "EmptyTrash" => t.request.to = Gone
    BY <1>2 DEF Entries
  <2>12. Entries' = Entries /\ Held' = Held
    BY <2>7 DEF Entries, Held
  <2>13. Sound(u)'
    <3>1. t.outputs \subseteq Items
      BY <1>2, <1>4 DEF Sound
    <3>2. \A j \in u.outputs : t.request.op = "EmptyTrash" => place'[j] = Gone
      BY <1>2, <2>4, <2>6, <2>9, <2>11, <3>1 DEF Sound
    <3>3. t.request.op \notin {"Delete", "EmptyTrash"} => u.outputs \cap emptied' = {}
      BY <1>2, <2>4, <2>7, <2>8 DEF Sound
    <3> QED BY <1>2, <2>4, <2>5, <2>6, <2>12, <3>2, <3>3 DEF Sound
  <2>14. \A j \in Items : place[j] = Gone => place'[j] = Gone
    BY <2>6, <2>9
  <2> QED BY <1>1, <1>2, <2>3, <2>4, <2>5, <2>7, <2>10, <2>13, <2>14, TaskChange
<1>7. CASE SkipItem(s)
  <2>1. PICK i \in Left(s) : tasks' = [tasks EXCEPT ![s].completed = @ \cup {i}]
    BY <1>7 DEF SkipItem
  <2>2. PICK u : u = [t EXCEPT !.completed = t.completed \cup {i}]
    OBVIOUS
  <2>3. tasks' = [tasks EXCEPT ![s] = u]
    BY <1>1, <2>1, <2>2 DEF HInv, TasksOk
  <2>4. /\ u.request = t.request /\ u.history = t.history /\ u.phase = t.phase
        /\ u.completed = t.completed \cup {i} /\ u.outputs = t.outputs
    BY <1>3, <2>2 DEF TaskRecords
  <2>5. u # NoTask /\ t.phase = "running"
    BY <1>1, <1>7, <2>4 DEF NoTask, SkipItem, Running
  <2>6. i \in t.request.items
    BY <1>1, <2>1 DEF Left
  <2>7. UNCHANGED <<place, posted>> /\ (coherent' => coherent) /\ emptied' \subseteq emptied /\ World'
    BY <1>7, PlacesApart DEF SkipItem, Remember, EInv, World
  <2>8. Entries \subseteq Entries' /\ Held \subseteq Held'
    BY <2>7, EntriesStay
  <2>9. Sound(u)'
    BY <1>2, <2>4, <2>5, <2>6, <2>7, <2>8 DEF Sound
  <2> QED BY <1>1, <1>2, <2>3, <2>4, <2>5, <2>7, <2>9, TaskChange
<1>8. CASE End(s)
  <2>1. PICK e : tasks' = [tasks EXCEPT ![s].phase = "ended", ![s].error = e]
    BY <1>8 DEF End
  <2>2. PICK u : u = [t EXCEPT !.phase = "ended", !.error = e]
    OBVIOUS
  <2>3. tasks' = [tasks EXCEPT ![s] = u]
    BY <1>1, <2>1, <2>2 DEF HInv, TasksOk
  <2>4. /\ u.request = t.request /\ u.history = t.history /\ u.phase = "ended"
        /\ u.completed = t.completed /\ u.outputs = t.outputs
    BY <1>3, <2>2 DEF TaskRecords
  <2>5. u # NoTask
    BY <2>4 DEF NoTask
  <2>6. posted' = Append(posted, s) /\ UNCHANGED <<place, origin, emptied, coherent>>
    BY <1>8 DEF End
  <2>7. Sound(u)
    BY <1>2, <2>4 DEF Sound
  <2>8. Sound(u)' /\ World'
    BY <2>6, <2>7 DEF EInv, World, Sound, Entries, Held
  <2> QED BY <1>1, <1>2, <2>3, <2>5, <2>6, <2>8, TaskChange
<1> QED BY <1>5, <1>6, <1>7, <1>8

LEMMA CancelSound == ASSUME HInv, EInv, Cancel PROVE EInv'
<1>1. PICK s \in Slots :
        /\ tasks[s] # NoTask /\ tasks[s].phase # "ended"
        /\ tasks' = [tasks EXCEPT ![s].canceled = TRUE]
        /\ UNCHANGED <<place, undo, redo, posted, origin, coherent, emptied>>
  BY DEF Cancel, Free
<1>2. PICK t : t = tasks[s]
  OBVIOUS
<1>3. PICK u : u = [t EXCEPT !.canceled = TRUE]
  OBVIOUS
<1>4. PICK q, c, o : t \in TaskRecords(q, c, o)
  BY <1>1, <1>2 DEF HInv, TasksOk, TaskOk
<1>5. /\ u.request = t.request /\ u.history = t.history /\ u.phase = t.phase
      /\ u.completed = t.completed /\ u.outputs = t.outputs /\ u # NoTask
  <2>1. u \in TaskRecords(q, c, o)
    BY <1>3, <1>4 DEF TaskRecords
  <2>2. u # NoTask
    BY <2>1, TaskIsNotNone DEF TaskOk
  <2> QED BY <1>3, <1>4, <2>2 DEF TaskRecords
<1>6. tasks' = [tasks EXCEPT ![s] = u]
  BY <1>1, <1>2, <1>3 DEF HInv, TasksOk
<1>7. Sound(u)
  BY <1>1, <1>2, <1>5 DEF EInv, TasksSound, Sound
<1>8. Sound(u)' /\ World'
  BY <1>1, <1>7 DEF EInv, World, Sound, Entries, Held
<1> QED BY <1>1, <1>2, <1>5, <1>6, <1>8, TaskChange

-----------------------------------------------------------------------------
(* Recording.                                                              *)

\* What takes back a task is an entry, and restores nothing emptied.
LEMMA InverseHeld == ASSUME NEW t, Sound(t) PROVE InverseOf(t) \in Seq(Held)
<1>1. CASE \/ t.outputs = {} \/ t.merged \/ t.request.op \in {"Delete", "EmptyTrash"}
           \/ (t.request.op = "Move" /\ t.request.from \in Trashed)
  BY <1>1 DEF InverseOf
<1>2. CASE ~(\/ t.outputs = {} \/ t.merged \/ t.request.op \in {"Delete", "EmptyTrash"}
             \/ (t.request.op = "Move" /\ t.request.from \in Trashed))
  <2>1. /\ t.request \in Entries /\ t.request.op \notin {"Delete", "EmptyTrash"}
        /\ t.outputs \subseteq t.request.items /\ t.outputs \cap emptied = {}
    BY <1>2 DEF Sound
  <2>2. /\ t.request.from \in Places \ {Gone} /\ t.request.to \in Places \ {Gone} /\ t.outputs \subseteq Items
        /\ t.request.op = "Copy" => t.request.to \in Living
    BY <2>1 DEF Entries, Requests
  <2>3. PICK to \in Places \ {Gone} :
          to = IF t.request.op = "Copy" THEN InTrash(t.request.to[2]) ELSE t.request.from
    BY <2>2, PlacesApart
  <2>4. PICK op \in {"Restore", "Move", "Trash"} : op = InverseOp(t.request.op)
    BY DEF InverseOp
  <2>5. PICK entry : entry = Request(op, t.outputs, t.request.to, to)
    OBVIOUS
  <2>6. entry \in Held
    BY <2>1, <2>2, <2>3, <2>4, <2>5, PlacesApart DEF Held, Entries, Request, Requests, Ops
  <2>7. InverseOf(t) = <<entry>>
    BY <1>2, <2>3, <2>4, <2>5 DEF InverseOf
  <2> QED BY <2>6, <2>7
<1> QED BY <1>1, <1>2

LEMMA RemainingHeld == ASSUME NEW t, Sound(t) PROVE Remaining(t) \in Seq(Held)
<1>1. CASE t.history = "Fresh" \/ t.error # "canceled" \/ t.request.items = t.completed
  BY <1>1 DEF Remaining
<1>2. CASE ~(t.history = "Fresh" \/ t.error # "canceled" \/ t.request.items = t.completed)
  <2>1. t.request \in Held
    BY <1>2 DEF Sound
  <2>2. PICK entry : entry = [t.request EXCEPT !.items = t.request.items \ t.completed]
    OBVIOUS
  <2>3. entry \in Held
    BY <2>1, <2>2 DEF Held, Entries, Requests
  <2>4. Remaining(t) = <<entry>>
    BY <1>2, <2>2 DEF Remaining
  <2> QED BY <2>3, <2>4
<1> QED BY <1>1, <1>2

\* Where an entry takes an item from is a place.
LEMMA OriginPlaces ==
  ASSUME World, NEW entries \in Seq(Held) PROVE OriginAfter(entries) \in [Items -> Places]
<1>1. SUFFICES ASSUME NEW i \in Items PROVE OriginAfter(entries)[i] \in Places
  BY DEF OriginAfter
<1> DEFINE with == {k \in DOMAIN entries : i \in entries[k].items}
           last(k) == /\ i \in entries[k].items
                      /\ \A l \in DOMAIN entries : i \in entries[l].items => l <= k
<1>2. CASE with = {}
  <2>1. OriginAfter(entries)[i] = origin[i]
    BY <1>2 DEF OriginAfter
  <2> QED BY <2>1 DEF World
<1>3. CASE with # {}
  <2>1. with \subseteq 1 .. Len(entries) /\ Len(entries) \in Nat
    OBVIOUS
  <2>2. PICK m \in with : \A l \in with : l <= m
    BY <1>3, <2>1, Greatest
  <2>3. m \in DOMAIN entries /\ last(m)
    BY <2>2
  <2> DEFINE k == CHOOSE k \in DOMAIN entries : last(k)
  <2>4. k \in DOMAIN entries
    BY <2>3
  <2>5. OriginAfter(entries)[i] = entries[k].from
    BY <1>3 DEF OriginAfter
  <2>6. \A n \in DOMAIN entries : entries[n].from \in Places
    BY DEF Held, Entries, Requests
  <2> HIDE DEF k
  <2> QED BY <2>4, <2>5, <2>6
<1> QED BY <1>2, <1>3

LEMMA RecordSound == ASSUME HInv, EInv, Record PROVE EInv'
<1>1. PICK slot : slot = Head(posted)
  OBVIOUS
<1>2. PICK t : t = tasks[slot]
  OBVIOUS
<1>3. PICK back : back = InverseOf(t)
  OBVIOUS
<1>4. /\ posted \in Seq(Slots) /\ posted # <<>> /\ Len(posted) \in Nat \ {0}
      /\ slot = posted[1] /\ slot \in Slots /\ posted' = Tail(posted)
  BY <1>1 DEF HInv, PostedOk, Record
<1>5. t # NoTask /\ Sound(t)
  BY <1>2, <1>4 DEF HInv, PostedOk, EInv, TasksSound
<1>6. /\ tasks' = [tasks EXCEPT ![slot] = NoTask] /\ UNCHANGED place
      /\ undo' = Forget(t, IF t.history = "Undo" THEN undo \o Remaining(t) ELSE Push(undo, back))
      /\ redo' = Forget(t, IF t.history = "Undo" THEN Push(redo, back) ELSE redo \o Remaining(t))
      /\ Remember(~Unrecoverable(t),
                  IF t.history # "Undo" /\ back # <<>> THEN OriginAfter(Dropped(undo \o back)) ELSE origin,
                  IF t.request.op = "EmptyTrash" /\ t.error = "none" THEN emptied \cup t.outputs ELSE emptied)
  BY <1>1, <1>2, <1>3 DEF Record
<1>7. tasks'[slot] = NoTask /\ \A s \in Slots \ {slot} : tasks'[s] = tasks[s]
  BY <1>4, <1>6 DEF HInv, TasksOk
<1>8. back \in Seq(Held) /\ Remaining(t) \in Seq(Held) /\ undo \in Seq(Held) /\ redo \in Seq(Held)
  BY <1>3, <1>5, InverseHeld, RemainingHeld DEF EInv, StacksHeld
<1>9. t.outputs \subseteq Items
  BY <1>5 DEF Sound, Entries, Requests
<1>10. coherent' = (coherent /\ ~Unrecoverable(t))
  BY <1>6 DEF Remember
<1>11. World'
  <2>1. origin' \in [Items -> Places]
    <3>1. undo \o back \in Seq(Held)
      BY <1>8
    <3>2. Dropped(undo \o back) \in Seq(Held)
      BY <3>1, StackOps
    <3>3. OriginAfter(Dropped(undo \o back)) \in [Items -> Places]
      BY <3>2, OriginPlaces DEF EInv
    <3> QED BY <1>6, <3>3, PlacesApart DEF Remember, EInv, World
  <2>2. \A i \in emptied' : i \in emptied \/ (i \in t.outputs /\ t.request.op = "EmptyTrash")
    BY <1>6 DEF Remember
  <2>3. \A i \in emptied' : i \in Items /\ place[i] = Gone
    BY <1>5, <1>9, <2>2 DEF EInv, World, Sound
  <2>4. coherent' \in BOOLEAN /\ (~coherent' => emptied' = {})
    BY <1>6 DEF Remember
  <2> QED BY <1>6, <2>1, <2>3, <2>4 DEF EInv, World
<1>12. emptied' \subseteq emptied \/ (coherent' /\ t.request.op = "EmptyTrash" /\ t.error = "none")
  BY <1>6 DEF Remember
<1>13. StacksHeld'
  <2>1. /\ undo \o Remaining(t) \in Seq(Held) /\ redo \o Remaining(t) \in Seq(Held)
        /\ Push(undo, back) \in Seq(Held) /\ Push(redo, back) \in Seq(Held)
    <3>1. Push(undo, back) \in Seq(Held) /\ Push(redo, back) \in Seq(Held)
      BY <1>8, StackOps
    <3> QED BY <1>8, <3>1
  <2>2. PICK u, r : /\ u = IF t.history = "Undo" THEN undo \o Remaining(t) ELSE Push(undo, back)
                    /\ r = IF t.history = "Undo" THEN Push(redo, back) ELSE redo \o Remaining(t)
    OBVIOUS
  <2>3. u \in Seq(Held) /\ r \in Seq(Held) /\ undo' = Forget(t, u) /\ redo' = Forget(t, r)
    BY <1>6, <2>1, <2>2
  <2>4. CASE t.request.op = "EmptyTrash" /\ t.error = "none"
    <3>1. undo' \in Seq({e \in Held : e.op # "Restore"}) /\ redo' \in Seq({e \in Held : e.op # "Restore"})
      BY <2>3, <2>4, ForgetKept
    <3>2. {e \in Held : e.op # "Restore"} \subseteq Held'
      BY DEF Held, Entries
    <3> QED BY <3>1, <3>2 DEF StacksHeld
  <2>5. CASE ~(t.request.op = "EmptyTrash" /\ t.error = "none")
    <3>1. undo' = u /\ redo' = r
      BY <2>3, <2>5, ForgetKept
    <3>2. Seq(Held) \subseteq Seq(Held')
      BY <1>12, <2>5, EntriesStay
    <3> QED BY <2>3, <3>1, <3>2 DEF StacksHeld
  <2> QED BY <2>4, <2>5
<1>14. TasksSound'
  <2>1. SUFFICES ASSUME NEW s \in Slots \ {slot}, tasks[s] # NoTask PROVE Sound(tasks[s])'
    BY <1>7 DEF TasksSound
  <2>2. ~coherent
    BY <1>2, <1>4, <1>5, <2>1 DEF EInv, Alone
  <2>3. emptied' \subseteq emptied
    BY <1>10, <1>12, <2>2
  <2>4. Entries \subseteq Entries' /\ Held \subseteq Held'
    BY <2>3, EntriesStay
  <2>5. Sound(tasks[s])
    BY <2>1 DEF EInv, TasksSound
  <2> QED BY <1>6, <1>7, <2>3, <2>4, <2>5 DEF Sound
<1>15. EndedPosted'
  <2>1. SUFFICES ASSUME NEW s \in Slots \ {slot}, tasks[s] # NoTask, tasks[s].phase = "ended"
                 PROVE  \E k \in 1 .. Len(posted') : posted'[k] = s
    BY <1>7 DEF EndedPosted
  <2>2. PICK k \in 1 .. Len(posted) : posted[k] = s
    BY <2>1 DEF EInv, EndedPosted
  <2>3. Len(posted') = Len(posted) - 1 /\ \A l \in 1 .. Len(posted') : posted'[l] = posted[l + 1]
    BY <1>4
  <2>4. k # 1
    BY <1>4, <2>2
  <2>5. k - 1 \in 1 .. Len(posted') /\ posted'[k - 1] = s
    BY <1>4, <2>2, <2>3, <2>4
  <2> QED BY <2>5
<1>16. Alone'
  BY <1>7, <1>10 DEF EInv, Alone
<1> QED BY <1>11, <1>13, <1>14, <1>15, <1>16 DEF EInv

-----------------------------------------------------------------------------
(* The theorems about the entries.                                         *)

LEMMA EInvInit == Init => EInv
<1> SUFFICES ASSUME Init PROVE EInv
  OBVIOUS
<1>1. World
  BY PlacesApart DEF Init, World
<1> QED BY <1>1 DEF Init, EInv, StacksHeld, TasksSound, EndedPosted, Alone

LEMMA EInvSame == ASSUME EInv, UNCHANGED vars PROVE EInv'
BY DEF vars, EInv, World, StacksHeld, TasksSound, Sound, EndedPosted, Alone, Held, Entries

\* The two invariants together.
THEOREM EntriesAlways == Spec => [](HInv /\ EInv)
<1>1. Init => HInv /\ EInv
  BY HInvInit, EInvInit
<1>2. HInv /\ EInv /\ [Next]_vars => HInv' /\ EInv'
  BY HInvStep, LaunchSteps, TaskSteps, CancelSound, RecordSound, EInvSame DEF Next
<1> QED BY <1>1, <1>2, PTL DEF Spec

\* The history is well formed through any number of tasks at once: what a task did is within
\* what it was asked, and every task that ended has its one closure on the loop.
THEOREM TypeCorrect == Spec => []TypeOK
<1>1. ASSUME HInv, EInv PROVE TypeOK
  <2>1. Held \subseteq Requests /\ Entries \subseteq Requests
    BY DEF Held, Entries
  <2>2. undo \in Seq(Requests) /\ redo \in Seq(Requests)
    BY <1>1, <2>1 DEF EInv, StacksHeld
  <2>3. posted \in Seq(Slots) /\ DOMAIN posted = 1 .. Len(posted)
    BY <1>1 DEF HInv, PostedOk
  <2>4. ASSUME NEW s \in Slots \ Free
        PROVE  /\ tasks[s].request \in Requests /\ tasks[s].history \in Histories
               /\ tasks[s].outputs \subseteq tasks[s].completed
               /\ tasks[s].completed \subseteq tasks[s].request.items
               /\ tasks[s].phase = "ended" <=> \E k \in DOMAIN posted : posted[k] = s
    <3>1. s \in Slots /\ tasks[s] # NoTask
      BY DEF Free
    <3>2. Sound(tasks[s])
      BY <1>1, <3>1 DEF EInv, TasksSound
    <3>3. tasks[s].history \in Histories
      BY <1>1, <3>1 DEF HInv, TasksOk, TaskOk, TaskRecords
    <3>4. tasks[s].phase = "ended" <=> \E k \in DOMAIN posted : posted[k] = s
      BY <1>1, <2>3, <3>1 DEF EInv, EndedPosted, HInv, PostedOk
    <3> QED BY <2>1, <3>2, <3>3, <3>4 DEF Sound
  <2>5. \A k, l \in DOMAIN posted : posted[k] = posted[l] => k = l
    BY <1>1, <2>3 DEF HInv, PostedOk
  <2> QED BY <1>1, <2>2, <2>4, <2>5 DEF TypeOK, EInv, World
<1> QED BY <1>1, EntriesAlways, PTL

\* "Emptied trash items cannot come back" (task.cpp:585): with one task at a time, whatever is
\* cancelled, failed, undone or redone, no entry restores an item that the trash was emptied of.
THEOREM EmptiedCorrect == Spec => []EmptiedForgotten
<1>1. ASSUME EInv PROVE EmptiedForgotten
  <2>1. ASSUME NEW stack \in Seq(Held), NEW entry \in Range(stack), entry.op = "Restore"
        PROVE  entry.items \cap emptied = {}
    BY <2>1 DEF Range, Held, Entries
  <2> QED BY <1>1, <2>1 DEF EmptiedForgotten, EInv, StacksHeld
<1> QED BY <1>1, EntriesAlways, PTL

-----------------------------------------------------------------------------
(* The chain of places along which a stack takes an item.                  *)

Numbered(a) == Len(a) \in Nat /\ DOMAIN a = 1 .. Len(a)
IsLeast(l, T) == T \subseteq Nat /\ l \in T /\ \A k \in T : l <= k

\* The next entry that takes the item says where the entries newer than the k-th leave it.
LEMMA LeftByNext ==
  ASSUME NEW stack, NEW i, NEW k, NEW now, NEW l, IsLeast(l, Newer(stack, i, k))
  PROVE  LeftBy(stack, i, k, now) = stack[l].to
<1> DEFINE N == Newer(stack, i, k)
           c == CHOOSE n \in N : \A m \in N : n <= m
<1>1. c \in N /\ \A m \in N : c <= m
  BY DEF IsLeast
<1>2. c = l
  <2>1. c <= l /\ l <= c /\ c \in Nat /\ l \in Nat
    BY <1>1 DEF IsLeast
  <2> HIDE DEF c
  <2> QED BY <2>1
<1>3. LeftBy(stack, i, k, now) = stack[c].to
  BY <1>1 DEF LeftBy
<1> QED BY <1>2, <1>3

\* Either there is such an entry, or nothing newer takes the item.
LEMMA LeftByLeast ==
  ASSUME NEW stack, NEW i, NEW k, NEW now, Numbered(stack)
  PROVE  \/ Newer(stack, i, k) = {} /\ LeftBy(stack, i, k, now) = now
         \/ \E l : IsLeast(l, Newer(stack, i, k)) /\ LeftBy(stack, i, k, now) = stack[l].to
<1>1. Newer(stack, i, k) \subseteq Nat
  BY DEF Newer, Numbered
<1>2. CASE Newer(stack, i, k) = {}
  BY <1>2 DEF LeftBy
<1>3. CASE Newer(stack, i, k) # {}
  <2>1. PICK l \in Newer(stack, i, k) : \A j \in Newer(stack, i, k) : l <= j
    BY <1>1, <1>3, Least
  <2>2. IsLeast(l, Newer(stack, i, k))
    BY <1>1, <2>1 DEF IsLeast
  <2> QED BY <2>2, LeftByNext
<1> QED BY <1>2, <1>3

LEMMA SameNewer ==
  ASSUME NEW a, NEW i, NEW now, NEW k, NEW c, Newer(a, i, k) = Newer(a, i, c)
  PROVE  LeftBy(a, i, k, now) = LeftBy(a, i, c, now)
BY DEF LeftBy

\* b is made of entries of a, in their order.
Embeds(f, a, b) ==
  /\ Numbered(a) /\ Numbered(b) /\ f \in [DOMAIN b -> DOMAIN a]
  /\ \A j, l \in DOMAIN b : j < l => f[j] < f[l]
  /\ \A l \in DOMAIN b : b[l] = a[f[l]]
\* They are those newer than the c-th, as far as they take the item.
Covers(f, a, b, i, c) == \A l \in DOMAIN a : c < l /\ i \in a[l].items => \E j \in DOMAIN b : f[j] = l

\* Then what is newer than the k-th of b leaves the item where what is newer than the c-th of a does.
LEMMA SamePlace ==
  ASSUME NEW a, NEW b, NEW i, NEW now, NEW f, Embeds(f, a, b),
         NEW c \in Nat, NEW k \in Nat, Covers(f, a, b, i, c),
         \A l \in DOMAIN b : k < l <=> c < f[l]
  PROVE  LeftBy(b, i, k, now) = LeftBy(a, i, c, now)
<1>1. Numbered(a) /\ Numbered(b) /\ Newer(a, i, c) \subseteq Nat
  BY DEF Newer, Embeds, Numbered
<1>2. \A l \in Newer(b, i, k) : l \in DOMAIN b /\ f[l] \in Newer(a, i, c)
  BY DEF Newer, Embeds
<1>3. \A l \in Newer(a, i, c) : \E j \in Newer(b, i, k) : f[j] = l
  BY DEF Newer, Embeds, Covers
<1>4. CASE Newer(b, i, k) = {} /\ LeftBy(b, i, k, now) = now
  <2>1. Newer(a, i, c) = {}
    BY <1>3, <1>4
  <2> QED BY <1>4, <2>1 DEF LeftBy
<1>5. ASSUME NEW l, IsLeast(l, Newer(b, i, k)), LeftBy(b, i, k, now) = b[l].to
      PROVE  LeftBy(b, i, k, now) = LeftBy(a, i, c, now)
  <2>1. l \in DOMAIN b /\ f[l] \in Newer(a, i, c) /\ b[l] = a[f[l]]
    BY <1>2, <1>5 DEF IsLeast, Embeds
  <2>2. ASSUME NEW q \in Newer(a, i, c) PROVE f[l] <= q
    <3>1. PICK j \in Newer(b, i, k) : f[j] = q
      BY <1>3
    <3>2. l \in DOMAIN b /\ j \in DOMAIN b /\ l <= j /\ l \in Nat /\ j \in Nat
      BY <1>2, <1>5 DEF IsLeast
    <3>3. f[l] \in Nat /\ f[j] \in Nat
      BY <3>2 DEF Embeds, Numbered
    <3>4. l < j => f[l] < f[j]
      BY <3>2 DEF Embeds
    <3> QED BY <3>1, <3>2, <3>3, <3>4
  <2>3. IsLeast(f[l], Newer(a, i, c))
    BY <1>1, <2>1, <2>2 DEF IsLeast
  <2>4. LeftBy(a, i, c, now) = a[f[l]].to
    BY <2>3, LeftByNext
  <2> QED BY <1>5, <2>1, <2>4
<1> QED BY <1>1, <1>4, <1>5, LeftByLeast

\* Where what is left of a stack, above the d-th, leaves the item; its entries find the item where they take
\* it, if the stack's do, and the stack's, if none that takes it is missing.
LEMMA Embedded ==
  ASSUME NEW a, NEW b, NEW i, NEW now, NEW f, Embeds(f, a, b),
         NEW d \in Nat, Covers(f, a, b, i, d), \A l \in DOMAIN b : d < f[l]
  PROVE  /\ LeftBy(b, i, 0, now) = LeftBy(a, i, d, now)
         /\ Replays(a, i, now) => Replays(b, i, now)
         /\ d = 0 /\ Replays(b, i, now) => Replays(a, i, now)
<1>1. LeftBy(b, i, 0, now) = LeftBy(a, i, d, now)
  <2>1. \A l \in DOMAIN b : 0 < l <=> d < f[l]
    BY DEF Embeds, Numbered
  <2>2. 0 \in Nat
    OBVIOUS
  <2> QED BY <2>1, <2>2, SamePlace
<1>2. ASSUME NEW k \in DOMAIN b PROVE LeftBy(b, i, k, now) = LeftBy(a, i, f[k], now)
  <2>1. d < f[k] /\ k \in Nat /\ f[k] \in Nat
    BY DEF Embeds, Numbered
  <2>2. ASSUME NEW l \in DOMAIN b PROVE k < l <=> f[k] < f[l]
    <3>1. /\ k < l => f[k] < f[l]
          /\ l < k => f[l] < f[k]
          /\ f[l] \in Nat /\ l \in Nat
      BY DEF Embeds, Numbered
    <3> QED BY <2>1, <3>1
  <2>3. Covers(f, a, b, i, f[k])
    <3>1. \A l \in DOMAIN a : l \in Nat /\ (f[k] < l => d < l)
      BY <2>1 DEF Embeds, Numbered
    <3> QED BY <3>1 DEF Covers
  <2> QED BY <2>1, <2>2, <2>3, SamePlace
<1>3. Replays(a, i, now) => Replays(b, i, now)
  BY <1>2 DEF Replays, Embeds
<1>4. ASSUME d = 0, Replays(b, i, now) PROVE Replays(a, i, now)
  <2> SUFFICES ASSUME NEW l \in DOMAIN a, i \in a[l].items PROVE a[l].from = LeftBy(a, i, l, now)
    BY DEF Replays
  <2>1. PICK j \in DOMAIN b : f[j] = l
    BY <1>4 DEF Covers, Embeds, Numbered
  <2> QED BY <1>2, <1>4, <2>1 DEF Replays, Embeds
<1> QED BY <1>1, <1>3, <1>4

\* b is a with one entry more, the newest.
OneMore(a, b, e) ==
  /\ Numbered(a) /\ Numbered(b) /\ Len(b) = Len(a) + 1
  /\ \A k \in DOMAIN a : b[k] = a[k]
  /\ b[Len(b)] = e

LEMMA OneMoreReplays ==
  ASSUME NEW a, NEW b, NEW e, OneMore(a, b, e), NEW i, NEW now
  PROVE  IF i \in e.items
         THEN /\ Replays(b, i, now) <=> e.from = now /\ Replays(a, i, e.to)
              /\ LeftBy(b, i, 0, now) = LeftBy(a, i, 0, e.to)
         ELSE /\ Replays(b, i, now) <=> Replays(a, i, now)
              /\ LeftBy(b, i, 0, now) = LeftBy(a, i, 0, now)
<1>1. PICK n \in Nat : n = Len(a)
  BY DEF OneMore, Numbered
<1>2. /\ DOMAIN a = 1 .. n /\ DOMAIN b = 1 .. n + 1 /\ b[n + 1] = e
      /\ \A k \in 1 .. n : b[k] = a[k]
      /\ Numbered(a) /\ Numbered(b)
  BY <1>1 DEF OneMore, Numbered
<1>3. CASE i \notin e.items
  <2> DEFINE f == [k \in 1 .. n |-> k]
  <2>1. f \in [1 .. n -> 1 .. n + 1] /\ \A k \in 1 .. n : f[k] = k
    OBVIOUS
  <2> HIDE DEF f
  <2>2. Embeds(f, b, a)
    BY <1>2, <2>1 DEF Embeds
  <2>3. Covers(f, b, a, i, 0)
    BY <1>2, <1>3, <2>1 DEF Covers
  <2>4. 0 \in Nat /\ \A l \in DOMAIN a : 0 < f[l]
    BY <1>2, <2>1
  <2> QED BY <1>3, <2>2, <2>3, <2>4, Embedded
<1>4. CASE i \in e.items
  <2>1. ASSUME NEW k \in 0 .. n PROVE LeftBy(b, i, k, now) = LeftBy(a, i, k, e.to)
    <3>1. /\ Newer(a, i, k) \subseteq 1 .. n /\ Newer(b, i, k) = Newer(a, i, k) \cup {n + 1}
      BY <1>2, <1>4 DEF Newer
    <3>2. CASE Newer(a, i, k) = {} /\ LeftBy(a, i, k, e.to) = e.to
      <4>1. IsLeast(n + 1, Newer(b, i, k))
        BY <3>1, <3>2 DEF IsLeast
      <4> QED BY <1>2, <3>2, <4>1, LeftByNext
    <3>3. ASSUME NEW l, IsLeast(l, Newer(a, i, k)), LeftBy(a, i, k, e.to) = a[l].to
          PROVE  LeftBy(b, i, k, now) = LeftBy(a, i, k, e.to)
      <4>1. l \in 1 .. n /\ IsLeast(l, Newer(b, i, k))
        BY <3>1, <3>3 DEF IsLeast
      <4> QED BY <1>2, <3>3, <4>1, LeftByNext
    <3> QED BY <1>2, <3>2, <3>3, LeftByLeast
  <2>2. LeftBy(b, i, n + 1, now) = now
    <3>1. Newer(b, i, n + 1) = {}
      BY <1>2 DEF Newer
    <3> QED BY <3>1 DEF LeftBy
  <2>3. ASSUME Replays(b, i, now) PROVE e.from = now /\ Replays(a, i, e.to)
    <3>1. e.from = now
      BY <1>2, <1>4, <2>2, <2>3 DEF Replays
    <3>2. \A k \in 1 .. n : i \in a[k].items => a[k].from = LeftBy(a, i, k, e.to)
      BY <1>2, <2>1, <2>3 DEF Replays
    <3> QED BY <1>2, <3>1, <3>2 DEF Replays
  <2>4. ASSUME e.from = now, Replays(a, i, e.to) PROVE Replays(b, i, now)
    <3> SUFFICES ASSUME NEW k \in 1 .. n + 1, i \in b[k].items PROVE b[k].from = LeftBy(b, i, k, now)
      BY <1>2 DEF Replays
    <3>1. CASE k = n + 1
      BY <1>2, <2>2, <2>4, <3>1
    <3>2. CASE k \in 1 .. n
      BY <1>2, <2>1, <2>4, <3>2 DEF Replays
    <3> QED BY <3>1, <3>2
  <2>5. LeftBy(b, i, 0, now) = LeftBy(a, i, 0, e.to)
    BY <2>1
  <2> QED BY <1>4, <2>3, <2>4, <2>5
<1> QED BY <1>3, <1>4

-----------------------------------------------------------------------------
(* What is done to a stack.                                                *)

LEMMA ConcatOne ==
  ASSUME NEW S, NEW a \in Seq(S), NEW e \in S
  PROVE  OneMore(a, a \o <<e>>, e) /\ a \o <<e>> \in Seq(S)
<1>1. PICK b : b = a \o <<e>>
  OBVIOUS
<1>2. b \in Seq(S) /\ Len(b) = Len(a) + 1 /\ b[Len(a) + 1] = e /\ \A k \in 1 .. Len(a) : b[k] = a[k]
  BY <1>1
<1>3. Numbered(a) /\ Numbered(b)
  BY <1>2 DEF Numbered
<1> QED BY <1>1, <1>2, <1>3 DEF OneMore, Numbered

LEMMA FrontOne ==
  ASSUME NEW S, NEW b \in Seq(S), b # <<>>
  PROVE  OneMore(Front(b), b, Last(b)) /\ Front(b) \in Seq(S) /\ Last(b) \in S
<1>1. PICK n \in Nat : n + 1 = Len(b) /\ n = Len(b) - 1
  OBVIOUS
<1>2. PICK a : a = SubSeq(b, 1, n)
  OBVIOUS
<1>3. a \in Seq(S) /\ Len(a) = n /\ \A k \in 1 .. n : a[k] = b[k]
  <2>1. 1 .. n \subseteq DOMAIN b
    BY <1>1
  <2> QED BY <1>1, <1>2, <2>1
<1>4. Front(b) = a /\ Last(b) = b[Len(b)] /\ Last(b) \in S
  BY <1>1, <1>2 DEF Front, Last
<1>5. Numbered(a) /\ Numbered(b)
  BY <1>3 DEF Numbered
<1>6. OneMore(a, b, Last(b))
  BY <1>1, <1>3, <1>4, <1>5 DEF OneMore, Numbered
<1> QED BY <1>3, <1>4, <1>6

LEMMA ConcatNone ==
  ASSUME NEW S, NEW a \in Seq(S) PROVE a \o <<>> = a
OBVIOUS

\* The oldest d entries go.
LEMMA TrimShape ==
  ASSUME NEW S, NEW a \in Seq(S)
  PROVE  \E d \in 0 .. Len(a) :
           /\ Numbered(a) /\ Numbered(Trim(a)) /\ Len(Trim(a)) = Len(a) - d
           /\ \A k \in 1 .. Len(a) - d : Trim(a)[k] = a[k + d]
           /\ DOMAIN Dropped(a) = 1 .. d /\ \A k \in 1 .. d : Dropped(a)[k] = a[k]
<1>1. Len(a) \in Nat /\ MaxHistory \in Nat \ {0} /\ Numbered(a)
  BY HistoryAssumption DEF Numbered
<1>2. PICK d \in 0 .. Len(a) : /\ Trim(a) \in Seq(S) /\ Len(Trim(a)) = Len(a) - d
                               /\ \A k \in 1 .. Len(a) - d : Trim(a)[k] = a[k + d]
  <2>1. CASE Len(a) > MaxHistory
    <3>1. PICK d \in 1 .. Len(a) : d = Len(a) - MaxHistory
      BY <1>1, <2>1
    <3>2. PICK b : b = SubSeq(a, d + 1, Len(a))
      OBVIOUS
    <3>3. b \in Seq(S) /\ Len(b) = Len(a) - d /\ \A k \in 1 .. Len(a) - d : b[k] = a[k + d]
      BY <1>1, <3>1, <3>2
    <3>4. Trim(a) = b
      BY <2>1, <3>1, <3>2 DEF Trim
    <3> QED BY <3>3, <3>4
  <2>2. CASE ~(Len(a) > MaxHistory)
    <3>1. Trim(a) = a
      BY <2>2 DEF Trim
    <3>2. 0 \in 0 .. Len(a) /\ \A k \in 1 .. Len(a) - 0 : a[k] = a[k + 0]
      BY <1>1
    <3> QED BY <1>1, <3>1, <3>2
  <2> QED BY <2>1, <2>2
<1>3. Dropped(a) = SubSeq(a, 1, d)
  BY <1>1, <1>2 DEF Dropped
<1>4. DOMAIN SubSeq(a, 1, d) = 1 .. d /\ \A k \in 1 .. d : SubSeq(a, 1, d)[k] = a[k]
  BY <1>1
<1>5. Numbered(Trim(a))
  BY <1>2 DEF Numbered
<1> QED BY <1>1, <1>2, <1>3, <1>4, <1>5

\* The entries kept find the item where they take it, and what OriginAfter() notes is where they leave it.
LEMMA TrimReplays ==
  ASSUME NEW S, NEW a \in Seq(S), NEW i \in Items, NEW now, Replays(a, i, now)
  PROVE  /\ Replays(Trim(a), i, now)
         /\ \/ OriginAfter(Dropped(a))[i] = LeftBy(Trim(a), i, 0, now)
            \/ OriginAfter(Dropped(a))[i] = origin[i] /\ LeftBy(Trim(a), i, 0, now) = LeftBy(a, i, 0, now)
<1>1. PICK b : b = Trim(a)
  OBVIOUS
<1>2. PICK d \in 0 .. Len(a) :
        /\ Numbered(a) /\ Numbered(b) /\ Len(b) = Len(a) - d
        /\ \A k \in 1 .. Len(a) - d : b[k] = a[k + d]
        /\ DOMAIN Dropped(a) = 1 .. d /\ \A k \in 1 .. d : Dropped(a)[k] = a[k]
  BY <1>1, TrimShape
<1>3. PICK n \in Nat : n = Len(a) /\ d \in 0 .. n /\ DOMAIN a = 1 .. n /\ DOMAIN b = 1 .. n - d
  BY <1>2 DEF Numbered
<1> DEFINE f == [k \in 1 .. n - d |-> k + d]
<1>4. f \in [1 .. n - d -> 1 .. n] /\ \A k \in 1 .. n - d : f[k] = k + d
  BY <1>3
<1> HIDE DEF f
<1>5. Embeds(f, a, b)
  <2>1. f \in [DOMAIN b -> DOMAIN a]
    BY <1>3, <1>4
  <2>2. \A j, l \in DOMAIN b : j < l => f[j] < f[l]
    BY <1>3, <1>4
  <2>3. \A l \in DOMAIN b : b[l] = a[f[l]]
    BY <1>2, <1>3, <1>4
  <2> QED BY <1>2, <2>1, <2>2, <2>3 DEF Embeds
<1>6. Covers(f, a, b, i, d)
  <2>1. ASSUME NEW l \in 1 .. n, d < l PROVE l - d \in 1 .. n - d /\ f[l - d] = l
    <3>1. l - d \in 1 .. n - d /\ (l - d) + d = l
      BY <1>3, <2>1
    <3> QED BY <1>4, <3>1
  <2> QED BY <1>3, <2>1 DEF Covers
<1>7. d \in Nat /\ \A l \in DOMAIN b : d < f[l]
  BY <1>3, <1>4
<1>8. LeftBy(b, i, 0, now) = LeftBy(a, i, d, now) /\ Replays(b, i, now)
  BY <1>5, <1>6, <1>7, Embedded
<1> DEFINE with == {k \in 1 .. d : i \in a[k].items}
<1>9. CASE with = {}
  <2>1. OriginAfter(Dropped(a))[i] = origin[i]
    BY <1>2, <1>9 DEF OriginAfter
  <2>2. Newer(a, i, 0) = Newer(a, i, d)
    BY <1>3, <1>9 DEF Newer
  <2>3. LeftBy(a, i, 0, now) = LeftBy(a, i, d, now)
    BY <2>2, SameNewer
  <2> QED BY <1>1, <1>8, <2>1, <2>3
<1>10. CASE with # {}
  <2>1. PICK m \in with : \A l \in with : l <= m
    BY <1>7, <1>10, Greatest
  <2> DEFINE last(k) == /\ i \in Dropped(a)[k].items
                       /\ \A l \in DOMAIN Dropped(a) : i \in Dropped(a)[l].items => l <= k
             c == CHOOSE k \in DOMAIN Dropped(a) : last(k)
  <2>2. m \in DOMAIN Dropped(a) /\ last(m) /\ i \in Dropped(a)[m].items
    BY <1>2, <2>1
  <2>3. OriginAfter(Dropped(a))[i] = Dropped(a)[c].from
    BY <2>2 DEF OriginAfter
  <2>4. c \in DOMAIN Dropped(a) /\ last(c)
    BY <2>2
  <2> HIDE DEF c
  <2>5. c = m
    <3>1. c \in 1 .. d /\ m \in 1 .. d /\ c <= m /\ m <= c
      BY <1>2, <2>2, <2>4
    <3> QED BY <3>1
  <2>6. m \in 1 .. n /\ i \in a[m].items /\ Dropped(a)[m] = a[m]
    BY <1>2, <1>3, <2>1
  <2>7. a[m].from = LeftBy(a, i, m, now)
    BY <1>3, <2>6 DEF Replays
  <2>8. Newer(a, i, m) = Newer(a, i, d)
    <3>1. \A l \in 1 .. n : i \in a[l].items /\ m < l => d < l
      BY <1>3, <2>1
    <3>2. m <= d /\ m \in Nat
      BY <2>1
    <3> QED BY <1>3, <1>7, <3>1, <3>2 DEF Newer
  <2>9. LeftBy(a, i, m, now) = LeftBy(a, i, d, now)
    BY <2>8, SameNewer
  <2> QED BY <1>1, <1>8, <2>3, <2>5, <2>6, <2>7, <2>9
<1> QED BY <1>9, <1>10

\* An item that is not there yet is in no entry: none takes it from nowhere.
LEMMA Untouched ==
  ASSUME NEW a, Numbered(a), NEW i, Replays(a, i, Absent), \A k \in DOMAIN a : a[k].from # Absent
  PROVE  /\ \A k \in DOMAIN a : i \notin a[k].items
         /\ \A now : Replays(a, i, now) /\ LeftBy(a, i, 0, now) = now
<1> DEFINE with == {k \in DOMAIN a : i \in a[k].items}
<1>1. with = {}
  <2> SUFFICES ASSUME with # {} PROVE FALSE
    OBVIOUS
  <2>1. with \subseteq 1 .. Len(a) /\ Len(a) \in Nat
    BY DEF Numbered
  <2>2. PICK m \in with : \A l \in with : l <= m
    BY <2>1, Greatest
  <2>3. Newer(a, i, m) = {}
    <3>1. \A l \in with : l \in Nat /\ m \in Nat
      BY <2>1
    <3> QED BY <2>2, <3>1 DEF Newer
  <2>4. a[m].from = Absent
    BY <2>2, <2>3 DEF Replays, LeftBy
  <2> QED BY <2>2, <2>4
<1>2. \A k \in DOMAIN a : i \notin a[k].items
  BY <1>1
<1>3. Newer(a, i, 0) = {}
  BY <1>2 DEF Newer
<1> QED BY <1>2, <1>3 DEF Replays, LeftBy

\* The entries selected are the stack's, in their order.
LEMMA SelectEmbeds ==
  ASSUME NEW S, NEW a \in Seq(S), NEW kept \in SUBSET DOMAIN a, NEW i,
         \A k \in DOMAIN a : i \in a[k].items => k \in kept
  PROVE  \E f : /\ Embeds(f, a, Select(a, kept)) /\ Covers(f, a, Select(a, kept), i, 0)
                /\ \A l \in DOMAIN Select(a, kept) : 0 < f[l]
<1> DEFINE upTo(k) == {l \in kept : l <= k}
           rank(k) == Cardinality(upTo(k))
           size == Cardinality(kept)
           at(n) == CHOOSE k \in kept : rank(k) = n
           f == [n \in 1 .. size |-> at(n)]
           b == Select(a, kept)
<1>1. Len(a) \in Nat /\ DOMAIN a = 1 .. Len(a) /\ kept \in SUBSET (1 .. Len(a)) /\ Numbered(a)
  BY DEF Numbered
<1>2. IsFiniteSet(kept) /\ size \in Nat
  <2>1. IsFiniteSet(1 .. Len(a))
    BY <1>1, FS_Interval
  <2> QED BY <1>1, <2>1, FS_Subset, FS_CardinalityType
<1>3. ASSUME NEW k \in kept PROVE IsFiniteSet(upTo(k)) /\ rank(k) \in 1 .. size
  <2>1. upTo(k) \in SUBSET kept /\ k \in upTo(k)
    BY <1>1
  <2>2. IsFiniteSet(upTo(k)) /\ rank(k) \in Nat /\ rank(k) <= size
    BY <1>2, <2>1, FS_Subset, FS_CardinalityType
  <2>3. rank(k) # 0
    BY <2>1, <2>2, FS_EmptySet
  <2> HIDE DEF upTo
  <2> QED BY <1>2, <2>2, <2>3
<1>4. ASSUME NEW k \in kept, NEW l \in kept, k < l PROVE rank(k) < rank(l)
  <2>1. upTo(k) \in SUBSET upTo(l) /\ l \in upTo(l) /\ l \notin upTo(k)
    BY <1>1, <1>4
  <2>2. IsFiniteSet(upTo(l)) /\ rank(k) \in Nat /\ rank(l) \in Nat
    <3>1. IsFiniteSet(upTo(l)) /\ rank(k) \in 1 .. size /\ rank(l) \in 1 .. size
      BY <1>3
    <3> HIDE DEF rank, upTo, size
    <3> QED BY <1>2, <3>1
  <2>3. rank(k) <= rank(l) /\ rank(k) # rank(l)
    BY <2>1, <2>2, FS_Subset
  <2> HIDE DEF upTo
  <2> QED BY <2>2, <2>3
<1>5. \A n \in 1 .. size : \E k \in kept : rank(k) = n
  BY <1>1, Ranked
<1>6. b = [n \in 1 .. size |-> a[at(n)]]
  BY DEF Select
<1> HIDE DEF upTo, rank, size
<1>7. \A n \in 1 .. size : at(n) \in kept /\ rank(at(n)) = n
  BY <1>5
<1> HIDE DEF at, b
<1>8. f \in [1 .. size -> 1 .. Len(a)] /\ \A n \in 1 .. size : f[n] \in kept /\ rank(f[n]) = n
  BY <1>1, <1>7
<1>9. DOMAIN b = 1 .. size /\ Len(b) = size /\ \A n \in 1 .. size : b[n] = a[f[n]]
  <2>1. DOMAIN b = 1 .. size /\ \A n \in 1 .. size : b[n] = a[f[n]]
    BY <1>6
  <2>2. Len(b) = size
    BY <1>2, <1>6
  <2> QED BY <2>1, <2>2
<1> HIDE DEF f
<1>10. ASSUME NEW j \in 1 .. size, NEW l \in 1 .. size, j < l PROVE f[j] < f[l]
  <2>1. f[j] \in kept /\ f[l] \in kept /\ rank(f[j]) = j /\ rank(f[l]) = l
    BY <1>8
  <2>2. f[j] \in Nat /\ f[l] \in Nat
    BY <1>1, <2>1
  <2>3. f[l] < f[j] => l < j
    BY <1>4, <2>1
  <2>4. f[l] # f[j]
    BY <1>10, <2>1
  <2> QED BY <1>10, <2>2, <2>3, <2>4
<1>11. Embeds(f, a, b)
  BY <1>1, <1>2, <1>8, <1>9, <1>10 DEF Embeds, Numbered
<1>12. ASSUME NEW k \in kept PROVE rank(k) \in 1 .. size /\ f[rank(k)] = k
  <2>1. PICK n \in 1 .. size : n = rank(k)
    BY <1>3
  <2>2. f[n] \in kept /\ rank(f[n]) = n
    BY <1>8
  <2>3. ~(f[n] < k) /\ ~(k < f[n])
    <3>1. f[n] < k => n < n
      BY <1>4, <2>1, <2>2
    <3>2. k < f[n] => n < n
      BY <1>4, <2>1, <2>2
    <3> QED BY <3>1, <3>2
  <2>4. f[n] \in Nat /\ k \in Nat
    BY <1>1, <2>2
  <2>5. f[n] = k
    BY <2>3, <2>4
  <2> QED BY <2>1, <2>5
<1>13. Covers(f, a, b, i, 0)
  BY <1>9, <1>12 DEF Covers
<1>14. \A l \in DOMAIN b : 0 < f[l]
  BY <1>8, <1>9
<1>15. b = Select(a, kept)
  BY DEF b
<1> QED BY <1>11, <1>13, <1>14, <1>15

\* Leaving out entries that do not take an item changes nothing for it.
LEMMA EmbeddedWhole ==
  ASSUME NEW a, NEW b, NEW i, NEW now,
         \E f : Embeds(f, a, b) /\ Covers(f, a, b, i, 0) /\ \A l \in DOMAIN b : 0 < f[l]
  PROVE  /\ Replays(b, i, now) <=> Replays(a, i, now)
         /\ LeftBy(b, i, 0, now) = LeftBy(a, i, 0, now)
<1>1. PICK f : Embeds(f, a, b) /\ Covers(f, a, b, i, 0) /\ \A l \in DOMAIN b : 0 < f[l]
  OBVIOUS
<1>2. 0 \in Nat
  OBVIOUS
<1> QED BY <1>1, <1>2, Embedded

\* What a successful EmptyTrash forgets does not matter to an item that no entry restores.
LEMMA ForgetReplays ==
  ASSUME NEW S, NEW a \in Seq(S), NEW t, NEW i, NEW now,
         t.request.op = "EmptyTrash" /\ t.error = "none" =>
           \A k \in DOMAIN a : i \in a[k].items => a[k].op # "Restore"
  PROVE  /\ Replays(Forget(t, a), i, now) <=> Replays(a, i, now)
         /\ LeftBy(Forget(t, a), i, 0, now) = LeftBy(a, i, 0, now)
<1>1. CASE ~(t.request.op = "EmptyTrash" /\ t.error = "none")
  <2>1. Forget(t, a) = a
    BY <1>1 DEF Forget
  <2> QED BY <2>1
<1>2. CASE t.request.op = "EmptyTrash" /\ t.error = "none"
  <2> DEFINE kept == {k \in DOMAIN a : a[k].op # "Restore"}
  <2>1. PICK b : b = Select(a, kept)
    OBVIOUS
  <2>2. \E f : Embeds(f, a, b) /\ Covers(f, a, b, i, 0) /\ \A l \in DOMAIN b : 0 < f[l]
    BY <1>2, <2>1, SelectEmbeds
  <2>3. Forget(t, a) = b
    BY <1>2, <2>1 DEF Forget
  <2> HIDE DEF kept
  <2>4. /\ Replays(b, i, now) <=> Replays(a, i, now)
        /\ LeftBy(b, i, 0, now) = LeftBy(a, i, 0, now)
    BY ONLY <2>2, EmbeddedWhole
  <2> QED BY <2>3, <2>4
<1> QED BY <1>1, <1>2

\* What is put on a stack, one entry or none, takes the item from here to where the stack finds it.
Adds(back, i, now, there) ==
  \/ back = <<>> /\ there = now
  \/ \E e : /\ back = <<e>>
            /\ IF i \in e.items THEN e.from = now /\ e.to = there ELSE there = now

LEMMA ConcatReplays ==
  ASSUME NEW S, NEW a \in Seq(S), NEW back \in Seq(S), NEW i, NEW now, NEW there,
         Adds(back, i, now, there), Replays(a, i, there)
  PROVE  /\ a \o back \in Seq(S) /\ Replays(a \o back, i, now)
         /\ LeftBy(a \o back, i, 0, now) = LeftBy(a, i, 0, there)
<1>1. CASE back = <<>> /\ there = now
  <2>1. a \o back = a
    BY <1>1, ConcatNone
  <2> QED BY <1>1, <2>1
<1>2. CASE back # <<>> \/ there # now
  <2>1. PICK e : back = <<e>> /\ IF i \in e.items THEN e.from = now /\ e.to = there ELSE there = now
    BY <1>2 DEF Adds
  <2>2. e \in S
    BY <2>1
  <2>3. OneMore(a, a \o back, e) /\ a \o back \in Seq(S)
    BY <2>1, <2>2, ConcatOne
  <2>4. PICK b : b = a \o back
    OBVIOUS
  <2>5. OneMore(a, b, e)
    BY <2>3, <2>4
  <2>6. Replays(b, i, now) /\ LeftBy(b, i, 0, now) = LeftBy(a, i, 0, there)
    <3>1. CASE i \in e.items
      BY <2>1, <2>5, <3>1, OneMoreReplays
    <3>2. CASE i \notin e.items
      BY <2>1, <2>5, <3>2, OneMoreReplays
    <3> QED BY <3>1, <3>2
  <2> QED BY <2>3, <2>4, <2>6
<1> QED BY <1>1, <1>2

LEMMA PushReplays ==
  ASSUME NEW S, NEW a \in Seq(S), NEW back \in Seq(S), NEW i \in Items, NEW now, NEW there,
         Adds(back, i, now, there), Replays(a, i, there)
  PROVE  Replays(Push(a, back), i, now)
<1>1. PICK b : b = a \o back
  OBVIOUS
<1>2. b \in Seq(S) /\ Replays(b, i, now)
  BY <1>1, ConcatReplays
<1>3. Replays(Trim(b), i, now)
  BY <1>2, TrimReplays
<1>4. CASE back = <<>>
  BY <1>1, <1>2, <1>4, ConcatNone DEF Push
<1>5. CASE back # <<>>
  BY <1>1, <1>3, <1>5 DEF Push
<1> QED BY <1>4, <1>5

-----------------------------------------------------------------------------
(* The invariant.                                                          *)

\* What is on a stack takes nothing from nowhere, and what a task is asked only copies from there.
Sited == {r \in Requests : r.from # Absent /\ r.to # Absent /\ r.op # "Copy"}
Asked == {r \in Requests : r.to # Absent /\ (r.op = "Copy" <=> r.from = Absent)}
Sites ==
  /\ undo \in Seq(Sited) /\ redo \in Seq(Sited)
  /\ \A s \in Slots : tasks[s] # NoTask =>
       tasks[s].request \in Asked /\ (tasks[s].history # "Fresh" => tasks[s].request \in Sited)

\* Undoing a stack finds the item where it takes it, and brings it back where it came from.
Returns(stack, i, now, from) ==
  /\ Replays(stack, i, now)
  /\ IF now = Absent THEN from = Absent ELSE Back(LeftBy(stack, i, 0, now), from)

\* A copy not made yet is undone to the trash, wherever there it will be.
LEMMA UntouchedReturns ==
  ASSUME NEW a \in Seq(Sited), NEW i, NEW from, Returns(a, i, Absent, from), NEW now \in Trashed
  PROVE  Returns(a, i, now, from)
<1>1. Numbered(a) /\ \A k \in DOMAIN a : a[k].from # Absent
  BY DEF Numbered, Sited
<1>2. Replays(a, i, now) /\ LeftBy(a, i, 0, now) = now
  BY <1>1, Untouched DEF Returns
<1> QED BY <1>2, PlacesApart DEF Returns, Back

LEMMA ConcatReturns ==
  ASSUME NEW a \in Seq(Sited), NEW back \in Seq(Sited), NEW i, NEW from, NEW now, NEW there,
         Adds(back, i, now, there), now = Absent <=> there = Absent, Returns(a, i, there, from)
  PROVE  Returns(a \o back, i, now, from)
<1>1. Replays(a \o back, i, now) /\ LeftBy(a \o back, i, 0, now) = LeftBy(a, i, 0, there)
  BY ConcatReplays DEF Returns
<1> QED BY <1>1 DEF Returns

\* Past the limit, undoing everything brings the item back where the entries dropped left it.
LEMMA PushReturns ==
  ASSUME NEW a \in Seq(Sited), NEW back \in Seq(Sited), NEW i \in Items, NEW now, NEW there,
         Adds(back, i, now, there), now = Absent <=> there = Absent, Returns(a, i, there, origin[i])
  PROVE  Returns(Push(a, back), i, now, IF back # <<>> THEN OriginAfter(Dropped(a \o back))[i] ELSE origin[i])
<1>1. PICK b : b = a \o back
  OBVIOUS
<1>2. b \in Seq(Sited) /\ Returns(b, i, now, origin[i])
  BY <1>1, ConcatReturns
<1>3. CASE back = <<>>
  BY <1>3, ConcatReturns, ConcatNone DEF Push
<1>4. CASE back # <<>>
  <2>1. PICK c : c = Trim(b)
    OBVIOUS
  <2>2. PICK from : from = OriginAfter(Dropped(b))[i]
    OBVIOUS
  <2>3. /\ Replays(c, i, now)
        /\ \/ from = LeftBy(c, i, 0, now)
           \/ from = origin[i] /\ LeftBy(c, i, 0, now) = LeftBy(b, i, 0, now)
    BY <1>2, <2>1, <2>2, TrimReplays DEF Returns
  <2>4. c \in Seq(Sited)
    BY <1>2, <2>1, StackOps
  <2>5. Returns(c, i, now, from)
    <3>1. CASE now = Absent
      <4>1. Numbered(c) /\ \A k \in DOMAIN c : c[k].from # Absent
        BY <2>4 DEF Numbered, Sited
      <4>2. LeftBy(c, i, 0, Absent) = Absent
        BY <2>3, <3>1, <4>1, Untouched
      <4>3. origin[i] = Absent
        BY <1>2, <3>1 DEF Returns
      <4> QED BY <2>3, <3>1, <4>2, <4>3 DEF Returns
    <3>2. CASE now # Absent
      BY <1>2, <2>3, <3>2 DEF Returns, Back
    <3> QED BY <3>1, <3>2
  <2> QED BY <1>1, <1>4, <2>1, <2>2, <2>5 DEF Push
<1> QED BY <1>3, <1>4

\* Where an item was before what the task has done of it, and where it will be after the task.
Before(t, i) == IF i \in t.outputs THEN t.request.from ELSE place[i]
After(t, i, history) ==
  IF t.history = history /\ i \in t.request.items THEN t.request.to ELSE Before(t, i)
OnTheWay(t, i) ==
  /\ t.history # "Fresh" /\ i \in t.request.items => Before(t, i) = t.request.from
  /\ Returns(undo, i, After(t, i, "Undo"), origin[i])
  /\ Replays(redo, i, After(t, i, "Redo"))
UnderWay(t) ==
  /\ \A i \in t.outputs : place[i] = t.request.to
  /\ t.history # "Fresh" => t.outputs = t.completed
  /\ t.history = "Fresh" => redo = <<>>
  /\ t.phase = "ended" /\ t.error = "none" => t.completed = t.request.items
  /\ \A i \in Items : place[i] # Gone => OnTheWay(t, i)

Resting(i) == Returns(undo, i, place[i], origin[i]) /\ Replays(redo, i, place[i])

Kept ==
  coherent =>
    /\ Idle => \A i \in Items : place[i] # Gone => Resting(i)
    /\ \A s \in Slots : tasks[s] # NoTask => UnderWay(tasks[s])
RInv == Sites /\ Kept

LEMMA RInvInit == Init => RInv
<1> SUFFICES ASSUME Init PROVE RInv
  OBVIOUS
<1>1. undo = <<>> /\ redo = <<>> /\ \A s \in Slots : tasks[s] = NoTask
  BY DEF Init
<1>2. Sites
  BY <1>1 DEF Sites
<1>3. ASSUME NEW i, NEW now PROVE Replays(<<>>, i, now) /\ LeftBy(<<>>, i, 0, now) = now
  <2>1. DOMAIN <<>> = {}
    OBVIOUS
  <2> QED BY <2>1 DEF Replays, LeftBy, Newer
<1>4. ASSUME NEW i \in Items PROVE Resting(i)
  <2>1. origin[i] = place[i]
    BY DEF Init
  <2> QED BY <1>1, <1>3, <2>1 DEF Resting, Returns, Back
<1> QED BY <1>1, <1>2, <1>4 DEF RInv, Kept

-----------------------------------------------------------------------------
(* A task is launched.                                                     *)

LEMMA FreshAreAsked == FreshRequests \subseteq Asked
<1> SUFFICES ASSUME NEW r \in FreshRequests PROVE r \in Asked
  OBVIOUS
<1> USE PlacesApart DEF Asked, Requests, Ops, Ask, Within
<1>1. CASE r \in Ask("Copy", Within(Absent), Absent, Living)
  BY <1>1
<1>2. ASSUME NEW p \in Living \cup Trashed, r \in Ask("Move", Within(p), p, Living \ {p}) PROVE r \in Asked
  BY <1>2
<1>3. ASSUME NEW f \in Folders, r \in Ask("Trash", Within(At(f)), At(f), {InTrash(f)}) PROVE r \in Asked
  BY <1>3 DEF Living, Trashed
<1>4. ASSUME NEW f \in Folders, r \in Ask("Restore", Within(InTrash(f)), InTrash(f), {At(f)}) PROVE r \in Asked
  BY <1>4 DEF Living, Trashed
<1>5. ASSUME NEW p \in Living \cup Trashed, r \in Ask("Delete", Within(p), p, {Gone}) PROVE r \in Asked
  BY <1>5
<1>6. CASE r = Request("EmptyTrash", {}, AnyTrash, Gone)
  BY <1>6 DEF Request
<1> QED BY <1>1, <1>2, <1>3, <1>4, <1>5, <1>6 DEF FreshRequests

LEMMA SitedAreAsked == Sited \subseteq Asked
BY DEF Sited, Asked

\* The task takes its slot, alone if the history stays coherent; the others keep what they are asked.
LEMMA LaunchSites ==
  ASSUME HInv, EInv, RInv, NEW slot, NEW request \in Asked, NEW h \in Histories,
         h # "Fresh" => request \in Sited, Launch(slot, request, h),
         undo' \in Seq(Sited), redo' \in Seq(Sited)
  PROVE  /\ Sites' /\ UNCHANGED place
         /\ coherent' => /\ coherent /\ Idle /\ origin' = origin
                         /\ tasks'[slot] = NewTask(request, h) /\ ~Idle'
                         /\ \A s \in Slots : tasks'[s] # NoTask => s = slot
<1> DEFINE new == NewTask(request, h)
           base == IF h = "Fresh" THEN Forked(Slots) ELSE tasks
<1>1. /\ slot \in Slots /\ tasks[slot] = NoTask /\ tasks' = [base EXCEPT ![slot] = new]
      /\ UNCHANGED <<place, posted>> /\ Remember(Idle, origin, emptied)
  BY DEF Launch, Free
<1>2. coherent' = (coherent /\ Idle) /\ (coherent' => origin' = origin)
  BY <1>1 DEF Remember
<1>3. \A s \in Slots : tasks[s] = NoTask => base[s] = NoTask
  BY DEF Forked
<1>4. ASSUME NEW s \in Slots, tasks[s] # NoTask
      PROVE  base[s].request = tasks[s].request /\ base[s].history = tasks[s].history
  <2>1. PICK r, c, o : tasks[s] \in TaskRecords(r, c, o)
    BY <1>4 DEF HInv, TasksOk, TaskOk
  <2> QED BY <1>4, <2>1 DEF TaskRecords, Forked
<1>5. \E T : base \in [Slots -> T]
  <2>1. Forked(Slots) \in [Slots -> {Forked(Slots)[s] : s \in Slots}]
    BY DEF Forked
  <2> QED BY <2>1 DEF HInv, TasksOk
<1> HIDE DEF base
<1>6. tasks'[slot] = new /\ \A s \in Slots \ {slot} : tasks'[s] = base[s]
  BY <1>1, <1>5
<1>7. new.request = request /\ new.history = h /\ new # NoTask
  <2>1. new.request = request /\ new.history = h /\ new.phase = "queued"
    BY DEF NewTask
  <2> QED BY <2>1 DEF NoTask
<1>8. Sites'
  <2>1. ASSUME NEW s \in Slots, tasks'[s] # NoTask
        PROVE  tasks'[s].request \in Asked /\ (tasks'[s].history # "Fresh" => tasks'[s].request \in Sited)
    <3>1. CASE s = slot
      BY <1>6, <1>7, <3>1
    <3>2. CASE s # slot
      <4>1. tasks'[s] = base[s] /\ tasks[s] # NoTask
        BY <1>3, <1>6, <2>1, <3>2
      <4> QED BY <1>4, <4>1 DEF RInv, Sites
    <3> QED BY <3>1, <3>2
  <2> QED BY <2>1 DEF Sites
<1>9. ASSUME coherent' PROVE ~Idle' /\ \A s \in Slots : tasks'[s] # NoTask => s = slot
  <2>1. \A s \in Slots : tasks[s] = NoTask
    BY <1>2, <1>9 DEF Idle, Free
  <2>2. \A s \in Slots \ {slot} : tasks'[s] = NoTask
    BY <1>3, <1>6, <2>1
  <2>3. ~Idle'
    BY <1>1, <1>6, <1>7 DEF Idle, Free
  <2> QED BY <2>2, <2>3
<1> QED BY <1>1, <1>2, <1>6, <1>8, <1>9

\* It has done nothing yet.
LEMMA NewUnderWay ==
  ASSUME NEW request, NEW h \in Histories, NEW t, t = NewTask(request, h), h = "Fresh" => redo' = <<>>,
         \A i \in Items : place'[i] # Gone =>
           /\ h # "Fresh" /\ i \in request.items => place'[i] = request.from
           /\ Returns(undo', i, IF h = "Undo" /\ i \in request.items THEN request.to ELSE place'[i], origin'[i])
           /\ Replays(redo', i, IF h = "Redo" /\ i \in request.items THEN request.to ELSE place'[i])
  PROVE  UnderWay(t)'
<1>1. /\ t.request = request /\ t.history = h /\ t.phase = "queued" /\ t.outputs = {} /\ t.completed = {}
  BY DEF NewTask
<1>2. \A i : Before(t, i)' = place'[i]
  BY <1>1 DEF Before
<1>3. \A i, g : After(t, i, g)' = IF h = g /\ i \in request.items THEN request.to ELSE place'[i]
  BY <1>1, <1>2 DEF After
<1>4. ASSUME NEW i \in Items, place'[i] # Gone PROVE OnTheWay(t, i)'
  BY <1>1, <1>2, <1>3, <1>4 DEF OnTheWay
<1> QED BY <1>1, <1>4 DEF UnderWay

\* The newest entry of a stack, taken off it, finds the item where it is.
LEMMA FrontReplays ==
  ASSUME NEW b \in Seq(Sited), b # <<>>, NEW i, NEW now, Replays(b, i, now)
  PROVE  /\ Front(b) \in Seq(Sited) /\ Last(b) \in Sited
         /\ i \in Last(b).items => now = Last(b).from
         /\ Replays(Front(b), i, IF i \in Last(b).items THEN Last(b).to ELSE now)
         /\ \A from : Returns(b, i, now, from) =>
              Returns(Front(b), i, IF i \in Last(b).items THEN Last(b).to ELSE now, from)
<1>1. PICK a, e : a = Front(b) /\ e = Last(b)
  OBVIOUS
<1>2. OneMore(a, b, e) /\ a \in Seq(Sited) /\ e \in Sited
  BY <1>1, FrontOne
<1>3. e.from # Absent /\ e.to # Absent
  BY <1>2 DEF Sited
<1>4. CASE i \in e.items
  <2>1. e.from = now /\ Replays(a, i, e.to) /\ LeftBy(b, i, 0, now) = LeftBy(a, i, 0, e.to)
    BY <1>2, <1>4, OneMoreReplays
  <2> QED BY <1>1, <1>2, <1>3, <1>4, <2>1 DEF Returns
<1>5. CASE i \notin e.items
  <2>1. Replays(a, i, now) /\ LeftBy(b, i, 0, now) = LeftBy(a, i, 0, now)
    BY <1>2, <1>5, OneMoreReplays
  <2> QED BY <1>1, <1>2, <1>5, <2>1 DEF Returns
<1> QED BY <1>4, <1>5

LEMMA LaunchKept ==
  ASSUME HInv, EInv, RInv, SubmitFresh \/ Undo \/ Redo
  PROVE  RInv'
<1>1. undo \in Seq(Sited) /\ redo \in Seq(Sited)
  BY DEF RInv, Sites
<1>2. ASSUME NEW slot, NEW request \in Asked, NEW h \in Histories, h # "Fresh" => request \in Sited,
             Launch(slot, request, h), undo' \in Seq(Sited), redo' \in Seq(Sited),
             h = "Fresh" => redo' = <<>>,
             ASSUME NEW i \in Items, Resting(i)
             PROVE  /\ h # "Fresh" /\ i \in request.items => place[i] = request.from
                    /\ Returns(undo', i, IF h = "Undo" /\ i \in request.items THEN request.to ELSE place[i], origin[i])
                    /\ Replays(redo', i, IF h = "Redo" /\ i \in request.items THEN request.to ELSE place[i])
      PROVE  RInv'
  <2>1. /\ Sites' /\ UNCHANGED place
        /\ coherent' => /\ coherent /\ Idle /\ origin' = origin
                        /\ tasks'[slot] = NewTask(request, h) /\ ~Idle'
                        /\ \A s \in Slots : tasks'[s] # NoTask => s = slot
    BY <1>2, LaunchSites
  <2>2. SUFFICES ASSUME coherent' PROVE UnderWay(NewTask(request, h))'
    BY <2>1 DEF RInv, Kept
  <2>3. \A i \in Items : place[i] # Gone => Resting(i)
    BY <2>1, <2>2 DEF RInv, Kept
  <2>4. PICK t : t = NewTask(request, h)
    OBVIOUS
  <2>5. \A i \in Items : place'[i] # Gone =>
           /\ h # "Fresh" /\ i \in request.items => place'[i] = request.from
           /\ Returns(undo', i, IF h = "Undo" /\ i \in request.items THEN request.to ELSE place'[i], origin'[i])
           /\ Replays(redo', i, IF h = "Redo" /\ i \in request.items THEN request.to ELSE place'[i])
    BY <1>2, <2>1, <2>2, <2>3
  <2>6. UnderWay(t)'
    BY <1>2, <2>4, <2>5, NewUnderWay
  <2> QED BY <2>4, <2>6
<1>3. CASE SubmitFresh
  <2>1. PICK slot \in Slots, request \in FreshRequests :
          Launch(slot, request, "Fresh") /\ redo' = <<>> /\ UNCHANGED undo
    BY <1>3 DEF SubmitFresh
  <2>2. request \in Asked /\ "Fresh" \in Histories /\ redo' \in Seq(Sited)
    BY <2>1, FreshAreAsked DEF Histories
  <2>3. ASSUME NEW i, NEW now PROVE Replays(redo', i, now)
    <3>1. DOMAIN redo' = {}
      BY <2>1
    <3> QED BY <3>1 DEF Replays
  <2>4. ASSUME NEW i \in Items, Resting(i)
        PROVE  Returns(undo', i, place[i], origin[i]) /\ Replays(redo', i, place[i])
    BY <2>1, <2>3, <2>4 DEF Resting
  <2> QED BY <1>1, <1>2, <2>1, <2>2, <2>4
<1>4. CASE Undo
  <2>1. PICK slot \in Slots : Launch(slot, Last(undo), "Undo")
    BY <1>4 DEF Undo
  <2>2. undo # <<>> /\ undo' = Front(undo) /\ UNCHANGED redo
    BY <1>4 DEF Undo
  <2>3. PICK e : e = Last(undo)
    OBVIOUS
  <2>4. Front(undo) \in Seq(Sited) /\ e \in Sited /\ e \in Asked /\ "Undo" \in Histories
    BY <1>1, <2>2, <2>3, StackOps, SitedAreAsked DEF Histories
  <2>5. ASSUME NEW i \in Items, Resting(i)
        PROVE  /\ i \in e.items => place[i] = e.from
               /\ Returns(undo', i, IF i \in e.items THEN e.to ELSE place[i], origin[i])
               /\ Replays(redo', i, place[i])
    <3>1. Replays(undo, i, place[i]) /\ Returns(undo, i, place[i], origin[i]) /\ Replays(redo, i, place[i])
      BY <2>5 DEF Resting, Returns
    <3> QED BY <1>1, <2>2, <2>3, <3>1, FrontReplays
  <2> QED BY <1>1, <1>2, <2>1, <2>2, <2>3, <2>4, <2>5
<1>5. CASE Redo
  <2>1. PICK slot \in Slots : Launch(slot, Last(redo), "Redo")
    BY <1>5 DEF Redo
  <2>2. redo # <<>> /\ redo' = Front(redo) /\ UNCHANGED undo
    BY <1>5 DEF Redo
  <2>3. PICK e : e = Last(redo)
    OBVIOUS
  <2>4. Front(redo) \in Seq(Sited) /\ e \in Sited /\ e \in Asked /\ "Redo" \in Histories
    BY <1>1, <2>2, <2>3, StackOps, SitedAreAsked DEF Histories
  <2>5. ASSUME NEW i \in Items, Resting(i)
        PROVE  /\ i \in e.items => place[i] = e.from
               /\ Returns(undo', i, place[i], origin[i])
               /\ Replays(redo', i, IF i \in e.items THEN e.to ELSE place[i])
    <3>1. Returns(undo, i, place[i], origin[i]) /\ Replays(redo, i, place[i])
      BY <2>5 DEF Resting
    <3> QED BY <1>1, <2>2, <2>3, <3>1, FrontReplays
  <2> QED BY <1>1, <1>2, <2>1, <2>2, <2>3, <2>4, <2>5
<1> QED BY <1>3, <1>4, <1>5

-----------------------------------------------------------------------------
(* A task on its way.                                                      *)

LEMMA ChangeKept ==
  ASSUME HInv, EInv, RInv, NEW s \in Slots, tasks[s] # NoTask, UNCHANGED <<undo, redo>>,
         NEW u, u # NoTask, tasks' = [tasks EXCEPT ![s] = u],
         u.request \in Asked, u.history # "Fresh" => u.request \in Sited,
         coherent' => coherent, coherent' => UnderWay(u)'
  PROVE  RInv'
<1>1. tasks'[s] = u /\ \A r \in Slots \ {s} : tasks'[r] = tasks[r]
  BY DEF HInv, TasksOk
<1>2. Sites'
  BY <1>1 DEF RInv, Sites
<1>3. ASSUME coherent' PROVE ~Idle' /\ \A r \in Slots : tasks'[r] # NoTask => r = s
  BY <1>1, <1>3 DEF EInv, Alone, Idle, Free
<1>4. Kept'
  BY <1>1, <1>3 DEF Kept
<1> QED BY <1>2, <1>4 DEF RInv

\* While nothing moves, a task that has done as much of the same is under way like before.
LEMMA SameUnderWay ==
  ASSUME NEW t, UnderWay(t), UNCHANGED <<place, origin, undo, redo>>,
         NEW u, u.history = t.history, u.outputs = t.outputs,
         u.request.from = t.request.from, u.request.to = t.request.to,
         u.history # "Fresh" => u.request.items = t.request.items /\ u.completed = t.completed,
         u.phase = "ended" /\ u.error = "none" => u.completed = u.request.items
  PROVE  UnderWay(u)'
<1>1. \A i : Before(u, i)' = Before(t, i)
  BY DEF Before
<1>2. \A i, h : h # "Fresh" => After(u, i, h)' = After(t, i, h)
  BY <1>1 DEF After
<1>3. ASSUME NEW i \in Items, place'[i] # Gone PROVE OnTheWay(u, i)'
  <2>1. OnTheWay(t, i)
    BY <1>3 DEF UnderWay
  <2> QED BY <1>1, <1>2, <2>1 DEF OnTheWay
<1> QED BY <1>3 DEF UnderWay

\* The item moved was where the request takes it from, and is where it takes it.
LEMMA MovedUnderWay ==
  ASSUME EInv, NEW t, Sound(t), UnderWay(t), t.phase = "running", UNCHANGED <<origin, undo, redo>>,
         NEW i \in t.request.items \ t.completed,
         IF t.request.from = AnyTrash THEN place[i] \in Trashed ELSE place[i] = t.request.from,
         place' = [place EXCEPT ![i] = t.request.to],
         NEW u, u.history = t.history, u.request = t.request, u.phase = t.phase,
         u.completed = t.completed \cup {i}, u.outputs = t.outputs \cup {i}
  PROVE  UnderWay(u)'
<1>1. /\ i \in Items /\ t.request \in Entries /\ i \notin t.outputs /\ t.outputs \subseteq Items
      /\ t.request.from # Gone /\ (t.request.from = AnyTrash => t.request.to = Gone)
  BY DEF Sound, Entries, Requests
<1>2. place'[i] = t.request.to /\ \A j \in Items \ {i} : place'[j] = place[j]
  BY <1>1 DEF EInv, World
<1>3. ASSUME NEW j \in Items, place'[j] # Gone
      PROVE  place[j] # Gone /\ Before(u, j)' = Before(t, j) /\ \A h : After(u, j, h)' = After(t, j, h)
  <2>1. CASE j = i
    BY <1>1, <1>2, <1>3, <2>1 DEF Before, After
  <2>2. CASE j # i
    BY <1>1, <1>2, <1>3, <2>2 DEF Before, After
  <2> QED BY <2>1, <2>2
<1>4. ASSUME NEW j \in Items, place'[j] # Gone PROVE OnTheWay(u, j)'
  <2>1. OnTheWay(t, j)
    BY <1>3, <1>4 DEF UnderWay
  <2> QED BY <1>3, <1>4, <2>1 DEF OnTheWay
<1>5. \A j \in u.outputs : place'[j] = u.request.to
  BY <1>1, <1>2 DEF UnderWay
<1> QED BY <1>4, <1>5 DEF UnderWay

LEMMA TaskKept ==
  ASSUME HInv, EInv, RInv, NEW s \in Slots, Start(s) \/ MoveItem(s) \/ SkipItem(s) \/ End(s)
  PROVE  RInv'
<1>1. PICK t : t = tasks[s]
  OBVIOUS
<1>2. /\ t # NoTask /\ tasks[s] # NoTask /\ Sound(t) /\ UNCHANGED <<undo, redo>>
      /\ t.request \in Asked /\ (t.history # "Fresh" => t.request \in Sited)
      /\ coherent => UnderWay(t)
  BY <1>1 DEF EInv, TasksSound, RInv, Sites, Kept, Start, MoveItem, SkipItem, End, Running
<1>3. PICK q, c, o : t \in TaskRecords(q, c, o)
  BY <1>1, <1>2 DEF HInv, TasksOk, TaskOk
<1>4. t.request.items \subseteq Items /\ (t.history # "Fresh" => t.request.op # "EmptyTrash")
  BY <1>2 DEF Sound, Held, Entries, Requests
<1>5. CASE Start(s)
  <2>1. PICK items \in SUBSET Items :
          /\ tasks' = [tasks EXCEPT ![s].phase = "running", ![s].request.items = items]
          /\ t.request.op # "EmptyTrash" => items = t.request.items
    BY ZenonT(60), <1>1, <1>4, <1>5 DEF Start
  <2>2. PICK request : request = [t.request EXCEPT !.items = items]
    OBVIOUS
  <2>3. PICK u : u = [t EXCEPT !.phase = "running", !.request = request]
    OBVIOUS
  <2>4. tasks' = [tasks EXCEPT ![s] = u]
    <3> DEFINE v == [tasks[s] EXCEPT !.phase = "running", !.request = [tasks[s].request EXCEPT !.items = items]]
    <3>1. tasks' = [tasks EXCEPT ![s].phase = "running", ![s].request.items = items]
      BY <2>1
    <3>2. tasks' = [tasks EXCEPT ![s] = v]
      BY <3>1 DEF HInv, TasksOk
    <3> QED BY <1>1, <2>2, <2>3, <3>2
  <2>5. /\ u.request = request /\ u.history = t.history /\ u.completed = t.completed /\ u.outputs = t.outputs
        /\ u.phase = "running"
    BY <1>3, <2>3 DEF TaskRecords
  <2>6. u # NoTask
    BY <2>5 DEF NoTask
  <2>7. /\ request.from = t.request.from /\ request.to = t.request.to /\ request.items = items
        /\ request \in Asked /\ (t.request \in Sited => request \in Sited)
    BY <1>2, <2>2 DEF Asked, Sited, Requests
  <2>8. UNCHANGED <<place, origin, coherent>>
    BY <1>5 DEF Start
  <2>9. ASSUME coherent PROVE UnderWay(u)'
    <3>1. u.history # "Fresh" => u.request.items = t.request.items
      BY <1>4, <2>1, <2>5, <2>7
    <3> QED BY <1>2, <2>5, <2>7, <2>8, <2>9, <3>1, SameUnderWay
  <2> QED BY <1>2, <2>4, <2>5, <2>6, <2>7, <2>8, <2>9, ChangeKept
<1>6. CASE MoveItem(s)
  <2>1. PICK i \in Left(s), merges \in BOOLEAN :
          /\ IF t.request.from = AnyTrash THEN place[i] \in Trashed ELSE place[i] = t.request.from
          /\ place' = [place EXCEPT ![i] = t.request.to]
          /\ tasks' = [tasks EXCEPT ![s].completed = @ \cup {i}, ![s].outputs = @ \cup {i},
                                    ![s].merged = @ \/ merges]
    BY <1>1, <1>6 DEF MoveItem
  <2>2. PICK u : u = [t EXCEPT !.completed = t.completed \cup {i}, !.outputs = t.outputs \cup {i},
                               !.merged = t.merged \/ merges]
    OBVIOUS
  <2>3. tasks' = [tasks EXCEPT ![s] = u]
    BY <1>1, <2>1, <2>2 DEF HInv, TasksOk
  <2>4. /\ u.request = t.request /\ u.history = t.history /\ u.phase = t.phase
        /\ u.completed = t.completed \cup {i} /\ u.outputs = t.outputs \cup {i}
    BY <1>3, <2>2 DEF TaskRecords
  <2>5. t.phase = "running"
    BY <1>1, <1>6 DEF MoveItem, Running
  <2>6. u # NoTask
    BY <2>4, <2>5 DEF NoTask
  <2>7. UNCHANGED <<origin, coherent>> /\ i \in t.request.items \ t.completed
    BY <1>1, <1>6, <2>1 DEF MoveItem, Left
  <2>8. ASSUME coherent PROVE UnderWay(u)'
    BY <1>2, <2>1, <2>4, <2>5, <2>7, <2>8, MovedUnderWay
  <2> QED BY <1>2, <2>3, <2>4, <2>6, <2>7, <2>8, ChangeKept
<1>7. CASE SkipItem(s)
  <2>1. PICK i \in Left(s) : tasks' = [tasks EXCEPT ![s].completed = @ \cup {i}]
    BY <1>7 DEF SkipItem
  <2>2. PICK u : u = [t EXCEPT !.completed = t.completed \cup {i}]
    OBVIOUS
  <2>3. tasks' = [tasks EXCEPT ![s] = u]
    BY <1>1, <2>1, <2>2 DEF HInv, TasksOk
  <2>4. /\ u.request = t.request /\ u.history = t.history /\ u.phase = t.phase /\ u.outputs = t.outputs
        /\ t.phase = "running"
    BY <1>1, <1>3, <1>7, <2>2 DEF TaskRecords, SkipItem, Running
  <2>5. u # NoTask
    BY <2>4 DEF NoTask
  <2>6. UNCHANGED place /\ (coherent' => coherent /\ t.history = "Fresh" /\ origin' = origin)
    BY <1>1, <1>7 DEF SkipItem, Remember
  <2>7. ASSUME coherent' PROVE UnderWay(u)'
    BY <1>2, <2>4, <2>6, <2>7, SameUnderWay
  <2> QED BY <1>2, <2>3, <2>4, <2>5, <2>6, <2>7, ChangeKept
<1>8. CASE End(s)
  <2>1. PICK e : /\ tasks' = [tasks EXCEPT ![s].phase = "ended", ![s].error = e]
                 /\ e = "none" => Left(s) = {}
    BY <1>8 DEF End
  <2>2. PICK u : u = [t EXCEPT !.phase = "ended", !.error = e]
    OBVIOUS
  <2>3. tasks' = [tasks EXCEPT ![s] = u]
    BY <1>1, <2>1, <2>2 DEF HInv, TasksOk
  <2>4. /\ u.request = t.request /\ u.history = t.history /\ u.phase = "ended" /\ u.error = e
        /\ u.completed = t.completed /\ u.outputs = t.outputs
    BY <1>3, <2>2 DEF TaskRecords
  <2>5. u # NoTask
    BY <2>4 DEF NoTask
  <2>6. UNCHANGED <<place, origin, coherent>>
    BY <1>8 DEF End
  <2>7. e = "none" => t.completed = t.request.items
    BY <1>1, <1>2, <2>1 DEF Left, Sound
  <2>8. ASSUME coherent PROVE UnderWay(u)'
    BY <1>2, <2>4, <2>6, <2>7, <2>8, SameUnderWay
  <2> QED BY <1>2, <2>3, <2>4, <2>5, <2>6, <2>8, ChangeKept
<1> QED BY <1>5, <1>6, <1>7, <1>8

LEMMA CancelKept == ASSUME HInv, EInv, RInv, Cancel PROVE RInv'
<1>1. PICK s \in Slots :
        /\ tasks[s] # NoTask /\ tasks[s].phase # "ended"
        /\ tasks' = [tasks EXCEPT ![s].canceled = TRUE]
        /\ UNCHANGED <<place, undo, redo, origin, coherent>>
  BY DEF Cancel, Free
<1>2. PICK t : t = tasks[s]
  OBVIOUS
<1>3. PICK u : u = [t EXCEPT !.canceled = TRUE]
  OBVIOUS
<1>4. PICK q, c, o : t \in TaskRecords(q, c, o)
  BY <1>1, <1>2 DEF HInv, TasksOk, TaskOk
<1>5. /\ u.request = t.request /\ u.history = t.history /\ u.phase = t.phase
      /\ u.completed = t.completed /\ u.outputs = t.outputs /\ u # NoTask
  <2>1. u \in TaskRecords(q, c, o)
    BY <1>3, <1>4 DEF TaskRecords
  <2>2. u # NoTask
    BY <2>1, TaskIsNotNone DEF TaskOk
  <2> QED BY <1>3, <1>4, <2>2 DEF TaskRecords
<1>6. tasks' = [tasks EXCEPT ![s] = u]
  BY <1>1, <1>2, <1>3 DEF HInv, TasksOk
<1>7. /\ t.request \in Asked /\ (t.history # "Fresh" => t.request \in Sited)
      /\ coherent => UnderWay(t)
  BY <1>1, <1>2 DEF RInv, Sites, Kept
<1>8. ASSUME coherent PROVE UnderWay(u)'
  BY <1>1, <1>2, <1>5, <1>7, <1>8, SameUnderWay
<1> QED BY <1>1, <1>2, <1>5, <1>6, <1>7, <1>8, ChangeKept

-----------------------------------------------------------------------------
(* A task is recorded.                                                     *)

LEMMA RemainingSited ==
  ASSUME NEW t, t.history # "Fresh" => t.request \in Sited
  PROVE  Remaining(t) \in Seq(Sited)
<1>1. CASE t.history = "Fresh" \/ t.error # "canceled" \/ t.request.items = t.completed
  BY <1>1 DEF Remaining
<1>2. CASE ~(t.history = "Fresh" \/ t.error # "canceled" \/ t.request.items = t.completed)
  <2>1. PICK e : e = [t.request EXCEPT !.items = t.request.items \ t.completed]
    OBVIOUS
  <2>2. e \in Sited
    BY <1>2, <2>1 DEF Sited, Requests
  <2>3. Remaining(t) = <<e>>
    BY <1>2, <2>1 DEF Remaining
  <2> QED BY <2>2, <2>3
<1> QED BY <1>1, <1>2

\* What a cancelled undo did not reach is where the entry found it.
LEMMA RemainingAdds ==
  ASSUME NEW t, t.request \in Sited, t.history # "Fresh", t.error \in {"none", "canceled"},
         t.error = "none" => t.completed = t.request.items,
         NEW i, NEW now, i \in t.request.items \ t.completed => now = t.request.from
  PROVE  Adds(Remaining(t), i, now, IF i \in t.request.items \ t.completed THEN t.request.to ELSE now)
<1>1. CASE t.error # "canceled" \/ t.request.items = t.completed
  <2>1. Remaining(t) = <<>> /\ i \notin t.request.items \ t.completed
    BY <1>1 DEF Remaining
  <2> QED BY <2>1 DEF Adds
<1>2. CASE ~(t.error # "canceled" \/ t.request.items = t.completed)
  <2>1. PICK e : e = [t.request EXCEPT !.items = t.request.items \ t.completed]
    OBVIOUS
  <2>2. e.items = t.request.items \ t.completed /\ e.from = t.request.from /\ e.to = t.request.to
    BY <2>1 DEF Sited, Requests
  <2>3. Remaining(t) = <<e>>
    BY <1>2, <2>1 DEF Remaining
  <2> QED BY <2>2, <2>3 DEF Adds
<1> QED BY <1>1, <1>2

NoWayBack(t) ==
  \/ t.outputs = {} \/ t.merged \/ t.request.op \in {"Delete", "EmptyTrash"}
  \/ (t.request.op = "Move" /\ t.request.from \in Trashed)
\* Where undoing a task puts what it did.
Home(t) == IF t.request.op = "Copy" THEN InTrash(t.request.to[2]) ELSE t.request.from

LEMMA InverseShape ==
  ASSUME NEW t, Sound(t), t.request \in Asked
  PROVE  IF NoWayBack(t) THEN InverseOf(t) = <<>>
         ELSE \E e \in Sited : /\ InverseOf(t) = <<e>> /\ e.items = t.outputs
                               /\ e.from = t.request.to /\ e.to = Home(t)
                               /\ t.request.op = "Copy" => Home(t) \in Trashed
<1>1. CASE NoWayBack(t)
  BY <1>1 DEF InverseOf, NoWayBack
<1>2. CASE ~NoWayBack(t)
  <2>1. InverseOf(t) = <<Request(InverseOp(t.request.op), t.outputs, t.request.to, Home(t))>>
    BY <1>2 DEF InverseOf, NoWayBack, Home
  <2>2. PICK op \in {"Restore", "Move", "Trash"} : op = InverseOp(t.request.op)
    BY DEF InverseOp
  <2>3. PICK to : to = Home(t)
    OBVIOUS
  <2>4. /\ t.request \in Entries /\ t.request.op \notin {"Delete", "EmptyTrash"}
        /\ t.outputs \subseteq Items /\ t.request.to \in Places \ {Gone, Absent}
    BY <1>2 DEF Sound, Entries, Asked, Requests, NoWayBack
  <2>5. t.request.op = "Copy" => to \in Trashed
    <3>1. t.request.op = "Copy" => t.request.to \in Living
      BY <2>4 DEF Entries
    <3> QED BY <2>3, <3>1, PlacesApart DEF Home
  <2>6. to \in Places \ {Absent}
    <3>1. t.request.op # "Copy" => t.request.from \in Places \ {Absent}
      BY <2>4 DEF Entries, Asked, Requests
    <3> QED BY <2>3, <2>5, <3>1, PlacesApart DEF Home
  <2>7. PICK e : e = Request(op, t.outputs, t.request.to, to)
    OBVIOUS
  <2>8. e.items = t.outputs /\ e.from = t.request.to /\ e.to = to /\ e \in Sited
    BY <2>2, <2>4, <2>6, <2>7 DEF Request, Sited, Requests, Ops
  <2>9. InverseOf(t) = <<e>>
    BY <2>1, <2>2, <2>3, <2>7
  <2> QED BY <1>2, <2>3, <2>5, <2>8, <2>9
<1> QED BY <1>1, <1>2

LEMMA InverseAdds ==
  ASSUME NEW t, Sound(t), t.request \in Asked, NEW i, NEW now,
         i \in t.outputs => ~NoWayBack(t) /\ now = t.request.to
  PROVE  /\ Adds(InverseOf(t), i, now, IF i \in t.outputs THEN Home(t) ELSE now)
         /\ InverseOf(t) \in Seq(Sited)
<1>1. CASE NoWayBack(t)
  <2>1. InverseOf(t) = <<>> /\ i \notin t.outputs
    BY <1>1, InverseShape
  <2> QED BY <2>1 DEF Adds
<1>2. CASE ~NoWayBack(t)
  <2>1. PICK e \in Sited : InverseOf(t) = <<e>> /\ e.items = t.outputs /\ e.from = t.request.to /\ e.to = Home(t)
    BY <1>2, InverseShape
  <2>2. Adds(InverseOf(t), i, now, IF i \in t.outputs THEN Home(t) ELSE now)
    BY <2>1 DEF Adds
  <2> QED BY <2>1, <2>2
<1> QED BY <1>1, <1>2

LEMMA InverseSited == ASSUME NEW t, Sound(t), t.request \in Asked PROVE InverseOf(t) \in Seq(Sited)
<1>1. CASE NoWayBack(t)
  <2>1. InverseOf(t) = <<>>
    BY <1>1, InverseShape
  <2> QED BY <2>1
<1>2. CASE ~NoWayBack(t)
  <2>1. PICK e \in Sited : InverseOf(t) = <<e>>
    BY <1>2, InverseShape
  <2> QED BY <2>1
<1> QED BY <1>1, <1>2

LEMMA ForgetSited == ASSUME NEW t, NEW a \in Seq(Sited) PROVE Forget(t, a) \in Seq(Sited)
<1>1. {r \in Sited : r.op # "Restore"} \subseteq Sited
  OBVIOUS
<1>2. Seq({r \in Sited : r.op # "Restore"}) \subseteq Seq(Sited)
  BY <1>1
<1> QED BY <1>2, ForgetKept

\* What Unrecoverable asks of an entry that restores.
LEMMA ForgotNone ==
  ASSUME NEW t, t.request.op = "EmptyTrash", t.error = "none", NEW e, e.op = "Restore"
  PROVE  Forget(t, <<e>>) = <<>>
<1>1. <<e>> \in Seq({e})
  OBVIOUS
<1>2. Forget(t, <<e>>) \in Seq({r \in {e} : r.op # "Restore"})
  BY <1>1, ForgetKept
<1>3. {r \in {e} : r.op # "Restore"} = {}
  OBVIOUS
<1>4. Forget(t, <<e>>) \in Seq({})
  BY <1>2, <1>3
<1> QED BY <1>4

\* A task that ended, all that it did undoable.
Ended(t) ==
  /\ Sound(t) /\ UnderWay(t) /\ t.request \in Asked /\ (t.history # "Fresh" => t.request \in Sited)
  /\ t.phase = "ended" /\ t.error \in {"none", "failed", "canceled"}
  /\ t.outputs # {} => ~t.merged /\ ~(t.request.op = "Move" /\ t.request.from \in Trashed)
  /\ t.history # "Fresh" => t.error # "failed"

\* What it did to an item can be undone, unless there is none left to undo.
LEMMA WayBack ==
  ASSUME NEW t, Ended(t), NEW i \in Items, place[i] # Gone, i \in t.outputs
  PROVE  ~NoWayBack(t) /\ place[i] = t.request.to
<1>1. place[i] = t.request.to
  BY DEF Ended, UnderWay
<1>2. t.request.op \notin {"Delete", "EmptyTrash"}
  BY <1>1 DEF Ended, Sound, Entries
<1> QED BY <1>1, <1>2 DEF Ended, NoWayBack

\* The stack pushed to: the undo stack, but for an undo.
LEMMA PushedBack ==
  ASSUME NEW t, Ended(t), NEW i \in Items, place[i] # Gone, undo \in Seq(Sited), redo \in Seq(Sited)
  PROVE  /\ t.history = "Undo" => Replays(Push(redo, InverseOf(t)), i, place[i])
         /\ t.history # "Undo" =>
              Returns(Push(undo, InverseOf(t)), i, place[i],
                      IF InverseOf(t) # <<>> THEN OriginAfter(Dropped(undo \o InverseOf(t)))[i] ELSE origin[i])
<1>1. PICK back : back = InverseOf(t)
  OBVIOUS
<1>2. PICK there : there = IF i \in t.outputs THEN Home(t) ELSE place[i]
  OBVIOUS
<1>3. i \in t.outputs => ~NoWayBack(t) /\ place[i] = t.request.to
  BY WayBack
<1>4. Adds(back, i, place[i], there) /\ back \in Seq(Sited)
  BY <1>1, <1>2, <1>3, InverseAdds DEF Ended
<1>5. OnTheWay(t, i) /\ t.request \in Asked
  BY DEF Ended, UnderWay
<1>6. t.request.op # "Copy" => there = Before(t, i)
  BY <1>2 DEF Home, Before
<1>7. i \in t.outputs => /\ t.request.to # Absent /\ Home(t) # Absent
                         /\ t.request.op = "Copy" => Home(t) \in Trashed
  BY <1>3, <1>5, InverseShape, PlacesApart DEF Ended, Asked, Home
<1>8. there = Absent <=> place[i] = Absent
  BY <1>2, <1>3, <1>7
<1>9. CASE t.history = "Undo"
  <2>1. t.request.op # "Copy"
    BY <1>9 DEF Ended, Sited
  <2>2. Replays(redo, i, there)
    BY <1>5, <1>6, <1>9, <2>1 DEF OnTheWay, After
  <2> QED BY <1>1, <1>4, <1>9, <2>2, PushReplays
<1>10. CASE t.history # "Undo"
  <2>1. Returns(undo, i, Before(t, i), origin[i])
    BY <1>5, <1>10 DEF OnTheWay, After
  <2>2. Returns(undo, i, there, origin[i])
    <3>1. CASE t.request.op # "Copy"
      BY <1>6, <2>1, <3>1
    <3>2. CASE t.request.op = "Copy" /\ i \notin t.outputs
      BY <1>2, <2>1, <3>2 DEF Before
    <3>3. CASE t.request.op = "Copy" /\ i \in t.outputs
      <4>1. Before(t, i) = Absent /\ there \in Trashed
        BY <1>2, <1>5, <1>7, <3>3 DEF Before, Asked
      <4> QED BY <2>1, <4>1, UntouchedReturns
    <3> QED BY <3>1, <3>2, <3>3
  <2>3. Returns(Push(undo, back), i, place[i], IF back # <<>> THEN OriginAfter(Dropped(undo \o back))[i] ELSE origin[i])
    BY <1>4, <1>8, <2>2, PushReturns
  <2> QED BY <1>1, <1>10, <2>3
<1> QED BY <1>9, <1>10

\* The stack the task came from, which gets back what is left of its entry.
LEMMA GivenBack ==
  ASSUME NEW t, Ended(t), t.history # "Fresh", NEW i \in Items, place[i] # Gone,
         undo \in Seq(Sited), redo \in Seq(Sited)
  PROVE  /\ t.history = "Undo" => Returns(undo \o Remaining(t), i, place[i], origin[i])
         /\ t.history = "Redo" => Replays(redo \o Remaining(t), i, place[i])
<1>1. PICK rest : rest = Remaining(t)
  OBVIOUS
<1>2. PICK there : there = IF i \in t.request.items \ t.completed THEN t.request.to ELSE place[i]
  OBVIOUS
<1>3. /\ OnTheWay(t, i) /\ t.request \in Sited /\ t.outputs = t.completed /\ t.completed \subseteq t.request.items
      /\ t.error \in {"none", "canceled"} /\ (t.error = "none" => t.completed = t.request.items)
      /\ i \in t.outputs => place[i] = t.request.to
  BY DEF Ended, UnderWay, Sound
<1>4. i \in t.request.items \ t.completed => place[i] = t.request.from
  BY <1>3 DEF OnTheWay, Before
<1>5. rest \in Seq(Sited) /\ Adds(rest, i, place[i], there)
  BY <1>1, <1>2, <1>3, <1>4, RemainingSited, RemainingAdds
<1>6. t.request.from # Absent /\ t.request.to # Absent
  BY <1>3 DEF Sited
<1>7. place[i] = Absent <=> there = Absent
  BY <1>2, <1>4, <1>6
<1>8. After(t, i, t.history) = there
  BY <1>2, <1>3 DEF After, Before
<1>9. CASE t.history = "Undo"
  <2>1. Returns(undo, i, there, origin[i])
    BY <1>3, <1>8, <1>9 DEF OnTheWay
  <2> QED BY <1>1, <1>5, <1>7, <1>9, <2>1, ConcatReturns
<1>10. CASE t.history = "Redo"
  <2>1. Replays(redo, i, there)
    BY <1>3, <1>8, <1>10 DEF OnTheWay
  <2> QED BY <1>1, <1>5, <1>10, <2>1, ConcatReplays
<1> QED BY <1>9, <1>10

LEMMA RecordKept == ASSUME HInv, EInv, RInv, Record PROVE RInv'
<1>1. PICK slot : slot = Head(posted)
  OBVIOUS
<1>2. PICK t : t = tasks[slot]
  OBVIOUS
<1>3. PICK back : back = InverseOf(t)
  OBVIOUS
<1>4. /\ posted \in Seq(Slots) /\ posted # <<>> /\ Len(posted) \in Nat \ {0}
      /\ slot = posted[1] /\ slot \in Slots
  BY <1>1 DEF HInv, PostedOk, Record
<1>5. /\ t # NoTask /\ Sound(t) /\ t.phase = "ended" /\ t.request \in Asked
      /\ t.history # "Fresh" => t.request \in Sited
      /\ coherent => UnderWay(t)
  BY <1>2, <1>4 DEF HInv, PostedOk, EInv, TasksSound, RInv, Sites, Kept
<1>6. t.history \in Histories /\ t.error \in {"none", "failed", "canceled"}
  BY <1>2, <1>4, <1>5 DEF HInv, TasksOk, TaskOk, TaskRecords
<1>7. /\ tasks' = [tasks EXCEPT ![slot] = NoTask] /\ UNCHANGED place
      /\ undo' = Forget(t, IF t.history = "Undo" THEN undo \o Remaining(t) ELSE Push(undo, back))
      /\ redo' = Forget(t, IF t.history = "Undo" THEN Push(redo, back) ELSE redo \o Remaining(t))
      /\ coherent' = (coherent /\ ~Unrecoverable(t))
      /\ coherent' => origin' = IF t.history # "Undo" /\ back # <<>> THEN OriginAfter(Dropped(undo \o back)) ELSE origin
  BY <1>1, <1>2, <1>3 DEF Record, Remember
<1>8. tasks'[slot] = NoTask /\ \A s \in Slots \ {slot} : tasks'[s] = tasks[s]
  BY <1>4, <1>7 DEF HInv, TasksOk
<1>9. PICK u, r : /\ u = IF t.history = "Undo" THEN undo \o Remaining(t) ELSE Push(undo, back)
                  /\ r = IF t.history = "Undo" THEN Push(redo, back) ELSE redo \o Remaining(t)
  OBVIOUS
<1>10. undo \in Seq(Sited) /\ redo \in Seq(Sited) /\ back \in Seq(Sited) /\ Remaining(t) \in Seq(Sited)
  BY <1>3, <1>5, InverseSited, RemainingSited DEF RInv, Sites
<1>11. u \in Seq(Sited) /\ r \in Seq(Sited) /\ undo' = Forget(t, u) /\ redo' = Forget(t, r)
  <2>1. Push(undo, back) \in Seq(Sited) /\ Push(redo, back) \in Seq(Sited)
    BY <1>10, StackOps
  <2>2. undo \o Remaining(t) \in Seq(Sited) /\ redo \o Remaining(t) \in Seq(Sited)
    BY <1>10
  <2> QED BY <1>7, <1>9, <2>1, <2>2
<1>12. Sites'
  <2>1. undo' \in Seq(Sited) /\ redo' \in Seq(Sited)
    BY <1>11, ForgetSited
  <2>2. ASSUME NEW s \in Slots, tasks'[s] # NoTask
        PROVE  tasks'[s].request \in Asked /\ (tasks'[s].history # "Fresh" => tasks'[s].request \in Sited)
    BY <1>8, <2>2 DEF RInv, Sites
  <2> QED BY <2>1, <2>2 DEF Sites
<1>13. ASSUME coherent' PROVE \A s \in Slots : tasks'[s] = NoTask
  BY <1>2, <1>4, <1>5, <1>7, <1>8, <1>13 DEF EInv, Alone
<1>14. ASSUME coherent', NEW i \in Items, place'[i] # Gone PROVE Resting(i)'
  <2>1. coherent /\ ~Unrecoverable(t) /\ place'[i] = place[i] /\ place[i] # Gone
    BY <1>7, <1>14
  <2>2. Ended(t)
    BY <1>5, <1>6, <2>1 DEF Ended, Unrecoverable
  <2>3. PICK from : from = origin'[i]
    OBVIOUS
  <2>4. from = IF t.history # "Undo" /\ back # <<>> THEN OriginAfter(Dropped(undo \o back))[i] ELSE origin[i]
    BY <1>7, <1>14, <2>3
  <2>5. Returns(u, i, place[i], from)
    <3>1. CASE t.history = "Undo"
      BY <1>9, <1>10, <2>1, <2>2, <2>4, <3>1, GivenBack
    <3>2. CASE t.history # "Undo"
      BY <1>3, <1>9, <1>10, <2>1, <2>2, <2>4, <3>2, PushedBack
    <3> QED BY <3>1, <3>2
  <2>6. Replays(r, i, place[i])
    <3>1. CASE t.history = "Undo"
      BY <1>3, <1>9, <1>10, <2>1, <2>2, <3>1, PushedBack
    <3>2. CASE t.history = "Redo"
      BY <1>9, <1>10, <2>1, <2>2, <3>2, GivenBack
    <3>3. CASE t.history = "Fresh"
      <4>1. Remaining(t) = <<>> /\ redo = <<>>
        BY <2>2, <3>3 DEF Remaining, Ended, UnderWay
      <4>2. r = <<>>
        BY <1>9, <3>3, <4>1
      <4>3. DOMAIN r = {}
        BY <4>2
      <4> QED BY <4>3 DEF Replays
    <3> QED BY <1>6, <3>1, <3>2, <3>3 DEF Histories
  <2>7. ASSUME t.request.op = "EmptyTrash", t.error = "none"
        PROVE  /\ \A k \in DOMAIN u : i \in u[k].items => u[k].op # "Restore"
               /\ \A k \in DOMAIN r : i \in r[k].items => r[k].op # "Restore"
    <3>1. t.history = "Fresh"
      BY <1>5, <2>7 DEF Sound, Held
    <3>2. back = <<>> /\ Remaining(t) = <<>> /\ redo = <<>>
      BY <1>3, <2>2, <2>7, <3>1 DEF InverseOf, Remaining, Ended, UnderWay
    <3>3. u = undo
      BY <1>9, <3>1, <3>2 DEF Push
    <3>4. r = <<>>
      BY <1>9, <3>1, <3>2
    <3>5. ASSUME NEW k \in DOMAIN undo, i \in undo[k].items PROVE undo[k].op # "Restore"
      <4>1. undo[k] \in Range(undo)
        BY DEF Range
      <4>2. Forget(t, <<undo[k]>>) # <<>>
        BY <2>1, <3>5, <4>1 DEF Unrecoverable
      <4> QED BY <2>7, <4>2, ForgotNone
    <3>6. DOMAIN r = {}
      BY <3>4
    <3> QED BY <3>3, <3>5, <3>6
  <2>8. Returns(undo', i, place[i], from)
    <3>1. /\ Replays(Forget(t, u), i, place[i]) <=> Replays(u, i, place[i])
          /\ LeftBy(Forget(t, u), i, 0, place[i]) = LeftBy(u, i, 0, place[i])
      BY <1>11, <2>7, ForgetReplays
    <3> QED BY <1>11, <2>5, <3>1 DEF Returns
  <2>9. Replays(redo', i, place[i])
    <3>1. Replays(Forget(t, r), i, place[i]) <=> Replays(r, i, place[i])
      BY <1>11, <2>7, ForgetReplays
    <3> QED BY <1>11, <2>6, <3>1
  <2> QED BY <2>1, <2>3, <2>8, <2>9 DEF Resting
<1> QED BY <1>12, <1>13, <1>14 DEF RInv, Kept

-----------------------------------------------------------------------------
(* The theorem.                                                            *)

LEMMA RInvSame == ASSUME RInv, UNCHANGED vars PROVE RInv'
BY DEF vars, RInv, Sites, Kept, Idle, Free, Resting, UnderWay, OnTheWay, After, Before

\* One task at a time, through cancelled and failed operations, undos and redos partly done and given
\* back, and old entries trimmed (task.cpp:457-618): every entry of either stack finds each item where it
\* takes it from, and undoing everything puts each item where it was before the oldest entry kept.
THEOREM ReplaysCorrect == Spec => []HistoryReplays
<1>1. Init => RInv
  BY RInvInit
<1>2. HInv /\ EInv /\ RInv /\ [Next]_vars => RInv'
  BY LaunchKept, TaskKept, CancelKept, RecordKept, RInvSame DEF Next
<1>3. RInv => HistoryReplays
  BY DEF RInv, Kept, Resting, Returns, HistoryReplays
<1> QED BY <1>1, <1>2, <1>3, EntriesAlways, PTL DEF Spec
=============================================================================
