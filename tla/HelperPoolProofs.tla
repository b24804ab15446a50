-------------------------- MODULE HelperPoolProofs --------------------------
(***************************************************************************)
(* Proofs about HelperPool for every number of calls, threads, helpers and *)
(* blocks, while the system starts the threads it is asked for.  Four      *)
(* invariants are proved one on top of the other: the types; the counting  *)
(* of free threads; who owes which work to which call (Owed); and where    *)
(* each block is (Placed).                                                 *)
(***************************************************************************)
EXTENDS HelperPool, FiniteSetTheorems, TLAPS

LEMMA Distinct == NoWork \notin Works
BY DEF NoWork, Works

\* What a step of Next is; FairSpec implies Spec.
LEMMA Steps ==
  ASSUME Next
  PROVE  \/ \E c \in Callers : \/ Call(c) \/ WakeHelper(c) \/ StartHelper(c) \/ Recruited(c)
                               \/ Return(c)
         \/ \E r \in Runners : Claim(r) \/ Fill(r) \/ Throw(r)
         \/ \E t \in Threads : Take(t) \/ Sleep(t) \/ Finish(t)
         \/ UNCHANGED vars
BY DEF Next, Caller, Run, Helper, Over

-----------------------------------------------------------------------------
(* The types.                                                              *)

Types == RunTypes /\ DataTypes

LEMMA TypesInit == Init => Types
<1> SUFFICES ASSUME Init PROVE Types
  OBVIOUS
<1> USE PoolAssumption
<1>1. at \in [Runners -> CallerPlaces \cup ThreadPlaces]
  BY DEF Init, CallerPlaces, ThreadPlaces
<1>2. \A t \in Threads : /\ at[t] \in ThreadPlaces
                         /\ work[t] # NoWork <=> at[t] \in Running \cup {"finish"}
  BY DEF Init, Runners, ThreadPlaces, Running
<1>3. \A c \in Callers : at[c] \in CallerPlaces
  BY DEF Init, Runners, CallerPlaces
<1>4. helpers \in [Callers -> Nat]
  BY DEF Init
<1>5. DataTypes
  BY <1>4 DEF Init, DataTypes
<1> QED BY <1>1, <1>2, <1>3, <1>5 DEF Types, RunTypes

\* A step of one runner that leaves the thread's work alone.
LEMMA RunTypesGoto ==
  ASSUME RunTypes, NEW r \in Runners, NEW place, Goto(r, place), UNCHANGED work,
         r \in Callers => place \in CallerPlaces,
         r \in Threads => /\ place \in ThreadPlaces
                          /\ place \in Running \cup {"finish"} <=> at[r] \in Running \cup {"finish"}
  PROVE  RunTypes'
BY PoolAssumption DEF RunTypes, Runners, Goto

LEMMA RunnerHasCall ==
  ASSUME Types, NEW r \in Runners, at[r] \in Running
  PROVE  CallOf(r) \in Callers
BY DEF Types, RunTypes, DataTypes, CallOf, Works, Runners

LEMMA RunTypesStep == Types /\ [Next]_vars => RunTypes'
<1> SUFFICES ASSUME Types, [Next]_vars PROVE RunTypes'
  OBVIOUS
<1> USE PoolAssumption DEF Types
<1>1. CASE UNCHANGED vars
  BY <1>1 DEF RunTypes, vars
<1>2. ASSUME NEW c \in Callers, Call(c) \/ Recruited(c) \/ Return(c) PROVE RunTypes'
  BY <1>2, RunTypesGoto DEF Call, Recruited, Return, pool, Runners, CallerPlaces, Running
<1>3. ASSUME NEW c \in Callers, WakeHelper(c) PROVE RunTypes'
  <2>1. UNCHANGED work
    BY <1>3 DEF WakeHelper, Push
  <2>2. CASE UNCHANGED at
    BY <2>1, <2>2 DEF RunTypes
  <2>3. ASSUME NEW t \in Threads, at[t] = "waiting", Goto(t, "notified") PROVE RunTypes'
    BY <2>1, <2>3, RunTypesGoto DEF Runners, ThreadPlaces, Running
  <2> QED BY <1>3, <2>2, <2>3 DEF WakeHelper, Notify
<1>4. ASSUME NEW c \in Callers, StartHelper(c) PROVE RunTypes'
  <2>1. UNCHANGED work /\ at[c] = "recruit"
    BY <1>4 DEF StartHelper, Push, Recruits
  <2>2. PICK s \in Unborn, fails \in {FALSE, CreationFails} :
          at' = [at EXCEPT ![s] = IF fails THEN "broken" ELSE "starting",
                           ![c] = IF fails THEN "returned" ELSE at[c]]
    BY <1>4 DEF StartHelper
  <2>3. s \in Threads /\ at[s] = "unborn" /\ s # c
    BY DEF Unborn
  <2>4. at' \in [Runners -> CallerPlaces \cup ThreadPlaces]
    BY <2>1, <2>2, <2>3 DEF RunTypes, CallerPlaces, ThreadPlaces
  <2>5. \A d \in Callers : at'[d] \in CallerPlaces
    BY <2>1, <2>2, <2>3 DEF RunTypes, Runners, CallerPlaces
  <2>6. \A u \in Threads : /\ at'[u] \in ThreadPlaces
                           /\ work'[u] # NoWork <=> at'[u] \in Running \cup {"finish"}
    BY <2>1, <2>2, <2>3 DEF RunTypes, Runners, ThreadPlaces, Running
  <2> QED BY <2>4, <2>5, <2>6 DEF RunTypes
<1>5. ASSUME NEW r \in Runners, Leave(r), at[r] \in Running, UNCHANGED work PROVE RunTypes'
  BY <1>5, RunTypesGoto DEF Leave, Runners, CallerPlaces, ThreadPlaces, Running
<1>6. ASSUME NEW r \in Runners, Claim(r) \/ Fill(r) \/ Throw(r) PROVE RunTypes'
  <2>1. UNCHANGED work /\ at[r] \in Running
    BY <1>6 DEF Claim, Fill, Throw, pool, Running
  <2>2. CASE Leave(r)
    BY <1>5, <2>1, <2>2
  <2>3. CASE Goto(r, "fill") \/ Goto(r, "claim")
    BY <2>1, <2>3, RunTypesGoto DEF Runners, CallerPlaces, ThreadPlaces, Running
  <2> QED BY <1>6, <2>2, <2>3 DEF Claim, Fill, Throw
<1>7. ASSUME NEW t \in Threads, Take(t) PROVE RunTypes'
  <2>1. Head(queue) # NoWork
    BY <1>7, Distinct DEF DataTypes, Take
  <2> QED BY <1>7, <2>1 DEF RunTypes, DataTypes, Take, Goto, Runners, ThreadPlaces, Running
<1>8. ASSUME NEW t \in Threads, Sleep(t) PROVE RunTypes'
  BY <1>8, RunTypesGoto DEF Sleep, Runners, ThreadPlaces, Running
<1>9. ASSUME NEW t \in Threads, Finish(t) PROVE RunTypes'
  BY <1>9 DEF RunTypes, DataTypes, Finish, Goto, Runners, ThreadPlaces, Running
<1> QED
  BY <1>1, <1>2, <1>3, <1>4, <1>6, <1>7, <1>8, <1>9, Steps

LEMMA DataTypesStep == Types /\ [Next]_vars => DataTypes'
<1> SUFFICES ASSUME Types, [Next]_vars PROVE DataTypes'
  OBVIOUS
<1> USE DEF Types
<1>1. CASE UNCHANGED <<pool, block, calls, body>>
  BY <1>1 DEF DataTypes, pool, calls, body
<1>2. ASSUME NEW c \in Callers, Push(c) PROVE DataTypes'
  BY <1>2 DEF DataTypes, Push, Works, Work, body
<1>3. ASSUME NEW r \in Runners, Claim(r) PROVE DataTypes'
  <2>1. CallOf(r) \in Callers
    BY <1>3, RunnerHasCall DEF Claim, Running
  <2>2. UNCHANGED <<queue, work, helpers, started, finished, stop, filled>>
    BY <1>3 DEF Claim, pool, calls
  <2>3. block' \in [Runners -> Nat] /\ next' \in [Callers -> Nat]
    <3>1. CASE UNCHANGED <<block, next>>
      BY <3>1 DEF DataTypes
    <3>2. CASE /\ block' = [block EXCEPT ![r] = next[CallOf(r)]]
               /\ next' = [next EXCEPT ![CallOf(r)] = @ + 1]
      BY <2>1, <3>2 DEF DataTypes
    <3> QED BY <1>3, <3>1, <3>2 DEF Claim
  <2> QED BY <2>2, <2>3 DEF DataTypes
<1>4. ASSUME NEW r \in Runners, Fill(r) PROVE DataTypes'
  <2>1. CallOf(r) \in Callers
    BY <1>4, RunnerHasCall DEF Fill, Running
  <2> QED BY <1>4, <2>1 DEF DataTypes, Fill, pool, calls
<1>5. ASSUME NEW r \in Runners, Throw(r) PROVE DataTypes'
  <2>1. CallOf(r) \in Callers
    BY <1>5, RunnerHasCall DEF Throw, Running
  <2> QED BY <1>5, <2>1 DEF DataTypes, Throw, pool, calls
<1>6. ASSUME NEW t \in Threads, Take(t) PROVE DataTypes'
  <2>1. queue' \in Seq(Works) /\ Head(queue) \in Works
    BY <1>6 DEF DataTypes, Take
  <2> QED BY <1>6, <2>1 DEF DataTypes, Take, calls, body
<1>7. ASSUME NEW t \in Threads, Sleep(t) PROVE DataTypes'
  BY <1>7 DEF DataTypes, Sleep, calls, body
<1>8. ASSUME NEW t \in Threads, Finish(t) PROVE DataTypes'
  <2>1. work[t] \in Works
    BY <1>8 DEF RunTypes, DataTypes, Finish
  <2> QED BY <1>8, <2>1 DEF DataTypes, Finish, body, Works
<1>9. CASE UNCHANGED vars
  BY <1>9 DEF DataTypes, vars
<1>10. ASSUME NEW c \in Callers, Call(c) \/ WakeHelper(c) \/ StartHelper(c) \/ Recruited(c) \/ Return(c)
       PROVE  DataTypes'
  BY <1>1, <1>2, <1>10 DEF Call, WakeHelper, StartHelper, Recruited, Return
<1> QED
  BY <1>3, <1>4, <1>5, <1>6, <1>7, <1>8, <1>9, <1>10, Steps

THEOREM TypesHold == Spec => []Types
BY TypesInit, RunTypesStep, DataTypesStep, PTL DEF Spec, Types

-----------------------------------------------------------------------------
(* Counting the free threads.                                              *)

Waiting == {t \in Threads : Counted(t)}
Counting == idle = Cardinality(Waiting) /\ NeverBehind

LEMMA Finite ==
  /\ IsFiniteSet(Waiting) /\ Cardinality(Waiting) \in Nat
  /\ IsFiniteSet(Free) /\ Cardinality(Free) \in Nat
  /\ Cardinality(Waiting) <= Cardinality(Free)
<1>1. Free \subseteq Threads /\ Waiting \subseteq Free
  BY DEF Free, Waiting, Counted
<1>2. IsFiniteSet(Free)
  BY <1>1, FS_Subset, PoolAssumption
<1> QED BY <1>1, <1>2, FS_Subset, FS_CardinalityType

\* A step that neither wakes nor employs a thread, and queues nothing.
LEMMA CountingSame ==
  ASSUME Counting, UNCHANGED <<queue, idle>>,
         \A t \in Threads : at'[t] = at[t] \/ {at'[t], at[t]} \cap {"starting", "waiting", "notified"} = {}
  PROVE  Counting'
<1>1. Waiting' = Waiting
  BY DEF Waiting, Counted
<1>2. Free' = Free
  BY DEF Free
<1> QED BY <1>1, <1>2 DEF Counting, NeverBehind

LEMMA CountingInit == Init => Counting
<1> SUFFICES ASSUME Init PROVE Counting
  OBVIOUS
<1>1. \A t \in Threads : at[t] = "unborn"
  BY PoolAssumption DEF Init, Runners
<1>2. Waiting = {} /\ Free = {}
  BY <1>1 DEF Waiting, Free, Counted
<1> QED BY <1>2, FS_EmptySet DEF Init, Counting, NeverBehind

LEMMA CountingStep ==
  ASSUME ~CreationFails, Types, Counting, [Next]_vars
  PROVE  Counting'
<1> USE PoolAssumption DEF Types
<1>1. CASE UNCHANGED vars
  BY <1>1, CountingSame DEF vars
<1>2. ASSUME NEW r \in Runners, NEW place, Goto(r, place), UNCHANGED <<queue, idle>>,
             {at[r], place} \cap {"starting", "waiting", "notified"} = {}
      PROVE  Counting'
  BY <1>2, CountingSame DEF Goto, RunTypes, Runners
<1>3. ASSUME NEW c \in Callers, Call(c) \/ Recruited(c) \/ Return(c) PROVE Counting'
  BY <1>2, <1>3 DEF Call, Recruited, Return, pool, Runners
<1>4. ASSUME NEW r \in Runners, Claim(r) \/ Fill(r) \/ Throw(r) PROVE Counting'
  <2>1. UNCHANGED <<queue, idle>> /\ at[r] \in Running
    BY <1>4 DEF Claim, Fill, Throw, pool, Running
  <2>2. \E place \in {"fill", "claim", "wait", "finish"} : Goto(r, place)
    BY <1>4 DEF Claim, Fill, Throw, Leave
  <2> QED BY <1>2, <2>1, <2>2 DEF Running
<1>5. ASSUME NEW c \in Callers, WakeHelper(c) PROVE Counting'
  <2>1. Len(queue') = Len(queue) + 1 /\ idle' = idle /\ idle > Len(queue)
    BY <1>5 DEF WakeHelper, Push, Spare, DataTypes
  <2>2. \A t \in Threads : at'[t] = at[t] \/ (at[t] = "waiting" /\ at'[t] = "notified")
    BY <1>5 DEF WakeHelper, Notify, Goto, RunTypes, Runners
  <2>3. Waiting' = Waiting /\ Free' = Free
    BY <2>2 DEF Waiting, Free, Counted
  <2> QED BY <2>1, <2>3, Finite DEF Counting, NeverBehind, DataTypes
<1>6. ASSUME NEW c \in Callers, StartHelper(c) PROVE Counting'
  <2>1. Len(queue') = Len(queue) + 1 /\ idle' = idle
    BY <1>6 DEF StartHelper, Push, DataTypes
  <2>2. PICK t \in Threads : at[t] = "unborn" /\ at' = [at EXCEPT ![t] = "starting", ![c] = at[c]]
    <3>1. PICK t \in Unborn, fails \in {FALSE, CreationFails} :
            at' = [at EXCEPT ![t] = IF fails THEN "broken" ELSE "starting",
                             ![c] = IF fails THEN "returned" ELSE at[c]]
      BY <1>6 DEF StartHelper
    <3>2. ~fails
      OBVIOUS
    <3>3. t \in Threads /\ at[t] = "unborn" /\ at' = [at EXCEPT ![t] = "starting", ![c] = at[c]]
      BY <3>1, <3>2 DEF Unborn
    <3> QED BY <3>3
  <2>3. at'[t] = "starting" /\ \A u \in Threads \ {t} : at'[u] = at[u]
    BY <2>2 DEF RunTypes, Runners
  <2>4. Waiting' = Waiting /\ Free' = Free \cup {t} /\ t \notin Free
    BY <2>2, <2>3 DEF Waiting, Free, Counted
  <2>5. Cardinality(Free') = Cardinality(Free) + 1
    BY <2>4, Finite, FS_AddElement
  <2> QED BY <2>1, <2>4, <2>5, Finite DEF Counting, NeverBehind, DataTypes
<1>7. ASSUME NEW t \in Threads, Take(t) PROVE Counting'
  <2>1. Len(queue) >= 1 /\ Len(queue') = Len(queue) - 1
    BY <1>7 DEF Take, DataTypes
  <2>2. at'[t] = "claim" /\ \A u \in Threads \ {t} : at'[u] = at[u]
    BY <1>7 DEF Take, Goto, RunTypes, Runners
  <2>3. Free' = Free \ {t} /\ Waiting' = Waiting \ {t}
    BY <2>2 DEF Free, Waiting, Counted
  <2>4. Cardinality(Free') \in Nat /\ Cardinality(Free') >= Cardinality(Free) - 1
    <3>1. Cardinality(Free \ {t}) = IF t \in Free THEN Cardinality(Free) - 1 ELSE Cardinality(Free)
      BY Finite, FS_RemoveElement
    <3>2. IsFiniteSet(Free \ {t})
      BY Finite, FS_Subset
    <3>3. Cardinality(Free \ {t}) \in Nat
      BY <3>2, FS_CardinalityType
    <3> QED BY <2>3, <3>1, <3>3, Finite
  <2>5. idle' = Cardinality(Waiting')
    <3>1. CASE Counted(t)
      BY <1>7, <2>3, <3>1, Finite, FS_RemoveElement DEF Take, Waiting, Counting
    <3>2. CASE ~Counted(t)
      BY <1>7, <2>3, <3>2 DEF Take, Waiting, Counting
    <3> QED BY <3>1, <3>2
  <2>6. Len(queue) <= Cardinality(Free) /\ Len(queue) \in Nat
    BY DEF Counting, NeverBehind, DataTypes
  <2>7. NeverBehind'
    BY <2>1, <2>4, <2>6, Finite DEF NeverBehind
  <2> QED BY <2>5, <2>7 DEF Counting
<1>8. ASSUME NEW t \in Threads, Sleep(t) PROVE Counting'
  <2>1. Len(queue') = 0
    BY <1>8 DEF Sleep, DataTypes
  <2>2. at'[t] = "waiting" /\ \A u \in Threads \ {t} : at'[u] = at[u]
    BY <1>8 DEF Sleep, Goto, RunTypes, Runners
  <2>3. Free' = Free \cup {t} /\ Waiting' = Waiting \cup {t}
    BY <2>2 DEF Free, Waiting, Counted
  <2>4. Cardinality(Free') \in Nat
    <3>1. IsFiniteSet(Free \cup {t})
      BY Finite, FS_AddElement
    <3> QED BY <2>3, <3>1, FS_CardinalityType
  <2>5. idle' = Cardinality(Waiting')
    <3>1. CASE Counted(t)
      BY <1>8, <2>3, <3>1 DEF Sleep, Waiting, Counting
    <3>2. CASE ~Counted(t)
      BY <1>8, <2>3, <3>2, Finite, FS_AddElement DEF Sleep, Waiting, Counting
    <3> QED BY <3>1, <3>2
  <2> QED BY <2>1, <2>4, <2>5 DEF Counting, NeverBehind
<1>9. ASSUME NEW t \in Threads, Finish(t) PROVE Counting'
  BY <1>2, <1>9 DEF Finish, Runners
<1> QED BY <1>1, <1>3, <1>4, <1>5, <1>6, <1>7, <1>8, <1>9, Steps

\* TypeOK, for every number of calls, threads, helpers and blocks.
THEOREM TypeCorrect == ASSUME ~CreationFails PROVE Spec => []TypeOK
<1>1. Init => Types /\ Counting
  BY TypesInit, CountingInit
<1>2. Types /\ Counting /\ [Next]_vars => Types' /\ Counting'
  BY RunTypesStep, DataTypesStep, CountingStep DEF Types
<1>3. Types /\ Counting => TypeOK
  BY DEF Types, Counting, TypeOK, Waiting
<1> QED BY <1>1, <1>2, <1>3, PTL DEF Spec

\* No work is ever queued behind a thread that is at work: the call that waits for it cannot
\* be waiting for itself.
THEOREM NeverBehindCorrect == ASSUME ~CreationFails PROVE Spec => []NeverBehind
<1>1. Init => Types /\ Counting
  BY TypesInit, CountingInit
<1>2. Types /\ Counting /\ [Next]_vars => Types' /\ Counting'
  BY RunTypesStep, DataTypesStep, CountingStep DEF Types
<1>3. Counting => NeverBehind
  BY DEF Counting
<1> QED BY <1>1, <1>2, <1>3, PTL DEF Spec

-----------------------------------------------------------------------------
(* Who owes which work: what is queued or under way is asked for, not done *)
(* yet, and in one place only; a call that returned is owed nothing.       *)

Open(w) == w.nth \in 1 .. started[w.caller] /\ w.nth \notin finished[w.caller]

QueueOwed ==
  \A i \in 1 .. Len(queue) : /\ Open(queue[i])
                             /\ \A j \in 1 .. Len(queue) : queue[i] = queue[j] => i = j
                             /\ \A t \in Threads : work[t] # queue[i]
WorkOwed ==
  \A t \in Threads : work[t] # NoWork => /\ Open(work[t])
                                         /\ \A u \in Threads : work[t] = work[u] => t = u
CallsOwed ==
  \A c \in Callers : /\ finished[c] \subseteq 1 .. started[c]
                     /\ at[c] = "returned" => finished[c] = 1 .. started[c]
Owed == QueueOwed /\ WorkOwed /\ CallsOwed

LEMMA OwedInit == Init => Owed
<1> SUFFICES ASSUME Init PROVE Owed
  OBVIOUS
<1>1. \A c \in Callers : at[c] = "new" /\ finished[c] = {}
  BY DEF Init, Runners
<1>2. queue = <<>> /\ \A t \in Threads : work[t] = NoWork
  BY DEF Init
<1> QED BY <1>1, <1>2 DEF Owed, QueueOwed, WorkOwed, CallsOwed

\* A step that moves no work, and returns from no call that is owed some.
LEMMA OwedSame ==
  ASSUME Types, Owed, UNCHANGED <<queue, work, started, finished>>,
         \A c \in Callers : at'[c] = "returned" => at[c] = "returned" \/ finished[c] = 1 .. started[c]
  PROVE  Owed'
BY DEF Owed, QueueOwed, WorkOwed, CallsOwed, Open

\* More work of a call that recruits.
LEMMA OwedPush ==
  ASSUME Types, Owed, NEW c \in Callers, at[c] = "recruit", Push(c),
         \A d \in Callers : at'[d] = "returned" => at[d] = "returned"
  PROVE  Owed'
<1> PICK new \in Works : new = Work(c, started[c] + 1)
  <2>1. started[c] + 1 \in Nat
    BY DEF Types, DataTypes
  <2>2. Work(c, started[c] + 1) \in Works
    BY <2>1 DEF Work, Works
  <2> QED BY <2>2
<1> USE DEF Types
<1>1. /\ queue' = Append(queue, new) /\ started' = [started EXCEPT ![c] = @ + 1]
      /\ UNCHANGED <<work, finished>>
  BY DEF Push
<1>2. /\ \A w \in Works : Open(w) => w # new /\ Open(w)'
      /\ Open(new)'
  <2>1. started[c] \in Nat /\ started' \in [Callers -> Nat]
    BY <1>1 DEF DataTypes
  <2>2. finished[c] \subseteq 1 .. started[c]
    BY DEF Owed, CallsOwed
  <2>3. started'[c] = started[c] + 1 /\ \A d \in Callers \ {c} : started'[d] = started[d]
    BY <1>1 DEF DataTypes
  <2>4. Open(new)'
    BY <1>1, <2>1, <2>2, <2>3 DEF Open, Work
  <2>5. ASSUME NEW w \in Works, Open(w) PROVE w # new /\ Open(w)'
    <3>1. w.caller \in Callers /\ w.nth \in Nat
      BY DEF Works
    <3>2. CASE w.caller = c
      <4>1. w.nth \in 1 .. started[c] /\ w.nth \notin finished[c]
        BY <2>5, <3>2 DEF Open
      <4>2. new.nth = started[c] + 1
        BY DEF Work
      <4>3. w # new
        BY <2>1, <4>1, <4>2
      <4>4. w.nth \in 1 .. started'[c] /\ w.nth \notin finished'[c]
        BY <1>1, <2>1, <2>3, <4>1
      <4> QED BY <3>2, <4>3, <4>4 DEF Open
    <3>3. CASE w.caller # c
      BY <1>1, <2>3, <2>5, <3>1, <3>3 DEF Open, Work
    <3> QED BY <3>2, <3>3
  <2> QED BY <2>4, <2>5
<1>3. /\ Len(queue') = Len(queue) + 1 /\ Len(queue) \in Nat
      /\ queue'[Len(queue) + 1] = new
      /\ \A i \in 1 .. Len(queue) : queue'[i] = queue[i] /\ queue[i] \in Works
  BY <1>1 DEF DataTypes
<1>4. \A t \in Threads : work[t] # NoWork => work[t] \in Works
  BY DEF DataTypes
<1> HIDE DEF Types
<1>5. QueueOwed'
  <2> SUFFICES ASSUME NEW i \in 1 .. Len(queue')
               PROVE  /\ Open(queue[i])'
                      /\ \A j \in 1 .. Len(queue') : queue'[i] = queue'[j] => i = j
                      /\ \A t \in Threads : work'[t] # queue'[i]
    BY DEF QueueOwed
  <2>1. Open(queue[i])'
    <3>1. CASE i \in 1 .. Len(queue)
      <4>1. queue'[i] = queue[i] /\ queue[i] \in Works /\ Open(queue[i])
        BY <1>3, <3>1 DEF Owed, QueueOwed
      <4>2. \A w \in Works : Open(w) => Open(w)'
        BY <1>2
      <4> QED BY <4>1, <4>2 DEF Open
    <3>2. CASE i = Len(queue) + 1
      BY <1>2, <1>3, <3>2 DEF Open
    <3> QED BY <1>3, <3>1, <3>2
  <2>2. ASSUME NEW j \in 1 .. Len(queue'), queue'[i] = queue'[j] PROVE i = j
    <3>1. CASE i \in 1 .. Len(queue) /\ j \in 1 .. Len(queue)
      BY <1>3, <2>2, <3>1 DEF Owed, QueueOwed
    <3>2. CASE i = Len(queue) + 1 \/ j = Len(queue) + 1
      BY <1>2, <1>3, <2>2, <3>2 DEF Owed, QueueOwed
    <3> QED BY <1>3, <3>1, <3>2
  <2>3. ASSUME NEW t \in Threads PROVE work'[t] # queue'[i]
    <3>1. work'[t] = work[t]
      BY <1>1
    <3>2. CASE i \in 1 .. Len(queue)
      BY <1>3, <3>1, <3>2 DEF Owed, QueueOwed
    <3>3. CASE i = Len(queue) + 1
      BY <1>2, <1>3, <1>4, <3>1, <3>3, Distinct DEF Owed, WorkOwed
    <3> QED BY <1>3, <3>2, <3>3
  <2> QED BY <2>1, <2>2, <2>3
<1>6. WorkOwed'
  BY <1>1, <1>2, <1>4 DEF Owed, WorkOwed
<1>7. CallsOwed'
  BY <1>1 DEF Owed, CallsOwed, Types, DataTypes
<1> QED BY <1>5, <1>6, <1>7 DEF Owed

\* The first work of the queue goes to a thread.
LEMMA OwedTake ==
  ASSUME Types, Owed, NEW t \in Threads, Take(t)
  PROVE  Owed'
<1> USE DEF Types
<1>1. /\ queue # <<>> /\ queue' = Tail(queue) /\ UNCHANGED <<started, finished>>
      /\ work' = [work EXCEPT ![t] = Head(queue)]
  BY DEF Take, calls
<1>2. /\ Len(queue) \in Nat /\ Len(queue) >= 1 /\ Len(queue') = Len(queue) - 1
      /\ \A i \in 1 .. Len(queue') : queue'[i] = queue[i + 1]
      /\ Head(queue) = queue[1]
  BY <1>1 DEF DataTypes
<1>3. work'[t] = queue[1] /\ \A u \in Threads \ {t} : work'[u] = work[u]
  BY <1>1, <1>2 DEF DataTypes
<1>4. \A w : Open(w)' <=> Open(w)
  BY <1>1 DEF Open
<1>5. at' = [at EXCEPT ![t] = "claim"]
  BY DEF Take, Goto
<1> HIDE DEF Types
<1>6. QueueOwed'
  <2> SUFFICES ASSUME NEW i \in 1 .. Len(queue')
               PROVE  /\ Open(queue[i])'
                      /\ \A j \in 1 .. Len(queue') : queue'[i] = queue'[j] => i = j
                      /\ \A u \in Threads : work'[u] # queue'[i]
    BY DEF QueueOwed
  <2>1. i + 1 \in 1 .. Len(queue) /\ 1 \in 1 .. Len(queue)
    BY <1>2
  <2>2. Open(queue[i])'
    BY <1>2, <1>4, <2>1 DEF Owed, QueueOwed
  <2>3. ASSUME NEW j \in 1 .. Len(queue'), queue'[i] = queue'[j] PROVE i = j
    BY <1>2, <2>1, <2>3 DEF Owed, QueueOwed
  <2>4. ASSUME NEW u \in Threads PROVE work'[u] # queue'[i]
    <3>1. CASE u = t
      BY <1>2, <1>3, <2>1, <3>1 DEF Owed, QueueOwed
    <3>2. CASE u # t
      BY <1>2, <1>3, <2>1, <3>2 DEF Owed, QueueOwed
    <3> QED BY <3>1, <3>2
  <2> QED BY <2>2, <2>3, <2>4
<1>7. WorkOwed'
  <2>1. 1 \in 1 .. Len(queue)
    BY <1>2
  <2>2. \A u \in Threads : work[u] # queue[1]
    BY <2>1 DEF Owed, QueueOwed
  <2>3. Open(queue[1])
    BY <2>1 DEF Owed, QueueOwed
  <2> QED BY <1>3, <1>4, <2>2, <2>3 DEF Owed, WorkOwed
<1>8. CallsOwed'
  BY <1>1, <1>5, PoolAssumption DEF Owed, CallsOwed, Types, RunTypes, Runners
<1> QED BY <1>6, <1>7, <1>8 DEF Owed

\* A helper is done.
LEMMA OwedFinish ==
  ASSUME Types, Owed, NEW t \in Threads, Finish(t)
  PROVE  Owed'
<1> DEFINE done == work[t]
<1> USE DEF Types
<1>1. done \in Works /\ done # NoWork
  BY DEF Finish, RunTypes, DataTypes
<1>2. /\ UNCHANGED <<queue, started>>
      /\ work' = [work EXCEPT ![t] = NoWork]
      /\ finished' = [finished EXCEPT ![done.caller] = @ \cup {done.nth}]
      /\ at' = [at EXCEPT ![t] = "ending"]
  BY DEF Finish, Goto
<1>3. done.caller \in Callers /\ Open(done)
  BY <1>1 DEF Owed, WorkOwed, Works
<1>4. ASSUME NEW w \in Works, Open(w), w # done PROVE Open(w)'
  <2>1. w.caller = done.caller => w.nth # done.nth
    BY <1>1, <1>4 DEF Works
  <2>2. w.caller \in Callers
    BY DEF Works
  <2> QED BY <1>2, <1>3, <1>4, <2>1, <2>2 DEF Open, DataTypes
<1>5. QueueOwed'
  <2>1. \A i \in 1 .. Len(queue) : queue[i] \in Works
    BY DEF DataTypes
  <2>2. \A i \in 1 .. Len(queue) : queue[i] # done /\ Open(queue[i])'
    <3>1. \A w \in Works : Open(w) /\ w # done => Open(w)'
      BY <1>4
    <3>2. queue' = queue
      BY <1>2
    <3> QED BY <2>1, <3>1, <3>2 DEF Owed, QueueOwed, Open
  <2> QED BY <1>2, <2>1, <2>2, Distinct DEF Owed, QueueOwed, DataTypes
<1>6. WorkOwed'
  <2>1. work'[t] = NoWork /\ \A u \in Threads \ {t} : work'[u] = work[u]
    BY <1>2 DEF DataTypes
  <2>2. \A u \in Threads \ {t} : work[u] # NoWork => work[u] \in Works /\ work[u] # done /\ Open(work[u])
    BY <1>1 DEF Owed, WorkOwed, DataTypes
  <2> QED BY <1>4, <2>1, <2>2 DEF Owed, WorkOwed
<1>7. CallsOwed'
  <2>1. done.nth \in 1 .. started[done.caller] /\ at[done.caller] # "returned"
    BY <1>3 DEF Open, Owed, CallsOwed
  <2>2. \A c \in Callers : at'[c] = at[c]
    BY <1>2, PoolAssumption DEF RunTypes, Runners
  <2> QED BY <1>2, <1>3, <2>1, <2>2 DEF Owed, CallsOwed, DataTypes
<1> QED BY <1>5, <1>6, <1>7 DEF Owed

LEMMA OwedStep ==
  ASSUME ~CreationFails, Types, Owed, [Next]_vars
  PROVE  Owed'
<1> USE PoolAssumption
<1>1. CASE UNCHANGED vars
  BY <1>1, OwedSame DEF vars
<1>2. ASSUME NEW r \in Runners, NEW place, place # "returned", Goto(r, place),
             UNCHANGED <<queue, work, started, finished>>
      PROVE  Owed'
  BY <1>2, OwedSame DEF Goto, Types, RunTypes, Runners
<1>3. ASSUME NEW c \in Callers, Call(c) \/ Recruited(c) PROVE Owed'
  BY <1>2, <1>3 DEF Call, Recruited, pool, calls, Runners
<1>4. ASSUME NEW c \in Callers, Return(c) PROVE Owed'
  BY <1>4, OwedSame DEF Return, Goto, pool, calls, Types, RunTypes, Runners
<1>5. ASSUME NEW c \in Callers, WakeHelper(c) PROVE Owed'
  <2>1. \A d \in Callers : at'[d] = "returned" => at[d] = "returned"
    BY <1>5 DEF WakeHelper, Notify, Goto, Types, RunTypes, Runners
  <2> QED BY <1>5, <2>1, OwedPush DEF WakeHelper, Recruits
<1>6. ASSUME NEW c \in Callers, StartHelper(c) PROVE Owed'
  <2>1. PICK t \in Unborn, fails \in {FALSE, CreationFails} :
          at' = [at EXCEPT ![t] = IF fails THEN "broken" ELSE "starting",
                           ![c] = IF fails THEN "returned" ELSE at[c]]
    BY <1>6 DEF StartHelper
  <2>2. ~fails
    OBVIOUS
  <2>3. at' = [at EXCEPT ![t] = "starting", ![c] = at[c]]
    BY <2>1, <2>2
  <2>4. \A d \in Callers : at'[d] = "returned" => at[d] = "returned"
    BY <2>3 DEF Types, RunTypes, Runners, Unborn
  <2> QED BY <1>6, <2>4, OwedPush DEF StartHelper, Recruits
<1>7. ASSUME NEW r \in Runners, Claim(r) \/ Fill(r) \/ Throw(r) PROVE Owed'
  <2>1. UNCHANGED <<queue, work, started, finished>>
    BY <1>7 DEF Claim, Fill, Throw, pool, calls
  <2>2. \E place \in {"fill", "claim", "wait", "finish"} : Goto(r, place)
    BY <1>7 DEF Claim, Fill, Throw, Leave
  <2> QED BY <1>2, <2>1, <2>2
<1>8. ASSUME NEW t \in Threads, Sleep(t) PROVE Owed'
  BY <1>2, <1>8 DEF Sleep, calls, Runners
<1> QED
  BY <1>1, <1>3, <1>4, <1>5, <1>6, <1>7, <1>8, OwedTake, OwedFinish, Steps

LEMMA OwedAlive == Types /\ Owed => StackAlive
<1> SUFFICES ASSUME Types, Owed PROVE StackAlive
  OBVIOUS
<1>1. ASSUME NEW w \in Works, Open(w) PROVE at[w.caller] # "returned"
  BY <1>1 DEF Works, Open, Owed, CallsOwed
<1>2. ASSUME NEW i \in 1 .. Len(queue) PROVE at[queue[i].caller] # "returned"
  <2>1. queue[i] \in Works
    BY DEF Types, DataTypes
  <2> QED BY <1>1, <2>1 DEF Owed, QueueOwed
<1>3. ASSUME NEW t \in Threads, work[t] # NoWork PROVE at[work[t].caller] # "returned"
  <2>1. work[t] \in Works
    BY <1>3 DEF Types, DataTypes
  <2> QED BY <1>1, <1>3, <2>1 DEF Owed, WorkOwed
<1> QED BY <1>2, <1>3 DEF StackAlive

\* While a helper has or runs work of a call, that call has not returned: its stack is there.
THEOREM StackAliveCorrect == ASSUME ~CreationFails PROVE Spec => []StackAlive
<1>1. Init => Types /\ Owed
  BY TypesInit, OwedInit
<1>2. Types /\ Owed /\ [Next]_vars => Types' /\ Owed'
  BY RunTypesStep, DataTypesStep, OwedStep DEF Types
<1>3. Types /\ Owed => StackAlive
  BY OwedAlive
<1> QED BY <1>1, <1>2, <1>3, PTL DEF Spec

-----------------------------------------------------------------------------
(* Where the blocks are: a block taken is filled or held, unless the call  *)
(* was stopped; who leaves the body has seen the last block taken.         *)

Holds(r, c, b) == at[r] = "fill" /\ CallOf(r) = c /\ block[r] = b

BlocksPlaced ==
  \A c \in Callers : ~stop[c] =>
    \A b \in 1 .. next[c] - 1 : b \in filled[c] \/ \E r \in Runners : Holds(r, c, b)
BlocksTaken ==
  /\ \A c \in Callers : next[c] \in 1 .. Blocks + 1 /\ filled[c] \subseteq 1 .. next[c] - 1
  /\ \A r \in Runners : at[r] = "fill" => block[r] \in 1 .. next[CallOf(r)] - 1
BodyLeft ==
  \A c \in Callers : at[c] \in {"wait", "returned"} /\ ~stop[c] => next[c] = Blocks + 1
Placed == BlocksPlaced /\ BlocksTaken /\ BodyLeft

LEMMA PlacedInit == Init => Placed
<1> SUFFICES ASSUME Init PROVE Placed
  OBVIOUS
<1>1. \A c \in Callers : at[c] = "new" /\ next[c] = 1 /\ filled[c] = {}
  BY DEF Init, Runners
<1>2. \A r \in Runners : at[r] # "fill"
  BY DEF Init
<1>3. BlocksPlaced /\ BodyLeft
  BY <1>1 DEF BlocksPlaced, BodyLeft
<1>4. BlocksTaken
  BY <1>1, <1>2, PoolAssumption DEF BlocksTaken
<1> QED BY <1>3, <1>4 DEF Placed

\* A step that no runner makes inside of the body, and that takes no call out of it.
LEMMA PlacedSame ==
  ASSUME Types, Placed, UNCHANGED body, UNCHANGED block,
         \A r \in Runners :
           at[r] = "fill" \/ at'[r] = "fill" => at'[r] = at[r] /\ CallOf(r)' = CallOf(r),
         \A c \in Callers :
           at'[c] \in {"wait", "returned"} => at[c] \in {"wait", "returned"}
  PROVE  Placed'
<1>1. UNCHANGED <<next, stop, filled, block>>
  BY DEF body
<1>2. \A r \in Runners, c \in Callers, b \in Nat : Holds(r, c, b) => Holds(r, c, b)'
  BY <1>1 DEF Holds
<1>3. BlocksPlaced'
  BY <1>1, <1>2 DEF Placed, BlocksPlaced
<1>4. BlocksTaken'
  BY <1>1 DEF Placed, BlocksTaken
<1>5. BodyLeft'
  BY <1>1 DEF Placed, BodyLeft
<1> QED BY <1>3, <1>4, <1>5 DEF Placed

\* The runner takes a block.
LEMMA PlacedTake ==
  ASSUME Types, Placed, NEW r \in Runners, Claim(r), Left(r), ~stop[CallOf(r)]
  PROVE  Placed'
<1> PICK c \in Callers : c = CallOf(r)
  BY RunnerHasCall DEF Claim, Running
<1> PICK n \in Nat : n = next[c]
  BY DEF Types, DataTypes
<1>1. /\ UNCHANGED <<work, stop, filled>> /\ at[r] = "claim"
      /\ block' = [block EXCEPT ![r] = n]
      /\ next' = [next EXCEPT ![c] = n + 1]
      /\ at' = [at EXCEPT ![r] = "fill"]
  BY DEF Claim, pool, Goto
<1>2. \A q \in Runners : CallOf(q)' = CallOf(q)
  BY <1>1 DEF CallOf
<1>3. n \in 1 .. Blocks
  BY PoolAssumption DEF Left, Placed, BlocksTaken
<1>4. next'[c] = n + 1 /\ \A d \in Callers \ {c} : next'[d] = next[d]
  BY <1>1 DEF Types, DataTypes
<1>5. /\ at'[r] = "fill" /\ block'[r] = n
      /\ \A q \in Runners \ {r} : at'[q] = at[q] /\ block'[q] = block[q]
  BY <1>1 DEF Types, RunTypes, DataTypes
<1>6. /\ Holds(r, c, n)'
      /\ \A q \in Runners, d \in Callers, b \in Nat : Holds(q, d, b) => Holds(q, d, b)'
  BY <1>1, <1>2, <1>5 DEF Holds
<1>7. BlocksPlaced'
  <2> SUFFICES ASSUME NEW d \in Callers, ~stop[d], NEW b \in 1 .. next'[d] - 1
               PROVE  b \in filled[d] \/ \E q \in Runners : Holds(q, d, b)'
    BY <1>1 DEF BlocksPlaced
  <2>1. b \in Nat
    BY <1>3, <1>4 DEF Types, DataTypes
  <2>2. CASE b \in 1 .. next[d] - 1
    BY <1>6, <2>1, <2>2 DEF Placed, BlocksPlaced
  <2>3. CASE d = c /\ b = n
    BY <1>6, <2>3
  <2> QED BY <1>3, <1>4, <2>2, <2>3 DEF Types, DataTypes
<1>8. BlocksTaken'
  <2>1. \A d \in Callers : next'[d] \in 1 .. Blocks + 1 /\ filled'[d] \subseteq 1 .. next'[d] - 1
    <3>1. \A d \in Callers : next[d] \in 1 .. Blocks + 1 /\ filled[d] \subseteq 1 .. next[d] - 1
      BY DEF Placed, BlocksTaken
    <3>2. next'[c] \in 1 .. Blocks + 1 /\ filled[c] \subseteq 1 .. next'[c] - 1
      BY <1>3, <1>4, <3>1, PoolAssumption
    <3> QED BY <1>1, <1>4, <3>1, <3>2
  <2>2. ASSUME NEW q \in Runners, at'[q] = "fill" PROVE block'[q] \in 1 .. next'[CallOf(q)'] - 1
    <3>1. CASE q = r
      BY <1>2, <1>3, <1>4, <1>5, <3>1
    <3>2. CASE q # r
      <4>1. at[q] = "fill" /\ block'[q] = block[q] /\ block[q] \in 1 .. next[CallOf(q)] - 1
        BY <1>5, <2>2, <3>2 DEF Placed, BlocksTaken
      <4>2. CallOf(q) \in Callers
        BY <4>1, RunnerHasCall DEF Running
      <4> QED BY <1>2, <1>3, <1>4, <4>1, <4>2
    <3> QED BY <3>1, <3>2
  <2> QED BY <2>1, <2>2 DEF BlocksTaken
<1>9. BodyLeft'
  <2>1. next[c] # Blocks + 1
    BY <1>3, PoolAssumption
  <2>2. \A d \in Callers : at'[d] \in {"wait", "returned"} => at[d] \in {"wait", "returned"}
    BY <1>1 DEF Types, RunTypes, Runners
  <2> QED BY <1>1, <1>4, <2>1, <2>2 DEF Placed, BodyLeft
<1> QED BY <1>7, <1>8, <1>9 DEF Placed

\* The runner leaves the body.
LEMMA PlacedLeave ==
  ASSUME Types, Placed, NEW r \in Runners, Claim(r), ~Left(r) \/ stop[CallOf(r)]
  PROVE  Placed'
<1> PICK c \in Callers : c = CallOf(r)
  BY RunnerHasCall DEF Claim, Running
<1>1. /\ UNCHANGED <<work, stop, filled, block, next>> /\ at[r] = "claim"
      /\ Leave(r)
  BY DEF Claim, pool
<1>2. \A q \in Runners : at[q] = "fill" => at'[q] = "fill" /\ CallOf(q)' = CallOf(q)
  BY <1>1 DEF CallOf, Leave, Goto, Types, RunTypes
<1>3. \A q \in Runners : at'[q] = "fill" => at[q] = "fill" /\ CallOf(q)' = CallOf(q)
  BY <1>1 DEF CallOf, Leave, Goto, Types, RunTypes
<1>4. \A q \in Runners, d \in Callers, b \in Nat : Holds(q, d, b) => Holds(q, d, b)'
  BY <1>1, <1>2 DEF Holds
<1>5. BlocksPlaced'
  BY <1>1, <1>4 DEF Placed, BlocksPlaced
<1>6. BlocksTaken'
  BY <1>1, <1>3 DEF Placed, BlocksTaken
<1>7. BodyLeft'
  <2> SUFFICES ASSUME NEW d \in Callers, at'[d] \in {"wait", "returned"}, ~stop[d]
               PROVE  next[d] = Blocks + 1
    BY <1>1 DEF BodyLeft
  <2>1. CASE d = r
    <3>1. d = c /\ ~(next[c] <= Blocks)
      BY <2>1 DEF CallOf, Left
    <3> QED BY <3>1, PoolAssumption DEF Placed, BlocksTaken
  <2>2. CASE d # r
    BY <1>1, <2>2 DEF Placed, BodyLeft, Leave, Goto, Types, RunTypes, Runners
  <2> QED BY <2>1, <2>2
<1> QED BY <1>5, <1>6, <1>7 DEF Placed

LEMMA PlacedFill ==
  ASSUME Types, Placed, NEW r \in Runners, Fill(r)
  PROVE  Placed'
<1> PICK c \in Callers : c = CallOf(r)
  BY RunnerHasCall DEF Fill, Running
<1> PICK n \in Nat : n = block[r]
  BY DEF Types, DataTypes
<1>1. /\ UNCHANGED <<work, next, stop>> /\ at[r] = "fill"
      /\ filled' = [filled EXCEPT ![c] = @ \cup {n}]
      /\ block' = [block EXCEPT ![r] = 0]
      /\ at' = [at EXCEPT ![r] = "claim"]
  BY DEF Fill, pool, Goto
<1>2. \A q \in Runners : CallOf(q)' = CallOf(q)
  BY <1>1 DEF CallOf
<1>3. filled'[c] = filled[c] \cup {n} /\ \A d \in Callers \ {c} : filled'[d] = filled[d]
  BY <1>1 DEF Types, DataTypes
<1>4. /\ at'[r] = "claim"
      /\ \A q \in Runners \ {r} : at'[q] = at[q] /\ block'[q] = block[q]
  BY <1>1 DEF Types, RunTypes, DataTypes
<1>5. \A q \in Runners, d \in Callers, b \in Nat :
        Holds(q, d, b) => Holds(q, d, b)' \/ (d = c /\ b = n)
  BY <1>1, <1>2, <1>4 DEF Holds
<1>6. BlocksPlaced'
  <2> SUFFICES ASSUME NEW d \in Callers, ~stop[d], NEW b \in 1 .. next[d] - 1
               PROVE  b \in filled'[d] \/ \E q \in Runners : Holds(q, d, b)'
    BY <1>1 DEF BlocksPlaced
  <2>1. b \in Nat
    BY DEF Types, DataTypes
  <2>2. b \in filled[d] \/ \E q \in Runners : Holds(q, d, b)
    BY DEF Placed, BlocksPlaced
  <2> QED BY <1>3, <1>5, <2>1, <2>2
<1>7. BlocksTaken'
  <2>1. n \in 1 .. next[c] - 1
    BY <1>1 DEF Placed, BlocksTaken
  <2>2. \A d \in Callers : next'[d] \in 1 .. Blocks + 1 /\ filled'[d] \subseteq 1 .. next'[d] - 1
    BY <1>1, <1>3, <2>1 DEF Placed, BlocksTaken
  <2>3. \A q \in Runners : at'[q] = "fill" => block'[q] \in 1 .. next'[CallOf(q)'] - 1
    BY <1>1, <1>2, <1>4 DEF Placed, BlocksTaken
  <2> QED BY <2>2, <2>3 DEF BlocksTaken
<1>8. BodyLeft'
  BY <1>1 DEF Placed, BodyLeft, Types, RunTypes, Runners
<1> QED BY <1>6, <1>7, <1>8 DEF Placed

LEMMA PlacedThrow ==
  ASSUME Types, Placed, NEW r \in Runners, Throw(r)
  PROVE  Placed'
<1> PICK c \in Callers : c = CallOf(r)
  BY RunnerHasCall DEF Throw, Running
<1>1. /\ UNCHANGED <<work, next, filled>> /\ at[r] = "fill"
      /\ stop' = [stop EXCEPT ![c] = TRUE]
      /\ block' = [block EXCEPT ![r] = 0]
      /\ Leave(r)
  BY DEF Throw, pool
<1>2. \A q \in Runners : CallOf(q)' = CallOf(q)
  BY <1>1 DEF CallOf
<1>3. stop'[c] /\ \A d \in Callers \ {c} : stop'[d] = stop[d]
  BY <1>1 DEF Types, DataTypes
<1>4. /\ at'[r] \in {"wait", "finish"}
      /\ \A q \in Runners \ {r} : at'[q] = at[q] /\ block'[q] = block[q]
  BY <1>1 DEF Leave, Goto, Types, RunTypes, DataTypes
<1>5. \A q \in Runners, d \in Callers, b \in Nat :
        Holds(q, d, b) /\ d # c => Holds(q, d, b)'
  BY <1>2, <1>4 DEF Holds
<1>6. BlocksPlaced'
  <2> SUFFICES ASSUME NEW d \in Callers, ~stop'[d], NEW b \in 1 .. next[d] - 1
               PROVE  b \in filled[d] \/ \E q \in Runners : Holds(q, d, b)'
    BY <1>1 DEF BlocksPlaced
  <2>1. b \in Nat
    BY DEF Types, DataTypes
  <2>2. d # c /\ ~stop[d]
    BY <1>3
  <2>3. b \in filled[d] \/ \E q \in Runners : Holds(q, d, b)
    BY <2>2 DEF Placed, BlocksPlaced
  <2> QED BY <1>5, <2>1, <2>2, <2>3
<1>7. BlocksTaken'
  BY <1>1, <1>2, <1>4 DEF Placed, BlocksTaken
<1>8. BodyLeft'
  <2> SUFFICES ASSUME NEW d \in Callers, at'[d] \in {"wait", "returned"}, ~stop'[d]
               PROVE  next[d] = Blocks + 1
    BY <1>1 DEF BodyLeft
  <2>1. d # c /\ ~stop[d]
    BY <1>3
  <2>2. d # r
    BY <2>1 DEF CallOf
  <2>3. at'[d] = at[d]
    BY <1>4, <2>2 DEF Runners
  <2> QED BY <2>1, <2>3 DEF Placed, BodyLeft
<1> QED BY <1>6, <1>7, <1>8 DEF Placed

LEMMA PlacedStep ==
  ASSUME ~CreationFails, Types, Placed, [Next]_vars
  PROVE  Placed'
<1> USE PoolAssumption
<1>1. CASE UNCHANGED vars
  BY <1>1, PlacedSame DEF vars, body, CallOf
<1>2. ASSUME NEW c \in Callers, Call(c) \/ Recruited(c) \/ Return(c) PROVE Placed'
  BY <1>2, PlacedSame DEF Call, Recruited, Return, pool, Goto, CallOf, Types, RunTypes, Runners
<1>3. ASSUME NEW c \in Callers, WakeHelper(c) PROVE Placed'
  <2>1. UNCHANGED <<work, block>> /\ UNCHANGED body
    BY <1>3 DEF WakeHelper, Push
  <2>2. \A r \in Runners : at'[r] = at[r] \/ (r \in Threads /\ at[r] = "waiting" /\ at'[r] = "notified")
    BY <1>3 DEF WakeHelper, Notify, Goto, Types, RunTypes, Runners
  <2> QED BY <2>1, <2>2, PlacedSame DEF CallOf, Runners
<1>4. ASSUME NEW c \in Callers, StartHelper(c) PROVE Placed'
  <2>1. UNCHANGED <<work, block>> /\ UNCHANGED body
    BY <1>4 DEF StartHelper, Push
  <2>2. PICK t \in Unborn, fails \in {FALSE, CreationFails} :
          at' = [at EXCEPT ![t] = IF fails THEN "broken" ELSE "starting",
                           ![c] = IF fails THEN "returned" ELSE at[c]]
    BY <1>4 DEF StartHelper
  <2>3. ~fails
    OBVIOUS
  <2>4. at' = [at EXCEPT ![t] = "starting", ![c] = at[c]]
    BY <2>2, <2>3
  <2>5. \A r \in Runners : at'[r] = at[r] \/ (r \in Threads /\ at[r] = "unborn" /\ at'[r] = "starting")
    BY <2>4 DEF Types, RunTypes, Runners, Unborn
  <2> QED BY <2>1, <2>5, PlacedSame DEF CallOf, Runners
<1>5. ASSUME NEW r \in Runners, Claim(r) PROVE Placed'
  BY <1>5, PlacedTake, PlacedLeave
<1>6. ASSUME NEW t \in Threads, Take(t) \/ Sleep(t) \/ Finish(t) PROVE Placed'
  <2>1. UNCHANGED block /\ UNCHANGED body
    BY <1>6 DEF Take, Sleep, Finish
  <2>2. \E place \in {"claim", "waiting", "ending"} : at' = [at EXCEPT ![t] = place]
    BY <1>6 DEF Take, Sleep, Finish, Goto
  <2>3. at[t] # "fill" /\ at'[t] # "fill" /\ \A r \in Runners \ {t} : at'[r] = at[r]
    BY <1>6, <2>2 DEF Take, Sleep, Finish, Types, RunTypes, Runners
  <2>4. \A r \in Runners \ {t} : CallOf(r)' = CallOf(r)
    BY <1>6 DEF Take, Sleep, Finish, CallOf, Types, DataTypes, Runners
  <2> QED BY <2>1, <2>3, <2>4, PlacedSame DEF Runners
<1> QED
  BY <1>1, <1>2, <1>3, <1>4, <1>5, <1>6, PlacedFill, PlacedThrow, Steps

LEMMA PlacedWhole == Types /\ Owed /\ Placed => ListingWhole
<1> SUFFICES ASSUME Types, Owed, Placed, NEW c \in Callers, at[c] = "returned", ~stop[c]
             PROVE  filled[c] = 1 .. Blocks
  BY DEF ListingWhole
<1>1. next[c] = Blocks + 1
  BY DEF Placed, BodyLeft
<1>2. filled[c] \subseteq 1 .. Blocks
  BY <1>1, PoolAssumption DEF Placed, BlocksTaken
<1>3. ASSUME NEW r \in Runners, at[r] = "fill", CallOf(r) = c PROVE FALSE
  <2>1. r \in Threads /\ r \notin Callers
    BY <1>3 DEF CallOf, Runners
  <2>2. work[r].caller = c /\ work[r] # NoWork
    BY <1>3, <2>1 DEF CallOf, Types, RunTypes, Running
  <2> QED BY <2>1, <2>2, OwedAlive DEF StackAlive
<1>4. \A b \in 1 .. Blocks : b \in filled[c]
  BY <1>1, <1>3, PoolAssumption DEF Placed, BlocksPlaced, Holds
<1> QED BY <1>2, <1>4

\* A call that returns without an exception has every block done.
THEOREM ListingWholeCorrect == ASSUME ~CreationFails PROVE Spec => []ListingWhole
<1>1. Init => Types /\ Owed /\ Placed
  BY TypesInit, OwedInit, PlacedInit
<1>2. Types /\ Owed /\ Placed /\ [Next]_vars => Types' /\ Owed' /\ Placed'
  BY RunTypesStep, DataTypesStep, OwedStep, PlacedStep DEF Types
<1>3. Types /\ Owed /\ Placed => ListingWhole
  BY PlacedWhole
<1> QED BY <1>1, <1>2, <1>3, PTL DEF Spec
=============================================================================
