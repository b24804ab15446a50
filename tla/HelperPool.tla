----------------------------- MODULE HelperPool -----------------------------
(***************************************************************************)
(* The helper threads of a process and runOnFreeThreads() (files/async_p.h,*)
(* async_p.cpp): calls that spread the blocks of a large folder over the   *)
(* threads free right now, and work on their own meanwhile.  A body is     *)
(* what file_enumerator.cpp:162 and directory_lister.cpp:111 pass: it      *)
(* takes one block after the other until none is left or stop is set.      *)
(***************************************************************************)
EXTENDS Naturals, Sequences, FiniteSets

CONSTANTS
  Callers,            \* the calls of runOnFreeThreads(), each on a thread that is no helper
  Threads,            \* as many as idealThreadCount()
  Wanted,             \* bounds the helpers a call asks for
  Blocks,             \* the blocks of each call
  CreationFails       \* whether the system may refuse to start a thread

ASSUME PoolAssumption ==
  /\ Callers \cap Threads = {} /\ IsFiniteSet(Threads)
  /\ Wanted \in Nat /\ Blocks \in Nat /\ CreationFails \in BOOLEAN

Runners == Callers \cup Threads

VARIABLES
  queue, idle,        \* Helpers::queue, Helpers::idle
  at,                 \* where each caller and each thread is
  work,               \* the work a thread has taken
  block,              \* the block a runner has taken, or 0
  helpers, started,   \* of each call: how many helpers it asks for, and got
  finished,           \* which of them are done; the code counts them
  next,               \* nextBlock
  stop,               \* stop is set, and failure with it
  filled              \* the blocks that are done

pool == <<queue, idle, work>>
calls == <<helpers, started, finished>>
body == <<next, stop, filled>>
vars == <<queue, idle, at, work, block, helpers, started, finished, next, stop, filled>>

Work(caller, nth) == [caller |-> caller, nth |-> nth]
Works == [caller : Callers, nth : Nat]
NoWork == [caller |-> "none"]

Running == {"claim", "fill"}                    \* inside of the body
CallerPlaces == Running \cup {"new", "recruit", "wait", "returned"}
ThreadPlaces == Running \cup {"unborn", "broken", "starting", "waiting", "notified", "finish", "ending"}

Init ==
  /\ queue = <<>> /\ idle = 0
  /\ at = [r \in Runners |-> IF r \in Callers THEN "new" ELSE "unborn"]
  /\ work = [t \in Threads |-> NoWork]
  /\ block = [r \in Runners |-> 0]
  /\ helpers \in [Callers -> 0 .. Wanted]
  /\ started = [c \in Callers |-> 0] /\ finished = [c \in Callers |-> {}]
  /\ next = [c \in Callers |-> 1]
  /\ stop = [c \in Callers |-> FALSE] /\ filled = [c \in Callers |-> {}]

Goto(r, place) == at' = [at EXCEPT ![r] = place]

-----------------------------------------------------------------------------
(* tryStartHelper(), called by runOnFreeThreads().                         *)

Call(c) ==
  /\ at[c] = "new"
  /\ Goto(c, "recruit")
  /\ UNCHANGED <<pool, block, calls, body>>

Push(c) ==
  /\ queue' = Append(queue, Work(c, started[c] + 1))
  /\ started' = [started EXCEPT ![c] = @ + 1]
  /\ UNCHANGED <<idle, work, block, helpers, finished, body>>

\* Mutant: nobody is woken.
NotifyNone == UNCHANGED at

\* notify_one: one thread that sleeps is woken, if one does.
Notify ==
  \/ \E t \in Threads : at[t] = "waiting" /\ Goto(t, "notified")
  \/ (\A t \in Threads : at[t] # "waiting") /\ UNCHANGED at

Recruits(c) == at[c] = "recruit" /\ started[c] < helpers[c]
Unborn == {t \in Threads : at[t] = "unborn"}

\* Mutant: an idle thread is enough, whatever was promised to it already.
SpareAny == idle > 0
Spare == idle > Len(queue)

\* An idle thread that no work waits for.
WakeHelper(c) == Recruits(c) /\ Spare /\ Push(c) /\ Notify

\* A new thread.  When std::thread throws, the work is on the queue and the thread is counted,
\* and the exception leaves runOnFreeThreads() at once.
StartHelper(c) ==
  /\ Recruits(c) /\ ~Spare
  /\ \E t \in Unborn, fails \in {FALSE, CreationFails} :
       at' = [at EXCEPT ![t] = IF fails THEN "broken" ELSE "starting",
                        ![c] = IF fails THEN "returned" ELSE @]
  /\ Push(c)

\* No helper is wanted or to be had: the call goes to work itself.
Recruited(c) ==
  /\ at[c] = "recruit"
  /\ started[c] = helpers[c] \/ (~Spare /\ Unborn = {})
  /\ Goto(c, "claim")
  /\ UNCHANGED <<pool, block, calls, body>>

-----------------------------------------------------------------------------
(* The body, run by a helper or by the call itself.                        *)

CallOf(r) == IF r \in Callers THEN r ELSE work[r].caller
Leave(r) == Goto(r, IF r \in Callers THEN "wait" ELSE "finish")

\* Mutant: the last block is left out.
LeftShort(r) == next[CallOf(r)] < Blocks
Left(r) == next[CallOf(r)] <= Blocks

\* nextBlock++ and the test after it; past the last block the counter is not told apart.
Claim(r) ==
  /\ at[r] = "claim"
  /\ IF Left(r) /\ ~stop[CallOf(r)]
     THEN /\ block' = [block EXCEPT ![r] = next[CallOf(r)]]
          /\ next' = [next EXCEPT ![CallOf(r)] = @ + 1]
          /\ Goto(r, "fill")
     ELSE Leave(r) /\ UNCHANGED <<block, next>>
  /\ UNCHANGED <<pool, calls, stop, filled>>

Fill(r) ==
  /\ at[r] = "fill"
  /\ filled' = [filled EXCEPT ![CallOf(r)] = @ \cup {block[r]}]
  /\ block' = [block EXCEPT ![r] = 0]
  /\ Goto(r, "claim")
  /\ UNCHANGED <<pool, calls, next, stop>>

\* The listing is cancelled or an item's preparer throws: the exception is kept, stop is set.
Throw(r) ==
  /\ at[r] = "fill"
  /\ stop' = [stop EXCEPT ![CallOf(r)] = TRUE]
  /\ block' = [block EXCEPT ![r] = 0]
  /\ Leave(r)
  /\ UNCHANGED <<pool, calls, next, filled>>

\* Mutant: the call does not wait for its helpers.
ReturnAtOnce(c) ==
  /\ at[c] = "wait"
  /\ Goto(c, "returned")
  /\ UNCHANGED <<pool, block, calls, body>>

\* Every helper is done: the call returns, or rethrows the exception kept.
Return(c) ==
  /\ at[c] = "wait" /\ finished[c] = 1 .. started[c]
  /\ Goto(c, "returned")
  /\ UNCHANGED <<pool, block, calls, body>>

-----------------------------------------------------------------------------
(* Helpers::threadMain().                                                  *)

\* The end of the work, which says so to its call.
Finish(t) ==
  /\ at[t] = "finish"
  /\ finished' = [finished EXCEPT ![work[t].caller] = @ \cup {work[t].nth}]
  /\ work' = [work EXCEPT ![t] = NoWork]
  /\ Goto(t, "ending")
  /\ UNCHANGED <<queue, idle, block, helpers, started, body>>

Counted(t) == at[t] \in {"waiting", "notified"}

\* Mutant: the thread still counts as idle while it works.
TakeUncounted(t) ==
  /\ at[t] \in {"starting", "ending", "waiting", "notified"} /\ queue # <<>>
  /\ queue' = Tail(queue)
  /\ work' = [work EXCEPT ![t] = Head(queue)]
  /\ Goto(t, "claim")
  /\ UNCHANGED <<idle, block, calls, body>>

\* wait() returns, for a notification or for none, or need not sleep.
Take(t) ==
  /\ at[t] \in {"starting", "ending", "waiting", "notified"} /\ queue # <<>>
  /\ queue' = Tail(queue)
  /\ work' = [work EXCEPT ![t] = Head(queue)]
  /\ idle' = IF Counted(t) THEN idle - 1 ELSE idle
  /\ Goto(t, "claim")
  /\ UNCHANGED <<block, calls, body>>

Sleep(t) ==
  /\ at[t] \in {"starting", "ending", "notified"} /\ queue = <<>>
  /\ idle' = IF Counted(t) THEN idle ELSE idle + 1
  /\ Goto(t, "waiting")
  /\ UNCHANGED <<queue, work, block, calls, body>>

-----------------------------------------------------------------------------
Caller(c) ==
  \/ Call(c) \/ WakeHelper(c) \/ StartHelper(c) \/ Recruited(c) \/ Return(c)
Run(r) == Claim(r) \/ Fill(r) \/ Throw(r)
Helper(t) == Take(t) \/ Sleep(t) \/ Finish(t)

\* Every call returned and every helper sleeps.
Over ==
  /\ \A c \in Callers : at[c] = "returned"
  /\ \A t \in Threads : at[t] \in {"unborn", "broken", "waiting"}
  /\ UNCHANGED vars

Next ==
  \/ \E c \in Callers : Caller(c)
  \/ \E r \in Runners : Run(r)
  \/ \E t \in Threads : Helper(t)
  \/ Over

Spec == Init /\ [][Next]_vars

\* The scheduler runs every thread that is not asleep.
FairSpec ==
  /\ Spec
  /\ \A c \in Callers : WF_vars(Caller(c) \/ Run(c))
  /\ \A t \in Threads : WF_vars((at[t] # "waiting" /\ Helper(t)) \/ Run(t))

-----------------------------------------------------------------------------
(* Properties.                                                             *)

RunTypes ==
  /\ at \in [Runners -> CallerPlaces \cup ThreadPlaces]
  /\ \A c \in Callers : at[c] \in CallerPlaces
  /\ \A t \in Threads : /\ at[t] \in ThreadPlaces
                        /\ work[t] # NoWork <=> at[t] \in Running \cup {"finish"}

DataTypes ==
  /\ queue \in Seq(Works) /\ work \in [Threads -> Works \cup {NoWork}]
  /\ block \in [Runners -> Nat]
  /\ helpers \in [Callers -> Nat] /\ started \in [Callers -> Nat]
  /\ finished \in [Callers -> SUBSET Nat]
  /\ next \in [Callers -> Nat] /\ stop \in [Callers -> BOOLEAN]
  /\ filled \in [Callers -> SUBSET Nat]

\* Every variable holds a value of its kind, and idle counts the threads that wait.
TypeOK == RunTypes /\ DataTypes /\ idle = Cardinality({t \in Threads : Counted(t)})

\* The threads that look at the queue next.
Free == {t \in Threads : at[t] \in {"starting", "waiting", "notified"}}

\* "Queued helpers could wait behind work that waits for them" (async_p.h:62): work is queued
\* only for a thread that is free to take it, never behind one at work.
NeverBehind == Len(queue) <= Cardinality(Free)

\* "The helpers use this stack" (async_p.h:43): while a helper has or runs work of a call,
\* that call has not returned.
StackAlive ==
  /\ \A i \in 1 .. Len(queue) : at[queue[i].caller] # "returned"
  /\ \A t \in Threads : work[t] # NoWork => at[work[t].caller] # "returned"

\* A call that returns without an exception has every block done, whoever took it.
ListingWhole ==
  \A c \in Callers : at[c] = "returned" /\ ~stop[c] => filled[c] = 1 .. Blocks

\* Every call returns: no wakeup is lost, and no call waits for work that waits for a thread.
CallsReturn == \A c \in Callers : at[c] = "recruit" ~> at[c] = "returned"
=============================================================================
