-------------------------------- MODULE Task --------------------------------
(***************************************************************************)
(* One file operation on a thread of its own (files/task.h, task.cpp).     *)
(*                                                                         *)
(* Two threads share the task.  The UI thread (the thread of m_loop) runs  *)
(* the closures posted to the loop, the caller's calls of cancel(),        *)
(* resolveConflict() and the destructor, and the listeners of the task's   *)
(* signals.  The worker runs execute().  m_conflictMutex and               *)
(* m_conflictCondition synchronise them; everything else the worker has to *)
(* say it posts to the loop.                                               *)
(*                                                                         *)
(* What an operation does to the filesystem is abstracted to its control:  *)
(* it meets a conflict or not, and completes, fails or is cancelled.       *)
(***************************************************************************)
EXTENDS Naturals, Sequences

CONSTANTS
  NumSources,         \* how many sources the request names
  DestroyInStart      \* whether a listener of stateChanged(Running) may destroy the task

ASSUME NumSourcesAssumption == NumSources \in Nat \ {0}
ASSUME DestroyInStartAssumption == DestroyInStart \in BOOLEAN

Sources == 1..NumSources
Policies == {"Fail", "Skip", "KeepBoth", "Replace"}     \* a ConflictPolicy other than Ask
NoPolicy == "none"                                      \* an empty optional
Errors == {"none", "canceled", "failed"}                \* ECANCELED, and any other code
States == {"Queued", "Running", "Succeeded", "Failed", "Canceled"}
Terminal == {"Succeeded", "Failed", "Canceled"}

VARIABLES
  \* The request and its listeners; fixed.
  conflict,       \* m_request.conflict
  listener,       \* conflictRequested has a listener
  \* The UI thread.
  life,           \* "live", "dying" while ~Task runs, "gone" once the members are destroyed
  frame,          \* the emission the UI thread is inside of, "loop" when inside none
  call,           \* what the member function the UI thread is in has still to do
  state,          \* m_state
  results,        \* how often result was emitted
  dead,           \* a destroyed task was used
  queue,          \* the closures posted to the loop, oldest first
  announced,      \* the conflict ids conflictRequested was emitted with
  \* What the mutex guards.
  mutex,          \* "worker" while the worker holds m_conflictMutex from one step to the next
  canceled,       \* m_context->canceled
  resolved, resolution, resolutionForAll, lastConflict, pendingConflict,
  \* The worker.
  pc,
  completed,      \* how many sources are done: result.completedSources
  error,          \* result.error
  \* History of the answers, for the properties.
  answers,        \* the policy resolveConflict() accepted for each conflict id
  asked,          \* the conflict id each source asked with, 0 when it did not ask
  applied         \* the policy each source's conflict was settled with

uiVars == <<life, frame, call, state, results, dead, announced>>
lockVars == <<canceled, resolved, resolution, resolutionForAll, lastConflict, pendingConflict>>
workVars == <<completed, error>>
histVars == <<answers, asked, applied>>
fixedVars == <<conflict, listener>>
vars == <<fixedVars, uiVars, queue, mutex, lockVars, pc, workVars, histVars>>

StartClosure == [kind |-> "start"]
ConflictClosure(id) == [kind |-> "conflict", id |-> id]
ReportClosure(items) == [kind |-> "report", items |-> items]
FinishClosure(outcome) == [kind |-> "finish", outcome |-> outcome]

Post(closure) == queue' = Append(queue, closure)
RunHead == queue' = Tail(queue)

Init ==
  /\ conflict \in Policies \cup {"Ask"}
  /\ listener \in BOOLEAN
  /\ life = "live" /\ frame = "loop" /\ call = "none"
  /\ state = "Queued" /\ results = 0 /\ dead = FALSE /\ announced = {}
  /\ queue = <<StartClosure>>         \* TaskController::submit posts start()
  /\ mutex = "none" /\ canceled = FALSE
  /\ resolved = FALSE /\ resolution = "Fail" /\ resolutionForAll = NoPolicy
  /\ lastConflict = 0 /\ pendingConflict = 0
  /\ pc = "none" /\ completed = 0 /\ error = "none"
  /\ answers = [c \in Sources |-> NoPolicy]
  /\ asked = [s \in Sources |-> 0]
  /\ applied = [s \in Sources |-> NoPolicy]

-----------------------------------------------------------------------------
(* The UI thread: the caller, and listeners while a signal is emitted.     *)

LockFree == mutex = "none"
CallerActs == call = "none" /\ life = "live"

\* Mutant of SetCanceled: the flag is stored without the mutex.
SetCanceledUnlocked == canceled' = TRUE

\* cancel(): the flag is set under the mutex, the worker is notified after it.  A repeated
\* cancel() only notifies again, which SpuriousWakeup covers.
SetCanceled == LockFree /\ canceled' = TRUE

Cancel ==
  /\ CallerActs /\ ~canceled
  /\ SetCanceled
  /\ call' = "notify"
  /\ UNCHANGED <<fixedVars, life, frame, state, results, dead, announced, queue, mutex, resolved,
                 resolution, resolutionForAll, lastConflict, pendingConflict, pc, workVars, histVars>>

\* Mutant of Answer: the waiting worker is not notified.
AnswerUnnotified(id, policy, all) ==
  /\ LockFree
  /\ pendingConflict' = 0
  /\ resolution' = policy
  /\ resolved' = TRUE
  /\ resolutionForAll' = IF all THEN policy ELSE resolutionForAll
  /\ answers' = [answers EXCEPT ![id] = policy]
  /\ call' = "none"

\* The part of resolveConflict() that runs under the mutex when the id is the pending one.
Answer(id, policy, all) ==
  /\ LockFree
  /\ pendingConflict' = 0
  /\ resolution' = policy
  /\ resolved' = TRUE
  /\ resolutionForAll' = IF all THEN policy ELSE resolutionForAll
  /\ answers' = [answers EXCEPT ![id] = policy]
  /\ call' = "notify"

\* Mutant of Answerable: any announced id answers the conflict that waits.
AnyIdAnswerable(id) == id # 0 /\ pendingConflict # 0

Answerable(id) == id # 0 /\ id = pendingConflict

\* An answer to any other conflict returns false and changes nothing.
ResolveConflict(id, policy, all) ==
  /\ CallerActs
  /\ Answerable(id)
  /\ Answer(id, policy, all)
  /\ UNCHANGED <<fixedVars, life, frame, state, results, dead, announced, queue, mutex, canceled,
                 lastConflict, pc, workVars, asked, applied>>

\* ~Task(): cancel, then join.  Whoever is inside an emission goes on afterwards.
Destroy ==
  /\ CallerActs
  /\ frame = "starting" => DestroyInStart
  /\ SetCanceled
  /\ life' = "dying"
  /\ call' = "notifyThenJoin"
  /\ UNCHANGED <<fixedVars, frame, state, results, dead, announced, queue, mutex, resolved,
                 resolution, resolutionForAll, lastConflict, pendingConflict, pc, workVars, histVars>>

\* notify_all() of cancel() and resolveConflict().
NotifyAll ==
  /\ call \in {"notify", "notifyThenJoin"}
  /\ call' = IF call = "notify" THEN "none" ELSE "join"
  /\ pc' = IF pc = "asleep" THEN "woken" ELSE pc
  /\ UNCHANGED <<fixedVars, life, frame, state, results, dead, announced, queue, mutex, lockVars,
                 workVars, histVars>>

\* Mutant of Joinable: the thread is not waited for.
NeverJoined == TRUE

\* m_thread.join() of the destructor; a task that never started has no thread.
Joinable == pc \in {"none", "exited"}

DestroyJoin ==
  /\ call = "join"
  /\ Joinable
  /\ life' = "gone"
  /\ call' = "none"
  /\ UNCHANGED <<fixedVars, frame, state, results, dead, announced, queue, mutex, lockVars, pc,
                 workVars, histVars>>

-----------------------------------------------------------------------------
(* The UI thread: the closures of the loop.                                *)

InLoop == frame = "loop" /\ call = "none"
Running(kind) == InLoop /\ queue # <<>> /\ Head(queue).kind = kind

\* A closure whose weak pointer finds the task destroyed does nothing.
DropClosure ==
  /\ InLoop /\ queue # <<>> /\ life = "gone"
  /\ RunHead
  /\ UNCHANGED <<fixedVars, uiVars, mutex, lockVars, pc, workVars, histVars>>

\* start(): up to and including the emission of stateChanged(Running).
Start ==
  /\ Running("start") /\ life = "live"
  /\ RunHead
  /\ state' = "Running"
  /\ frame' = "starting"
  /\ UNCHANGED <<fixedVars, life, call, results, dead, announced, mutex, lockVars, pc, workVars, histVars>>

\* Using the task's members: undefined once it is destroyed.
UseTask == dead' = (dead \/ life # "live")
\* Mutant of Alive: the weak pointer is not checked.
Unchecked == TRUE

Alive == life = "live"                  \* the weak pointer self

\* The rest of start(): no weak pointer guards it.
StartThread ==
  /\ frame = "starting" /\ call = "none"
  /\ frame' = "loop"
  /\ UseTask
  /\ pc' = IF Alive THEN "begin" ELSE pc
  /\ UNCHANGED <<fixedVars, life, call, state, results, announced, queue, mutex, lockVars, workVars, histVars>>

\* The closure of a conflict: announce it, or let it fail when nobody listens.
ConflictArrives ==
  /\ Running("conflict") /\ life = "live"
  /\ RunHead
  /\ LET id == Head(queue).id IN
     IF listener
     THEN /\ announced' = announced \cup {id}
          /\ UNCHANGED <<call, lockVars, answers>>
     ELSE /\ IF Answerable(id)
             THEN Answer(id, "Fail", FALSE)
             ELSE UNCHANGED <<call, resolved, resolution, resolutionForAll, pendingConflict, answers>>
          /\ UNCHANGED <<announced, canceled, lastConflict>>
  /\ UNCHANGED <<fixedVars, life, frame, state, results, dead, mutex, pc, workVars, asked, applied>>

\* progress and progressInfoChanged.
ReportArrives ==
  /\ Running("report") /\ life = "live"
  /\ RunHead
  /\ UNCHANGED <<fixedVars, uiVars, mutex, lockVars, pc, workVars, histVars>>

StateOf(outcome) ==
  IF outcome = "canceled" THEN "Canceled" ELSE IF outcome = "failed" THEN "Failed" ELSE "Succeeded"

\* finish(): join, take the outcome, then three emissions with a check of the weak pointer between.
Finish ==
  /\ Running("finish") /\ life = "live"
  /\ Joinable
  /\ RunHead
  /\ state' = StateOf(Head(queue).outcome)
  /\ frame' = "finishProgress"
  /\ UNCHANGED <<fixedVars, life, call, results, dead, announced, mutex, lockVars, pc, workVars, histVars>>

FinishStateChanged ==
  /\ frame = "finishProgress" /\ call = "none"
  /\ IF Alive THEN frame' = "finishState" /\ UseTask
              ELSE frame' = "loop" /\ UNCHANGED dead
  /\ UNCHANGED <<fixedVars, life, call, state, results, announced, queue, mutex, lockVars, pc,
                 workVars, histVars>>

FinishResult ==
  /\ frame = "finishState" /\ call = "none"
  /\ IF Alive THEN frame' = "finishResult" /\ UseTask /\ results' = results + 1
              ELSE frame' = "loop" /\ UNCHANGED <<dead, results>>
  /\ UNCHANGED <<fixedVars, life, call, state, announced, queue, mutex, lockVars, pc, workVars, histVars>>

FinishReturn ==
  /\ frame = "finishResult" /\ call = "none"
  /\ frame' = "loop"
  /\ UNCHANGED <<fixedVars, life, call, state, results, dead, announced, queue, mutex, lockVars, pc,
                 workVars, histVars>>

-----------------------------------------------------------------------------
(* The worker: execute() and the conflict function start() gives it.       *)

Source == completed + 1                 \* the source being worked on

Stop(reason) == error' = reason /\ pc' = "unwind"
Unstopped == UNCHANGED error

\* The first checkpoint of execute().
Begin ==
  /\ pc = "begin"
  /\ IF canceled THEN Stop("canceled") ELSE pc' = "scan" /\ Unstopped
  /\ UNCHANGED <<fixedVars, uiVars, queue, mutex, lockVars, completed, histVars>>

\* Standard folders, sizes and free space: cancellable, and may refuse the request.
Scan ==
  /\ pc = "scan"
  /\ \/ canceled /\ Stop("canceled") /\ UNCHANGED queue
     \/ Stop("failed") /\ UNCHANGED queue
     \/ pc' = "source" /\ Unstopped /\ Post(ReportClosure(0))
  /\ UNCHANGED <<fixedVars, uiVars, mutex, lockVars, completed, histVars>>

\* Mutant of NextSource: one source too many.
NextSourceTooFar ==
  /\ pc = "source"
  /\ \/ completed > NumSources /\ pc' = "unwind" /\ Unstopped
     \/ completed <= NumSources /\ canceled /\ Stop("canceled")
     \/ completed <= NumSources /\ ~canceled /\ pc' = "operate" /\ Unstopped
  /\ UNCHANGED <<fixedVars, uiVars, queue, mutex, lockVars, completed, histVars>>

\* The head of the loop over the sources.
NextSource ==
  /\ pc = "source"
  /\ \/ completed = NumSources /\ pc' = "unwind" /\ Unstopped
     \/ completed < NumSources /\ canceled /\ Stop("canceled")
     \/ completed < NumSources /\ ~canceled /\ pc' = "operate" /\ Unstopped
  /\ UNCHANGED <<fixedVars, uiVars, queue, mutex, lockVars, completed, histVars>>

Complete ==
  /\ completed' = completed + 1
  /\ pc' = "source" /\ Unstopped
  /\ Post(ReportClosure(completed + 1))

\* The policy of a conflict is known.
Settle(policy) ==
  /\ applied' = [applied EXCEPT ![Source] = policy]
  /\ pc' = "settled" /\ Unstopped

\* The operation on the source up to the point where its destination may turn out to exist.
Operate ==
  /\ pc = "operate"
  /\ \/ canceled /\ Stop("canceled") /\ UNCHANGED applied
     \/ Stop("failed") /\ UNCHANGED applied
     \/ pc' = "write" /\ Unstopped /\ UNCHANGED applied
     \/ conflict = "Ask" /\ pc' = "ask" /\ Unstopped /\ UNCHANGED applied
     \/ conflict # "Ask" /\ Settle(conflict)
  /\ UNCHANGED <<fixedVars, uiVars, queue, mutex, lockVars, completed, answers, asked>>

\* What a settled conflict makes of the source; Skip completes it without an output.
Settled ==
  /\ pc = "settled"
  /\ \/ canceled /\ Stop("canceled") /\ UNCHANGED <<queue, completed>>
     \/ applied[Source] = "Fail" /\ Stop("failed") /\ UNCHANGED <<queue, completed>>
     \/ applied[Source] = "Skip" /\ Complete
     \/ /\ applied[Source] \in {"KeepBoth", "Replace"}
        /\ pc' = "write" /\ Unstopped /\ UNCHANGED <<queue, completed>>
  /\ UNCHANGED <<fixedVars, uiVars, mutex, lockVars, histVars>>

\* The rest of the operation on the source.
Write ==
  /\ pc = "write"
  /\ \/ canceled /\ Stop("canceled") /\ UNCHANGED <<queue, completed>>
     \/ Stop("failed") /\ UNCHANGED <<queue, completed>>
     \/ Complete
  /\ UNCHANGED <<fixedVars, uiVars, mutex, lockVars, histVars>>

\* The conflict function: lock, an answer for all, or a new id and the question.
AskAgain ==
  /\ resolutionForAll = NoPolicy
  /\ mutex' = "worker"
  /\ resolved' = FALSE
  /\ lastConflict' = lastConflict + 1
  /\ pendingConflict' = lastConflict + 1
  /\ Post(ConflictClosure(lastConflict + 1))
  /\ asked' = [asked EXCEPT ![Source] = lastConflict + 1]
  /\ pc' = "check" /\ Unstopped
  /\ UNCHANGED applied

Ask ==
  /\ pc = "ask" /\ LockFree
  /\ \/ /\ resolutionForAll # NoPolicy
        /\ Settle(resolutionForAll)
        /\ UNCHANGED <<queue, mutex, resolved, lastConflict, pendingConflict, asked>>
     \/ AskAgain
  /\ UNCHANGED <<fixedVars, uiVars, canceled, resolution, resolutionForAll, completed, answers>>

\* wait(lock, predicate): a false predicate leads to sleep with the mutex still held.
WaitOver == resolved \/ canceled

Check ==
  /\ pc = "check" /\ ~WaitOver
  /\ pc' = "block"
  /\ UNCHANGED <<fixedVars, uiVars, queue, mutex, lockVars, workVars, histVars>>

Block ==
  /\ pc = "block"
  /\ pc' = "asleep" /\ mutex' = "none"
  /\ UNCHANGED <<fixedVars, uiVars, queue, lockVars, workVars, histVars>>

\* A condition variable may wake without a notification.
SpuriousWakeup ==
  /\ pc = "asleep"
  /\ pc' = "woken"
  /\ UNCHANGED <<fixedVars, uiVars, queue, mutex, lockVars, workVars, histVars>>

Relock ==
  /\ pc = "woken" /\ LockFree
  /\ mutex' = "worker" /\ pc' = "check"
  /\ UNCHANGED <<fixedVars, uiVars, queue, lockVars, workVars, histVars>>

\* After the wait: no conflict is pending, a cancelled task stops, an answered one goes on.
WaitReturns ==
  /\ pc = "check" /\ WaitOver
  /\ pendingConflict' = 0
  /\ mutex' = "none"
  /\ IF canceled THEN Stop("canceled") /\ UNCHANGED applied ELSE Settle(resolution)
  /\ UNCHANGED <<fixedVars, uiVars, queue, canceled, resolved, resolution, resolutionForAll,
                 lastConflict, completed, answers, asked>>

\* The last report of execute().
Unwind ==
  /\ pc = "unwind"
  /\ pc' = "return"
  /\ Post(ReportClosure(completed))
  /\ UNCHANGED <<fixedVars, uiVars, mutex, lockVars, workVars, histVars>>

\* The end of the thread's function: the outcome is posted, then the thread exits.
Return ==
  /\ pc = "return"
  /\ pc' = "posted"
  /\ Post(FinishClosure(error))
  /\ UNCHANGED <<fixedVars, uiVars, mutex, lockVars, workVars, histVars>>

ThreadExits ==
  /\ pc = "posted"
  /\ pc' = "exited"
  /\ UNCHANGED <<fixedVars, uiVars, queue, mutex, lockVars, workVars, histVars>>

-----------------------------------------------------------------------------
WorkerStep ==
  \/ Begin \/ Scan \/ NextSource \/ Operate \/ Settled \/ Write \/ Ask \/ Check \/ Block \/ Relock
  \/ WaitReturns \/ Unwind \/ Return \/ ThreadExits

Callback ==
  \/ DropClosure \/ Start \/ StartThread \/ ConflictArrives \/ ReportArrives \/ Finish
  \/ FinishStateChanged \/ FinishResult \/ FinishReturn \/ NotifyAll \/ DestroyJoin

Caller ==
  \/ Cancel \/ Destroy
  \/ \E id \in announced, policy \in Policies, all \in BOOLEAN : ResolveConflict(id, policy, all)

\* The destroyed task's loop has nothing left to run.
Over == life = "gone" /\ queue = <<>> /\ frame = "loop" /\ UNCHANGED vars

Next == WorkerStep \/ Callback \/ Caller \/ SpuriousWakeup \/ Over

Spec == Init /\ [][Next]_vars

\* The scheduler runs the worker, and the UI thread its loop; nobody has to cancel or answer.
\* A closure that needs the mutex gets it although a worker that wakes for nothing takes it
\* again and again.
Fairness == WF_vars(WorkerStep) /\ WF_vars(Callback) /\ SF_vars(ConflictArrives)
FairSpec == Spec /\ Fairness

-----------------------------------------------------------------------------
(* Properties.                                                             *)

Phases == {"none", "begin", "scan", "source", "operate", "settled", "write", "ask", "check",
           "block", "asleep", "woken", "unwind", "return", "posted", "exited"}
Ids == 0..NumSources
Closures == {StartClosure} \cup {ConflictClosure(id) : id \in Ids}
              \cup {ReportClosure(n) : n \in Ids} \cup {FinishClosure(e) : e \in Errors}

UITypes ==
  /\ conflict \in Policies \cup {"Ask"} /\ listener \in BOOLEAN
  /\ life \in {"live", "dying", "gone"}
  /\ frame \in {"loop", "starting", "finishProgress", "finishState", "finishResult"}
  /\ call \in {"none", "notify", "notifyThenJoin", "join"}
  /\ state \in States /\ results \in Nat /\ dead \in BOOLEAN
  /\ queue \in Seq(Closures) /\ announced \subseteq Ids

LockTypes ==
  /\ mutex \in {"none", "worker"}
  /\ canceled \in BOOLEAN /\ resolved \in BOOLEAN /\ resolution \in Policies
  /\ resolutionForAll \in Policies \cup {NoPolicy}
  /\ lastConflict \in Ids /\ pendingConflict \in Ids

WorkTypes ==
  /\ pc \in Phases /\ completed \in Ids /\ error \in Errors
  /\ answers \in [Sources -> Policies \cup {NoPolicy}]
  /\ asked \in [Sources -> Ids]
  /\ applied \in [Sources -> Policies \cup {NoPolicy}]

\* Every variable holds a value of its kind.
TypeOK == UITypes /\ LockTypes /\ WorkTypes

\* A source's conflict is settled with the request's policy, with the caller's answer to
\* that very conflict, or, without asking, with an answer given for all before it: a late
\* or repeated answer (task.cpp:358) never settles another conflict.
AnswersHonoured ==
  \A s \in Sources : applied[s] # NoPolicy =>
    \/ conflict # "Ask" /\ applied[s] = conflict
    \/ conflict = "Ask" /\ asked[s] # 0 /\ applied[s] = answers[asked[s]]
    \/ /\ conflict = "Ask" /\ asked[s] = 0
       /\ applied[s] = resolutionForAll
       /\ \E earlier \in 1..(s - 1) : asked[earlier] # 0 /\ answers[asked[earlier]] = applied[s]

\* The outcome the caller sees is what the worker did: success means every source was
\* completed, ECANCELED that the task was cancelled, and the thread has ended by then.
OutcomeHonest ==
  /\ state = "Succeeded" => completed = NumSources /\ error = "none"
  /\ state = "Canceled" => canceled /\ error = "canceled"
  /\ state = "Failed" => error = "failed"
  /\ state \in Terminal => pc = "exited"
  /\ results <= 1 /\ (results = 1 => state \in Terminal)

\* "It may be destroyed at any time" (task.h:72): no code runs on a task that is gone,
\* neither the worker nor what follows an emission.
NoUseAfterDestroy == ~dead /\ (life = "gone" => pc \in {"none", "exited"})

\* A cancelled task that runs ends, whoever waits for an answer: cancel() is not lost
\* between the predicate and the wait.
CancelEnds == (canceled /\ state = "Running") ~> (pc = "exited")

\* "Without a listener every conflict fails" (task.h:123): a task nobody answers still
\* reports its result, unless it is destroyed before.
UnattendedFinishes == (~listener) ~> (results = 1 \/ life # "live")

\* The threads, the loop and the lock implement what the header promises: sources are
\* completed only between the start and the end of a task that exists, it ends once and
\* announces its result at most once.
Promise == INSTANCE TaskPromise WITH
  phase <- IF state = "Queued" THEN "queued" ELSE IF state = "Running" THEN "running" ELSE state,
  done <- completed,
  told <- results > 0,
  exists <- life # "gone"

KeepsPromise == Promise!Spec
=============================================================================
