----------------------------- MODULE TaskProofs -----------------------------
(***************************************************************************)
(* Proofs about Task for every number of sources.  The inductive           *)
(* invariant IInv is the conjunction of four parts: the types, where the   *)
(* two threads may be at once (Control), what the outcome is worth         *)
(* (Outcome), and how questions and answers pair up (Dialogue).            *)
(***************************************************************************)
EXTENDS Task, TLAPS

Waiting == {"check", "block", "asleep", "woken"}
Working == {"operate", "ask", "settled", "write"} \cup Waiting
Before == {"none", "begin", "scan", "source", "operate", "ask"}
Ended == {"unwind", "return", "posted", "exited"}
Finishing == {"finishProgress", "finishState", "finishResult"}

\* Which closures may be on the loop, and which emission the UI thread may be in, for each
\* stage of the worker.
Control ==
  /\ state = "Queued" => pc = "none" /\ frame = "loop"
  /\ state \in Terminal => pc = "exited" /\ queue = <<>>
  /\ frame = "starting" => state = "Running" /\ pc = "none" /\ queue = <<>>
  /\ frame \in Finishing => state \in Terminal
  /\ frame \in {"finishProgress", "finishState"} => results = 0
  /\ results = 0 \/ (results = 1 /\ state \in Terminal)
  /\ \A i \in 1..Len(queue) :
       /\ queue[i].kind = "start" => state = "Queued" /\ Len(queue) = 1
       /\ queue[i].kind = "finish" =>
            /\ i = Len(queue) /\ pc \in {"posted", "exited"}
            /\ state = "Running" /\ frame = "loop" /\ queue[i].outcome = error
  /\ life = "gone" => pc \in {"none", "exited"}
  /\ life = "dying" <=> call \in {"notifyThenJoin", "join"}
  /\ ~DestroyInStart => ~dead /\ (frame = "starting" => life # "gone" /\ (life = "dying" =>
       FALSE))

\* Where the error comes from, and that only an error stops before the last source.
Outcome ==
  /\ error # "none" => pc \in Ended
  /\ error = "canceled" => canceled
  /\ pc \in Ended /\ error = "none" => completed = NumSources
  /\ pc \in Working => completed < NumSources
  /\ state \in Terminal => state = StateOf(error)

\* The ids are handed out in order; the source being worked on asks at most once; the
\* answer it waits for is the one recorded under its id.
Dialogue ==
  /\ mutex = "worker" <=> pc \in {"check", "block"}
  /\ pc \notin Waiting => pendingConflict = 0
  /\ lastConflict <= Source /\ (pc \in Before => lastConflict <= completed)
  /\ pc \in {"ask"} \cup Waiting => conflict = "Ask" /\ applied[Source] = NoPolicy
  /\ pc \in Before /\ Source \in Sources => asked[Source] = 0 /\ applied[Source] = NoPolicy
  /\ \A s \in Sources : s > Source => asked[s] = 0 /\ applied[s] = NoPolicy
  /\ \A s \in Sources : asked[s] <= lastConflict
  /\ pc \in Waiting =>
       /\ asked[Source] = lastConflict /\ lastConflict # 0
       /\ \A s \in Sources : s < Source => asked[s] < lastConflict
       /\ \/ /\ pendingConflict = lastConflict /\ ~resolved
             /\ resolutionForAll = NoPolicy
          \/ pendingConflict = 0 /\ resolved /\ resolution = answers[lastConflict]
  /\ resolutionForAll # NoPolicy =>
       /\ conflict = "Ask"
       /\ \E s \in Sources : /\ asked[s] # 0 /\ answers[asked[s]] = resolutionForAll
                             /\ s <= Source /\ (pc \in Before => s < Source)

IInv == TypeOK /\ Control /\ Outcome /\ Dialogue /\ AnswersHonoured

-----------------------------------------------------------------------------
(* The closures of the loop, by kind.                                      *)

LEMMA ClosureFacts ==
  /\ StartClosure \in Closures /\ StartClosure.kind = "start"
  /\ \A id \in Ids : ConflictClosure(id) \in Closures /\ ConflictClosure(id).kind = "conflict"
  /\ \A n \in Ids : ReportClosure(n) \in Closures /\ ReportClosure(n).kind = "report"
  /\ \A e \in Errors : /\ FinishClosure(e) \in Closures /\ FinishClosure(e).kind = "finish"
                       /\ FinishClosure(e).outcome = e
  /\ \A c \in Closures : c.kind = "conflict" => c.id \in Ids
<1>1. StartClosure \in Closures /\ StartClosure.kind = "start"
  BY DEF Closures, StartClosure
<1>2. \A id \in Ids : ConflictClosure(id) \in Closures /\ ConflictClosure(id).kind = "conflict"
  BY DEF Closures, ConflictClosure
<1>3. \A n \in Ids : ReportClosure(n) \in Closures /\ ReportClosure(n).kind = "report"
  BY DEF Closures, ReportClosure
<1>4. \A e \in Errors : /\ FinishClosure(e) \in Closures /\ FinishClosure(e).kind = "finish"
                        /\ FinishClosure(e).outcome = e
  BY DEF Closures, FinishClosure
<1>5. \A c \in Closures : c.kind = "conflict" => c.id \in Ids
  BY DEF Closures, StartClosure, ConflictClosure, ReportClosure, FinishClosure
<1> QED BY <1>1, <1>2, <1>3, <1>4, <1>5

LEMMA PostTyped ==
  ASSUME TypeOK, NEW c \in Closures, Post(c)
  PROVE  queue' \in Seq(Closures)
BY DEF TypeOK, UITypes, Post

LEMMA PostFacts ==
  ASSUME TypeOK, NEW c, Post(c)
  PROVE  /\ Len(queue') = Len(queue) + 1
         /\ queue'[Len(queue) + 1] = c
         /\ \A i \in 1..Len(queue) : queue'[i] = queue[i]
<1>1. Len(queue') = Len(queue) + 1 /\ queue'[Len(queue) + 1] = c
  BY DEF TypeOK, UITypes, Post
<1>2. \A i \in 1..Len(queue) : queue'[i] = queue[i]
  BY DEF TypeOK, UITypes, Post
<1> QED BY <1>1, <1>2

LEMMA RunHeadFacts ==
  ASSUME TypeOK, queue # <<>>, RunHead
  PROVE  /\ queue' \in Seq(Closures)
         /\ Len(queue') = Len(queue) - 1
         /\ \A i \in 1..Len(queue') : queue'[i] = queue[i + 1]
         /\ Head(queue) = queue[1] /\ queue[1] \in Closures
         /\ 1 \in 1..Len(queue)
BY DEF TypeOK, UITypes, RunHead

\* What the working thread posts joins closures that neither start nor finish the task.
LEMMA PostQuiet ==
  ASSUME TypeOK, Control, pc \notin {"none", "posted", "exited"}, state # "Queued",
         NEW c \in Closures, c.kind \in {"report", "conflict"}, Post(c)
  PROVE  \A i \in 1..Len(queue') : queue'[i].kind \notin {"start", "finish"}
<1>1. \A i \in 1..Len(queue) : queue[i].kind \notin {"start", "finish"}
  BY DEF Control
<1> QED BY <1>1, PostFacts DEF TypeOK, UITypes

LEMMA NextSourceIsSource ==
  ASSUME TypeOK, Outcome, pc \in Working
  PROVE  Source \in Sources /\ completed + 1 \in Ids
BY NumSourcesAssumption DEF TypeOK, WorkTypes, Outcome, Source, Sources, Ids

LEMMA ZeroIsId == 0 \in Ids
BY NumSourcesAssumption DEF Ids

\* Every step keeps the types.
LEMMA TypeStep == TypeOK /\ Outcome /\ Dialogue /\ [Next]_vars => TypeOK'
<1> SUFFICES ASSUME TypeOK, Outcome, Dialogue, [Next]_vars PROVE TypeOK'
  OBVIOUS
<1> USE NumSourcesAssumption DEF TypeOK, UITypes, LockTypes, WorkTypes, vars, fixedVars, uiVars,
     lockVars, workVars, histVars, States, Phases, Errors
<1>1. CASE WorkerStep
  <2>1. CASE Begin
    BY <2>1 DEF Begin, Stop, Unstopped
  <2>2. CASE Scan
    BY <2>2, PostTyped, ClosureFacts, ZeroIsId DEF Scan, Stop, Unstopped
  <2>3. CASE NextSource
    BY <2>3 DEF NextSource, Stop, Unstopped
  <2>4. CASE Operate
    BY <2>4 DEF Operate, Stop, Unstopped, Settle
  <2>5. CASE Settled
    <3>1. completed + 1 \in Ids
      BY <2>5, NextSourceIsSource DEF Settled, Working
    <3> QED BY <3>1, <2>5, PostTyped, ClosureFacts DEF Settled, Complete, Stop, Unstopped
  <2>6. CASE Write
    <3>1. completed + 1 \in Ids
      BY <2>6, NextSourceIsSource DEF Write, Working
    <3> QED BY <3>1, <2>6, PostTyped, ClosureFacts DEF Write, Complete, Stop, Unstopped
  <2>7. CASE Ask
    <3>1. lastConflict + 1 \in Ids
      BY <2>7, NextSourceIsSource DEF Ask, Dialogue, Before, Working, Sources, Source, Ids
    <3>2. CASE AskAgain
      <4>1. queue' \in Seq(Closures)
        BY <3>1, <3>2, PostTyped, ClosureFacts DEF AskAgain
      <4>2. /\ mutex' = "worker" /\ resolved' = FALSE /\ pc' = "check"
            /\ lastConflict' \in Ids /\ pendingConflict' \in Ids
            /\ asked' \in [Sources -> Ids] /\ UNCHANGED <<error, applied>>
        BY <3>1, <3>2 DEF AskAgain, Unstopped
      <4>3. UNCHANGED <<fixedVars, uiVars, canceled, resolution, resolutionForAll, completed,
           answers>>
        BY <2>7 DEF Ask
      <4>4. UITypes'
        BY <4>1, <4>3
      <4>5. LockTypes'
        BY <4>2, <4>3
      <4>6. WorkTypes'
        BY <4>2, <4>3
      <4> QED BY <4>4, <4>5, <4>6
    <3>3. CASE ~AskAgain
      BY <3>3, <2>7 DEF Ask, Settle, Unstopped
    <3> QED BY <3>2, <3>3
  <2>8. CASE Check
    BY <2>8 DEF Check, WaitOver
  <2>9. CASE Block
    BY <2>9 DEF Block
  <2>10. CASE Relock
    BY <2>10 DEF Relock, LockFree
  <2>11. CASE WaitReturns
    BY <2>11, ZeroIsId DEF WaitReturns, WaitOver, Stop, Unstopped, Settle
  <2>12. CASE Unwind
    BY <2>12, PostTyped, ClosureFacts DEF Unwind
  <2>13. CASE Return
    BY <2>13, PostTyped, ClosureFacts DEF Return
  <2>14. CASE ThreadExits
    BY <2>14 DEF ThreadExits
  <2> QED BY <1>1, <2>1, <2>2, <2>3, <2>4, <2>5, <2>6, <2>7, <2>8, <2>9, <2>10, <2>11, <2>12,
       <2>13, <2>14 DEF WorkerStep
<1>2. CASE Callback
  <2>1. CASE DropClosure
    BY <2>1, RunHeadFacts DEF DropClosure, InLoop
  <2>2. CASE Start
    BY <2>2, RunHeadFacts DEF Start, Running, InLoop
  <2>3. CASE StartThread
    BY <2>3 DEF StartThread, UseTask, Alive
  <2>4. CASE ConflictArrives
    <3>1. queue' \in Seq(Closures) /\ Head(queue).id \in Ids
      BY <2>4, RunHeadFacts, ClosureFacts DEF ConflictArrives, Running
    <3>2. UNCHANGED <<fixedVars, life, frame, state, results, dead, mutex, pc, workVars, asked,
         applied>>
      BY <2>4 DEF ConflictArrives
    <3>3. CASE listener
      <4>1. announced' = announced \cup {Head(queue).id} /\ UNCHANGED <<call, lockVars,
           answers>>
        BY <3>3, <2>4 DEF ConflictArrives
      <4>2. announced' \subseteq Ids
        BY <3>1, <4>1
      <4> QED BY <3>1, <3>2, <4>1, <4>2
    <3>4. CASE ~listener
      <4>1. /\ UNCHANGED <<announced, canceled, lastConflict>>
            /\ \/ Answer(pendingConflict, "Fail", FALSE)
               \/ UNCHANGED <<call, resolved, resolution, resolutionForAll, pendingConflict,
                    answers>>
        BY <3>4, <2>4 DEF ConflictArrives, Answerable
      <4>2. CASE Answer(pendingConflict, "Fail", FALSE)
        <5>1. UITypes'
          BY <3>1, <3>2, <4>1, <4>2 DEF Answer
        <5>2. LockTypes'
          BY <3>2, <4>1, <4>2, ZeroIsId DEF Answer, Policies
        <5>3. WorkTypes'
          BY <3>2, <4>2 DEF Answer, Policies
        <5> QED BY <5>1, <5>2, <5>3
      <4>3. CASE UNCHANGED <<call, resolved, resolution, resolutionForAll, pendingConflict,
           answers>>
        BY <3>1, <3>2, <4>1, <4>3
      <4> QED BY <4>1, <4>2, <4>3
    <3> QED BY <3>3, <3>4
  <2>5. CASE ReportArrives
    BY <2>5, RunHeadFacts DEF ReportArrives, Running, InLoop
  <2>6. CASE Finish
    BY <2>6, RunHeadFacts DEF Finish, Running, InLoop, Joinable, StateOf
  <2>7. CASE FinishStateChanged
    BY <2>7 DEF FinishStateChanged, UseTask, Alive
  <2>8. CASE FinishResult
    BY <2>8 DEF FinishResult, UseTask, Alive
  <2>9. CASE FinishReturn
    BY <2>9 DEF FinishReturn
  <2>10. CASE NotifyAll
    BY <2>10 DEF NotifyAll
  <2>11. CASE DestroyJoin
    BY <2>11 DEF DestroyJoin, Joinable
  <2> QED BY <1>2, <2>1, <2>2, <2>3, <2>4, <2>5, <2>6, <2>7, <2>8, <2>9, <2>10, <2>11 DEF
       Callback
<1>3. CASE Caller
  <2>1. CASE Cancel
    BY <2>1 DEF Cancel, CallerActs, SetCanceled, LockFree
  <2>2. CASE Destroy
    BY <2>2 DEF Destroy, CallerActs, SetCanceled, LockFree
  <2>3. CASE \E id \in announced, policy \in Policies, all \in BOOLEAN : ResolveConflict(id,
       policy, all)
    <3> PICK id \in announced, policy \in Policies, all \in BOOLEAN : ResolveConflict(id,
         policy, all)
      BY <2>3
    <3>1. UITypes'
      BY DEF ResolveConflict, Answer
    <3>2. LockTypes'
      BY ZeroIsId DEF ResolveConflict, Answer
    <3>3. WorkTypes'
      BY DEF ResolveConflict, Answer
    <3> QED BY <3>1, <3>2, <3>3
  <2> QED BY <1>3, <2>1, <2>2, <2>3 DEF Caller
<1>4. CASE SpuriousWakeup
  BY <1>4 DEF SpuriousWakeup
<1>5. CASE UNCHANGED vars
  BY <1>5
<1> QED BY <1>1, <1>2, <1>3, <1>4, <1>5 DEF Next, Over

\* Every step keeps the two threads where Control lets them be.
LEMMA ControlStep == TypeOK /\ Control /\ Outcome /\ Dialogue /\ [Next]_vars => Control'
<1> SUFFICES ASSUME TypeOK, Control, Outcome, Dialogue, [Next]_vars PROVE Control'
  OBVIOUS
<1> USE NumSourcesAssumption, DestroyInStartAssumption DEF TypeOK, UITypes, LockTypes,
     WorkTypes, Control, vars, fixedVars, uiVars, lockVars, workVars, histVars, Terminal, Ids,
     Errors, Finishing
<1>1. CASE WorkerStep
  <2>1. CASE Begin
    BY <2>1 DEF Begin, Stop, Unstopped
  <2>2. CASE Scan
    BY <2>2, PostQuiet, ClosureFacts DEF Scan, Stop, Unstopped
  <2>3. CASE NextSource
    BY <2>3 DEF NextSource, Stop, Unstopped
  <2>4. CASE Operate
    BY <2>4 DEF Operate, Stop, Unstopped, Settle
  <2>5. CASE Settled
    <3>1. completed + 1 \in Ids
      BY <2>5, NextSourceIsSource DEF Settled, Working
    <3>2. CASE Complete
      <4>1. \A i \in 1..Len(queue') : queue'[i].kind \notin {"start", "finish"}
        BY <3>1, <3>2, <2>5, PostQuiet, ClosureFacts DEF Settled, Complete
      <4> QED BY <3>2, <4>1, <2>5 DEF Settled, Complete, Unstopped
    <3>3. CASE ~Complete
      BY <3>3, <2>5 DEF Settled, Stop, Unstopped
    <3> QED BY <3>2, <3>3
  <2>6. CASE Write
    <3>1. completed + 1 \in Ids
      BY <2>6, NextSourceIsSource DEF Write, Working
    <3>2. CASE Complete
      <4>1. \A i \in 1..Len(queue') : queue'[i].kind \notin {"start", "finish"}
        BY <3>1, <3>2, <2>6, PostQuiet, ClosureFacts DEF Write, Complete
      <4> QED BY <3>2, <4>1, <2>6 DEF Write, Complete, Unstopped
    <3>3. CASE ~Complete
      BY <3>3, <2>6 DEF Write, Stop, Unstopped
    <3> QED BY <3>2, <3>3
  <2>7. CASE Ask
    <3>1. lastConflict + 1 \in Ids
      BY <2>7, NextSourceIsSource DEF Ask, Dialogue, Before, Working, Sources, Source
    <3>2. CASE AskAgain
      <4>1. \A i \in 1..Len(queue') : queue'[i].kind \notin {"start", "finish"}
        BY <3>1, <3>2, <2>7, PostQuiet, ClosureFacts DEF Ask, AskAgain
      <4> QED BY <3>2, <4>1, <2>7 DEF Ask, AskAgain, Unstopped
    <3>3. CASE ~AskAgain
      BY <3>3, <2>7 DEF Ask, Settle, Unstopped
    <3> QED BY <3>2, <3>3
  <2>8. CASE Check
    BY <2>8 DEF Check, WaitOver
  <2>9. CASE Block
    BY <2>9 DEF Block
  <2>10. CASE Relock
    BY <2>10 DEF Relock, LockFree
  <2>11. CASE WaitReturns
    BY <2>11 DEF WaitReturns, WaitOver, Stop, Unstopped, Settle
  <2>12. CASE Unwind
    BY <2>12, PostQuiet, ClosureFacts DEF Unwind
  <2>13. CASE Return
    <3>1. state = "Running" /\ frame = "loop"
      BY <2>13 DEF Return, States
    <3>2. \A i \in 1..Len(queue) : queue[i].kind \notin {"start", "finish"}
      BY <3>1, <2>13 DEF Return
    <3>3. /\ Len(queue') = Len(queue) + 1 /\ queue'[Len(queue) + 1] = FinishClosure(error)
          /\ \A i \in 1..Len(queue) : queue'[i] = queue[i]
      BY <2>13, PostFacts DEF Return
    <3>4. FinishClosure(error).kind = "finish" /\ FinishClosure(error).outcome = error
      BY ClosureFacts
    <3> QED BY <3>1, <3>2, <3>3, <3>4, <2>13 DEF Return
  <2>14. CASE ThreadExits
    BY <2>14 DEF ThreadExits
  <2> QED BY <1>1, <2>1, <2>2, <2>3, <2>4, <2>5, <2>6, <2>7, <2>8, <2>9, <2>10, <2>11, <2>12,
       <2>13, <2>14 DEF WorkerStep
<1>2. CASE Callback
  <2>1. CASE DropClosure
    BY <2>1, RunHeadFacts DEF DropClosure, InLoop
  <2>2. CASE Start
    BY <2>2, RunHeadFacts DEF Start, Running, InLoop
  <2>3. CASE StartThread
    BY <2>3 DEF StartThread, UseTask, Alive
  <2>4. CASE ConflictArrives
    <3>1. /\ UNCHANGED <<state, pc, frame, life, results, dead, error>>
          /\ call = "none" /\ call' \in {"none", "notify"} /\ life = "live" /\ frame = "loop"
          /\ queue # <<>> /\ RunHead /\ Head(queue).kind = "conflict"
      BY <2>4 DEF ConflictArrives, Running, InLoop, Answer
    <3>2. \A i \in 1..Len(queue') : i + 1 \in 1..Len(queue) /\ queue'[i] = queue[i + 1]
      BY <3>1, RunHeadFacts
    <3>3. state \notin Terminal
      BY <3>1
    <3> QED BY <3>1, <3>2, <3>3, RunHeadFacts
  <2>5. CASE ReportArrives
    BY <2>5, RunHeadFacts DEF ReportArrives, Running, InLoop
  <2>6. CASE Finish
    BY <2>6, RunHeadFacts DEF Finish, Running, InLoop, Joinable, StateOf
  <2>7. CASE FinishStateChanged
    BY <2>7 DEF FinishStateChanged, UseTask, Alive
  <2>8. CASE FinishResult
    BY <2>8 DEF FinishResult, UseTask, Alive
  <2>9. CASE FinishReturn
    BY <2>9 DEF FinishReturn
  <2>10. CASE NotifyAll
    BY <2>10 DEF NotifyAll
  <2>11. CASE DestroyJoin
    BY <2>11 DEF DestroyJoin, Joinable
  <2> QED BY <1>2, <2>1, <2>2, <2>3, <2>4, <2>5, <2>6, <2>7, <2>8, <2>9, <2>10, <2>11 DEF
       Callback
<1>3. CASE Caller
  <2>1. CASE Cancel
    BY <2>1 DEF Cancel, CallerActs, SetCanceled, LockFree
  <2>2. CASE Destroy
    BY <2>2 DEF Destroy, CallerActs, SetCanceled, LockFree
  <2>3. CASE \E id \in announced, policy \in Policies, all \in BOOLEAN : ResolveConflict(id,
       policy, all)
    BY <2>3 DEF ResolveConflict, CallerActs, Answerable, Answer, LockFree
  <2> QED BY <1>3, <2>1, <2>2, <2>3 DEF Caller
<1>4. CASE SpuriousWakeup
  BY <1>4 DEF SpuriousWakeup
<1>5. CASE UNCHANGED vars
  BY <1>5
<1> QED BY <1>1, <1>2, <1>3, <1>4, <1>5 DEF Next, Over

\* Every step keeps the outcome worth what it says.
LEMMA OutcomeStep == TypeOK /\ Control /\ Outcome /\ Dialogue /\ [Next]_vars => Outcome'
<1> SUFFICES ASSUME TypeOK, Control, Outcome, Dialogue, [Next]_vars PROVE Outcome'
  OBVIOUS
<1> USE NumSourcesAssumption DEF TypeOK, UITypes, LockTypes, WorkTypes, Control, Outcome, vars,
     fixedVars, uiVars, lockVars, workVars, histVars, Terminal, States, Phases, Ids, Errors,
     Working, Waiting, Ended, Finishing, StateOf
<1>1. CASE WorkerStep
  <2>1. CASE Begin
    BY <2>1 DEF Begin, Stop, Unstopped
  <2>2. CASE Scan
    BY <2>2 DEF Scan, Stop, Unstopped
  <2>3. CASE NextSource
    BY <2>3 DEF NextSource, Stop, Unstopped
  <2>4. CASE Operate
    BY <2>4 DEF Operate, Stop, Unstopped, Settle
  <2>5. CASE Settled
    BY <2>5 DEF Settled, Stop, Unstopped, Complete
  <2>6. CASE Write
    BY <2>6 DEF Write, Stop, Unstopped, Complete
  <2>7. CASE Ask
    BY <2>7 DEF Ask, AskAgain, Settle, Unstopped, LockFree
  <2>8. CASE Check
    BY <2>8 DEF Check, WaitOver
  <2>9. CASE Block
    BY <2>9 DEF Block
  <2>10. CASE Relock
    BY <2>10 DEF Relock, LockFree
  <2>11. CASE WaitReturns
    BY <2>11 DEF WaitReturns, WaitOver, Stop, Unstopped, Settle
  <2>12. CASE Unwind
    BY <2>12 DEF Unwind
  <2>13. CASE Return
    BY <2>13 DEF Return
  <2>14. CASE ThreadExits
    BY <2>14 DEF ThreadExits
  <2> QED BY <1>1, <2>1, <2>2, <2>3, <2>4, <2>5, <2>6, <2>7, <2>8, <2>9, <2>10, <2>11, <2>12,
       <2>13, <2>14 DEF WorkerStep
<1>2. CASE Callback
  <2>1. CASE DropClosure
    BY <2>1 DEF DropClosure, InLoop
  <2>2. CASE Start
    BY <2>2 DEF Start, Running, InLoop
  <2>3. CASE StartThread
    BY <2>3 DEF StartThread, UseTask, Alive
  <2>4. CASE ConflictArrives
    BY <2>4 DEF ConflictArrives, Running, InLoop, Answerable, Answer, LockFree
  <2>5. CASE ReportArrives
    BY <2>5 DEF ReportArrives, Running, InLoop
  <2>6. CASE Finish
    BY <2>6, RunHeadFacts DEF Finish, Running, InLoop, Joinable, StateOf
  <2>7. CASE FinishStateChanged
    BY <2>7 DEF FinishStateChanged, UseTask, Alive
  <2>8. CASE FinishResult
    BY <2>8 DEF FinishResult, UseTask, Alive
  <2>9. CASE FinishReturn
    BY <2>9 DEF FinishReturn
  <2>10. CASE NotifyAll
    BY <2>10 DEF NotifyAll
  <2>11. CASE DestroyJoin
    BY <2>11 DEF DestroyJoin, Joinable
  <2> QED BY <1>2, <2>1, <2>2, <2>3, <2>4, <2>5, <2>6, <2>7, <2>8, <2>9, <2>10, <2>11 DEF
       Callback
<1>3. CASE Caller
  <2>1. CASE Cancel
    BY <2>1 DEF Cancel, CallerActs, SetCanceled, LockFree
  <2>2. CASE Destroy
    BY <2>2 DEF Destroy, CallerActs, SetCanceled, LockFree
  <2>3. CASE \E id \in announced, policy \in Policies, all \in BOOLEAN : ResolveConflict(id,
       policy, all)
    BY <2>3 DEF ResolveConflict, CallerActs, Answerable, Answer, LockFree
  <2> QED BY <1>3, <2>1, <2>2, <2>3 DEF Caller
<1>4. CASE SpuriousWakeup
  BY <1>4 DEF SpuriousWakeup
<1>5. CASE UNCHANGED vars
  BY <1>5
<1> QED BY <1>1, <1>2, <1>3, <1>4, <1>5 DEF Next, Over

\* Every step keeps questions and answers paired.
LEMMA DialogueStep == TypeOK /\ Control /\ Outcome /\ Dialogue /\ [Next]_vars => Dialogue'
<1> SUFFICES ASSUME TypeOK, Control, Outcome, Dialogue, [Next]_vars PROVE Dialogue'
  OBVIOUS
<1> USE NumSourcesAssumption DEF TypeOK, UITypes, LockTypes, WorkTypes, Outcome, Dialogue, vars,
     fixedVars, uiVars, lockVars, workVars, histVars, Sources, Policies, NoPolicy, Ids, Source,
     Working, Waiting, Before
<1>1. CASE WorkerStep
  <2>1. CASE Begin
    BY <2>1 DEF Begin, Stop, Unstopped
  <2>2. CASE Scan
    BY <2>2 DEF Scan, Stop, Unstopped
  <2>3. CASE NextSource
    BY <2>3 DEF NextSource, Stop, Unstopped
  <2>4. CASE Operate
    BY <2>4 DEF Operate, Stop, Unstopped, Settle
  <2>5. CASE Settled
    <3>1. CASE Complete
      BY <3>1, <2>5 DEF Settled, Complete, Unstopped
    <3>2. CASE ~Complete
      BY <3>2, <2>5 DEF Settled, Stop, Unstopped
    <3> QED BY <3>1, <3>2
  <2>6. CASE Write
    <3>1. CASE Complete
      BY <3>1, <2>6 DEF Write, Complete, Unstopped
    <3>2. CASE ~Complete
      BY <3>2, <2>6 DEF Write, Stop, Unstopped
    <3> QED BY <3>1, <3>2
  <2>7. CASE Ask
    <3>1. Source \in Sources /\ pc \in Before /\ pc \notin Waiting
      BY <2>7, NextSourceIsSource DEF Ask
    <3>2. CASE AskAgain
      <4>1. /\ pc' = "check" /\ mutex' = "worker" /\ ~resolved' /\ resolutionForAll = NoPolicy
            /\ lastConflict' = lastConflict + 1 /\ pendingConflict' = lastConflict + 1
            /\ asked' = [asked EXCEPT ![Source] = lastConflict + 1]
            /\ UNCHANGED <<conflict, completed, applied, answers, resolution, resolutionForAll>>
        BY <3>2, <2>7 DEF Ask, AskAgain, Unstopped
      <4>2. /\ asked'[Source] = lastConflict + 1
            /\ \A s \in Sources : s # Source => asked'[s] = asked[s]
        BY <3>1, <4>1
      <4> QED BY <3>1, <4>1, <4>2, <2>7 DEF Ask
    <3>3. CASE ~AskAgain
      <4>1. /\ pc' = "settled" /\ resolutionForAll # NoPolicy
            /\ applied' = [applied EXCEPT ![Source] = resolutionForAll]
            /\ UNCHANGED <<conflict, completed, mutex, lockVars, asked, answers>>
        BY <3>3, <2>7 DEF Ask, Settle
      <4> QED BY <3>1, <4>1, <2>7 DEF Ask
    <3> QED BY <3>2, <3>3
  <2>8. CASE Check
    BY <2>8 DEF Check, WaitOver
  <2>9. CASE Block
    BY <2>9 DEF Block
  <2>10. CASE Relock
    BY <2>10 DEF Relock, LockFree
  <2>11. CASE WaitReturns
    BY <2>11 DEF WaitReturns, WaitOver, Stop, Unstopped, Settle
  <2>12. CASE Unwind
    BY <2>12 DEF Unwind
  <2>13. CASE Return
    BY <2>13 DEF Return
  <2>14. CASE ThreadExits
    BY <2>14 DEF ThreadExits
  <2> QED BY <1>1, <2>1, <2>2, <2>3, <2>4, <2>5, <2>6, <2>7, <2>8, <2>9, <2>10, <2>11, <2>12,
       <2>13, <2>14 DEF WorkerStep
<1>2. CASE Callback
  <2>1. CASE DropClosure
    BY <2>1 DEF DropClosure, InLoop
  <2>2. CASE Start
    BY <2>2 DEF Start, Running, InLoop
  <2>3. CASE StartThread
    BY <2>3 DEF StartThread, UseTask, Alive, Control
  <2>4. CASE ConflictArrives
    BY SMTT(30), <2>4 DEF ConflictArrives, Running, InLoop, Answerable, Answer, LockFree
  <2>5. CASE ReportArrives
    BY <2>5 DEF ReportArrives, Running, InLoop
  <2>6. CASE Finish
    BY <2>6 DEF Finish, Running, InLoop, Joinable, StateOf
  <2>7. CASE FinishStateChanged
    BY <2>7 DEF FinishStateChanged, UseTask, Alive
  <2>8. CASE FinishResult
    BY <2>8 DEF FinishResult, UseTask, Alive
  <2>9. CASE FinishReturn
    BY <2>9 DEF FinishReturn
  <2>10. CASE NotifyAll
    BY <2>10 DEF NotifyAll
  <2>11. CASE DestroyJoin
    BY <2>11 DEF DestroyJoin, Joinable
  <2> QED BY <1>2, <2>1, <2>2, <2>3, <2>4, <2>5, <2>6, <2>7, <2>8, <2>9, <2>10, <2>11 DEF
       Callback
<1>3. CASE Caller
  <2>1. CASE Cancel
    BY <2>1 DEF Cancel, CallerActs, SetCanceled, LockFree
  <2>2. CASE Destroy
    BY <2>2 DEF Destroy, CallerActs, SetCanceled, LockFree
  <2>3. CASE \E id \in announced, policy \in Policies, all \in BOOLEAN : ResolveConflict(id,
       policy, all)
    BY SMTT(30), <2>3 DEF ResolveConflict, CallerActs, Answerable, Answer, LockFree
  <2> QED BY <1>3, <2>1, <2>2, <2>3 DEF Caller
<1>4. CASE SpuriousWakeup
  BY <1>4 DEF SpuriousWakeup
<1>5. CASE UNCHANGED vars
  BY <1>5
<1> QED BY <1>1, <1>2, <1>3, <1>4, <1>5 DEF Next, Over

\* An accepted answer is recorded under an id that settled no conflict yet.
LEMMA AnswerKeepsEarlier ==
  ASSUME TypeOK, Outcome, Dialogue, AnswersHonoured,
         NEW id, NEW policy \in Policies, NEW all \in BOOLEAN,
         Answerable(id), Answer(id, policy, all), UNCHANGED <<conflict, asked, applied>>
  PROVE  AnswersHonoured'
<1> USE DEF TypeOK, UITypes, LockTypes, WorkTypes, Dialogue, AnswersHonoured, Sources, Source,
     NoPolicy
<1>1. pc \in Waiting /\ id = lastConflict /\ resolutionForAll = NoPolicy
  BY DEF Answerable
<1>2. \A s \in Sources : applied[s] # NoPolicy => s < Source /\ asked[s] # id
  BY <1>1, NumSourcesAssumption DEF Waiting, Ids
<1>3. \A c \in Sources : c # id => answers'[c] = answers[c]
  BY DEF Answer
<1>4. \A s \in Sources : asked[s] # 0 => asked[s] \in Sources
  BY DEF Ids
<1>5. \A s \in Sources : applied[s] # NoPolicy => applied[s] # resolutionForAll
  BY <1>1
<1> QED BY <1>1, <1>2, <1>3, <1>4, <1>5

\* Every step honours the answers.
LEMMA AnswersStep == TypeOK /\ Outcome /\ Dialogue /\ AnswersHonoured /\ [Next]_vars =>
     AnswersHonoured'
<1> SUFFICES ASSUME TypeOK, Outcome, Dialogue, AnswersHonoured, [Next]_vars PROVE
     AnswersHonoured'
  OBVIOUS
<1> USE NumSourcesAssumption DEF TypeOK, UITypes, LockTypes, WorkTypes, Outcome, Dialogue,
     AnswersHonoured, vars, fixedVars, uiVars, lockVars, workVars, histVars, Sources, Policies,
     NoPolicy, Source, Working, Waiting, Before
<1>1. CASE WorkerStep
  <2>1. CASE Begin
    BY <2>1 DEF Begin, Stop, Unstopped
  <2>2. CASE Scan
    BY <2>2 DEF Scan, Stop, Unstopped
  <2>3. CASE NextSource
    BY <2>3 DEF NextSource, Stop, Unstopped
  <2>4. CASE Operate
    BY <2>4 DEF Operate, Stop, Unstopped, Settle
  <2>5. CASE Settled
    BY <2>5 DEF Settled, Stop, Unstopped, Complete
  <2>6. CASE Write
    BY <2>6 DEF Write, Stop, Unstopped, Complete
  <2>7. CASE Ask
    <3>1. CASE AskAgain
      <4>1. /\ asked' = [asked EXCEPT ![Source] = lastConflict + 1]
            /\ applied[Source] = NoPolicy
            /\ UNCHANGED <<conflict, completed, applied, answers, resolutionForAll>>
        BY <3>1, <2>7 DEF Ask, AskAgain, Unstopped
      <4> QED BY <4>1
    <3>2. CASE ~AskAgain
      <4>1. /\ resolutionForAll # NoPolicy /\ conflict = "Ask"
            /\ Source \in Sources /\ asked[Source] = 0
            /\ applied' = [applied EXCEPT ![Source] = resolutionForAll]
            /\ UNCHANGED <<conflict, completed, lockVars, asked, answers>>
        BY <3>2, <2>7, NextSourceIsSource DEF Ask, Settle
      <4>2. PICK s \in Sources : s < Source /\ asked[s] # 0 /\ answers[asked[s]] =
           resolutionForAll
        BY <4>1, <2>7 DEF Ask
      <4>3. s \in 1..(Source - 1)
        BY <4>1, <4>2
      <4>4. applied'[Source] = resolutionForAll /\ \A t \in Sources : t # Source => applied'[t]
           = applied[t]
        BY <4>1
      <4> QED BY ZenonT(60), <4>1, <4>2, <4>3, <4>4
    <3> QED BY <3>1, <3>2
  <2>8. CASE Check
    BY <2>8 DEF Check, WaitOver
  <2>9. CASE Block
    BY <2>9 DEF Block
  <2>10. CASE Relock
    BY <2>10 DEF Relock, LockFree
  <2>11. CASE WaitReturns
    <3>1. Source \in Sources
      BY <2>11, NextSourceIsSource DEF WaitReturns
    <3>2. CASE canceled
      BY <3>2, <2>11 DEF WaitReturns
    <3>3. CASE ~canceled
      <4>1. /\ applied' = [applied EXCEPT ![Source] = resolution]
            /\ UNCHANGED <<conflict, completed, resolutionForAll, asked, answers>>
            /\ resolution = answers[asked[Source]] /\ asked[Source] # 0 /\ conflict = "Ask"
        BY <3>1, <3>3, <2>11 DEF WaitReturns, Settle, WaitOver
      <4>2. applied'[Source] = resolution /\ \A t \in Sources : t # Source => applied'[t] =
           applied[t]
        BY <3>1, <4>1
      <4> QED BY ZenonT(60), <4>1, <4>2
    <3> QED BY <3>2, <3>3
  <2>12. CASE Unwind
    BY <2>12 DEF Unwind
  <2>13. CASE Return
    BY <2>13 DEF Return
  <2>14. CASE ThreadExits
    BY <2>14 DEF ThreadExits
  <2> QED BY <1>1, <2>1, <2>2, <2>3, <2>4, <2>5, <2>6, <2>7, <2>8, <2>9, <2>10, <2>11, <2>12,
       <2>13, <2>14 DEF WorkerStep
<1>2. CASE Callback
  <2>1. CASE DropClosure
    BY <2>1 DEF DropClosure, InLoop
  <2>2. CASE Start
    BY <2>2 DEF Start, Running, InLoop
  <2>3. CASE StartThread
    BY <2>3 DEF StartThread, UseTask, Alive
  <2>4. CASE ConflictArrives
    <3>1. CASE UNCHANGED <<applied, asked, answers, resolutionForAll>>
      BY <3>1, <2>4 DEF ConflictArrives
    <3>2. CASE Answerable(Head(queue).id) /\ Answer(Head(queue).id, "Fail", FALSE)
      BY <3>2, <2>4, AnswerKeepsEarlier DEF ConflictArrives
    <3> QED BY <3>1, <3>2, <2>4 DEF ConflictArrives
  <2>5. CASE ReportArrives
    BY <2>5 DEF ReportArrives, Running, InLoop
  <2>6. CASE Finish
    BY <2>6 DEF Finish, Running, InLoop, Joinable, StateOf
  <2>7. CASE FinishStateChanged
    BY <2>7 DEF FinishStateChanged, UseTask, Alive
  <2>8. CASE FinishResult
    BY <2>8 DEF FinishResult, UseTask, Alive
  <2>9. CASE FinishReturn
    BY <2>9 DEF FinishReturn
  <2>10. CASE NotifyAll
    BY <2>10 DEF NotifyAll
  <2>11. CASE DestroyJoin
    BY <2>11 DEF DestroyJoin, Joinable
  <2> QED BY <1>2, <2>1, <2>2, <2>3, <2>4, <2>5, <2>6, <2>7, <2>8, <2>9, <2>10, <2>11 DEF
       Callback
<1>3. CASE Caller
  <2>1. CASE Cancel
    BY <2>1 DEF Cancel, CallerActs, SetCanceled, LockFree
  <2>2. CASE Destroy
    BY <2>2 DEF Destroy, CallerActs, SetCanceled, LockFree
  <2>3. CASE \E id \in announced, policy \in Policies, all \in BOOLEAN : ResolveConflict(id,
       policy, all)
    <3> PICK id \in announced, policy \in Policies, all \in BOOLEAN : ResolveConflict(id,
         policy, all)
      BY <2>3
    <3> QED BY AnswerKeepsEarlier DEF ResolveConflict
  <2> QED BY <1>3, <2>1, <2>2, <2>3 DEF Caller
<1>4. CASE SpuriousWakeup
  BY <1>4 DEF SpuriousWakeup
<1>5. CASE UNCHANGED vars
  BY <1>5
<1> QED BY <1>1, <1>2, <1>3, <1>4, <1>5 DEF Next, Over

-----------------------------------------------------------------------------
(* The theorems.                                                           *)

LEMMA InitInv == Init => IInv
<1> SUFFICES ASSUME Init PROVE IInv
  OBVIOUS
<1> USE NumSourcesAssumption DEF Init, Sources, Policies, NoPolicy
<1>1. TypeOK
  <2>1. UITypes
    <3>1. queue \in Seq(Closures)
      BY ClosureFacts
    <3> QED BY <3>1 DEF UITypes, States
  <2> QED BY <2>1, ZeroIsId DEF TypeOK, LockTypes, WorkTypes, Phases, Errors
<1>2. Control
  BY ClosureFacts DEF Control, Terminal, Finishing
<1>3. Outcome /\ AnswersHonoured
  BY DEF Outcome, AnswersHonoured, Working, Waiting, Ended, Terminal
<1>4. Dialogue
  BY DEF Dialogue, Waiting, Before, Source
<1> QED BY <1>1, <1>2, <1>3, <1>4 DEF IInv

\* The inductive invariant holds of every behaviour.
THEOREM Invariance == Spec => []IInv
<1>1. IInv /\ [Next]_vars => IInv'
  BY TypeStep, ControlStep, OutcomeStep, DialogueStep, AnswersStep DEF IInv
<1> QED BY InitInv, <1>1, PTL DEF Spec

\* The types, for every number of sources.
THEOREM TypeCorrect == Spec => []TypeOK
<1>1. IInv => TypeOK
  BY DEF IInv
<1> QED BY Invariance, <1>1, PTL

\* Whatever the caller answers, whenever, every conflict is settled as AnswersHonoured says.
THEOREM AnswersCorrect == Spec => []AnswersHonoured
<1>1. IInv => AnswersHonoured
  BY DEF IInv
<1> QED BY Invariance, <1>1, PTL

\* The outcome the caller is told is the worker's, and it is told after the thread ended.
THEOREM OutcomeCorrect == Spec => []OutcomeHonest
<1>1. IInv => OutcomeHonest
  <2> SUFFICES ASSUME IInv PROVE OutcomeHonest
    OBVIOUS
  <2> USE DEF IInv, Control, Outcome, Terminal, StateOf, Ended
  <2>1. error \in Errors
    BY DEF TypeOK, WorkTypes
  <2> QED BY <2>1 DEF OutcomeHonest, Errors
<1> QED BY Invariance, <1>1, PTL

\* Nothing runs on a destroyed task, provided no listener of stateChanged(Running) destroys it.
THEOREM DestroySafe == ASSUME ~DestroyInStart PROVE Spec => []NoUseAfterDestroy
<1>1. IInv => NoUseAfterDestroy
  BY DEF IInv, Control, NoUseAfterDestroy
<1> QED BY Invariance, <1>1, PTL

\* Threads, loop and lock implement the promise of the header.
THEOREM Implements == Spec => KeepsPromise
<1>1. Init => Promise!Init
  BY DEF Init, Promise!Init
<1>2. IInv /\ [Next]_vars => [Promise!Next]_Promise!promiseVars
  <2> SUFFICES ASSUME IInv, [Next]_vars PROVE [Promise!Next]_Promise!promiseVars
    OBVIOUS
  <2> USE DEF IInv, Promise!promiseVars, vars, fixedVars, uiVars, lockVars, workVars, histVars
  <2>1. CASE UNCHANGED <<state, completed, results, life>>
    BY <2>1
  <2>2. CASE Settled \/ Write
    <3>1. UNCHANGED <<state, results, life>> /\ (completed' = completed \/ completed' =
         completed + 1)
      BY <2>2 DEF Settled, Write, Complete
    <3>2. state = "Running" /\ life # "gone" /\ completed < NumSources
      BY <2>2 DEF Settled, Write, TypeOK, UITypes, States, Control, Outcome, Terminal, Working
    <3> QED BY <3>1, <3>2 DEF Promise!Next, Promise!Work
  <2>3. CASE Start
    <3>1. state = "Queued" /\ state' = "Running" /\ life = "live" /\ UNCHANGED <<completed,
         results, life>>
      BY <2>3, RunHeadFacts DEF Start, Running, Control
    <3> QED BY <3>1 DEF Promise!Next, Promise!Begin
  <2>4. CASE Finish
    <3>1. /\ state = "Running" /\ life = "live" /\ UNCHANGED <<completed, results, life>>
          /\ state' = StateOf(error) /\ (error = "none" => completed = NumSources)
      BY <2>4, RunHeadFacts DEF Finish, Running, Joinable, Control, Outcome, Ended
    <3>2. error \in Errors
      BY DEF TypeOK, WorkTypes
    <3> QED BY <3>1, <3>2 DEF Promise!Next, Promise!End, StateOf, Errors
  <2>5. CASE FinishResult
    <3>1. UNCHANGED <<state, completed, life>> /\ (results' = results \/ (life = "live" /\
         results' = results + 1))
      BY <2>5 DEF FinishResult, Alive
    <3>2. results = 0 /\ state \in Terminal
      BY <2>5 DEF FinishResult, Control, Finishing
    <3> QED BY <3>1, <3>2 DEF Promise!Next, Promise!Tell, Terminal
  <2>6. CASE Destroy \/ DestroyJoin
    <3>1. UNCHANGED <<state, completed, results>> /\ life # "gone"
      BY <2>6 DEF Destroy, DestroyJoin, CallerActs, Control
    <3> QED BY <3>1 DEF Promise!Next, Promise!Destroy
  <2>7. CASE WorkerStep /\ ~Settled /\ ~Write
    <3>1. UNCHANGED <<state, completed, results, life>>
      BY <2>7 DEF WorkerStep, Begin, Scan, NextSource, Operate, Ask, Check, Block, Relock,
           WaitReturns,
           Unwind, Return, ThreadExits
    <3> QED BY <3>1, <2>1
  <2>8. CASE Callback /\ ~Start /\ ~Finish /\ ~FinishResult /\ ~DestroyJoin
    <3>1. UNCHANGED <<state, completed, results, life>>
      BY <2>8 DEF Callback, DropClosure, StartThread, ConflictArrives, ReportArrives,
           FinishStateChanged, FinishReturn, NotifyAll
    <3> QED BY <3>1, <2>1
  <2>9. CASE Caller /\ ~Destroy
    <3>1. UNCHANGED <<state, completed, results, life>>
      BY <2>9 DEF Caller, Cancel, ResolveConflict
    <3> QED BY <3>1, <2>1
  <2>10. CASE SpuriousWakeup \/ Over \/ UNCHANGED vars
    <3>1. UNCHANGED <<state, completed, results, life>>
      BY <2>10 DEF SpuriousWakeup, Over
    <3> QED BY <3>1, <2>1
  <2> QED BY <2>2, <2>3, <2>4, <2>5, <2>6, <2>7, <2>8, <2>9, <2>10 DEF Next
<1> QED BY Invariance, <1>1, <1>2, PTL DEF Spec, KeepsPromise, Promise!Spec

=============================================================================
