---------------------------- MODULE DisplayConfig ----------------------------
(***************************************************************************)
(* DisplayClient and Screen (clients/display): the compositor's display    *)
(* state as one process shows it, a draft the user edits, applied one      *)
(* operation at a time, and power requests beside it.  An operation is     *)
(* over when its OperationFinished has come and the state shows it, when   *)
(* it fails, when the compositor restarts, or after 15 s.                  *)
(***************************************************************************)
EXTENDS Naturals, Sequences, FiniteSets, SequencesExt

CONSTANT MaxEvents   \* bounds what users, hotplugs, failures and restarts do

VARIABLES
  compositor,  \* its owner number (0 when it does not run), state, and running operations
  outcomes,    \* how each operation of each compositor ended, by token
  process,     \* the members of the client and of the screen, and the calls it sent
  inbox,       \* messages on their way to the process, in order
  told,        \* what operationFinished said, and what each power request was answered with
  unread,      \* the newest reading of the state failed
  events       \* counts towards MaxEvents

vars == <<compositor, outcomes, process, inbox, told, unread, events>>

NoState == [instance |-> 0, generation |-> 0, revision |-> 0, preview |-> FALSE]
NoToken == 0
None == [token |-> NoToken]

Event == events < MaxEvents /\ events' = events + 1

Available(p) == p.owner # 0 /\ p.state.instance # 0
OperationPending(p) == p.applyPending \/ p.token # NoToken \/ p.completion # None
Call(p, call) == [p EXCEPT !.out = Append(@, call)]

-----------------------------------------------------------------------------
(* Screen, which the client's signals call.                                *)

\* setState() replaces the draft.
SetState(p) == [p EXCEPT !.dirty = FALSE]

Unbusy(p) == IF p.loaded /\ ~Available(p) THEN [p EXCEPT !.busy = FALSE] ELSE p

TopologyChanged(p) ==
  p.instanceSeen # 0 /\ (p.instanceSeen # p.state.instance \/ p.generationSeen # p.state.generation)

\* updateState(), on each stateChanged.
UpdateState(p) ==
  LET q == Unbusy(p)
      r == IF ~q.dirty \/ TopologyChanged(q) \/ q.busy \/ q.state.preview THEN SetState(q) ELSE q IN
  [r EXCEPT !.instanceSeen = p.state.instance, !.generationSeen = p.state.generation]

-----------------------------------------------------------------------------
(* DisplayClient.                                                          *)

\* What is told of an operation: which apply it was, how it ended, and what was shown then.
Tell(p, succeeded) ==
  [p EXCEPT !.heard = @ \cup {[operation |-> p.operation, succeeded |-> succeeded, owner |-> p.owner,
                               state |-> p.state]}]

\* finishOperation(): the screen is not busy any more and shows the state.
FinishOperation(p, succeeded) ==
  SetState([Tell(p, succeeded) EXCEPT !.applyPending = FALSE, !.token = NoToken, !.early = {}, !.completion = None,
                                      !.timer = FALSE, !.busy = FALSE])

\* refresh(): the newest GetState counts.
Refresh(p) ==
  IF p.owner = 0
  THEN UpdateState([p EXCEPT !.refresh = @ + 1, !.state = NoState, !.loaded = TRUE])
  ELSE Call([p EXCEPT !.refresh = @ + 1], [method |-> "GetState", serial |-> p.refresh + 1])

\* Mutant: a result that came is final, whatever the state shows.
AlwaysCurrent(p) == TRUE
\* A result says which state shows it.
Current(p) ==
  \/ p.completion.generation = 0 \/ p.state.generation > p.completion.generation
  \/ p.state.generation = p.completion.generation /\ p.state.revision >= p.completion.revision
CompleteIfCurrent(p) ==
  IF p.completion = None \/ ~Current(p) THEN p ELSE FinishOperation(p, p.completion.succeeded)

QueueCompletion(p, result) == Refresh([p EXCEPT !.token = result.token, !.completion = result])
Failure(token) == [token |-> token, succeeded |-> FALSE, generation |-> 0, revision |-> 0]

\* Screen::apply() and DisplayClient::apply(); a change of mode is shown for confirmation.
CanApply(p) == Available(p) /\ ~p.busy /\ p.dirty /\ ~p.state.preview
Apply(p, preview) ==
  IF ~CanApply(p) THEN p
  ELSE IF OperationPending(p) THEN [p EXCEPT !.busy = FALSE]
  ELSE Call([p EXCEPT !.busy = TRUE, !.applyPending = TRUE, !.token = NoToken, !.early = {}, !.timer = TRUE,
                      !.operation = @ + 1],
            [method |-> "Apply", epoch |-> p.epoch, operation |-> p.operation + 1, preview |-> preview,
             on |-> p.state])

Answer(p, request, ok) == [p EXCEPT !.answers = @ \cup {[request |-> request, ok |-> ok]}]
AnswerAll(p, requests, ok) == FoldSet(LAMBDA r, q : Answer(q, r.request, ok), p, requests)

\* failRequests()
FailRequests(p) == [AnswerAll(p, p.requests, FALSE) EXCEPT !.requests = {}, !.inFlight = 0, !.earlyRequests = {}]

ServiceChanged(p) ==
  LET q == UpdateState([p EXCEPT !.refresh = @ + 1, !.epoch = @ + 1, !.state = NoState, !.loaded = FALSE]) IN
  FailRequests(IF OperationPending(q) THEN FinishOperation(q, FALSE) ELSE q)

OwnerChanged(p, owner) == IF owner = p.owner THEN p ELSE Refresh(ServiceChanged([p EXCEPT !.owner = owner]))

GotState(p, message) ==
  IF message.call.serial # p.refresh THEN p
  ELSE IF message.state = NoState
  THEN LET q == UpdateState([p EXCEPT !.loaded = TRUE, !.state = NoState]) IN
       IF OperationPending(q) THEN FinishOperation(q, FALSE) ELSE q
  ELSE CompleteIfCurrent(UpdateState([p EXCEPT !.loaded = TRUE, !.state = message.state]))

OfThis(p, call) == call.epoch = p.epoch /\ call.operation = p.operation /\ p.applyPending

\* The reply to an apply; its result may have come before it.
GotToken(p, message) ==
  LET token == message.token
      q == [p EXCEPT !.applyPending = FALSE, !.token = token, !.early = {}] IN
  IF ~OfThis(p, message.call) THEN p
  ELSE IF token = NoToken THEN QueueCompletion([p EXCEPT !.applyPending = FALSE], Failure(NoToken))
  ELSE IF \E result \in p.early : result.token = token
  THEN QueueCompletion(q, CHOOSE result \in p.early : result.token = token)
  ELSE q

\* The reply to a power request.
GotRequest(p, message) ==
  LET token == message.token  request == message.call.request
      early == {result \in p.earlyRequests : result.token = token}
      q == [p EXCEPT !.inFlight = @ - 1, !.earlyRequests = IF p.inFlight = 1 THEN {} ELSE @ \ early] IN
  IF message.call.epoch # p.epoch THEN Answer(p, request, FALSE)
  ELSE IF token = NoToken THEN Answer(q, request, FALSE)
  ELSE IF early # {} THEN Answer(q, request, (CHOOSE result \in early : TRUE).succeeded)
  ELSE [q EXCEPT !.requests = @ \cup {[token |-> token, request |-> request]}]

KeepEarly(p, result) == [p EXCEPT !.early = @ \cup {result}]

\* operationFinishedSignal()
Finished(p, result) ==
  LET mine == {r \in p.requests : r.token = result.token}
      q == IF mine # {} THEN AnswerAll([p EXCEPT !.requests = @ \ mine], mine, result.succeeded)
           ELSE IF p.inFlight > 0 THEN [p EXCEPT !.earlyRequests = @ \cup {result}] ELSE p
      r == IF q.applyPending THEN KeepEarly(q, result)
           ELSE IF result.token = q.token THEN QueueCompletion(q, result) ELSE q IN
  Refresh(r)

-----------------------------------------------------------------------------
(* The loop of the process.                                                *)

Init ==
  /\ \E running \in {0, 1} :
       /\ compositor = [owner |-> running, starts |-> running, tokens |-> 0, running |-> {},
                        state |-> [instance |-> running, generation |-> 1, revision |-> 1, preview |-> FALSE]]
       /\ process = Refresh([owner |-> running, state |-> NoState, loaded |-> FALSE, refresh |-> 0, epoch |-> 1,
            applyPending |-> FALSE, token |-> NoToken, early |-> {}, completion |-> None, operation |-> 0,
            timer |-> FALSE, inFlight |-> 0, requests |-> {}, earlyRequests |-> {}, nextRequest |-> 0,
            busy |-> FALSE, dirty |-> FALSE, instanceSeen |-> 0, generationSeen |-> 0,
            out |-> <<>>, heard |-> {}, answers |-> {}])
  /\ outcomes = {} /\ inbox = <<>> /\ told = {} /\ unread = FALSE /\ events = 0

\* What was told is taken out of the process's record.
Becomes(p) ==
  /\ process' = [p EXCEPT !.heard = {}, !.answers = {}]
  /\ told' = told \cup p.heard \cup p.answers

Receive ==
  /\ inbox # <<>>
  /\ inbox' = Tail(inbox)
  /\ LET message == Head(inbox) IN
     Becomes(CASE message.type = "owner" -> OwnerChanged(process, message.owner)
               [] message.type = "changed" -> Refresh(process)
               [] message.type = "finished" -> Finished(process, message.result)
               [] message.call.method = "GetState" -> GotState(process, message)
               [] message.call.method = "Apply" -> GotToken(process, message)
               [] message.call.method = "Request" -> GotRequest(process, message))
  /\ UNCHANGED <<compositor, outcomes, unread, events>>

Timeout ==
  /\ process.timer /\ Event
  /\ Becomes(Refresh(FinishOperation(process, FALSE)))
  /\ UNCHANGED <<compositor, outcomes, inbox, unread>>

\* An edit of the draft is applied at once, when it can be.
Edit ==
  /\ Event
  /\ \E preview \in BOOLEAN :
       Becomes(IF process.dirty THEN process ELSE Apply([process EXCEPT !.dirty = TRUE], preview))
  /\ UNCHANGED <<compositor, outcomes, inbox, unread>>

ApplyDraft ==
  /\ CanApply(process) /\ Becomes(Apply(process, FALSE))
  /\ UNCHANGED <<compositor, outcomes, inbox, unread, events>>

Discard ==
  /\ ~process.busy /\ process.dirty /\ Becomes(SetState(process))
  /\ UNCHANGED <<compositor, outcomes, inbox, unread, events>>

\* keep(), revert()
Decide ==
  /\ process.state.preview /\ Event
  /\ Becomes(Call(process, [method |-> "Decide"]))
  /\ UNCHANGED <<compositor, outcomes, inbox, unread>>

\* setDisplayPower(), setDockedLidClosed()
SendRequest ==
  /\ process.owner # 0 /\ Event
  /\ Becomes(Call([process EXCEPT !.inFlight = @ + 1, !.nextRequest = @ + 1],
                  [method |-> "Request", epoch |-> process.epoch, request |-> process.nextRequest + 1]))
  /\ UNCHANGED <<compositor, outcomes, inbox, unread>>

-----------------------------------------------------------------------------
(* The compositor and the bus.                                             *)

Reply(call, token) == [type |-> "reply", call |-> call, token |-> token, state |-> NoState]
Shows(call) == [type |-> "reply", call |-> call, token |-> NoToken, state |-> compositor.state]
Changed == [type |-> "changed"]

Token == compositor.tokens + 1
Run(call) == [token |-> Token, call |-> call, announced |-> FALSE]
Result(token, ok, state) ==
  [token |-> token, succeeded |-> ok, generation |-> IF ok THEN state.generation ELSE 0,
   revision |-> IF ok THEN state.revision ELSE 0]
Ended(run, ok, state) ==
  outcomes' = outcomes \cup {[operation |-> IF run.call.method = "Apply" THEN run.call.operation ELSE 0,
                              request |-> IF run.call.method = "Request" THEN run.call.request ELSE 0,
                              owner |-> compositor.owner, succeeded |-> ok, state |-> state]}
Said(messages) == inbox' = inbox \o messages
\* No result is announced whose state is still to come.
Settled == \A run \in compositor.running : ~run.announced
Stale(call) == call.method = "Apply" /\ call.on # compositor.state

Newest(call) == call.method = "GetState" /\ call.serial = process.refresh

\* A call is refused with an error, or with a result before the reply; or it runs.  A reading may fail too.
Serve ==
  /\ process.out # <<>> /\ compositor.owner # 0
  /\ process' = [process EXCEPT !.out = Tail(@)]
  /\ LET call == Head(process.out)
         next == [compositor EXCEPT !.tokens = Token] IN
     \/ /\ call.method = "GetState" /\ Said(<<Shows(call)>>) /\ unread' = (unread /\ ~Newest(call))
        /\ UNCHANGED <<compositor, outcomes, events>>
     \/ /\ call.method = "GetState" /\ Said(<<Reply(call, NoToken)>>) /\ unread' = (unread \/ Newest(call))
        /\ Event /\ UNCHANGED <<compositor, outcomes>>
     \/ /\ call.method = "Decide" /\ Settled
        /\ compositor' = [compositor EXCEPT !.state.preview = FALSE]
        /\ Said(IF compositor.state.preview THEN <<Changed>> ELSE <<>>)
        /\ UNCHANGED <<outcomes, unread, events>>
     \/ /\ call.method \in {"Apply", "Request"}
        /\ Said(<<Reply(call, NoToken)>>) /\ Event /\ UNCHANGED <<compositor, outcomes, unread>>
     \/ /\ call.method \in {"Apply", "Request"}
        /\ IF Stale(call) THEN UNCHANGED events ELSE call.method = "Request" /\ Event
        /\ compositor' = next
        /\ Ended(Run(call), FALSE, NoState)
        /\ Said(<<[type |-> "finished", result |-> Failure(Token)], Reply(call, Token)>>) /\ UNCHANGED unread
     \/ /\ call.method \in {"Apply", "Request"} /\ ~Stale(call)
        /\ compositor' = [next EXCEPT !.running = @ \cup {Run(call)}]
        /\ Said(<<Reply(call, Token)>>) /\ UNCHANGED <<outcomes, unread, events>>
  /\ UNCHANGED told

After(run) == [compositor.state EXCEPT !.revision = @ + 1, !.preview = run.call.preview]

\* An operation ends; a configuration's result may be announced before the state that shows it.
Finish(run) ==
  /\ Settled
  /\ \E ok \in BOOLEAN, early \in BOOLEAN :
       LET applied == ok /\ run.call.method = "Apply"
           state == IF applied THEN After(run) ELSE compositor.state
           finished == [type |-> "finished", result |-> Result(run.token, ok, state)] IN
       /\ early => applied
       /\ IF ok THEN UNCHANGED events ELSE Event
       /\ compositor' = IF early THEN [compositor EXCEPT !.running = (@ \ {run}) \cup {[run EXCEPT !.announced = TRUE]}]
                        ELSE [compositor EXCEPT !.running = @ \ {run}, !.state = state]
       /\ Ended(run, ok, state)
       /\ Said(IF applied /\ ~early THEN <<Changed, finished>> ELSE <<finished>>)
  /\ UNCHANGED <<process, told, unread>>

Commit(run) ==
  /\ run.announced
  /\ compositor' = [compositor EXCEPT !.running = @ \ {run}, !.state = After(run)]
  /\ Said(<<Changed>>)
  /\ UNCHANGED <<outcomes, process, told, unread, events>>

\* A display is plugged or unplugged, or the state changed by another program or a preview's deadline.
Others ==
  /\ compositor.owner # 0 /\ Settled /\ Event
  /\ compositor' \in {[compositor EXCEPT !.state.generation = @ + 1, !.state.preview = FALSE],
                      [compositor EXCEPT !.state.revision = @ + 1, !.state.preview = FALSE]}
  /\ Said(<<Changed>>)
  /\ UNCHANGED <<outcomes, process, told, unread>>

Stop ==
  /\ compositor.owner # 0 /\ Event
  /\ compositor' = [compositor EXCEPT !.owner = 0, !.running = {}, !.state = NoState]
  /\ Said(<<[type |-> "owner", owner |-> 0]>>)
  /\ UNCHANGED <<outcomes, process, told, unread>>

\* A call to nobody ends with an error.
Bounce ==
  /\ process.out # <<>> /\ compositor.owner = 0
  /\ process' = [process EXCEPT !.out = Tail(@)]
  /\ LET call == Head(process.out) IN
     Said(IF call.method = "Decide" THEN <<>> ELSE <<Reply(call, NoToken)>>)
  /\ UNCHANGED <<compositor, outcomes, told, unread, events>>

Start ==
  /\ compositor.owner = 0
  /\ compositor' = [compositor EXCEPT !.owner = compositor.starts + 1, !.starts = @ + 1, !.tokens = 0,
                      !.state = [instance |-> compositor.starts + 1, generation |-> 1, revision |-> 1, preview |-> FALSE]]
  /\ Said(<<[type |-> "owner", owner |-> compositor'.owner]>>)
  /\ UNCHANGED <<outcomes, process, told, unread, events>>

Next ==
  \/ Receive \/ Timeout \/ Edit \/ ApplyDraft \/ Discard \/ Decide \/ SendRequest
  \/ Serve \/ (\E run \in compositor.running : Finish(run) \/ Commit(run)) \/ Others \/ Stop \/ Bounce \/ Start

Spec == Init /\ [][Next]_vars

-----------------------------------------------------------------------------
(* Properties.                                                             *)

\* Every variable holds a value of its kind, and the counters agree with what they count.
TypeOK ==
  /\ process.owner \in 0..compositor.starts /\ process.operation \in Nat
  /\ process.completion = None \/ process.completion.succeeded \in BOOLEAN
  /\ \A r \in process.requests : r.token # NoToken
  /\ process.inFlight \in 0..process.nextRequest

AtRest == process.out = <<>> /\ inbox = <<>> /\ compositor.running = {}

\* Once nothing is under way the client is loaded and shows the compositor's state, or none where there is no
\* compositor or the last reading failed, which is not repeated until the compositor tells of a change.
ShowsDisplays ==
  AtRest =>
    /\ process.loaded
    /\ process.state = IF compositor.owner = 0 \/ unread THEN NoState ELSE compositor.state

\* The screen is busy only while an operation runs that will end: its timer runs.
BusyTimed == (process.busy => OperationPending(process)) /\ (OperationPending(process) => process.timer)

\* "An apply waits for its reply, its OperationFinished, or the state that shows it"
\* (display_client.h:113): success is told only of an operation the compositor finished, once the state
\* shown is not older; and each apply is told of once.
Older(s, t) == s.generation < t.generation \/ (s.generation = t.generation /\ s.revision < t.revision)
Told == {t \in told : "operation" \in DOMAIN t}
OwnResult ==
  /\ \A t \in Told : t.succeeded =>
       \E o \in outcomes : /\ o.operation = t.operation /\ o.succeeded
                           /\ t.state.instance = o.state.instance /\ ~Older(t.state, o.state)
  /\ \A s, t \in Told : s.operation = t.operation => s = t

\* A power request is answered once: with the result of its own operation, or with a failure.
OwnAnswer ==
  /\ \A s, t \in told \ Told : s.request = t.request => s = t
  /\ \A t \in told \ Told : t.ok => \E o \in outcomes : o.request = t.request /\ o.succeeded
  /\ AtRest => \A r \in 1..process.nextRequest : \E t \in told \ Told : t.request = r
=============================================================================
