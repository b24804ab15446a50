---------------------------- MODULE BluezPairing ----------------------------
(***************************************************************************)
(* The devices of bluez::Manager (clients/bluez/manager.cpp): one          *)
(* operation at a time on each, and a pairing agent that asks the user,    *)
(* one prompt at a time.  BlueZ takes calls in the order they were sent    *)
(* and what it sends comes in order; pairing and connecting take time.     *)
(* How its objects are read is BluezDiscovery's: here a device comes and   *)
(* goes only while the manager knows BlueZ.                                *)
(***************************************************************************)
EXTENDS Naturals, Sequences, FiniteSets, SequencesExt

CONSTANTS
  Devices,    \* object paths
  MaxEvents   \* bounds what users, other programs, failures and restarts do

VARIABLES
  daemon,    \* BlueZ: its owner number (0 when it does not run), the how-manyth device under each path, our agent
  running,   \* the operations it carries out
  process,   \* the Manager's members, and what it sent: out, and answers to the agent's calls
  inbox,     \* messages on their way to the process, in order
  astray,    \* a device was found again with a call about the one before it in flight, or a listener started an operation
  events     \* counts towards MaxEvents

vars == <<daemon, running, process, inbox, astray, events>>

NoDevice == [id |-> 0, busy |-> FALSE]
NoPrompt == [path |-> "", request |-> 0]
NoRequest == 0

Event == events < MaxEvents /\ events' = events + 1

Init ==
  /\ daemon = [owner |-> 1, starts |-> 1, device |-> [d \in Devices |-> 1], found |-> 1, agent |-> FALSE,
               requests |-> 0, spurned |-> FALSE]
  /\ running = {}
  /\ process = [phase |-> "operational", owner |-> 1, generation |-> 1, enabled |-> FALSE, ready |-> FALSE,
                registering |-> FALSE, object |-> [d \in Devices |-> [id |-> 1, busy |-> FALSE]], pairing |-> {},
                prompt |-> NoPrompt, timer |-> FALSE, out |-> <<>>, answers |-> <<>>]
  /\ inbox = <<>> /\ astray = FALSE /\ events = 0

-----------------------------------------------------------------------------
(* The manager's members.                                                  *)

Known(p, d) == p.object[d].id # 0

Call(p, method, path, about) ==
  [p EXCEPT !.out = Append(@, [method |-> method, path |-> path, about |-> about, on |-> 0, to |-> p.owner,
                               generation |-> p.generation, agent |-> p.enabled])]

Answer(p, request) == IF request = NoRequest THEN p ELSE [p EXCEPT !.answers = Append(@, request)]

FinishPrompt(p) == [Answer(p, p.prompt.request) EXCEPT !.prompt = NoPrompt, !.timer = FALSE]

SetBusy(p, d, busy) == [p EXCEPT !.object[d].busy = busy]

\* Mutant: a busy device takes another operation.
NeverBusy(p, d) == FALSE
Busy(p, d) == p.object[d].busy

\* operate(): refused for a device that is not known any more, a busy one, or an agent not ready.
Operate(p, d, method) ==
  LET cancel == method = "CancelPairing"  pair == method = "Pair"
      q == IF cancel THEN p ELSE SetBusy(p, d, TRUE) IN
  IF \/ ~Known(p, d) \/ (Busy(p, d) /\ ~cancel)
     \/ pair /\ p.enabled /\ ~p.ready
  THEN p
  ELSE Call([q EXCEPT !.pairing = IF pair THEN @ \cup {d} ELSE @], method, d, p.object[d].id)

CancelPairing(p) ==
  LET q == FinishPrompt(p) IN
  IF p.prompt = NoPrompt THEN q ELSE Operate(q, p.prompt.path, "CancelPairing")

RegisterAgent(p) ==
  IF ~p.enabled \/ p.phase # "operational" \/ p.ready \/ p.registering THEN p
  ELSE Call([p EXCEPT !.registering = TRUE], "RegisterAgent", "", 0)

CancelAll(p, S) == FoldSet(LAMBDA d, q : Operate(q, d, "CancelPairing"), p, S)

SetAgentEnabled(p, enabled) ==
  LET q == [p EXCEPT !.enabled = enabled]
      r == CancelPairing(q)
      s == CancelAll(r, r.pairing \ {p.prompt.path})
      t == IF s.ready THEN Call(s, "UnregisterAgent", "", 0) ELSE s IN
  IF enabled THEN RegisterAgent(q) ELSE [t EXCEPT !.ready = FALSE]

Reset(p) ==
  [FinishPrompt(p) EXCEPT !.generation = @ + 1, !.owner = 0, !.phase = "absent", !.ready = FALSE,
     !.registering = FALSE, !.pairing = {}, !.object = [d \in Devices |-> NoDevice]]

OwnerChanged(p, owner) ==
  IF owner = 0 THEN Reset(p)
  ELSE Call([Reset(p) EXCEPT !.owner = owner, !.phase = "loading"], "GetManagedObjects", "", 0)

GotObjects(p, device) ==
  RegisterAgent([p EXCEPT !.phase = "operational", !.object = [d \in Devices |-> [id |-> device[d], busy |-> FALSE]]])

DropPrompt(p, d) == IF p.prompt.path = d THEN FinishPrompt(p) ELSE p

Removed(p, d) ==
  IF ~Known(p, d) THEN p ELSE [DropPrompt(p, d) EXCEPT !.object[d] = NoDevice, !.pairing = @ \ {d}]

\* A code that is shown is no longer needed once the device is paired.
Paired(p, d) == IF Known(p, d) /\ p.prompt.request = NoRequest THEN DropPrompt(p, d) ELSE p

-----------------------------------------------------------------------------
(* The completions of the calls.                                           *)

Operations == {"Pair", "Connect", "RemoveDevice"}

Registered(p) == IF p.enabled THEN [p EXCEPT !.ready = TRUE] ELSE Call(p, "UnregisterAgent", "", 0)

GotRegistered(p, ok) ==
  LET q == [p EXCEPT !.registering = FALSE] IN IF ok THEN Registered(q) ELSE q

\* Trusted() follows a successful pairing that this process asked for; the device may have been lost
\* meanwhile, while somebody still holds its object.
Trusted(p, d) == Call(SetBusy(p, d, TRUE), "Set", d, p.object[d].id)

TrustedHeld(p, c) == Call(p, "Set", c.path, c.about)

\* What operate() is answered.  A listener told that the device is free may start an operation of its own.
GotOperation(p, c, ok, listener, held) ==
  LET d == c.path  current == p.object[d].id = c.about  pair == c.method = "Pair"
      cancel == c.method = "CancelPairing"
      q == IF pair THEN [p EXCEPT !.pairing = @ \ {d}] ELSE p
      r == IF current /\ ~cancel THEN SetBusy(q, d, FALSE) ELSE q
      s == IF listener THEN Operate(r, d, "Connect") ELSE r
      t == IF pair \/ cancel THEN DropPrompt(s, d) ELSE s IN
  IF ~ok \/ ~pair THEN t ELSE IF current THEN Trusted(t, d) ELSE IF held THEN TrustedHeld(t, c) ELSE t

\* Connect is refused for an object that is not the manager's any more.
GotTrusted(p, c, ok) ==
  LET q == SetBusy(p, c.path, FALSE) IN
  IF p.object[c.path].id # c.about THEN p ELSE IF ok THEN Operate(q, c.path, "Connect") ELSE q

Completion(p, message, listener, held) ==
  LET c == message.call IN
  CASE c.generation # p.generation -> p
    [] c.method = "GetManagedObjects" -> GotObjects(p, message.device)
    [] c.method = "RegisterAgent" -> GotRegistered(p, message.ok)
    [] c.method = "Set" -> GotTrusted(p, c, message.ok)
    [] c.method \in Operations \cup {"CancelPairing"} -> GotOperation(p, c, message.ok, listener, held)
    [] OTHER -> p

-----------------------------------------------------------------------------
(* The agent.                                                              *)

Taken(p, path) == p.prompt.request # NoRequest \/ (p.prompt # NoPrompt /\ p.prompt.path # path)

\* What is displayed is answered at once.
Prompt(p, message) ==
  IF Taken(p, message.path) THEN Answer(p, message.request)
  ELSE LET q == IF message.display THEN Answer(p, message.request) ELSE p IN
       [q EXCEPT !.timer = TRUE,
                 !.prompt = [path |-> message.path, request |-> IF message.display THEN NoRequest ELSE message.request]]

HandleAgentCall(p, message) ==
  CASE message.from # p.owner \/ ~p.enabled -> Answer(p, message.request)
    [] message.member = "Cancel" -> Answer(FinishPrompt(p), message.request)
    [] message.member = "Release" -> Answer([FinishPrompt(p) EXCEPT !.ready = FALSE], message.request)
    [] OTHER -> Prompt(p, message)

-----------------------------------------------------------------------------
(* The loop of the process.                                                *)

Alive == process.phase # "destroyed"
Late(c) == c.generation = process.generation /\ c.path \in Devices
           /\ process.object[c.path].id \notin {0, c.about}

\* A call to an agent that is not exported any more is answered with an error.
Receive ==
  /\ inbox # <<>>
  /\ inbox' = Tail(inbox)
  /\ LET message == Head(inbox) IN
     CASE ~Alive ->
            process' = (IF message.type = "agent" THEN Answer(process, message.request) ELSE process) /\ UNCHANGED astray
       [] message.type = "reply" ->
            \E listener, held \in BOOLEAN :
              /\ listener \/ held => message.call.method = "Pair"
              /\ process' = Completion(process, message, listener, held)
              /\ astray' = (astray \/ listener \/ Late(message.call))
       [] OTHER ->
            /\ process' = CASE message.type = "owner" -> OwnerChanged(process, message.owner)
                            [] message.type = "agent" -> HandleAgentCall(process, message)
                            [] message.from # process.owner -> process
                            [] message.type = "removed" -> Removed(process, message.path)
                            [] message.type = "added" -> [process EXCEPT !.object[message.path] = [id |-> message.id, busy |-> FALSE]]
                            [] message.type = "paired" -> Paired(process, message.path)
            /\ UNCHANGED astray
  /\ UNCHANGED <<daemon, running, events>>

PromptTimeout ==
  /\ process.timer /\ process' = CancelPairing(process)
  /\ UNCHANGED <<daemon, running, inbox, astray, events>>

\* respondPairing(), whose code may be refused; and the other calls of the user.
Respond == IF process.prompt.request = NoRequest THEN process ELSE FinishPrompt(process)

User ==
  /\ Alive /\ Event
  /\ process' \in {Respond, CancelPairing(process), SetAgentEnabled(process, ~process.enabled)}
                   \cup {Operate(process, d, method) : d \in Devices, method \in Operations \cup {"CancelPairing"}}
  /\ process' # process
  /\ UNCHANGED <<daemon, running, inbox, astray>>

SendCancels(p, S) == FoldSet(LAMBDA d, q : Call(q, "CancelPairing", d, p.object[d].id), p, S)

\* ~Manager()
Destroy ==
  /\ Alive /\ Event
  /\ LET p == FinishPrompt(process)
         q == SendCancels(p, p.pairing)
         r == IF p.ready THEN Call(q, "UnregisterAgent", "", 0) ELSE q IN
     process' = [IF p.owner = 0 THEN p ELSE r EXCEPT !.phase = "destroyed", !.timer = FALSE]
  /\ UNCHANGED <<daemon, running, inbox, astray>>

-----------------------------------------------------------------------------
(* BlueZ.                                                                  *)

Reply(c, ok) == [type |-> "reply", call |-> c, ok |-> ok, device |-> daemon.device]
Said(messages) == inbox' = inbox \o messages
\* A call goes to the device that is under its path when it comes, and keeps to that one.
Fits(c) ==
  /\ c.to = daemon.owner /\ daemon.owner # 0
  /\ c.path = "" \/ daemon.device[c.path] = c.on \/ (c.on = 0 /\ daemon.device[c.path] # 0)
Failures(S) == LET calls == SetToSeq(S) IN [i \in DOMAIN calls |-> Reply(calls[i], FALSE)]
Gone(d) == [type |-> "removed", from |-> daemon.owner, path |-> d]

\* Calls that take no time.  Who cancels a pairing ends it.
Served(c) ==
  LET ended == {o \in running : o.method = "Pair" /\ o.path = c.path /\ Fits(o)} IN
  CASE c.method = "CancelPairing" /\ Fits(c) ->
         /\ running' = running \ ended
         /\ Said(Append(Failures(ended), Reply(c, ended # {})))
         /\ UNCHANGED daemon
    [] c.method = "RemoveDevice" /\ Fits(c) ->
         /\ daemon' = [daemon EXCEPT !.device[c.path] = 0]
         /\ Said(<<Gone(c.path), Reply(c, TRUE)>>)
         /\ UNCHANGED running
    [] c.method \in {"RegisterAgent", "UnregisterAgent"} /\ Fits(c) ->
         /\ daemon' = [daemon EXCEPT !.agent = c.method = "RegisterAgent"]
         /\ Said(<<Reply(c, TRUE)>>)
         /\ UNCHANGED running
    [] c.method \in {"Pair", "Connect"} /\ Fits(c) ->
         running' = running \cup {[c EXCEPT !.on = daemon.device[c.path]]} /\ UNCHANGED <<daemon, inbox>>
    [] OTHER -> Said(<<Reply(c, Fits(c))>>) /\ UNCHANGED <<daemon, running>>

Serve ==
  /\ process.out # <<>>
  /\ process' = [process EXCEPT !.out = Tail(@)]
  /\ Served(Head(process.out))
  /\ UNCHANGED <<astray, events>>

\* BlueZ may not take an agent, or not trust a device.
Refuse ==
  /\ process.out # <<>> /\ Head(process.out).method \in {"RegisterAgent", "Set"} /\ Event
  /\ process' = [process EXCEPT !.out = Tail(@)]
  /\ daemon' = [daemon EXCEPT !.spurned = @ \/ Head(process.out).method = "RegisterAgent"]
  /\ Said(<<Reply(Head(process.out), FALSE)>>)
  /\ UNCHANGED <<running, astray>>

Finish(c) ==
  /\ running' = running \ {c}
  /\ \/ Fits(c) /\ Said(IF c.method = "Pair" THEN <<[type |-> "paired", from |-> daemon.owner, path |-> c.path], Reply(c, TRUE)>>
                        ELSE <<Reply(c, TRUE)>>)
     \/ Said(<<Reply(c, FALSE)>>)
  /\ UNCHANGED <<daemon, process, astray, events>>

AgentCall(member, path, display) ==
  [type |-> "agent", from |-> daemon.owner, member |-> member, path |-> path, display |-> display,
   request |-> daemon.requests + 1]

\* The agent is asked about a pairing of this process or of another; Cancel ends what was asked.
Ask ==
  /\ daemon.agent /\ daemon.owner # 0 /\ Event
  /\ \/ \E d \in Devices, display \in BOOLEAN :
          daemon.device[d] # 0 /\ Said(<<AgentCall("Request", d, display)>>)
     \/ daemon.requests > 0 /\ Said(<<AgentCall("Cancel", "", FALSE)>>)
  /\ daemon' = [daemon EXCEPT !.requests = @ + 1]
  /\ UNCHANGED <<running, process, astray>>

Release ==
  /\ daemon.agent /\ daemon.owner # 0 /\ Event
  /\ Said(<<AgentCall("Release", "", FALSE)>>)
  /\ daemon' = [daemon EXCEPT !.requests = @ + 1, !.agent = FALSE, !.spurned = TRUE]
  /\ UNCHANGED <<running, process, astray>>

\* A device is lost or found.
Others ==
  /\ daemon.owner # 0 /\ daemon.owner = process.owner /\ process.phase = "operational" /\ Event
  /\ \E d \in Devices :
       IF daemon.device[d] # 0
       THEN daemon' = [daemon EXCEPT !.device[d] = 0] /\ Said(<<Gone(d)>>)
       ELSE /\ daemon' = [daemon EXCEPT !.device[d] = daemon.found + 1, !.found = @ + 1]
            /\ Said(<<[type |-> "added", from |-> daemon.owner, path |-> d, id |-> daemon.found + 1]>>)
  /\ UNCHANGED <<running, process, astray>>

\* What BlueZ was doing is answered by the bus.
Stop ==
  /\ daemon.owner # 0 /\ Event
  /\ daemon' = [daemon EXCEPT !.owner = 0, !.agent = FALSE, !.spurned = FALSE]
  /\ running' = {}
  /\ Said(Append(Failures(running), [type |-> "owner", owner |-> 0]))
  /\ UNCHANGED <<process, astray>>

Start ==
  /\ daemon.owner = 0
  /\ daemon' = [daemon EXCEPT !.owner = daemon.starts + 1, !.starts = @ + 1, !.found = @ + 1,
                              !.device = [d \in Devices |-> daemon.found + 1]]
  /\ Said(<<[type |-> "owner", owner |-> daemon'.owner]>>)
  /\ UNCHANGED <<running, process, astray, events>>

Next ==
  \/ Receive \/ PromptTimeout \/ User \/ Destroy
  \/ Serve \/ Refuse \/ (\E c \in running : Finish(c)) \/ Ask \/ Release \/ Others \/ Stop \/ Start

Spec == Init /\ [][Next]_vars

-----------------------------------------------------------------------------
(* Properties.                                                             *)

Sent == Range(process.out) \cup running \cup {inbox[i].call : i \in {j \in DOMAIN inbox : inbox[j].type = "reply"}}
Awaited == {c \in Sent : c.generation = process.generation}
AtRest == Sent = {} /\ inbox = <<>> /\ ~process.timer

\* Every variable holds a value of its kind.
TypeOK ==
  /\ process.phase \in {"absent", "loading", "operational", "destroyed"}
  /\ process.pairing \subseteq Devices
  /\ process.prompt.path \in Devices \cup {""} /\ process.prompt.request \in 0..daemon.requests

\* Whatever cancels, times out, goes or restarts, each call of BlueZ to the agent is answered exactly
\* once, but for the one the user is asked about.
RequestsAnswered ==
  LET coming == {inbox[i].request : i \in {j \in DOMAIN inbox : inbox[j].type = "agent"}}
      asked == {process.prompt.request} \ {NoRequest} IN
  /\ IsInjective(process.answers)
  /\ Range(process.answers) = (1..daemon.requests) \ (coming \cup asked)

\* A device is busy exactly while one operation on it, as it is now, is under way; the pairings among
\* them are those that can be cancelled.
BusyWhileOperated ==
  Alive =>
    \A d \in Devices :
      LET mine == {c \in Awaited : c.path = d /\ c.about = process.object[d].id /\ c.method # "CancelPairing"} IN
      /\ process.object[d].busy => mine # {}
      /\ ~astray => /\ mine # {} => process.object[d].busy
                    /\ Cardinality(mine) <= 1
                    /\ (\E c \in mine : c.method = "Pair") => d \in process.pairing

\* The user is asked about a device that is there, and not for longer than the timer runs.
PromptsEnd ==
  /\ process.timer = (process.prompt # NoPrompt)
  /\ process.timer => Known(process, process.prompt.path)

\* Once nothing is under way BlueZ has this process's agent exactly while the agent is enabled and was
\* not turned down.
AgentAsAsked ==
  /\ process.ready => process.enabled
  /\ AtRest /\ daemon.owner # 0 /\ Alive =>
       /\ daemon.agent = process.ready
       /\ process.enabled => process.ready \/ daemon.spurned

\* A pairing that BlueZ carries out with this process's agent, with the device it was asked for, is cancelled
\* by the time the agent is disabled or the manager gone: a cancellation is on its way.
CancelsSent ==
  ~astray /\ (~Alive \/ ~process.enabled) =>
    \A c \in running : c.method = "Pair" /\ c.generation = process.generation /\ Fits(c) /\ c.on = c.about /\ (c.agent \/ ~Alive) =>
      \E i \in DOMAIN process.out : process.out[i].method = "CancelPairing" /\ process.out[i].path = c.path
=============================================================================
