--------------------------- MODULE BluezDiscovery ---------------------------
(***************************************************************************)
(* The adapters of bluez::Manager (clients/bluez/manager.cpp): what BlueZ  *)
(* exports, read once and kept up to date by its signals, and a discovery  *)
(* session on each powered adapter while one is asked for.  What the bus   *)
(* brings to the process comes in order; BlueZ serves calls in any order.  *)
(***************************************************************************)
EXTENDS Naturals, Sequences, FiniteSetsExt, SequencesExt

CONSTANTS
  Adapters,         \* object paths
  MaxStopRetries,   \* 3 in discovery()
  MaxEvents         \* bounds what users, other programs, failures and restarts do

VARIABLES
  daemon,     \* BlueZ's unique name, 0 when it does not run
  started,    \* how often BlueZ was started
  adapter,    \* its adapters: the how-manyth under its path, and a property announced by invalidating it
  sessions,   \* the adapters that discover for this process
  inbox,      \* messages on their way to the process, in order
  manager,    \* the Manager's members
  events,     \* counts towards MaxEvents
  astray      \* a call reached an adapter when nobody waited for it, or one found again since

bluez == <<daemon, started, adapter, sessions>>
vars == <<bluez, inbox, manager, events, astray>>

NoObject == [id |-> 0]
Known(m) == {p \in Adapters : m.objects[p] # NoObject}
Zero == [p \in Adapters |-> 0]

\* phase stands for m_loading and m_operational, waiting for m_events.
Init ==
  /\ adapter \in [Adapters -> [id : {1}, present : {TRUE}, powered : BOOLEAN, alias : {TRUE}]]
  /\ daemon \in {0, 1} /\ started = daemon /\ sessions = {}
  /\ inbox = <<[type |-> "owner", owner |-> daemon]>>
  /\ manager = [owner |-> 0, generation |-> 1, phase |-> "absent", ready |-> FALSE, waiting |-> <<>>,
                objects |-> [p \in Adapters |-> NoObject], calls |-> {}, timers |-> {},
                requested |-> FALSE, owned |-> {}, pending |-> {}, failed |-> {}, retries |-> Zero]
  /\ events = 0 /\ astray = FALSE

-----------------------------------------------------------------------------
(* Calls, and what the manager does with its members.                      *)

Discovering == {"StartDiscovery", "StopDiscovery"}
NoOne == 0  \* the generation of a call nobody waits for

Call(m, method, path, about) ==
  [m EXCEPT !.calls = @ \cup {[method |-> method, path |-> path, about |-> about, to |-> m.owner,
                               generation |-> m.generation]}]

\* What is known of an adapter that went, or lost its power.
Ended(m, p) == [m EXCEPT !.owned = @ \ {p}, !.failed = @ \ {p}, !.retries[p] = 0]

\* discovery(): nothing to do, or not now.
Settled(m, p, start) ==
  \/ p \in m.pending \/ (p \in m.owned <=> start)
  \/ start /\ p \in m.failed
  \/ ~start /\ m.retries[p] >= MaxStopRetries

Discovery(m, p, start) ==
  IF m.phase # "operational" \/ p \notin Known(m) \/ Settled(m, p, start)
  THEN m
  ELSE Call([m EXCEPT !.pending = @ \cup {p}], IF start THEN "StartDiscovery" ELSE "StopDiscovery",
            p, m.objects[p].id)

Wanted(m, p) == m.requested /\ m.objects[p].powered
SyncDiscovery(m) ==
  IF m.phase # "operational" THEN m
  ELSE FoldSet(LAMBDA p, n : Discovery(n, p, Wanted(m, p)), m, Known(m))

\* reset(): the calls are no longer waited for, and BlueZ, which is gone, answers none.
Reset(m) ==
  [m EXCEPT !.generation = @ + 1, !.owner = 0, !.phase = "absent", !.waiting = <<>>,
            !.objects = [p \in Adapters |-> NoObject], !.calls = {}, !.timers = @ \ {"retry"},
            !.owned = {}, !.pending = {}, !.failed = {}, !.retries = Zero]

Load(m, owner) ==
  IF m.phase = "loading" THEN m
  ELSE Call([m EXCEPT !.owner = owner, !.phase = "loading"], "GetManagedObjects", "/", 0)

Ready(m) == [m EXCEPT !.ready = TRUE]

\* A new object, or one that is read again; each change starts the 0 ms timer of syncDiscovery().
InterfacesAdded(m, message) ==
  LET p == message.path IN
  [m EXCEPT !.objects[p] = [id |-> message.id, powered |-> message.powered, alias |-> {message.alias},
                            revision |-> IF p \in Known(m) THEN @.revision + 1 ELSE 1],
            !.timers = @ \cup {"sync"}]

InterfacesRemoved(m, message) ==
  LET p == message.path IN
  IF p \notin Known(m) THEN m
  ELSE Ended([m EXCEPT !.objects[p] = NoObject, !.pending = @ \ {p}], p)

Fetch(m, p) == Call(m, "GetAll", p, <<m.objects[p].id, m.objects[p].revision>>)

\* A value, or the news that one is no longer valid.
PropertiesChanged(m, message) ==
  LET p == message.path
      valued == [m EXCEPT !.objects[p].powered = message.powered, !.timers = @ \cup {"sync"}]
      invalid == [m EXCEPT !.objects[p].alias = {}, !.objects[p].revision = @ + 1, !.timers = @ \cup {"sync"}]
      next == IF message.invalidated THEN invalid ELSE valued
      ended == IF next.objects[p].powered THEN next ELSE Ended(next, p) IN
  IF p \notin Known(m) THEN m
  ELSE IF message.invalidated THEN Fetch(ended, p) ELSE ended

\* While BlueZ is read its signals wait.
Signal(m, message) ==
  CASE m.phase = "loading" -> [m EXCEPT !.waiting = Append(@, message)]
    [] message.type = "added" -> InterfacesAdded(m, message)
    [] message.type = "removed" -> InterfacesRemoved(m, message)
    [] message.type = "changed" -> PropertiesChanged(m, message)

-----------------------------------------------------------------------------
(* The completions of the calls.                                           *)

GotObjects(m, reply) ==
  IF ~reply.ok THEN Ready([Reset(m) EXCEPT !.timers = @ \cup {"retry"}])
  ELSE LET started_ == [m EXCEPT !.phase = "reading", !.waiting = <<>>]
           read == FoldSet(LAMBDA message, n : InterfacesAdded(n, message), started_, reply.value)
           replayed == FoldLeft(Signal, read, m.waiting) IN
       SyncDiscovery(Ready([replayed EXCEPT !.phase = "operational"]))

GotValues(m, reply) ==
  LET p == reply.call.path  id == reply.call.about[1]  revision == reply.call.about[2] IN
  IF reply.ok /\ p \in Known(m) /\ m.objects[p].id = id /\ m.objects[p].revision = revision
  THEN [m EXCEPT !.objects[p].alias = {reply.value}, !.objects[p].revision = @ + 1, !.timers = @ \cup {"sync"}]
  ELSE m

\* refresh()'s.
GotOwner(m, reply) ==
  IF reply.value = 0 THEN Ready(IF m.phase = "operational" THEN Reset(m) ELSE m)
  ELSE IF m.phase # "operational" THEN Load(m, reply.value) ELSE m

\* What is wanted may have changed while the call was in flight.
SyncAfter(m, p, start) == IF start # Wanted(m, p) THEN SyncDiscovery(m) ELSE m

\* discovery()'s.
GotDiscovery(m, reply) ==
  LET p == reply.call.path  start == reply.call.method = "StartDiscovery"
      n == [m EXCEPT !.pending = @ \ {p}] IN
  IF m.objects[p].id # reply.call.about THEN n
  ELSE IF reply.ok
  THEN SyncAfter([n EXCEPT !.owned = IF start THEN @ \cup {p} ELSE @ \ {p}, !.retries[p] = 0], p, start)
  ELSE IF start
  THEN [n EXCEPT !.failed = @ \cup {p},
                 !.requested = @ /\ ~(n.owned = {} /\ n.pending = {})]
  ELSE [n EXCEPT !.retries[p] = @ + 1, !.timers = @ \cup {"stopRetry"}]

Awaited(m, reply) == reply.call.generation = m.generation

Completion(m, reply) ==
  CASE ~Awaited(m, reply) -> m
    [] reply.call.method = "GetManagedObjects" -> GotObjects(m, reply)
    [] reply.call.method = "GetAll" -> GotValues(m, reply)
    [] reply.call.method = "GetNameOwner" -> GotOwner(m, reply)
    [] reply.call.method \in Discovering -> GotDiscovery(m, reply)
    [] OTHER -> m

OwnerChanged(m, owner) ==
  IF owner = m.owner /\ m.phase \in {"loading", "operational"} THEN m
  ELSE IF owner # 0 THEN Load(Reset(m), owner) ELSE Ready(Reset(m))

-----------------------------------------------------------------------------
(* The loop of the process.                                                *)

Alive == manager.phase # "destroyed"

\* A signal is matched by its sender.
Receive ==
  /\ inbox # <<>>
  /\ LET message == Head(inbox) IN
     manager' = CASE ~Alive -> manager
                  [] message.type = "owner" -> OwnerChanged(manager, message.owner)
                  [] message.type = "reply" -> Completion(manager, message)
                  [] OTHER -> IF message.from = manager.owner THEN Signal(manager, message) ELSE manager
  /\ inbox' = Tail(inbox)
  /\ UNCHANGED <<bluez, events, astray>>

Refresh(m) == IF m.phase = "loading" THEN m ELSE Call(m, "GetNameOwner", "/", 0)

Timeout(timer) ==
  /\ Alive /\ timer \in manager.timers
  /\ LET m == [manager EXCEPT !.timers = @ \ {timer}] IN
     manager' = IF timer = "retry" THEN Refresh(m) ELSE SyncDiscovery(m)
  /\ UNCHANGED <<bluez, inbox, events, astray>>

Event == events < MaxEvents /\ events' = events + 1

SetDiscoveryRequested(m, requested) ==
  SyncDiscovery([m EXCEPT !.failed = {}, !.retries = Zero, !.requested = requested])

\* setEnabled(): every adapter's power, rfkill left aside.
SetEnabled(m, enabled) ==
  LET n == IF enabled THEN m ELSE SetDiscoveryRequested(m, FALSE) IN
  IF n.phase # "operational" THEN n
  ELSE FoldSet(LAMBDA p, k : Call(k, "Set", p, enabled), n, Known(n))

\* BluetoothObject::startDiscovery(), stopDiscovery() are the manager's discovery().
User ==
  /\ Alive /\ Event
  /\ \E on \in BOOLEAN, p \in Adapters :
       manager' \in {SetDiscoveryRequested(manager, on), SetEnabled(manager, on),
                     Discovery(manager, p, on), Refresh(manager)}
  /\ manager' # manager
  /\ UNCHANGED <<bluez, inbox, astray>>

\* ~Manager(): what it owns is stopped; what it has asked for is not waited for.
StopOwned(m) ==
  {[method |-> "StopDiscovery", path |-> p, about |-> m.objects[p].id, to |-> m.owner,
    generation |-> NoOne] : p \in m.owned}

Destroy ==
  /\ Alive /\ Event
  /\ manager' = [manager EXCEPT !.phase = "destroyed", !.timers = {},
                   !.calls = {[c EXCEPT !.generation = NoOne] : c \in manager.calls} \cup StopOwned(manager)]
  /\ astray' = (astray \/ manager.pending # {})
  /\ UNCHANGED <<bluez, inbox>>

Loop == Receive \/ (\E timer \in {"retry", "sync", "stopRetry"} : Timeout(timer)) \/ User \/ Destroy

-----------------------------------------------------------------------------
(* BlueZ and the bus.                                                      *)

Present == {p \in Adapters : adapter[p].present}

\* A signal reaches the process while the manager has subscribed to this BlueZ's.
Tell(message) == IF manager.owner = daemon THEN Append(inbox, message) ELSE inbox
Added(p, now) ==
  [type |-> "added", from |-> daemon, path |-> p, id |-> now.id, powered |-> now.powered, alias |-> now.alias]
Removed(p) == [type |-> "removed", from |-> daemon, path |-> p]
Changed(p, powered, invalidated) ==
  [type |-> "changed", from |-> daemon, path |-> p, powered |-> powered, invalidated |-> invalidated]
Reply(c, ok, value) ==
  IF c.generation = NoOne THEN inbox
  ELSE Append(inbox, [type |-> "reply", call |-> c, ok |-> ok, value |-> value])

\* An adapter's power; without it nothing discovers.
Power(p, on) ==
  /\ adapter' = [adapter EXCEPT ![p].powered = on]
  /\ sessions' = IF on THEN sessions ELSE sessions \ {p}
  /\ inbox' = IF adapter[p].powered = on THEN inbox ELSE Tell(Changed(p, on, FALSE))

Answer(c, ok, value) == inbox' = Reply(c, ok, value) /\ UNCHANGED <<adapter, sessions>>
Discovers(c, now) == sessions' = now /\ inbox' = Reply(c, TRUE, 0) /\ UNCHANGED adapter

Served(c) ==
  LET p == c.path  fits == c.to = daemon /\ daemon # 0 /\ p \in Present IN
  CASE c.method = "GetNameOwner" -> Answer(c, TRUE, daemon)
    [] c.method = "GetManagedObjects" -> Answer(c, c.to = daemon, {Added(q, adapter[q]) : q \in Present})
    [] c.method = "GetAll" -> Answer(c, fits, fits /\ adapter[p].alias)
    [] c.method = "Set" /\ fits -> Power(p, c.about)
    [] c.method = "StartDiscovery" /\ fits /\ adapter[p].powered /\ p \notin sessions -> Discovers(c, sessions \cup {p})
    [] c.method = "StopDiscovery" /\ fits /\ p \in sessions -> Discovers(c, sessions \ {p})
    [] OTHER -> Answer(c, FALSE, 0)

Handled(c) == manager' = [manager EXCEPT !.calls = @ \ {c}]

Serve(c) ==
  /\ Served(c)
  /\ Handled(c)
  /\ astray' = (astray \/ (c.method \in Discovering /\ sessions' # sessions /\ c.about # adapter[c.path].id))
  /\ UNCHANGED <<daemon, started, events>>

\* BlueZ is busy, or the controller fails.
Refuse(c) ==
  /\ c.method \in {"GetManagedObjects", "StartDiscovery", "StopDiscovery"} /\ Event
  /\ inbox' = Reply(c, FALSE, 0)
  /\ Handled(c)
  /\ astray' = (astray \/ c.generation = NoOne)
  /\ UNCHANGED bluez

\* The caller stops waiting after 30 s; BlueZ may still do what it was asked for.
GiveUp(c) ==
  /\ c.method \in Discovering /\ c.generation # NoOne /\ Event
  /\ manager' = Completion([manager EXCEPT !.calls = (@ \ {c}) \cup {[c EXCEPT !.generation = NoOne]}],
                           [call |-> c, ok |-> FALSE])
  /\ astray' = TRUE
  /\ UNCHANGED <<bluez, inbox>>

Stop ==
  /\ daemon # 0 /\ Event
  /\ daemon' = 0 /\ sessions' = {}
  /\ inbox' = Append(inbox, [type |-> "owner", owner |-> 0])
  /\ UNCHANGED <<started, adapter, manager, astray>>

Start ==
  /\ daemon = 0
  /\ started' = started + 1 /\ daemon' = started'
  /\ inbox' = Append(inbox, [type |-> "owner", owner |-> daemon'])
  /\ UNCHANGED <<adapter, sessions, manager, events, astray>>

\* An adapter is pulled out or put in, switched by another program, or given another name.
Others ==
  /\ daemon # 0 /\ Event
  /\ \E p \in Adapters :
       \/ /\ p \in Present
          /\ adapter' = [adapter EXCEPT ![p].present = FALSE]
          /\ sessions' = sessions \ {p}
          /\ inbox' = Tell(Removed(p))
       \/ /\ p \notin Present
          /\ adapter' = [adapter EXCEPT ![p].present = TRUE, ![p].id = @ + 1]
          /\ inbox' = Tell(Added(p, adapter'[p]))
          /\ UNCHANGED sessions
       \/ p \in Present /\ Power(p, ~adapter[p].powered)
       \/ /\ p \in Present
          /\ adapter' = [adapter EXCEPT ![p].alias = ~@]
          /\ inbox' = Tell(Changed(p, adapter[p].powered, TRUE))
          /\ UNCHANGED sessions
  /\ UNCHANGED <<daemon, started, manager, astray>>

Bus == (\E c \in manager.calls : Serve(c) \/ Refuse(c) \/ GiveUp(c)) \/ Stop \/ Start \/ Others

Next == Loop \/ Bus

Spec == Init /\ [][Next]_vars

-----------------------------------------------------------------------------
(* Properties.                                                             *)

\* Every variable holds a value of its kind.
TypeOK ==
  /\ daemon \in {0, started} /\ sessions \subseteq Present
  /\ manager.phase \in {"absent", "loading", "operational", "destroyed"}
  /\ manager.phase \in {"loading", "operational"} => manager.owner # 0
  /\ manager.phase # "destroyed" => manager.owned \cup manager.pending \subseteq Known(manager)
  /\ manager.retries \in [Adapters -> Nat]
  /\ \A c \in manager.calls : c.path \in Adapters \cup {"/"}

AtRest == inbox = <<>> /\ manager.calls = {} /\ manager.timers = {}

\* However BlueZ restarts, fails to answer or signals while it is read, the manager ends up
\* ready, with BlueZ's adapters as they are.
MirrorsBluez ==
  AtRest /\ Alive =>
    /\ manager.ready
    /\ manager.owner = daemon /\ manager.phase = IF daemon = 0 THEN "absent" ELSE "operational"
    /\ Known(manager) = IF daemon = 0 THEN {} ELSE Present
    /\ \A p \in Known(manager) : /\ manager.objects[p].powered = adapter[p].powered
                                 /\ manager.objects[p].alias = {adapter[p].alias}

\* "Discovery while someone asks for it" (manager.h:30): once nothing is under way, each powered adapter
\* discovers for this process exactly while asked for, but where starting failed since it was last asked
\* for, or stopping failed as often as it is tried; and no adapter does once the manager is gone.
DiscoversAsAsked ==
  AtRest /\ ~astray /\ daemon # 0 =>
    IF Alive
    THEN \A p \in Present :
           LET wanted == manager.requested /\ adapter[p].powered IN
           \/ p \in sessions <=> wanted
           \/ wanted /\ p \in manager.failed
           \/ ~wanted /\ manager.retries[p] = MaxStopRetries
    ELSE sessions \subseteq {p \in Adapters : manager.retries[p] # 0}
=============================================================================
