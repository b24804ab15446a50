---------------------------- MODULE AudioRegistry ----------------------------
(***************************************************************************)
(* Backend with its AudioModel of sinks and a VolumeMonitor                *)
(* (clients/audio/backend.cpp, audio_model.cpp, volume_monitor.cpp):       *)
(* PipeWire's registry as it is announced, the default sink from the       *)
(* session manager's metadata, and the streams' devices from its links.    *)
(* Sources and capture streams mirror sinks and playback streams and are   *)
(* left out; what a node holds is AudioRoutes.                             *)
(***************************************************************************)
EXTENDS Naturals, Sequences, FiniteSetsExt, SequencesExt

CONSTANTS
  Ids,         \* of globals: PipeWire uses them again
  Names,       \* of sinks
  MaxEvents    \* bounds what users and other programs do, failures and restarts

VARIABLES
  daemon,   \* PipeWire: its run (0 when down), globals, default sink, and what is sent to this client
  client,   \* the members of the backend, the model and the monitor
  outbox,   \* messages on their way to PipeWire, in order
  inbox,    \* messages on their way to the process, in order
  events    \* counts towards MaxEvents

vars == <<daemon, client, outbox, inbox, events>>

None == 0
Hidden == "auto_null"
NoGlobals == [id \in {} |-> None]

-----------------------------------------------------------------------------
(* Backend: what it keeps.  A global is its type, its object.serial, a     *)
(* sink's name, a link's ends.                                             *)

Bound(c, type) == {id \in DOMAIN c.bindings : c.bindings[id].type = type}

\* Of a stream's links to sinks that are listed, the first.
DeviceOf(c, stream) ==
  LET leading == {l \in DOMAIN c.links : c.links[l].from = stream /\ c.links[l].to \in Bound(c, "sink")} IN
  IF leading = {} THEN None ELSE c.links[Min(leading)].to

UpdateLinks(c) == [c EXCEPT !.device = [s \in Bound(c, "stream") |-> DeviceOf(c, s)]]

\* setTarget(): a stream is opened for an object that is bound as it is now.
Watchable(c, serial) == c.connected /\ \E id \in DOMAIN c.bindings : c.bindings[id].serial = serial
SetTarget(c, serial) ==
  IF c.target = serial THEN c
  ELSE [c EXCEPT !.target = serial, !.stream = IF Watchable(c, serial) THEN serial ELSE None]

AddNode(c, id, global) ==
  UpdateLinks([c EXCEPT !.bindings = @ @@ (id :> global),
                        !.rows = IF global.type = "sink" THEN Append(@, global.serial) ELSE @])

\* addGlobal(): what of it is kept, and what is sent for it.
AddGlobal(c, id, global) ==
  CASE global.type = "metadata" /\ c.metadata = None -> [c EXCEPT !.metadata = id]
    [] global.type = "link" -> UpdateLinks([c EXCEPT !.links = (id :> global) @@ @])
    [] /\ global.type \in {"sink", "stream"} /\ id \notin DOMAIN c.bindings
       /\ global.type = "sink" => global.name # Hidden -> AddNode(c, id, global)
    [] OTHER -> c
Bind(c, id, global) ==
  IF global.type = "metadata" /\ c.metadata = None THEN <<[type |-> "bind", id |-> id]>> ELSE <<>>

\* A node that goes: the model and the monitor hear of it while it is no longer bound.
Unbind(c, id) ==
  IF id \notin DOMAIN c.bindings THEN c
  ELSE LET serial == c.bindings[id].serial
           less == [c EXCEPT !.bindings = [i \in DOMAIN @ \ {id} |-> @[i]],
                             !.rows = SelectSeq(@, LAMBDA s : s # serial)] IN
       IF c.target = serial THEN SetTarget(less, None) ELSE less

\* What is bound of the metadata goes.  The callers forget the default sink.
ReleaseMetadata(c) == [c EXCEPT !.metadata = None]

RemoveGlobal(c, id) ==
  LET known == IF id = c.metadata THEN [ReleaseMetadata(c) EXCEPT !.default = None] ELSE c
      unbound == Unbind(known, id) IN
  UpdateLinks([unbound EXCEPT !.links = [l \in DOMAIN @ \ {id} |-> @[l]]])

\* coreEvents.error: the connection failed, which is seen to from the event loop.
Fails(c) == IF c.failurePending THEN c ELSE [c EXCEPT !.failurePending = TRUE, !.failure = TRUE]

\* disconnectFromDaemon(): the monitor lets go first, then the objects go one by one, then the core.
Disconnecting(c) == [SetTarget(c, None) EXCEPT !.phase = "disconnecting"]
Disconnected(c) ==
  [ReleaseMetadata(c) EXCEPT !.phase = "loop", !.core = None, !.links = NoGlobals, !.default = None,
                             !.connected = FALSE, !.retry = TRUE]

\* metadataEvents.property, of the core: the name of the default sink, or none.
MetadataProperty(c, name) == [c EXCEPT !.default = name]

\* defaultNode(): the sink of that name, once it is bound.
DefaultNode(c) == {id \in Bound(c, "sink") : c.bindings[id].name = c.default}

-----------------------------------------------------------------------------
(* The process.                                                            *)

Event == events < MaxEvents /\ events' = events + 1

Receive ==
  /\ client.phase = "loop" /\ inbox # <<>>
  /\ LET message == Head(inbox) IN
       /\ client' = CASE message.type = "info" -> [client EXCEPT !.connected = TRUE]
                      [] message.type = "global" -> AddGlobal(client, message.id, message.global)
                      [] message.type = "remove" -> RemoveGlobal(client, message.id)
                      [] message.type = "property" -> MetadataProperty(client, message.name)
                      [] message.type = "error" -> Fails(client)
       /\ outbox' = IF message.type = "global" THEN outbox \o Bind(client, message.id, message.global) ELSE outbox
  /\ inbox' = Tail(inbox)
  /\ UNCHANGED <<daemon, events>>

\* m_failure, at once, and m_retry, a second later.
FailureTimeout ==
  /\ client.phase = "loop" /\ client.failure
  /\ client' = Disconnecting([client EXCEPT !.failure = FALSE])
  /\ UNCHANGED <<daemon, outbox, inbox, events>>

\* connectToDaemon()
RetryTimeout ==
  /\ client.phase = "loop" /\ client.retry /\ ~client.failure
  /\ LET c == [client EXCEPT !.retry = FALSE, !.failurePending = FALSE] IN
     IF client.core # None THEN client' = [client EXCEPT !.retry = FALSE] /\ UNCHANGED outbox
     ELSE IF daemon.run = 0 THEN client' = Disconnecting(c) /\ UNCHANGED outbox
     ELSE client' = [c EXCEPT !.core = daemon.run] /\ outbox' = <<[type |-> "registry"]>>
  /\ UNCHANGED <<daemon, inbox, events>>

\* iterate(): the loop itself failed.
LoopFails ==
  /\ client.phase = "loop" /\ client.core # None /\ Event
  /\ client' = Disconnecting(client)
  /\ UNCHANGED <<daemon, outbox, inbox>>

Disconnect ==
  /\ client.phase = "disconnecting"
  /\ IF client.bindings # NoGlobals
     THEN client' = RemoveGlobal(client, Min(DOMAIN client.bindings)) /\ UNCHANGED <<daemon, outbox, inbox>>
     ELSE /\ client' = Disconnected(client) /\ outbox' = <<>> /\ inbox' = <<>>
          /\ daemon' = [daemon EXCEPT !.listening = FALSE, !.bound = None]
  /\ UNCHANGED events

\* A view, also from within a signal that an object goes.
Watch ==
  /\ Event
  /\ \E id \in DOMAIN client.bindings : client' = SetTarget(client, client.bindings[id].serial)
  /\ UNCHANGED <<daemon, outbox, inbox>>

\* setDefault(), moveStream(): what goes to a daemon that went is lost.
Send(message) == outbox' = IF client.core = daemon.run THEN Append(outbox, message) ELSE outbox
SetDefault ==
  /\ client.phase = "loop" /\ client.metadata # None /\ Event
  /\ \E id \in Bound(client, "sink") : Send([type |-> "default", name |-> client.bindings[id].name])
  /\ UNCHANGED <<daemon, client, inbox>>
MoveStream ==
  /\ client.phase = "loop" /\ client.metadata # None /\ Event
  /\ \E s \in Bound(client, "stream"), id \in Bound(client, "sink") :
       Send([type |-> "move", stream |-> s, serial |-> client.bindings[id].serial])
  /\ UNCHANGED <<daemon, client, inbox>>

-----------------------------------------------------------------------------
(* PipeWire and the session manager.                                       *)

Present(type) == {id \in DOMAIN daemon.globals : daemon.globals[id].type = type}
Announce(now, messages) ==
  /\ daemon' = now
  /\ inbox' = IF daemon.listening THEN inbox \o messages ELSE inbox

Added(d, id, global) ==
  [d EXCEPT !.globals = @ @@ (id :> (global @@ [serial |-> d.next])), !.next = @ + 1]
Global(d, id) == [type |-> "global", id |-> id, global |-> d.globals[id]]

Add ==
  /\ daemon.run # 0 /\ Event
  /\ \E id \in Ids \ DOMAIN daemon.globals :
       \E global \in [type : {"sink"}, name : Names \cup {Hidden}] \cup [type : {"stream"}]
                     \cup (IF Present("metadata") = {} THEN [type : {"metadata"}] ELSE {})
                     \cup [type : {"link"}, from : Present("stream"), to : Present("sink")] :
         LET now == Added(daemon, id, global) IN Announce(now, <<Global(now, id)>>)
  /\ UNCHANGED <<client, outbox>>

\* A node goes with its links, before it or after it; the default with the metadata.
Without(d, gone) ==
  [d EXCEPT !.globals = [i \in DOMAIN @ \ gone |-> @[i]],
            !.default = IF Present("metadata") \subseteq gone THEN None ELSE @,
            !.bound = IF @ \in gone THEN None ELSE @]
LinksOf(id) == {l \in Present("link") : daemon.globals[l].from = id \/ daemon.globals[l].to = id}
Removal(gone) == [i \in DOMAIN gone |-> [type |-> "remove", id |-> gone[i]]]

Withdraw ==
  /\ daemon.run # 0 /\ Event
  /\ \E id \in DOMAIN daemon.globals : \E order \in SetToSeqs({id} \cup LinksOf(id)) :
       Announce(Without(daemon, {id} \cup LinksOf(id)), Removal(order))
  /\ UNCHANGED <<client, outbox>>

Property(d) == IF d.bound # None THEN <<[type |-> "property", name |-> d.default]>> ELSE <<>>
Choose(name) ==
  LET now == [daemon EXCEPT !.default = name] IN Announce(now, Property(now))
Chosen ==
  /\ Present("metadata") # {} /\ Event
  /\ \E id \in Present("sink") : Choose(daemon.globals[id].name)
  /\ UNCHANGED <<client, outbox>>

\* The session manager links a stream anew.
Relink(s, id) ==
  LET old == {l \in Present("link") : daemon.globals[l].from = s}
      less == Without(daemon, old)
      new == CHOOSE i \in Ids : i \notin DOMAIN less.globals
      now == Added(less, new, [type |-> "link", from |-> s, to |-> id]) IN
  Announce(now, Removal(SetToSeq(old)) \o <<Global(now, new)>>)

Serve ==
  /\ daemon.run # 0 /\ outbox # <<>>
  /\ outbox' = Tail(outbox)
  /\ LET message == Head(outbox)
         sinks == {id \in Present("sink") : message.type = "move" /\ daemon.globals[id].serial = message.serial} IN
     CASE message.type = "registry" ->
            /\ daemon' = [daemon EXCEPT !.listening = TRUE]
            /\ inbox' = <<[type |-> "info"]>> \o [i \in 1..Len(SetToSeq(DOMAIN daemon.globals)) |->
                                                    Global(daemon, SetToSeq(DOMAIN daemon.globals)[i])]
       [] message.type = "bind" /\ message.id \in Present("metadata") ->
            Announce([daemon EXCEPT !.bound = message.id], Property([daemon EXCEPT !.bound = message.id]))
       [] /\ message.type = "default" /\ Present("metadata") # {}
          /\ \E id \in Present("sink") : daemon.globals[id].name = message.name -> Choose(message.name)
       [] /\ message.type = "move" /\ Present("metadata") # {} /\ sinks # {} /\ message.stream \in Present("stream")
          /\ \/ Ids # DOMAIN daemon.globals
             \/ \E l \in Present("link") : daemon.globals[l].from = message.stream ->
               Relink(message.stream, CHOOSE id \in sinks : TRUE)
       [] OTHER -> UNCHANGED <<daemon, inbox>>
  /\ UNCHANGED <<client, events>>

Stop ==
  /\ daemon.run # 0 /\ Event
  /\ daemon' = [daemon EXCEPT !.run = 0, !.globals = NoGlobals, !.default = None, !.listening = FALSE, !.bound = None]
  /\ inbox' = IF client.core = daemon.run THEN Append(inbox, [type |-> "error"]) ELSE inbox
  /\ outbox' = <<>>
  /\ UNCHANGED client
Start ==
  /\ daemon.run = 0
  /\ daemon' = [daemon EXCEPT !.run = daemon.next, !.next = @ + 1]
  /\ UNCHANGED <<client, outbox, inbox, events>>

\* What PipeWire has when the backend is made: nothing, or a stream that plays on the default sink.
Playing == (1 :> [type |-> "metadata", serial |-> 1]) @@ (2 :> [type |-> "stream", serial |-> 2])
             @@ (3 :> [type |-> "sink", serial |-> 3, name |-> CHOOSE n \in Names : TRUE])
             @@ (4 :> [type |-> "link", serial |-> 4, from |-> 2, to |-> 3])
Init ==
  /\ \/ daemon = [run |-> 5, globals |-> NoGlobals, default |-> None, listening |-> FALSE, bound |-> None, next |-> 6]
     \/ daemon = [run |-> 5, globals |-> Playing, default |-> Playing[3].name, listening |-> FALSE, bound |-> None,
                  next |-> 6]
  /\ client = [phase |-> "loop", core |-> None, connected |-> FALSE, failurePending |-> FALSE, failure |-> FALSE,
               retry |-> TRUE, bindings |-> NoGlobals, links |-> NoGlobals, metadata |-> None, default |-> None,
               device |-> NoGlobals, rows |-> <<>>, target |-> None, stream |-> None]
  /\ outbox = <<>> /\ inbox = <<>> /\ events = 0

Process == Receive \/ FailureTimeout \/ RetryTimeout \/ LoopFails \/ Disconnect
User == Watch \/ SetDefault \/ MoveStream
Service == Add \/ Withdraw \/ Chosen \/ Serve \/ Stop \/ Start
Next == Process \/ User \/ Service

Spec == Init /\ [][Next]_vars

-----------------------------------------------------------------------------
(* Properties.                                                             *)

\* Every variable holds a value of its kind.
TypeOK ==
  /\ DOMAIN daemon.globals \subseteq Ids /\ DOMAIN client.bindings \subseteq Ids
  /\ \A id \in DOMAIN client.bindings : client.bindings[id].type \in {"sink", "stream"}
  /\ DOMAIN client.device = Bound(client, "stream")
  /\ client.failure => client.failurePending

AtRest ==
  inbox = <<>> /\ outbox = <<>> /\ client.phase = "loop" /\ ~client.retry /\ ~client.failure /\ daemon.run # 0

Listed == {id \in DOMAIN daemon.globals : \/ daemon.globals[id].type = "stream"
                                          \/ daemon.globals[id].type = "sink" /\ daemon.globals[id].name # Hidden}

\* However PipeWire restarts and uses its ids again, once nothing is under way the backend is connected
\* and has its sinks and streams, the default sink, and the sink each stream plays on; the model has a row
\* for each sink.
MirrorsPipeWire ==
  AtRest =>
    /\ client.core = daemon.run /\ client.connected
    /\ client.bindings = [id \in Listed |-> daemon.globals[id]]
    /\ client.default = daemon.default
    /\ DefaultNode(client) = {id \in Listed \cap Present("sink") : daemon.globals[id].name = daemon.default}
    /\ \A s \in Present("stream") :
         IF \E l \in LinksOf(s) : daemon.globals[l].to \in Listed
         THEN \E l \in LinksOf(s) : daemon.globals[l].to = client.device[s]
         ELSE client.device[s] = None
    /\ IsInjective(client.rows)
    /\ Range(client.rows) = {daemon.globals[id].serial : id \in Listed \cap Present("sink")}

\* The monitor's stream is of an object that is bound, and so never outlives the core it was opened on,
\* whatever a view does while the objects go.
StreamBound ==
  client.stream # None =>
    /\ client.core # None /\ client.stream = client.target
    /\ \E id \in DOMAIN client.bindings : client.bindings[id].serial = client.stream
=============================================================================
