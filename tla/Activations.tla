----------------------------- MODULE Activations -----------------------------
(***************************************************************************)
(* What networkmanager::Handler (clients/networkmanager/handler.cpp) does  *)
(* with activations it starts: the profile of a network that is joined is  *)
(* removed again unless it connects, and a hotspot that does not come up   *)
(* is reported.  NetworkManager's messages come to the process in order;   *)
(* Client's cache follows them, and has the settings of a profile, by      *)
(* which a hotspot's is known, once a GetSettings of its own is answered.  *)
(***************************************************************************)
EXTENDS Naturals, Sequences, FiniteSets

CONSTANTS
  Joins,       \* networks joined from the list, each with the profile made for it
  Hidden,      \* those joined by name
  Creations,   \* calls of createHotspot(), each with the profile it would add
  MaxEvents    \* bounds failures, restarts, and some of what the user does

VARIABLES
  nm,       \* NetworkManager: its run (0 when down), runs so far, profiles, activations by number
  client,   \* Client's cache
  handler,  \* Handler's members
  calls,    \* calls without a reply
  inbox,    \* messages on their way to the process
  past,     \* what became of joins and creations
  events    \* counts towards MaxEvents

vars == <<nm, client, handler, calls, inbox, past, events>>

Profiles == Joins \cup Hidden \cup Creations
None == 0
Nobody == "none"

\* What reset() leaves.
Empty(run) ==
  [run |-> run, loaded |-> FALSE, ready |-> FALSE, profiles |-> {}, active |-> {},
   settings |-> {}, requests |-> [p \in Creations |-> None], count |-> [p \in Creations |-> 0]]

Init ==
  /\ nm = [run |-> 1, runs |-> 1, profiles |-> {}, active |-> {}, count |-> 0]
  /\ client = [Empty(1) EXCEPT !.loaded = TRUE, !.ready = TRUE]
  /\ handler = [forget |-> {}, timers |-> {}, hotspot |-> None, shown |-> FALSE, changed |-> FALSE]
  /\ calls = {} /\ inbox = <<>> /\ events = 0
  /\ past = [asked |-> {}, up |-> {}, letGo |-> {}, failed |-> {}, told |-> 0, deleted |-> {}, latest |-> Nobody,
             unread |-> {}, early |-> {}]

Event == events < MaxEvents /\ events' = events + 1

-----------------------------------------------------------------------------
(* Calls.  Without an owner a call fails at once.                          *)

Request(method, who, profile, id) ==
  [method |-> method, who |-> who, profile |-> profile, id |-> id, to |-> client.run, accepted |-> FALSE]

Of(id, active) == {x \in active : x.id = id}
StateOf(id) == IF Of(id, client.active) = {} THEN "unknown" ELSE (CHOOSE x \in Of(id, client.active) : TRUE).state

\* fetchSettings() of each, a newer request in place of an older: of the hotspot's, as nothing here depends on
\* the settings of other profiles.
Fetches(c, ps) == {[Request("GetSettings", Nobody, p, c.count[p] + 1) EXCEPT !.to = c.run] : p \in ps \cap Creations}
Fetching(c, ps) ==
  [c EXCEPT !.count = [p \in Creations |-> IF p \in ps THEN @[p] + 1 ELSE @[p]],
            !.requests = [p \in Creations |-> IF p \in ps THEN c.count[p] + 1 ELSE @[p]]]
UpdateReady(c) == [c EXCEPT !.ready = @ \/ (c.loaded /\ \A p \in Creations : c.requests[p] = None)]

\* A step of the handler: its members, the calls it makes, and whether hotspotFailed is emitted.
Step(h, made, tells) == [handler |-> h, calls |-> made, tells |-> tells]
Delete(p) == {Request("Delete", Nobody, p, None)}

\* Mutant: up or not, it is the end of the activation.
EndsAlways(state) == state \in {"deactivated", "activated"}
Ends(state) == state = "deactivated"

\* activeStateChanged(): the hotspot's part, then the new profile's.
ActiveStateChanged(h, id, state) ==
  LET ours == h.hotspot = id
      mine == {f \in h.forget : f.id = id} IN
  IF state \notin {"deactivated", "activated"} THEN Step(h, {}, FALSE)
  ELSE Step([h EXCEPT !.hotspot = IF ours THEN None ELSE @, !.forget = @ \ mine],
            IF Ends(state) THEN UNION {Delete(f.profile) : f \in mine} ELSE {},
            ours /\ Ends(state))

GoneBefore(h, p, id) == Of(id, client.active) = {}

ForgetUnlessActivated(h, p, id) ==
  IF GoneBefore(h, p, id) THEN Step(h, Delete(p), FALSE)
  ELSE LET s == ActiveStateChanged([h EXCEPT !.forget = @ \cup {[id |-> id, profile |-> p]}], id, StateOf(id)) IN
       [s EXCEPT !.handler.timers = @ \cup {[id |-> id, run |-> client.run]}]

Watch(h, id) ==
  LET n == [h EXCEPT !.hotspot = id]
      gone == client.ready /\ Of(id, client.active) = {} IN
  IF StateOf(id) = "activated" THEN Step(h, {}, FALSE)
  ELSE IF gone \/ StateOf(id) \in {"deactivating", "deactivated"} THEN ActiveStateChanged(n, id, "deactivated")
  ELSE Step(n, {}, FALSE)

HotspotRequestFinished(h, reply) ==
  CASE reply.result = "denied" -> Step(h, {}, FALSE)
    [] reply.result = "error" -> Step(h, {}, TRUE)
    [] reply.result = "ok" -> Watch(h, reply.id)

Completion(h, reply) ==
  LET c == reply.call IN
  CASE c.method = "AddAndActivate" /\ c.who \in Joins ->
         IF reply.result = "ok" THEN ForgetUnlessActivated(h, c.who, reply.id) ELSE Step(h, {}, FALSE)
    [] c.method \in {"AddAndActivate", "Activate"} /\ c.who \in Creations -> HotspotRequestFinished(h, reply)
    [] c.method = "Update" /\ reply.result = "ok" ->
         Step(h, {Request("Activate", c.who, c.profile, None)}, FALSE)
    [] c.method = "Update" /\ reply.result # "ok" -> HotspotRequestFinished(h, reply)
    [] OTHER -> Step(h, {}, FALSE)

Take(step, made) ==
  /\ handler' = step.handler
  /\ calls' = calls \cup made \cup step.calls
  /\ past' = [past EXCEPT !.told = IF step.tells THEN @ + 1 ELSE @,
                          !.deleted = @ \cup {c.profile : c \in {d \in step.calls : d.method = "Delete"}}]

-----------------------------------------------------------------------------
(* What reaches the process.                                               *)

\* reset() announces each object's removal: the activations end one after the other.
ResetHandler(h) ==
  LET ended == {x.id : x \in client.active} IN
  Step([h EXCEPT !.hotspot = IF @ \in ended THEN None ELSE @, !.forget = {}], {}, h.hotspot \in ended)

Changed == [handler EXCEPT !.changed = TRUE]

\* The reply to the last request for a profile's settings; they are not there if it failed.
Newest(reply) == reply.call.to = client.run /\ client.requests[reply.call.profile] = reply.call.id
GotSettings(reply) ==
  LET p == {reply.call.profile}  read == IF reply.result = "ok" THEN p ELSE {} IN
  IF Newest(reply)
  THEN /\ client' = UpdateReady([client EXCEPT !.settings = (@ \ p) \cup read, !.requests[reply.call.profile] = None])
       /\ handler' = Changed /\ past' = [past EXCEPT !.unread = (@ \cup p) \ read] /\ UNCHANGED calls
  ELSE UNCHANGED <<client, handler, past, calls>>

\* The reply to Load: what is there, with every profile's settings still to be read.
GotObjects(reply) ==
  IF reply.call.to = client.run
  THEN LET loaded == [client EXCEPT !.loaded = TRUE, !.profiles = reply.profiles, !.active = reply.active] IN
       /\ client' = UpdateReady(Fetching(loaded, reply.profiles))
       /\ handler' = Changed /\ calls' = calls \cup Fetches(client, reply.profiles) /\ past' = [past EXCEPT !.unread = {}]
  ELSE UNCHANGED <<client, handler, past, calls>>

\* While NetworkManager is read its signals tell nothing new.
Signal(message) ==
  LET x == Of(message.id, client.active)  p == message.profile IN
  CASE ~client.loaded \/ message.run # client.run -> UNCHANGED <<client, handler, calls, past>>
    [] client.loaded /\ message.run = client.run ->
       CASE message.type = "profile" ->
              /\ client' = Fetching([client EXCEPT !.profiles = @ \cup {p}], {p})
              /\ Take(Step(Changed, {}, FALSE), Fetches(client, {p}))
         [] message.type = "updated" ->
              /\ client' = Fetching(client, {p} \cap client.profiles)
              /\ Take(Step(handler, {}, FALSE), Fetches(client, {p} \cap client.profiles))
         [] message.type = "profileGone" ->
              /\ client' = [client EXCEPT !.profiles = @ \ {p}]
              /\ Take(Step(Changed, {}, FALSE), {})
         [] message.type = "active" ->
              /\ client' = [client EXCEPT !.active = @ \cup {[id |-> message.id, profile |-> p, state |-> "activating"]}]
              /\ Take(Step(Changed, {}, FALSE), {})
         [] message.type = "state" ->
              /\ client' = [client EXCEPT !.active = (@ \ x) \cup {[y EXCEPT !.state = message.state] : y \in x}]
              /\ Take(ActiveStateChanged(Changed, message.id, message.state), {})
         [] message.type = "gone" ->
              /\ client' = [client EXCEPT !.active = @ \ x]
              /\ Take(ActiveStateChanged(Changed, message.id, "deactivated"), {})

Receive ==
  /\ inbox # <<>>
  /\ inbox' = Tail(inbox)
  /\ LET message == Head(inbox) IN
     CASE message.type = "owner" ->
            /\ client' = Empty(message.run)
            /\ LET load == [Request("Load", Nobody, Nobody, None) EXCEPT !.to = message.run] IN
               Take(ResetHandler(Changed), IF message.run = None THEN {} ELSE {load})
       [] message.type = "reply" ->
            CASE message.call.method = "Load" -> GotObjects(message)
              [] message.call.method = "GetSettings" -> GotSettings(message)
              [] OTHER -> Take(Completion(handler, message), {}) /\ UNCHANGED client
       [] OTHER -> Signal(message)
  /\ UNCHANGED <<nm, events>>

\* The first profile whose settings are a hotspot's, by a path NetworkManager chose; the activations of it.
HotspotProfiles == client.settings \cap Creations
HotspotConnection == IF HotspotProfiles = {} THEN {} ELSE {CHOOSE p \in HotspotProfiles : TRUE}
IsHotspot(x) == x.profile \in HotspotConnection /\ x.state \in {"activating", "activated"}
HotspotActive == {x \in client.active : IsHotspot(x)}

\* update(), on the client's 0 ms timer.
Update ==
  /\ handler.changed
  /\ handler' = [handler EXCEPT !.changed = FALSE, !.shown = HotspotActive # {}]
  /\ UNCHANGED <<nm, client, calls, inbox, past, events>>

\* The 2 minutes of a new activation are over.
Forget(t) ==
  /\ Event
  /\ handler' = [handler EXCEPT !.timers = @ \ {t}, !.forget = {f \in @ : f.id # t.id}]
  /\ past' = [past EXCEPT !.letGo = @ \cup {f.profile : f \in {g \in handler.forget : g.id = t.id}}]
  /\ UNCHANGED <<nm, client, calls, inbox>>

-----------------------------------------------------------------------------
(* The user.                                                               *)

Join(j) ==
  /\ j \notin past.asked /\ client.ready
  /\ calls' = calls \cup {Request("AddAndActivate", j, j, None)}
  /\ past' = [past EXCEPT !.asked = @ \cup {j}]
  /\ UNCHANGED <<nm, client, handler, inbox, events>>

\* Bound: no hotspot is created or stopped while another's request has no reply, and none created while one
\* is starting.  A request that overtakes the last one's reply adds a second profile; a hotspot stopped before
\* its reply is reported failed.  One created while another is up counts as an event.
Settled ==
  /\ {c \in calls : c.who \in Creations \/ c.method = "Deactivate"} = {}
  /\ \A i \in DOMAIN inbox : inbox[i].type = "reply" => inbox[i].call.who \notin Creations

\* The client has not yet been able to tell which profile is the hotspot's.
Early == ~client.ready \/ \E p \in Creations : p \in past.unread \/ client.requests[p] # None

\* One profile, kept and updated, once its settings are known; until NetworkManager is read there is no adapter.
CreateHotspot(h) ==
  /\ h \notin past.asked
  /\ \/ ~client.loaded /\ UNCHANGED <<calls, events>>
     \/ /\ client.loaded /\ Settled /\ handler.hotspot = None
        /\ IF nm.active = {} THEN UNCHANGED events ELSE Event
        /\ \/ HotspotConnection = {} /\ calls' = calls \cup {Request("AddAndActivate", h, h, None)}
           \/ \E p \in HotspotConnection : calls' = calls \cup {Request("Update", h, p, None)}
  /\ past' = [past EXCEPT !.asked = @ \cup {h}, !.latest = h, !.told = IF client.loaded THEN @ ELSE @ + 1,
                          !.failed = IF client.loaded THEN @ ELSE @ \cup {h},
                          !.early = IF client.loaded /\ Early THEN @ \cup {h} ELSE @]
  /\ UNCHANGED <<nm, client, handler, inbox>>

\* What is stopped before it came up has not failed.
StopHotspot ==
  /\ Settled /\ Event
  /\ handler' = [handler EXCEPT !.hotspot = None]
  /\ \/ HotspotActive = {} /\ UNCHANGED calls
     \/ \E x \in HotspotActive : calls' = calls \cup {Request("Deactivate", Nobody, Nobody, x.id)}
  /\ \/ handler.hotspot = None /\ UNCHANGED <<nm, past>>
     \/ /\ handler.hotspot # None
        /\ nm' = [nm EXCEPT !.active = {[x EXCEPT !.by = IF x.id = handler.hotspot THEN Nobody ELSE @] : x \in @}]
        /\ past' = [past EXCEPT !.failed = @ \ {past.latest}]
  /\ UNCHANGED <<client, inbox>>

Process == Receive \/ Update \/ (\E t \in handler.timers : Forget(t))
User == (\E j \in Joins \cup Hidden : Join(j)) \/ (\E h \in Creations : CreateHotspot(h)) \/ StopHotspot

-----------------------------------------------------------------------------
(* NetworkManager.                                                         *)

Tell(messages) == inbox' = inbox \o messages
News(type, id, profile, state) == [type |-> type, run |-> nm.run, id |-> id, profile |-> profile, state |-> state]
ReplyTo(c, result) == [type |-> "reply", call |-> c, result |-> result, id |-> c.id]
ToNM(c) == c.to = nm.run /\ nm.run # None

\* The profile, when it is new, and then the activation are announced before the reply.
Start(c, added) ==
  /\ nm' = [nm EXCEPT !.profiles = @ \cup added, !.count = @ + 1,
                      !.active = @ \cup {[id |-> nm.count + 1, profile |-> c.profile, by |-> c.who, state |-> "activating"]}]
  /\ Tell((IF added = {} THEN <<>> ELSE <<News("profile", None, c.profile, "")>>)
          \o <<News("active", nm.count + 1, c.profile, "")>>)
  /\ calls' = (calls \ {c}) \cup {[c EXCEPT !.accepted = TRUE, !.id = nm.count + 1]}
  /\ UNCHANGED past

Failed(xs) == [past EXCEPT !.failed = @ \cup {x.by : x \in {y \in xs : y.by \in Creations \ past.up}}]

\* Nothing waits for the replies to Deactivate and Delete.
Serve(c) ==
  /\ ~c.accepted /\ ToNM(c)
  /\ CASE c.method = "AddAndActivate" -> Start(c, {c.profile})
       [] c.method = "Activate" -> Start(c, {})
       [] c.method = "Load" ->
            /\ calls' = calls \ {c}
            /\ Tell(<<[type |-> "reply", call |-> c, profiles |-> nm.profiles,
                       active |-> {[id |-> x.id, profile |-> x.profile, state |-> x.state] : x \in nm.active}]>>)
            /\ UNCHANGED <<nm, past>>
       [] c.method = "Deactivate" ->
            LET xs == {x \in Of(c.id, nm.active) : x.state # "deactivating"} IN
            /\ nm' = [nm EXCEPT !.active = (@ \ xs) \cup {[x EXCEPT !.state = "deactivating"] : x \in xs}]
            /\ calls' = calls \ {c}
            /\ Tell(IF xs = {} THEN <<>> ELSE <<News("state", c.id, Nobody, "deactivating")>>)
            /\ UNCHANGED past
       [] c.method = "Delete" ->
            /\ nm' = [nm EXCEPT !.profiles = @ \ {c.profile}]
            /\ calls' = calls \ {c}
            /\ Tell(<<News("profileGone", None, c.profile, "")>>)
            /\ UNCHANGED past
       [] c.method = "Update" ->
            calls' = calls \ {c} /\ Tell(<<News("updated", None, c.profile, ""), ReplyTo(c, "ok")>>) /\ UNCHANGED <<nm, past>>
       [] c.method = "GetSettings" ->
            /\ calls' = calls \ {c} /\ Tell(<<ReplyTo(c, IF c.profile \in nm.profiles THEN "ok" ELSE "error")>>)
            /\ UNCHANGED <<nm, past>>
  /\ UNCHANGED <<client, handler, events>>

\* The reply of a request that started an activation.
Accept(c) ==
  /\ c.accepted /\ ToNM(c)
  /\ calls' = calls \ {c} /\ Tell(<<ReplyTo(c, "ok")>>)
  /\ UNCHANGED <<nm, client, handler, past, events>>

\* Refused, an administrator's password is not given, or settings are not sent in time.
Refuse(c) ==
  /\ ToNM(c) /\ ~c.accepted /\ c.method \in {"AddAndActivate", "Activate", "Update", "GetSettings"} /\ Event
  /\ \E result \in IF c.method = "GetSettings" THEN {"error"} ELSE {"error", "denied"} :
       /\ calls' = calls \ {c} /\ Tell(<<ReplyTo(c, result)>>)
       /\ past' = [past EXCEPT !.failed = IF result = "error" THEN @ \cup ({c.who} \cap Creations) ELSE @]
  /\ UNCHANGED <<nm, client, handler>>

\* Whom it was sent to is gone: a reading of it is dropped with what was read.
NoReply(c) ==
  /\ ~ToNM(c)
  /\ calls' = calls \ {c}
  /\ Tell(IF c.method \in {"Load", "GetSettings", "Deactivate", "Delete"} THEN <<>> ELSE <<ReplyTo(c, "error")>>)
  /\ past' = [past EXCEPT !.failed = @ \cup ({c.who} \cap Creations)]
  /\ UNCHANGED <<nm, client, handler, events>>

Unanswered(x) == \E c \in calls : c.accepted /\ c.id = x.id /\ c.to = nm.run

\* An activation comes up; fails or, once its request is answered, is taken down; ends; or is dropped.
Progress(x) ==
  /\ \E state \in {"activated", "deactivating"} :
       /\ \/ x.state = "activating"
          \/ x.state = "activated" /\ state = "deactivating" /\ ~Unanswered(x)
       /\ nm' = [nm EXCEPT !.active = (@ \ {x}) \cup {[x EXCEPT !.state = state]}]
       /\ Tell(<<News("state", x.id, Nobody, state)>>)
       /\ past' = IF state = "activated" THEN [past EXCEPT !.up = @ \cup {x.profile, x.by}] ELSE Failed({x})
  /\ UNCHANGED <<client, handler, calls, events>>

End(x) ==
  /\ \/ x.state = "deactivating" /\ Tell(<<News("state", x.id, Nobody, "deactivated"), News("gone", x.id, Nobody, "")>>) /\ UNCHANGED events
     \/ x.state = "activating" /\ Event /\ Tell(<<News("gone", x.id, Nobody, "")>>)
  /\ nm' = [nm EXCEPT !.active = @ \ {x}]
  /\ past' = Failed({x})
  /\ UNCHANGED <<client, handler, calls>>

\* Profiles are on disk, activations are not; what had not come up is not told from what did.
Stop ==
  /\ nm.run # None /\ Event
  /\ nm' = [nm EXCEPT !.run = None, !.active = {}, !.count = 0]
  /\ Tell(<<[type |-> "owner", run |-> None]>>)
  /\ past' = [Failed(nm.active) EXCEPT !.letGo = @ \cup (Joins \ past.up)]
  /\ UNCHANGED <<client, handler, calls>>

Run ==
  /\ nm.run = None
  /\ nm' = [nm EXCEPT !.run = nm.runs + 1, !.runs = nm.runs + 1]
  /\ Tell(<<[type |-> "owner", run |-> nm.runs + 1]>>)
  /\ UNCHANGED <<client, handler, calls, past, events>>

Service ==
  \/ \E c \in calls : Serve(c) \/ Accept(c) \/ Refuse(c) \/ NoReply(c)
  \/ \E x \in nm.active : Progress(x) \/ End(x)
  \/ Stop \/ Run

Next == Process \/ User \/ Service

Spec == Init /\ [][Next]_vars

-----------------------------------------------------------------------------
(* Properties.                                                             *)

States == {"activating", "activated", "deactivating"}
AtRest == inbox = <<>> /\ calls = {} /\ ~handler.changed /\ \A x \in nm.active : x.state # "deactivating"

\* Every variable holds a value of its kind.
TypeOK ==
  /\ nm.profiles \subseteq Profiles /\ client.profiles \subseteq Profiles
  /\ nm.run = None => nm.active = {}
  /\ \A x \in nm.active \cup client.active : x.id \in 1 .. Cardinality(Profiles) /\ x.profile \in Profiles
  /\ {x.state : x \in nm.active} \subseteq States /\ {x.state : x \in client.active} \subseteq States \cup {"deactivated"}
  /\ \A f \in handler.forget : f.profile \in Joins
  /\ handler.hotspot \in 0 .. Cardinality(Profiles)
  /\ client.settings \subseteq client.profiles /\ \A p \in Creations : client.requests[p] \in 0 .. client.count[p]

\* "A new profile that never gets to connect is removed again" (handler.h), in whatever order its
\* activation's states and the reply come, and one that connected, or was named by the user, is not: but
\* where the 2 minutes passed, or NetworkManager went, before it was decided.
JoinsDecided ==
  /\ past.deleted \subseteq Joins \ past.up
  /\ AtRest /\ nm.active = {} => \A j \in nm.profiles \cap Joins : j \in past.up \cup past.letGo

\* A hotspot is reported to have failed exactly when it did: its request was refused for another reason
\* than the user's, or its activation ended before it came up.  One created while the client still reads
\* profiles may fail untold, its activation gone before the reply.
HotspotTold ==
  /\ past.told <= Cardinality(past.failed)
  /\ AtRest => past.told >= Cardinality(past.failed \ past.early)

\* One profile serves every hotspot, and hotspotActive() tells whether it is starting or up, unless one was
\* created before the client had the settings of the profiles there are, or a reading of them failed, which
\* is not repeated: it then takes the hotspot's profile for none and adds another.
HotspotShown ==
  AtRest /\ past.early = {} =>
    /\ Cardinality(nm.profiles \cap Creations) <= 1
    /\ handler.shown <=> \E x \in nm.active : x.profile \in Creations \ past.unread /\ x.state \in {"activating", "activated"}
=============================================================================
