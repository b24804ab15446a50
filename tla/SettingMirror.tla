---------------------------- MODULE SettingMirror ----------------------------
(***************************************************************************)
(* One value a desktop service keeps, as the clients of the framework show *)
(* it: read when the client is made, kept up by the service's signals, set *)
(* by this process and others.  Each client has its own way to read, to    *)
(* show what it sets, and to take a refusal; kind says whose way it is.    *)
(* The bus keeps the order of messages; a call that waits for a password   *)
(* is overtaken by later ones.  Any service may go and come back with      *)
(* another value, of which only some of the clients are told.              *)
(***************************************************************************)
EXTENDS Naturals, Sequences, SequencesExt

CONSTANTS
  Values,
  MaxEvents   \* bounds what users, other programs and restarts do

\* The clients whose value is followed.
Kinds == {"PowerProfiles", "NightLight", "TimeDate", "UserAccount", "BatteryStatus", "Device",
          "Appearance", "FixedFont", "ConnectionSettings"}

VARIABLES
  kind,
  service,  \* [up, value]
  client,   \* the client's members: shown, pending with its calls, the cache of a profile, the calls awaited
  calls,    \* on their way to the service, in order
  inbox,    \* messages on their way to the process, in order
  asked,    \* the last value set here
  missed,   \* the client was not told of the service's value, or a reading of it failed, since it last had it
  events    \* counts towards MaxEvents

vars == <<kind, service, client, calls, inbox, asked, missed, events>>

None == 0
NoCall == 0

Watching == kind \in {"NightLight", "Appearance", "FixedFont", "ConnectionSettings"}  \* for the service to come and go
Blocking == kind \in {"TimeDate", "Appearance", "FixedFont", "ConnectionSettings"}  \* read while the client is made
Telling == kind \in {"PowerProfiles", "NightLight", "TimeDate", "Device"}  \* the signal brings the value
Asking == kind \in {"TimeDate", "UserAccount", "ConnectionSettings", "Device"}  \* for a password
Replying == kind \in {"PowerProfiles", "UserAccount", "TimeDate", "ConnectionSettings", "Device"}

Event == events < MaxEvents /\ events' = events + 1

-----------------------------------------------------------------------------
(* Calls.  A call's slot that is assigned again drops the one before.      *)

Awaited(id) == client.load = id

\* A read that answers with what was there before a set that is made now.
Reading ==
  \/ \E i \in DOMAIN calls : calls[i].method = "GetAll" /\ Awaited(calls[i].id)
  \/ \E i \in DOMAIN inbox : inbox[i].type = "reply" /\ Awaited(inbox[i].call.id)

Send(method, value) ==
  Append(calls, [id |-> client.next, method |-> method, value |-> value, late |-> FALSE,
                 crossed |-> kind = "FixedFont" /\ method = "Set" /\ Reading])

\* load(), refresh(), fetchState(), reload(): the newest read counts.
Read(c) == client' = [c EXCEPT !.load = c.next, !.next = @ + 1] /\ calls' = Send("GetAll", None)
Keep(c) == client' = c /\ UNCHANGED calls

\* The first read waits for nothing, or for the watch to report the service; one that is waited for may fail.
Init ==
  /\ kind \in Kinds
  /\ service \in [up : BOOLEAN, value : Values]
  /\ \E known \in {None} \cup (IF Blocking /\ service.up THEN {service.value} ELSE {}) :
       /\ kind = "ConnectionSettings" /\ service.up => known # None
       /\ client = [shown |-> known, pending |-> None, inFlight |-> 0, cache |-> known,
                    load |-> IF Blocking \/ Watching THEN NoCall ELSE 1, set |-> NoCall,
                    next |-> IF Blocking \/ Watching THEN 1 ELSE 2]
       /\ missed = (kind = "TimeDate" /\ known = None)
  /\ calls = IF Blocking \/ Watching THEN <<>>
             ELSE <<[id |-> 1, method |-> "GetAll", value |-> None, late |-> FALSE, crossed |-> FALSE]>>
  /\ inbox = IF Watching /\ kind # "ConnectionSettings" THEN <<[type |-> "owner", up |-> service.up]>> ELSE <<>>
  /\ asked = None /\ events = 0

-----------------------------------------------------------------------------
(* Setting the value.                                                      *)

\* What a client shows of a set before the service answered.
UpdateAccount(v) == [client EXCEPT !.shown = v, !.pending = v, !.inFlight = @ + 1]
UpdateProfile(v) == [client EXCEPT !.shown = v, !.pending = v]
SetHere(v) ==
  CASE kind \in {"PowerProfiles", "NightLight", "FixedFont"} -> [client EXCEPT !.shown = v]
    [] kind = "UserAccount" -> UpdateAccount(v)
    [] kind = "ConnectionSettings" -> UpdateProfile(v)
    [] OTHER -> client

\* A value that is shown already is not set again, by those that show what they set; power profiles have to
\* be known, and a network's profile readable.
Set(v) ==
  /\ kind # "BatteryStatus" /\ Event
  /\ kind = "PowerProfiles" => client.shown # None
  /\ kind = "ConnectionSettings" => client.cache # None
  /\ kind \in {"PowerProfiles", "NightLight", "UserAccount", "ConnectionSettings"} => client.shown # v
  /\ client' = [SetHere(v) EXCEPT !.set = client.next, !.next = @ + 1]
  /\ calls' = Send("Set", v)
  /\ asked' = v
  /\ UNCHANGED <<kind, service, inbox, missed>>

-----------------------------------------------------------------------------
(* What the bus brings.                                                    *)

\* Mutant: what was set here is not laid over what is read.
ShowRead(c, v) == [c EXCEPT !.shown = v]
\* applyValues() lays the values set here over those read; cached() until one is read back.
AccountValue(c, v) == IF c.pending # None THEN c.pending ELSE v
ProfileValue(c, v) == IF c.pending # None /\ v # c.pending THEN c.pending ELSE v
Show(c, v) ==
  CASE kind = "UserAccount" -> [c EXCEPT !.shown = AccountValue(c, v)]
    [] kind = "ConnectionSettings" ->
         [c EXCEPT !.shown = ProfileValue(c, v), !.cache = v, !.pending = IF v = @ THEN None ELSE @]
    [] OTHER -> [c EXCEPT !.shown = v]

\* A profile whose settings could not be read is not readable; the others keep what they have.
Unread(c) == IF kind = "ConnectionSettings" THEN [c EXCEPT !.cache = None] ELSE c

GotRead(message) ==
  Keep(IF ~Awaited(message.call.id) THEN client
       ELSE IF message.value = None THEN Unread(client) ELSE Show(client, message.value))

Answered(c) ==
  [c EXCEPT !.inFlight = @ - 1, !.pending = IF c.inFlight = 1 THEN None ELSE @]

\* The reply to a set: what is refused shows the service's value again.
ActiveProfileSet(ok) == IF ok THEN Keep(client) ELSE Read(client)
TimezoneSet(v, ok) == Keep(IF ok THEN [client EXCEPT !.shown = v] ELSE client)
ProfileUpdated(v, ok) ==
  Keep(IF ok \/ client.pending # v THEN client
       ELSE [client EXCEPT !.pending = None, !.shown = IF client.cache = None THEN @ ELSE client.cache])

GotSet(message) ==
  LET v == message.call.value  ok == message.value # None  awaited == client.set = message.call.id IN
  CASE kind = "PowerProfiles" /\ awaited -> ActiveProfileSet(ok)
    [] kind = "TimeDate" /\ awaited -> TimezoneSet(v, ok)
    [] kind = "UserAccount" -> Read(Answered(client))
    [] kind = "ConnectionSettings" -> ProfileUpdated(v, ok)
    [] OTHER -> Keep(client)

\* A signal brings the value, or says that something changed.
Changed(v) == IF Telling THEN Keep([client EXCEPT !.shown = v]) ELSE Read(client)

OwnerChanged(up) ==
  CASE up -> Read(client)
    [] ~up /\ kind \in {"Appearance", "FixedFont"} -> Keep([client EXCEPT !.shown = None])
    [] ~up /\ kind = "ConnectionSettings" -> Keep([client EXCEPT !.cache = None, !.load = NoCall])
    [] ~up /\ kind = "NightLight" -> Keep(client)

Receive ==
  /\ inbox # <<>>
  /\ inbox' = Tail(inbox)
  /\ LET message == Head(inbox) IN
     CASE message.type = "owner" -> OwnerChanged(message.up)
       [] message.type = "changed" -> Changed(message.value)
       [] message.type = "reply" /\ message.call.method = "GetAll" -> GotRead(message)
       [] message.type = "reply" /\ message.call.method = "Set" -> GotSet(message)
  /\ UNCHANGED <<kind, service, asked, missed, events>>

-----------------------------------------------------------------------------
(* The service.                                                            *)

Reply(c, value) == <<[type |-> "reply", call |-> c, value |-> value]>>
\* No signal tells that a fixed font changed, only that something else did.
Signal(v) == IF v = service.value \/ kind = "FixedFont" THEN <<>> ELSE <<[type |-> "changed", value |-> v]>>
Said(messages) == inbox' = inbox \o messages

\* A read that counts, answered or not; and a value that is told of or, by the client of a fixed font, known.
Lacks(c, lacking) == missed' = IF Awaited(c.id) THEN lacking ELSE missed
Announced(v) == missed' = (missed /\ ~(Telling /\ v # service.value))

Carried(c) ==
  /\ service' = [service EXCEPT !.value = c.value]
  /\ IF kind = "FixedFont" THEN missed' = c.crossed ELSE Announced(c.value)
  /\ LET reply == IF Replying /\ ~c.late THEN Reply(c, c.value) ELSE <<>> IN
     Said(Signal(c.value) \o reply) \/ (kind = "TimeDate" /\ Said(reply \o Signal(c.value)))

\* Calls are done in order, but for those that wait for a password.  A read may fail, a set with a reply be
\* refused.
Serve ==
  /\ service.up
  /\ \E i \in DOMAIN calls :
       LET c == calls[i] IN
       /\ \A j \in 1..(i - 1) : Asking /\ calls[j].method = "Set"
       /\ calls' = RemoveAt(calls, i)
       /\ \/ c.method = "GetAll" /\ Said(Reply(c, service.value)) /\ Lacks(c, FALSE) /\ UNCHANGED <<service, events>>
          \/ c.method = "GetAll" /\ Event /\ Said(Reply(c, None)) /\ Lacks(c, TRUE) /\ UNCHANGED service
          \/ c.method = "Set" /\ Carried(c) /\ UNCHANGED events
          \/ c.method = "Set" /\ Replying /\ ~c.late /\ Event /\ Said(Reply(c, None)) /\ UNCHANGED <<service, missed>>
  /\ UNCHANGED <<kind, client, asked>>

\* The bus answers a set that takes too long; it may be carried out after that.
GiveUp ==
  /\ Replying /\ Event
  /\ \E i \in DOMAIN calls :
       /\ calls[i].method = "Set" /\ ~calls[i].late
       /\ calls' = [calls EXCEPT ![i].late = TRUE] /\ Said(Reply(calls[i], None))
  /\ UNCHANGED <<kind, service, client, asked, missed>>

\* Another program sets the value, or changes something the service announces the same way.
Others ==
  /\ service.up /\ Event
  /\ \/ \E v \in Values \ {service.value} :
          /\ service' = [service EXCEPT !.value = v] /\ Said(Signal(v))
          /\ IF kind = "FixedFont" THEN missed' = TRUE ELSE Announced(v)
     \/ kind \in {"FixedFont", "ConnectionSettings"}
        /\ Said(<<[type |-> "changed", value |-> service.value]>>) /\ UNCHANGED <<service, missed>>
  /\ UNCHANGED <<kind, client, calls, asked>>

ToldOwner(up) == Said(IF Watching THEN <<[type |-> "owner", up |-> up]>> ELSE <<>>)

Stop ==
  /\ service.up /\ Event
  /\ service' = [service EXCEPT !.up = FALSE] /\ ToldOwner(FALSE)
  /\ UNCHANGED <<kind, client, calls, asked, missed>>

\* The calls it did not get to are answered with an error, where an answer is waited for.
Lose ==
  /\ ~service.up /\ calls # <<>>
  /\ calls' = Tail(calls)
  /\ LET c == Head(calls) IN
     IF c.method = "GetAll" THEN Said(Reply(c, None)) /\ Lacks(c, TRUE)
     ELSE Said(IF Replying /\ ~c.late THEN Reply(c, None) ELSE <<>>) /\ UNCHANGED missed
  /\ UNCHANGED <<kind, service, client, asked, events>>

Start ==
  /\ ~service.up
  /\ \E v \in Values :
       /\ service' = [up |-> TRUE, value |-> v]
       /\ missed' = (missed \/ (~Watching /\ v # service.value))
  /\ ToldOwner(TRUE)
  /\ UNCHANGED <<kind, client, calls, asked, events>>

Next == (\E v \in Values : Set(v)) \/ Receive \/ Serve \/ GiveUp \/ Others \/ Stop \/ Lose \/ Start

Spec == Init /\ [][Next]_vars

-----------------------------------------------------------------------------
(* Properties.                                                             *)

\* Every variable holds a value of its kind.
TypeOK ==
  /\ service \in [up : BOOLEAN, value : Values]
  /\ client.shown \in Values \cup {None} /\ client.pending \in Values \cup {None}
  /\ client.inFlight \in 0..MaxEvents /\ client.load < client.next
  /\ \A i \in DOMAIN calls : calls[i].method \in {"GetAll", "Set"}

AtRest == calls = <<>> /\ inbox = <<>>

\* However sets, refusals, reads, signals and restarts cross on the bus, once nothing is under way the
\* client shows what the service has, but for a value written to a profile that another program wrote
\* over before it was read back, and as long as it missed none: a read that failed is not repeated, a
\* client that does not watch for its service (of power profiles, time, users, batteries) is not told that
\* it came back with another value, and nobody is told of a fixed font, but for the client that set it
\* while it was not reading.
ShowsService ==
  AtRest /\ service.up /\ ~missed =>
    \/ client.shown = service.value
    \/ kind = "ConnectionSettings" /\ client.pending # None

Unanswered ==
  {i \in DOMAIN calls : calls[i].method = "Set" /\ ~calls[i].late}
  \cup {i \in DOMAIN inbox : inbox[i].type = "reply" /\ inbox[i].call.method = "Set"}

\* "A setter shows its value at once and keeps it until the service has answered" (user_account.h:17),
\* or the bus in its place.
KeepsOwn == kind = "UserAccount" /\ Unanswered # {} => client.shown = asked
=============================================================================
