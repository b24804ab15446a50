----------------------------- MODULE AudioRoutes -----------------------------
(***************************************************************************)
(* A card's profile and routes, and the volume of its nodes, as Backend    *)
(* and AudioObject keep them (clients/audio/backend.cpp,                   *)
(* audio_object.cpp).  PipeWire says which of a card's parameters changed, *)
(* the client reads those again; a node's volume comes from the node and   *)
(* from its card's route, and is set through the route while one is known. *)
(***************************************************************************)
EXTENDS Naturals, Sequences, FiniteSetsExt, SequencesExt

CONSTANTS
  Devices,    \* of a card, under each of its profiles
  Routes,     \* of each device
  MaxEvents   \* bounds what users, other programs and jacks do

VARIABLES
  daemon,   \* the card: profile, the routes in use, those that are plugged in, the volumes, and each parameter's serial
  client,   \* the members of the card's and its nodes' objects
  outbox,   \* messages on their way to PipeWire, in order
  inbox,    \* messages on their way to the process, in order
  direct,   \* devices whose node was set past its route
  events    \* counts towards MaxEvents

vars == <<daemon, client, outbox, inbox, direct, events>>

None == 0
Params == <<"EnumProfile", "Profile", "EnumRoute", "Route">>
Nothing == [d \in {} |-> None]
Profiles == DOMAIN Devices

-----------------------------------------------------------------------------
(* Reading: what is read again, and what it changes.                       *)

Changed(c, serials) == SelectSeq(Params, LAMBDA p : c.serials[p] # serials[p])
Enumerate(params) == [i \in DOMAIN params |-> [type |-> "enum", param |-> params[i]]]
DeviceInfo(c, serials) ==
  LET again == ToSet(Changed(c, serials)) IN
  [c EXCEPT !.serials = serials,
            !.profiles = IF "EnumProfile" \in again THEN {} ELSE @,
            !.routes = IF "EnumRoute" \in again THEN Nothing ELSE @]

UpdateProfile(c, profile) ==
  [c EXCEPT !.profile = profile,
            !.active = IF c.profile # profile THEN Nothing ELSE @,
            !.routeVolume = IF c.profile # profile THEN Nothing ELSE @]

\* A current route: what the card keeps of it, and the node of its device, which takes its volume.
UpdateRoutes(c, active, volume) ==
  [c EXCEPT !.active = active @@ @, !.routeVolume = volume @@ @,
            !.nodes = [d \in DOMAIN @ |-> IF d \in DOMAIN volume THEN volume[d] ELSE @[d]]]

DeviceParam(c, m) ==
  CASE m.param = "EnumProfile" -> [c EXCEPT !.profiles = @ \cup m.value]
    [] m.param = "Profile" -> UpdateProfile(c, m.value)
    [] m.param = "EnumRoute" -> [c EXCEPT !.routes = m.value @@ @]
    [] m.param = "Route" -> UpdateRoutes(c, m.value.active, m.value.volume)

\* ports(): the routes of a node's device; activePortIndex(): the one in use.
Ports(c, d) == Routes[d] \cap DOMAIN c.routes
ActivePort(c, d) == {r \in Ports(c, d) : d \in DOMAIN c.active /\ c.active[d] = r}

NodeEvent(c, m) ==
  [c EXCEPT !.nodes = CASE m.type = "add" -> @ @@ (m.device :> None)
                        [] m.type = "remove" -> [d \in DOMAIN @ \ {m.device} |-> @[d]]
                        [] OTHER -> IF m.device \in DOMAIN @ THEN [@ EXCEPT ![m.device] = m.volume] ELSE @]

Receive ==
  /\ inbox # <<>>
  /\ LET m == Head(inbox) IN
       /\ client' = CASE m.type = "info" -> DeviceInfo(client, m.serials)
                      [] m.type = "param" -> DeviceParam(client, m)
                      [] OTHER -> NodeEvent(client, m)
       /\ outbox' = CASE m.type = "info" -> outbox \o Enumerate(Changed(client, m.serials))
                      [] m.type = "add" -> Append(outbox, [type |-> "subscribe", device |-> m.device])
                      [] OTHER -> outbox
  /\ inbox' = Tail(inbox)
  /\ UNCHANGED <<daemon, direct, events>>

-----------------------------------------------------------------------------
(* Setting.  A volume is a number, each newer than the last.               *)

Event == events < MaxEvents /\ events' = events + 1

Ask(message) == outbox' = Append(outbox, message) /\ UNCHANGED <<daemon, client, inbox, direct>>

\* setVolume(), setMuted(): through the card's route, which is saved with it, or else to the node.
SetNodeParam(d) ==
  IF d \in DOMAIN client.active /\ d \in DOMAIN client.routeVolume
  THEN [type |-> "route", device |-> d, route |-> client.active[d], loud |-> TRUE]
  ELSE [type |-> "node", device |-> d]

SetVolume == Event /\ \E d \in DOMAIN client.nodes : client.nodes[d] # None /\ Ask(SetNodeParam(d))
SetActivePortIndex ==
  /\ Event
  /\ \E d \in DOMAIN client.nodes : \E r \in Ports(client, d) :
       client.routes[r] /\ Ask([type |-> "route", device |-> d, route |-> r, loud |-> FALSE])
SetActiveProfileIndex ==
  /\ Event
  /\ \E p \in client.profiles : Ask([type |-> "profile", profile |-> p])

-----------------------------------------------------------------------------
(* PipeWire: each change says which parameters are to be read again.       *)

Touched(d, params) == [d EXCEPT !.serials = [p \in DOMAIN @ |-> IF p \in params THEN 1 - @[p] ELSE @[p]]]
Info(d) == [type |-> "info", serials |-> d.serials]
Props(d, device) == [type |-> "props", device |-> device, volume |-> d.volume[device]]
Removed(devices) == [i \in DOMAIN devices |-> [type |-> "remove", device |-> devices[i]]]
AddedNodes(devices) == [i \in DOMAIN devices |-> [type |-> "add", device |-> devices[i]]]

\* A route in use, or its volume, changes: the card and the node say so in either order.
Play(device, route, plugged, loud, params) ==
  LET now == Touched([daemon EXCEPT !.active[device] = route, !.plugged = plugged, !.latest = @ + 1,
                                    !.volume[device] = IF loud \/ route # daemon.active[device] THEN daemon.latest ELSE @], params)
      props == IF device \in daemon.subscribed THEN <<Props(now, device)>> ELSE <<>> IN
  /\ daemon' = now
  /\ \/ inbox' = inbox \o <<Info(now)>> \o props
     \/ inbox' = inbox \o props \o <<Info(now)>>

ToProfile(p) ==
  LET before == Devices[daemon.profile]
      fresh == Devices[p] \ before
      now == Touched([daemon EXCEPT !.profile = p, !.subscribed = @ \cap Devices[p],
                        !.active = [d \in Devices[p] |-> IF d \in before THEN @[d]
                                      ELSE CHOOSE r \in Routes[d] : r \in daemon.plugged \/ Routes[d] \cap daemon.plugged = {}],
                        !.volume = [d \in Devices[p] |-> IF d \in before THEN @[d] ELSE daemon.latest],
                        !.latest = @ + 1], {"Profile", "Route"}) IN
  /\ daemon' = now
  /\ \/ inbox' = inbox \o Removed(SetToSeq(before \ Devices[p])) \o <<Info(now)>> \o AddedNodes(SetToSeq(fresh))
     \/ inbox' = inbox \o Removed(SetToSeq(before \ Devices[p])) \o AddedNodes(SetToSeq(fresh)) \o <<Info(now)>>

Value(p) ==
  CASE p = "EnumProfile" -> Profiles
    [] p = "Profile" -> daemon.profile
    [] p = "EnumRoute" -> [r \in UNION {Routes[d] : d \in DOMAIN Routes} |-> r \in daemon.plugged]
    [] p = "Route" -> [active |-> daemon.active, volume |-> daemon.volume]

Serve ==
  /\ outbox # <<>> /\ outbox' = Tail(outbox)
  /\ LET m == Head(outbox) IN
     CASE m.type = "enum" ->
            /\ inbox' = Append(inbox, [type |-> "param", param |-> m.param, value |-> Value(m.param)])
            /\ UNCHANGED <<daemon, direct>>
       [] m.type = "subscribe" /\ m.device \in Devices[daemon.profile] ->
            /\ daemon' = [daemon EXCEPT !.subscribed = @ \cup {m.device}]
            /\ inbox' = Append(inbox, Props(daemon, m.device)) /\ UNCHANGED direct
       [] m.type = "route" /\ m.device \in Devices[daemon.profile] ->
            Play(m.device, m.route, daemon.plugged, m.loud, {"Route"}) /\ UNCHANGED direct
       [] m.type = "node" /\ m.device \in Devices[daemon.profile] ->
            /\ daemon' = [daemon EXCEPT !.latest = @ + 1]
            /\ inbox' = Append(inbox, [type |-> "props", device |-> m.device, volume |-> daemon.latest])
            /\ direct' = direct \cup {m.device}
       [] m.type = "profile" /\ m.profile # daemon.profile ->
            ToProfile(m.profile) /\ direct' = direct \cap Devices[m.profile]
       [] OTHER -> UNCHANGED <<daemon, inbox, direct>>
  /\ UNCHANGED <<client, events>>

\* A jack: the card goes to the route that was plugged in, or to one that is left.
Jack ==
  /\ Event
  /\ \E d \in Devices[daemon.profile] : \E r \in Routes[d] :
       LET plugged == IF r \in daemon.plugged THEN daemon.plugged \ {r} ELSE daemon.plugged \cup {r}
           left == Routes[d] \cap plugged IN
       \E to \in IF r \in plugged THEN {r} ELSE IF left # {} THEN left ELSE {r} :
         Play(d, to, plugged, FALSE, {"EnumRoute", "Route"})
  /\ UNCHANGED <<client, outbox, direct>>

Others ==
  /\ Event
  /\ \/ \E d \in Devices[daemon.profile] : Play(d, daemon.active[d], daemon.plugged, TRUE, {"Route"}) /\ UNCHANGED direct
     \/ \E p \in Profiles \ {daemon.profile} : ToProfile(p) /\ direct' = direct \cap Devices[p]
  /\ UNCHANGED <<client, outbox>>

-----------------------------------------------------------------------------
(* The card and its nodes as they are announced.                           *)

FirstProfile == CHOOSE p \in Profiles : TRUE
Init ==
  /\ daemon = [profile |-> FirstProfile, plugged |-> UNION {Routes[d] : d \in DOMAIN Routes}, subscribed |-> {},
               active |-> [d \in Devices[FirstProfile] |-> CHOOSE r \in Routes[d] : TRUE],
               volume |-> [d \in Devices[FirstProfile] |-> 1], latest |-> 2, serials |-> [p \in ToSet(Params) |-> 0]]
  /\ client = [serials |-> [p \in ToSet(Params) |-> 2], profile |-> None, profiles |-> {}, routes |-> Nothing,
               active |-> Nothing, routeVolume |-> Nothing, nodes |-> Nothing]
  /\ outbox = <<>> /\ direct = {} /\ events = 0
  /\ inbox \in {<<Info(daemon)>> \o AddedNodes(SetToSeq(Devices[FirstProfile])),
                AddedNodes(SetToSeq(Devices[FirstProfile])) \o <<Info(daemon)>>}

Next == Receive \/ SetVolume \/ SetActivePortIndex \/ SetActiveProfileIndex \/ Serve \/ Jack \/ Others

Spec == Init /\ [][Next]_vars

-----------------------------------------------------------------------------
(* Properties.                                                             *)

\* Every variable holds a value of its kind.
TypeOK ==
  /\ client.profile \in Profiles \cup {None} /\ client.profiles \subseteq Profiles
  /\ DOMAIN client.active = DOMAIN client.routeVolume
  /\ \A d \in DOMAIN client.active : client.active[d] \in Routes[d]
  /\ DOMAIN client.nodes \subseteq DOMAIN Routes

\* Once nothing is under way the objects have the card's profile, the route in use of each of its devices, which
\* routes can be chosen, and a port in use and a volume for each node, whoever set it; the volume
\* of a node that was set past its route, as happens while its route is not known, is left out.
MirrorsCard ==
  inbox = <<>> /\ outbox = <<>> =>
    /\ client.profile = daemon.profile /\ client.profiles = Profiles
    /\ \A d \in Devices[daemon.profile] :
         client.active[d] = daemon.active[d] /\ client.routeVolume[d] = daemon.volume[d]
    /\ \A r \in DOMAIN client.routes : client.routes[r] = (r \in daemon.plugged)
    /\ DOMAIN client.nodes = Devices[daemon.profile]
    /\ \A d \in DOMAIN client.nodes :
         ActivePort(client, d) = {daemon.active[d]} /\ (d \notin direct => client.nodes[d] = daemon.volume[d])

\* A node never goes back to an older volume: none on its way is older than the one it has, whether it comes
\* from the node or from its card's route.
NeverOlder ==
  \A d \in DOMAIN client.nodes, i \in DOMAIN inbox :
    d \notin direct =>
      /\ inbox[i].type = "props" /\ inbox[i].device = d => inbox[i].volume >= client.nodes[d]
      /\ inbox[i].type = "param" /\ inbox[i].param = "Route" /\ d \in DOMAIN inbox[i].value.volume =>
           inbox[i].value.volume[d] >= client.nodes[d]
=============================================================================
