----------------------------- MODULE MCNetwork -----------------------------
(***************************************************************************)
(* The clients of NetworkManager, the keyring, BlueZ and PipeWire, side by *)
(* side: the first state picks one, and the behaviour is its own.  They    *)
(* share the variables; what each holds is in the INSTANCE, and one a part *)
(* has no use for is 0.                                                    *)
(***************************************************************************)
EXTENDS Naturals

CONSTANTS hci0, headset, p1, cafe, home, c1, s1, s2, s3, l1, j1, h1, g1, g2, r1, r2, speakers

VARIABLES part, service, client, requests, calls, inbox, past, astray, events

Cache == INSTANCE NetworkCache WITH
  Profiles <- {p1}, MaxEvents <- 2, nm <- service, unread <- past
Joining == INSTANCE Activations WITH
  Joins <- {j1}, Hidden <- {}, Creations <- {}, MaxEvents <- 2, nm <- service, handler <- requests
JoiningByName == INSTANCE Activations WITH
  Joins <- {j1}, Hidden <- {h1}, Creations <- {}, MaxEvents <- 0, nm <- service, handler <- requests
Sharing == INSTANCE Activations WITH
  Joins <- {}, Hidden <- {}, Creations <- {g1, g2}, MaxEvents <- 1, nm <- service, handler <- requests
Networks == INSTANCE RememberedNetworks WITH
  Networks <- {cafe, home}, Protected <- {home}, Clicks <- {c1}, MaxPaths <- 4, MaxEvents <- 3,
  nm <- service, handler <- requests, clicks <- calls, dropped <- past
Secrets == INSTANCE SecretReading WITH
  Loads <- {l1}, Items <- {s1, s2, s3}, Unkeyed <- {s3}, MaxEvents <- 2,
  keyring <- service, reads <- client, alive <- requests
Forms == INSTANCE ProfileForms WITH
  Requests <- {r1, r2}, Values <- {1, 2}, Plugins <- 2, MaxEvents <- 1,
  nm <- service, request <- requests, work <- calls
Discovery == INSTANCE BluezDiscovery WITH
  Adapters <- {hci0}, MaxStopRetries <- 2, MaxEvents <- 3,
  daemon <- service, manager <- client, started <- calls, adapter <- requests, sessions <- past
Pairing == INSTANCE BluezPairing WITH
  Devices <- {headset}, MaxEvents <- 4, daemon <- service, process <- client, running <- calls
Registry == INSTANCE AudioRegistry WITH
  Ids <- 1..5, Names <- {speakers}, MaxEvents <- 3, daemon <- service, outbox <- calls
\* Two profiles, with the speakers and the headphones, or with the microphone too.
Card == INSTANCE AudioRoutes WITH
  Devices <- <<{1}, {1, 2}>>, Routes <- <<{11, 12}, {21}>>, MaxEvents <- 2,
  daemon <- service, outbox <- calls, direct <- past
\* A network of two access points and an open one of its name, with two profiles of that name.
Rows == INSTANCE NetworkRows WITH
  Air <- [a \in 1..3 |-> [name |-> 1, class |-> IF a = 3 THEN 0 ELSE 2, strength |-> IF a = 1 THEN 30 ELSE 60, shown |-> TRUE]],
  Saved <- [p \in 1..2 |-> [type |-> "wireless", name |-> 1, class |-> 3 - p, used |-> p, here |-> p = 1, hotspot |-> FALSE]],
  MaxEvents <- 3, cache <- service, due <- client, rows <- requests, was <- past, failures <- calls
\* A wired profile, a hotspot of one's own and two VPNs.
VpnRows == INSTANCE NetworkRows WITH
  Air <- <<>>,
  Saved <- [p \in 1..4 |-> [type |-> IF p = 1 THEN "wired" ELSE IF p = 2 THEN "wireless" ELSE "vpn",
                           name |-> 2, class |-> 0, used |-> 1, here |-> TRUE, hotspot |-> p = 2]],
  MaxEvents <- 3, cache <- service, due <- client, rows <- requests, was <- past, failures <- calls

Init ==
  \/ part = "discovery" /\ Discovery!Init
  \/ part = "pairing" /\ Pairing!Init /\ requests = 0 /\ past = 0
  \/ /\ astray = 0
     /\ \/ part = "cache" /\ Cache!Init /\ requests = 0 /\ calls = 0
        \/ part = "joining" /\ Joining!Init
        \/ part = "joining by name" /\ JoiningByName!Init
        \/ part = "sharing" /\ Sharing!Init
        \/ part = "networks" /\ Networks!Init
        \/ part = "secrets" /\ Secrets!Init /\ past = 0
        \/ part = "forms" /\ Forms!Init
        \/ part = "registry" /\ Registry!Init /\ requests = 0 /\ past = 0
        \/ part = "card" /\ Card!Init /\ requests = 0
        \/ part = "rows" /\ Rows!Init /\ inbox = 0
        \/ part = "VPN rows" /\ VpnRows!Init /\ inbox = 0

Next ==
  \/ part = "discovery" /\ Discovery!Next /\ UNCHANGED part
  \/ part = "pairing" /\ Pairing!Next /\ UNCHANGED <<part, requests, past>>
  \/ part = "cache" /\ Cache!Next /\ UNCHANGED <<part, astray, requests, calls>>
  \/ part = "joining" /\ Joining!Next /\ UNCHANGED <<part, astray>>
  \/ part = "joining by name" /\ JoiningByName!Next /\ UNCHANGED <<part, astray>>
  \/ part = "sharing" /\ Sharing!Next /\ UNCHANGED <<part, astray>>
  \/ part = "networks" /\ Networks!Next /\ UNCHANGED <<part, astray>>
  \/ part = "secrets" /\ Secrets!Next /\ UNCHANGED <<part, astray, past>>
  \/ part = "forms" /\ Forms!Next /\ UNCHANGED <<part, astray>>
  \/ part = "registry" /\ Registry!Next /\ UNCHANGED <<part, astray, requests, past>>
  \/ part = "card" /\ Card!Next /\ UNCHANGED <<part, astray, requests>>
  \/ part = "rows" /\ Rows!Next /\ UNCHANGED <<part, astray, inbox>>
  \/ part = "VPN rows" /\ VpnRows!Next /\ UNCHANGED <<part, astray, inbox>>

vars == <<part, service, client, requests, calls, inbox, past, astray, events>>
Spec == Init /\ [][Next]_vars

-----------------------------------------------------------------------------
(* Properties: those of the parts, by what they are about.                 *)

\* Every variable holds a value of its kind.
TypeOK ==
  /\ part = "discovery" => Discovery!TypeOK
  /\ part = "pairing" => Pairing!TypeOK
  /\ part = "cache" => Cache!TypeOK
  /\ part = "joining" => Joining!TypeOK
  /\ part = "joining by name" => JoiningByName!TypeOK
  /\ part = "sharing" => Sharing!TypeOK
  /\ part = "networks" => Networks!TypeOK
  /\ part = "secrets" => Secrets!TypeOK
  /\ part = "forms" => Forms!TypeOK
  /\ part = "registry" => Registry!TypeOK
  /\ part = "card" => Card!TypeOK
  /\ part = "rows" => Rows!TypeOK
  /\ part = "VPN rows" => VpnRows!TypeOK

\* What the clients show is what the service has, once nothing is under way, however it restarts, fails and
\* signals meanwhile, but for readings that failed and are not repeated (MirrorsNetwork, HotspotShown say
\* what then shows): profiles, permissions, the hotspot, the networks that aged out; the adapters; sinks,
\* streams, the default, a card's routes and its nodes' volumes, which never go back to an older one. The rows of
\* the networks have one in use, each its best access point, the places they had, and failures while they count.
Mirrors ==
  /\ part = "cache" => Cache!MirrorsNetwork
  /\ part = "sharing" => Sharing!HotspotShown
  /\ part = "networks" => Networks!RemembersAged
  /\ part = "discovery" => Discovery!MirrorsBluez
  /\ part = "registry" => Registry!MirrorsPipeWire
  /\ part = "card" => Card!MirrorsCard /\ Card!NeverOlder
  /\ part = "rows" => Rows!InUseShown /\ Rows!PointsListed /\ Rows!PlaceKept
  /\ part = "VPN rows" => VpnRows!InUseShown /\ VpnRows!PlaceKept /\ VpnRows!FailuresShown

\* What is asked is answered, and once: a load of secrets, a form, a hotspot that failed, and each call of
\* BlueZ to the pairing agent. A profile that NetworkManager offers is on one row.
Answered ==
  /\ part = "sharing" => Sharing!HotspotTold
  /\ part = "secrets" => Secrets!SecretsAnswered
  /\ part = "forms" => Forms!FormsAnswered
  /\ part = "pairing" => Pairing!RequestsAnswered
  /\ part = "rows" => Rows!OfferedShown
  /\ part = "VPN rows" => VpnRows!OfferedShown

\* What was last asked for is done, whatever comes first: a network clicked is joined once it is listed, and
\* the profile made for it goes unless it connects; adapters discover; pairings have an agent or are cancelled.
AsAsked ==
  /\ part = "joining" => Joining!JoinsDecided
  /\ part = "joining by name" => JoiningByName!JoinsDecided
  /\ part = "networks" => Networks!JoinedOnceListed
  /\ part = "discovery" => Discovery!DiscoversAsAsked
  /\ part = "pairing" => Pairing!AgentAsAsked /\ Pairing!CancelsSent

\* A device is busy, and the user is asked about it, only while an operation on it is under way; a level is
\* watched only on an object that is there.
BusyWhile ==
  /\ part = "pairing" => Pairing!BusyWhileOperated /\ Pairing!PromptsEnd
  /\ part = "registry" => Registry!StreamBound

\* What was read or saved is whole: the secrets of a profile, the part of it a form edits and no other,
\* and the addresses of the device it is up on.
SavesWhole ==
  /\ part = "secrets" => Secrets!SecretsWhole
  /\ part = "forms" => Forms!SavesTheirOwn /\ Forms!AppliedToDevice
=============================================================================
