-------------------------- MODULE RememberedNetworks --------------------------
(***************************************************************************)
(* Wi-Fi networks in range of one adapter.  NetworkManager drops an access *)
(* point minutes after the last scan that saw it; Client                   *)
(* (clients/networkmanager/client.cpp) remembers it until a scan lists its *)
(* network again or two have not, and Handler (handler.cpp) joins a        *)
(* remembered network once a scan lists it.                                *)
(***************************************************************************)
EXTENDS Naturals, Sequences, FiniteSetsExt, SequencesExt

CONSTANTS
  Networks,    \* by what tells them apart: BSSID, SSID and security
  Protected,   \* those that need a password
  Clicks,      \* calls of addAndActivateConnection()
  MaxPaths,    \* bounds the access points NetworkManager announces
  MaxEvents    \* bounds scans of its own, switches and restarts

VARIABLES
  nm,        \* NetworkManager: whether the adapter keeps access points, those listed, paths used, a scan asked for
  client,    \* Client's cache
  handler,   \* Handler's pending joins, prompts, and a scan asked for before Client was ready
  inbox,     \* messages on their way to the process, in order
  clicks,    \* what became of each click
  dropped,   \* the access points dropped for their age and how many scans have missed them since
  events     \* counts towards MaxEvents

vars == <<nm, client, handler, inbox, clicks, dropped, events>>

Event == events < MaxEvents /\ events' = events + 1

Point(path, network) == [path |-> path, network |-> network]
Aged(path, network, missed) == [path |-> path, network |-> network, missed |-> missed]

Init ==
  /\ \E n \in Networks :
       /\ nm = [keeps |-> TRUE, listed |-> {Point(1, n)}, paths |-> 1, scan |-> FALSE]
       /\ client = [ready |-> TRUE, keeps |-> TRUE, listed |-> {Point(1, n)}, remembered |-> {}, changed |-> FALSE]
  /\ handler = [pending |-> {}, prompts |-> {}, deferred |-> FALSE]
  /\ inbox = <<>> /\ clicks = [c \in Clicks |-> [state |-> "none", joins |-> 0]]
  /\ dropped = {} /\ events = 0

-----------------------------------------------------------------------------
(* Client: k is its cache.                                                 *)

Listed(k, path) == {x \in k.listed : x.path = path}
Remembered(k, path) == {x \in k.remembered : x.path = path}

\* listedAccessPoint(): the one with the same identity.
ListedAccessPoint(k, network) == {x \in k.listed : x.network = network}
NetworksOf(points) == {x.network : x \in points}

\* keepsAccessPoints(): not when Wi-Fi is off, the device down or asleep, or a hotspot.
KeepsAccessPoints(k) == k.keeps

\* rememberAccessPoint(): dropped for its age by an adapter that keeps access points.
RememberAccessPoint(k, x, aged) ==
  [k EXCEPT !.remembered = IF aged /\ KeepsAccessPoints(k) THEN @ \cup {Aged(x.path, x.network, 0)} ELSE @]

MissedEnough(r) == r.missed + 1 >= 2

ScanFinished(k) ==
  [k EXCEPT !.remembered = {Aged(r.path, r.network, r.missed + 1) :
                              r \in {q \in @ : ~MissedEnough(q) /\ q.network \notin NetworksOf(k.listed)}}]

PruneRemembered(k) == [k EXCEPT !.remembered = IF KeepsAccessPoints(k) THEN @ ELSE {}]

-----------------------------------------------------------------------------
(* Handler: s is its members, what became of the clicks, and whether       *)
(* NetworkManager is asked to scan.                                        *)

Now == [handler |-> handler, clicks |-> clicks, scan |-> nm.scan]

Becomes(s, c, state) ==
  [s EXCEPT !.clicks[c].state = state, !.clicks[c].joins = IF state = "joined" THEN @ + 1 ELSE @]

\* Deferred until the client is ready; nothing scans while Wi-Fi is off.
RequestScan(k, s) ==
  IF k.ready THEN [s EXCEPT !.scan = @ \/ k.keeps] ELSE [s EXCEPT !.handler.deferred = TRUE]

\* addAndActivateWireless(): a password is asked for before anything is added.
JoinListed(s, c, x, asks) ==
  IF asks /\ x.network \in Protected
  THEN Becomes([s EXCEPT !.handler.prompts = @ \cup {[click |-> c, path |-> x.path]}], c, "prompting")
  ELSE Becomes(s, c, "joined")

\* scannedAccessPoint(): the path's own, or the one that lists a remembered path's network.
Scanned(k, path) == Listed(k, path) \cup UNION {ListedAccessPoint(k, r.network) : r \in Remembered(k, path)}

\* withScannedAccessPoint(), of what no scan lists.
Await(k, s, c, r, asks) ==
  Becomes(RequestScan(k, [s EXCEPT !.handler.pending =
            @ \cup {[click |-> c, path |-> r.path, network |-> r.network, asks |-> asks]}]), c, "pending")

Join(k, s, c, path, asks) ==
  IF Scanned(k, path) # {} THEN JoinListed(s, c, CHOOSE x \in Scanned(k, path) : TRUE, asks)
  ELSE IF Remembered(k, path) # {} THEN Await(k, s, c, CHOOSE r \in Remembered(k, path) : TRUE, asks)
  ELSE Becomes(s, c, "gone")

Unpend(s, pending) == [s EXCEPT !.handler.pending = @ \ {pending}]

\* joinScanned(), of one of the pending: joined, dropped when no longer remembered, or left.
JoinScanned(k, s, pending) ==
  LET listed == ListedAccessPoint(k, pending.network) IN
  IF listed # {} THEN JoinListed(Unpend(s, pending), pending.click, CHOOSE x \in listed : TRUE, pending.asks)
  ELSE IF Remembered(k, pending.path) # {} THEN s ELSE Becomes(Unpend(s, pending), pending.click, "gone")

Do(s) == handler' = s.handler /\ clicks' = s.clicks /\ nm' = [nm EXCEPT !.scan = s.scan]

\* On what the list shows: what is listed, or remembered.
Click(c) ==
  /\ clicks[c].state = "none"
  /\ \E x \in client.listed \cup client.remembered : Do(Join(client, Now, c, x.path, TRUE))
  /\ UNCHANGED <<client, inbox, dropped, events>>

\* The shell asks for the password and joins, or there is no shell: NetworkManager will ask.
Prompted(p) ==
  LET s == [Now EXCEPT !.handler.prompts = @ \ {p}] IN
  /\ Do(Becomes(s, p.click, "shell")) \/ Do(Join(client, s, p.click, p.path, FALSE))
  /\ UNCHANGED <<client, inbox, dropped, events>>

\* The client's 0 ms timer, then update().
Update ==
  /\ client.changed
  /\ client' = [PruneRemembered(client) EXCEPT !.changed = FALSE]
  /\ Do(FoldSet(LAMBDA pending, s : JoinScanned(client', s, pending), Now, handler.pending))
  /\ UNCHANGED <<inbox, dropped, events>>

\* A scan asked for meanwhile is asked for as the client becomes ready.
Read(k) ==
  /\ client' = k
  /\ Do(IF handler.deferred THEN RequestScan(k, [Now EXCEPT !.handler.deferred = FALSE]) ELSE Now)

Signal(k, message) ==
  CASE message.type = "added" -> [k EXCEPT !.listed = @ \cup {message.point}]
    [] message.type = "removed" ->
         RememberAccessPoint([k EXCEPT !.listed = @ \ {message.point}], message.point, message.aged)
    [] message.type = "scan" -> ScanFinished(k)
    [] message.type = "keeps" -> [k EXCEPT !.keeps = message.keeps]
    [] message.type = "reset" -> [k EXCEPT !.ready = FALSE, !.keeps = FALSE, !.listed = {}, !.remembered = {}]

Receive ==
  /\ inbox # <<>>
  /\ inbox' = Tail(inbox)
  /\ LET message == Head(inbox) IN
     IF message.type = "read" THEN Read([message.cache EXCEPT !.changed = TRUE])
     ELSE client' = [Signal(client, message) EXCEPT !.changed = TRUE] /\ UNCHANGED <<nm, handler, clicks>>
  /\ UNCHANGED <<dropped, events>>

Process == Receive \/ Update \/ (\E c \in Clicks : Click(c)) \/ (\E p \in handler.prompts : Prompted(p))

-----------------------------------------------------------------------------
(* NetworkManager.                                                         *)

Tell(messages) == inbox' = inbox \o messages
Gone(x, aged) == [type |-> "removed", point |-> x, aged |-> aged]
News(points, wrap(_)) == SetToSeq({wrap(x) : x \in points})

\* Not seen for minutes.
Age ==
  /\ nm.keeps /\ Event
  /\ \E x \in nm.listed :
       /\ nm' = [nm EXCEPT !.listed = @ \ {x}]
       /\ dropped' = dropped \cup {Aged(x.path, x.network, 0)}
       /\ Tell(<<Gone(x, TRUE)>>)
  /\ UNCHANGED <<client, handler, clicks>>

\* A scan, asked for or not, ends with what it found.
Scan ==
  /\ nm.keeps
  /\ (nm.scan /\ UNCHANGED events) \/ Event
  /\ \E found \in SUBSET Networks :
       LET lost == {x \in nm.listed : x.network \notin found}
           new == found \ NetworksOf(nm.listed)
           points == {Point(nm.paths + 1, n) : n \in new} IN
       /\ Cardinality(new) <= 1 /\ nm.paths + Cardinality(new) <= MaxPaths
       /\ nm' = [nm EXCEPT !.listed = (@ \ lost) \cup points, !.paths = @ + Cardinality(new), !.scan = FALSE]
       /\ dropped' = {Aged(d.path, d.network, d.missed + 1) : d \in {e \in dropped : e.missed = 0 /\ e.network \notin found}}
       /\ Tell(News(lost, LAMBDA x : Gone(x, FALSE)) \o News(points, LAMBDA x : [type |-> "added", point |-> x])
               \o <<[type |-> "scan"]>>)
  /\ UNCHANGED <<client, handler, clicks>>

\* Wi-Fi goes off, to sleep, or runs a hotspot: its access points go, long after their scan or not.
SwitchOff ==
  /\ nm.keeps /\ Event
  /\ nm' = [nm EXCEPT !.keeps = FALSE, !.listed = {}, !.scan = FALSE]
  /\ dropped' = {}
  /\ \E aged, first \in BOOLEAN :
       LET off == <<[type |-> "keeps", keeps |-> FALSE]>>  gone == News(nm.listed, LAMBDA x : Gone(x, aged)) IN
       Tell(IF first THEN off \o gone ELSE gone \o off)
  /\ UNCHANGED <<client, handler, clicks>>

\* That takes longer than a turn of the process's loop.
SwitchOn ==
  /\ ~nm.keeps /\ inbox = <<>> /\ ~client.changed
  /\ nm' = [nm EXCEPT !.keeps = TRUE]
  /\ Tell(<<[type |-> "keeps", keeps |-> TRUE]>>)
  /\ UNCHANGED <<client, handler, clicks, dropped, events>>

Restart ==
  /\ Event
  /\ nm' = [nm EXCEPT !.scan = FALSE]
  /\ dropped' = {}
  /\ Tell(<<[type |-> "reset"], [type |-> "read", cache |-> [ready |-> TRUE, keeps |-> nm.keeps, listed |-> nm.listed,
                                                            remembered |-> {}, changed |-> FALSE]]>>)
  /\ UNCHANGED <<client, handler, clicks>>

Next == Process \/ Age \/ Scan \/ SwitchOff \/ SwitchOn \/ Restart

Spec == Init /\ [][Next]_vars

-----------------------------------------------------------------------------
(* Properties.                                                             *)

AtRest == inbox = <<>> /\ ~client.changed

\* Every variable holds a value of its kind.
TypeOK ==
  /\ NetworksOf(nm.listed) \subseteq Networks /\ nm.paths \in 1 .. MaxPaths /\ nm.scan \in BOOLEAN
  /\ Cardinality(nm.listed) = Cardinality(NetworksOf(nm.listed))
  /\ \A r \in client.remembered : r.path \in 1 .. MaxPaths /\ r.network \in Networks /\ r.missed \in {0, 1}
  /\ \A p \in handler.pending : p.click \in Clicks /\ p.network \in Networks

\* What is remembered is what aged out since the adapter last went off and NetworkManager last started,
\* and no scan has listed again nor two have missed; what is listed is what NetworkManager lists.
RemembersAged ==
  AtRest /\ client.ready => /\ client.keeps = nm.keeps /\ client.listed = nm.listed
                            /\ client.remembered = dropped

\* A click joins at most once, and a remembered network that was clicked waits only while it is
\* remembered and not listed: then it is joined, or let go of; a scan asked for is asked for.
JoinedOnceListed ==
  /\ \A c \in Clicks : clicks[c].joins <= 1
  /\ AtRest /\ client.ready =>
       /\ ~handler.deferred
       /\ \A p \in handler.pending : /\ Remembered(client, p.path) # {} /\ ListedAccessPoint(client, p.network) = {}
                                     /\ clicks[p.click].state = "pending"
=============================================================================
