----------------------------- MODULE NetworkRows -----------------------------
(***************************************************************************)
(* NetworkModel (clients/networkmanager/network_model.cpp): the rows of    *)
(* the network lists, worked out from the Client's cache some time after   *)
(* it changes.  One Wi-Fi adapter is modelled, one wired, and VPNs.        *)
(* Several access points are one network, several profiles can be for one, *)
(* and what the cache says at once need not fit together.                  *)
(***************************************************************************)
EXTENDS Naturals, SequencesExt

CONSTANTS
  Air,        \* access points: their name, class of security, strength, and whether they have rows
  Saved,      \* profiles: their type, name and class, when they were last used, and whether they are for this adapter
  MaxEvents   \* bounds what changes in NetworkManager

VARIABLES
  cache,      \* what the Client has
  due,        \* m_changedTimer runs
  rows, was,  \* m_items, and what it was before the last rebuild
  failures,   \* m_vpnFailures: the profiles with one
  events      \* counts towards MaxEvents

vars == <<cache, due, rows, was, failures, events>>

Points == DOMAIN Air
Profiles == DOMAIN Saved
OfType(type) == {p \in Profiles : Saved[p].type = type}
NoPoint == 0
NoProfile == 0

\* NetworkManager offers no profile for a network that it does not list.
Offerable(listed) == {p \in OfType("wireless") : \E a \in listed : Air[a].name = Saved[p].name}

-----------------------------------------------------------------------------
(* addWireless(): the networks, and what stands for each.                  *)

Sorted(paths) == SetToSortSeq(paths, <)

\* Hidden networks, the adapter's own hotspot and the other half of a transition network have none.
Shown(points) == {a \in points : Air[a].shown}
Heard(c) == Shown(c.listed \cup c.remembered)
NetworkAt(a) == [name |-> Air[a].name, class |-> Air[a].class]

\* profileClass() and lastUsed() of a profile.
ProfileClass(p) == Saved[p].class
LastUsed(p) == Saved[p].used

NetworksHeard(c) == {NetworkAt(a) : a \in Heard(c)}
Listed(c, network) == \E a \in Shown(c.listed) : NetworkAt(a) = network

\* In the order their first access points are listed, or remembered.
NetworkSeq(c) ==
  LET points == Sorted(Shown(c.listed)) \o Sorted(Shown(c.remembered))
      First(i) == \A j \in 1..(i - 1) : NetworkAt(points[j]) # NetworkAt(points[i])
      first == Sorted({i \in DOMAIN points : First(i)}) IN
  [n \in DOMAIN first |-> NetworkAt(points[first[n]])]

\* The access point in use; or the strongest listed, the first of them; or remembered.
PointOf(c, network) ==
  LET points == {a \in Shown(IF Listed(c, network) THEN c.listed ELSE c.remembered) : NetworkAt(a) = network} IN
  IF c.point \in Heard(c) /\ NetworkAt(c.point) = network THEN c.point
  ELSE Min({a \in points : \A b \in points : Air[b].strength <= Air[a].strength})

\* profilesFor(), and laterProfilesFor(): of a network that may be back.
ProfilesFor(c, type, active) ==
  SelectSeq(Sorted(c.offered) \o IF active \in {NoProfile} \cup c.offered THEN <<>> ELSE <<active>>,
            LAMBDA p : p \in c.readable \cap OfType(type))
Later(c) ==
  {p \in c.readable \cap OfType("wireless") : Saved[p].here /\ p \notin Range(ProfilesFor(c, "wireless", c.active))}
Candidates(c) ==
  SelectSeq(ProfilesFor(c, "wireless", c.active) \o Sorted(Later(c)), LAMBDA p : ~Saved[p].hotspot)

\* The network of a profile: the one in use; of its name and class; or the only one of its name.
NetworksOf(c, p) ==
  LET named == {n \in NetworksHeard(c) : n.name = Saved[p].name /\ (p \in Later(c) => ~Listed(c, n))}
      exact == {n \in named : n.class = ProfileClass(p)} IN
  IF p = c.active /\ c.point \in Heard(c) THEN {NetworkAt(c.point)}
  ELSE IF exact # {} THEN exact
  ELSE IF Cardinality(named) = 1 THEN named
  ELSE {}

\* Of its profiles: the active one, or the one used last.
ProfileOf(c, network) ==
  LET list == SelectSeq(Candidates(c), LAMBDA p : network \in NetworksOf(c, p))
      last == {i \in DOMAIN list : \A j \in DOMAIN list : LastUsed(list[j]) <= LastUsed(list[i])} IN
  IF list = <<>> THEN NoProfile
  ELSE IF c.active \in Range(list) THEN c.active
  ELSE list[Min(last)]

Row(c, key, point, profile, inUse) ==
  [key |-> key, point |-> point, profile |-> profile, state |-> IF inUse THEN c.state ELSE "deactivated",
   details |-> inUse /\ c.state = "activated", message |-> FALSE]

InUse(c, point, profile) ==
  c.active # NoProfile /\ IF profile = NoProfile THEN point = c.point ELSE profile = c.active
WirelessRow(c, network) ==
  LET profile == ProfileOf(c, network) IN
  Row(c, <<"network", network>>, PointOf(c, network), profile, InUse(c, PointOf(c, network), profile))

\* Connected to a network that is not listed, a hidden one for instance.
Unlisted(c) ==
  IF c.active \in Range(Candidates(c)) /\ NetworksOf(c, c.active) = {}
  THEN <<Row(c, <<"profile", c.active>>, c.point, c.active, TRUE)>> ELSE <<>>

AddWireless(c) ==
  LET networks == NetworkSeq(c) IN [n \in DOMAIN networks |-> WirelessRow(c, networks[n])] \o Unlisted(c)

AddWired(c) ==
  LET list == ProfilesFor(c, "wired", c.wired) IN
  [i \in DOMAIN list |-> [Row(c, <<"profile", list[i]>>, NoPoint, list[i], FALSE) EXCEPT
                            !.state = IF list[i] = c.wired THEN "activated" ELSE "deactivated",
                            !.details = list[i] = c.wired]]

AddVpns(c, failing) ==
  LET list == Sorted(c.readable \cap OfType("vpn")) IN
  [i \in DOMAIN list |-> [Row(c, <<"vpn", list[i]>>, NoPoint, list[i], FALSE) EXCEPT
                            !.state = c.vpn[list[i]], !.details = c.vpn[list[i]] = "activated",
                            !.message = list[i] \in failing]]

-----------------------------------------------------------------------------
(* rebuild(): rows that stay keep their place; new ones come last.         *)

KeysOf(list) == {list[i].key : i \in DOMAIN list}
Arrange(old, items) ==
  LET Item(key) == items[CHOOSE i \in DOMAIN items : items[i].key = key]
      Stays(row) == row.key \in KeysOf(items)
      New(row) == row.key \notin KeysOf(old)
      staying == SelectSeq(old, Stays) IN
  [i \in DOMAIN staying |-> Item(staying[i].key)] \o SelectSeq(items, New)

Rows(c, failing) == AddWired(c) \o AddWireless(c) \o AddVpns(c, failing)

Rebuild ==
  /\ due /\ due' = FALSE
  /\ rows' = Arrange(rows, Rows(cache, failures)) /\ was' = rows
  /\ UNCHANGED <<cache, failures, events>>

-----------------------------------------------------------------------------
(* listItems(): the rows of a type as a view shows them.                   *)

TypeOf(row) ==
  IF row.key[1] = "vpn" THEN "vpn" ELSE IF row.profile \in OfType("wired") THEN "wired" ELSE "wireless"
NameOf(row) == IF row.profile # NoProfile THEN Saved[row.profile].name ELSE Air[row.point].name

\* The signal counts by the icon's step, so that rows move only when what they show changes.
StrengthStep(strength) == Min({step \in {0, 33, 66, 100} : strength <= step})

\* What is activated comes first, then by how far along it is: activating, activated, deactivated.
Rank(row) ==
  << IF row.state = "activated" THEN 1 ELSE 0,
     CASE row.state = "activating" -> 4 [] row.state = "activated" -> 3 [] OTHER -> 1,
     IF row.profile # NoProfile THEN 1 ELSE 0,
     IF row.profile # NoProfile THEN LastUsed(row.profile) ELSE 0,
     IF row.point # NoPoint THEN StrengthStep(Air[row.point].strength) ELSE 0 >>
Higher(a, b) == \E k \in DOMAIN a : a[k] > b[k] /\ \A j \in 1..(k - 1) : a[j] = b[j]

\* A VPN keeps its place by name, whether it is up or not; rows that compare the same keep theirs.
ListItems(type) ==
  LET Before(i, j) ==
        LET a == Rank(rows[i])  b == Rank(rows[j]) IN
        IF type # "vpn" /\ a # b THEN Higher(a, b)
        ELSE NameOf(rows[i]) < NameOf(rows[j]) \/ (NameOf(rows[i]) = NameOf(rows[j]) /\ i < j) IN
  SetToSortSeq({i \in DOMAIN rows : TypeOf(rows[i]) = type}, Before)

-----------------------------------------------------------------------------
(* What changes; each change starts the timer.                             *)

Event == events < MaxEvents /\ events' = events + 1 /\ due' = TRUE /\ UNCHANGED <<rows, was>>

\* Access points come and go, or are remembered as they age out, and NetworkManager offers other profiles.
AccessPointsChanged ==
  /\ Event
  /\ \E listed \in SUBSET Points :
     \E remembered \in SUBSET ((cache.listed \cup cache.remembered) \ listed), offered \in SUBSET Offerable(listed) :
       cache' = [cache EXCEPT !.listed = listed, !.remembered = remembered,
                              !.offered = (@ \cap OfType("wired")) \cup offered]
  /\ UNCHANGED failures

\* An adapter's properties, which come one signal at a time.
DeviceChanged ==
  /\ Event
  /\ \/ \E active \in OfType("wireless") \cup {NoProfile}, state \in {"activating", "activated"} :
          cache' = [cache EXCEPT !.active = active, !.state = state]
     \/ \E point \in cache.listed \cup {NoPoint} : cache' = [cache EXCEPT !.point = point]
     \/ \E wired \in OfType("wired") \cup {NoProfile}, offered \in SUBSET OfType("wired") :
          cache' = [cache EXCEPT !.wired = wired, !.offered = (@ \cap OfType("wireless")) \cup offered]
  /\ UNCHANGED failures

\* A profile becomes another user's, or one's own; a VPN's is always one's own.
SettingsChanged ==
  /\ Event
  /\ \E p \in Profiles \ OfType("vpn") : cache' = [cache EXCEPT !.readable = SymDiff(@, {p})]
  /\ UNCHANGED failures

\* activeStateChanged of a VPN: one is tried, and then up, or fails, or is taken down, for a reason with no message.
VpnTried(p) == cache' = [cache EXCEPT !.vpn[p] = "activating"] /\ failures' = failures \ {p}
VpnFailed(p) == cache' = [cache EXCEPT !.vpn[p] = "deactivated"] /\ failures' = failures \cup {p}
VpnStateChanged ==
  /\ Event
  /\ \E p \in OfType("vpn") :
       \/ cache.vpn[p] = "deactivated" /\ VpnTried(p)
       \/ cache.vpn[p] = "activating" /\ cache' = [cache EXCEPT !.vpn[p] = "activated"] /\ UNCHANGED failures
       \/ cache.vpn[p] # "deactivated" /\ VpnFailed(p)
       \/ cache.vpn[p] # "deactivated" /\ cache' = [cache EXCEPT !.vpn[p] = "deactivated"] /\ UNCHANGED failures

Init ==
  /\ \E listed \in SUBSET Points :
       cache = [listed |-> listed, remembered |-> {}, offered |-> Offerable(listed) \cup OfType("wired"), readable |-> Profiles,
                active |-> NoProfile, state |-> "activated", point |-> NoPoint, wired |-> NoProfile,
                vpn |-> [p \in OfType("vpn") |-> "deactivated"]]
  /\ due = TRUE /\ rows = <<>> /\ was = <<>> /\ failures = {} /\ events = 0

Next == Rebuild \/ AccessPointsChanged \/ DeviceChanged \/ SettingsChanged \/ VpnStateChanged

Spec == Init /\ [][Next]_vars

-----------------------------------------------------------------------------
(* Properties.                                                             *)

RowsOf(profile) == {i \in DOMAIN rows : rows[i].profile = profile}
KnowsActive == cache.active \in cache.readable /\ ~Saved[cache.active].hotspot

\* Every variable holds a value of its kind.
TypeOK ==
  /\ events \in 0..MaxEvents /\ due \in BOOLEAN /\ failures \subseteq OfType("vpn")
  /\ \A list \in {rows, was} : \A i \in DOMAIN list :
       list[i].point \in Points \cup {NoPoint} /\ list[i].profile \in Profiles \cup {NoProfile}

\* The network the adapter is connected to has a row in use, and one only: that of its profile, whatever the
\* lists say of its access points; or, when the profile is another user's, that of the access point in use,
\* unless a profile of one's own is for that network.  A view lists it first.
InUseShown ==
  LET used == {i \in DOMAIN rows : rows[i].key[1] \in {"network", "profile"} /\ rows[i].profile \notin OfType("wired")
                                   /\ rows[i].state # "deactivated"} IN
  ~due => /\ Cardinality(used) <= 1
          /\ KnowsActive => used # {} /\ \A i \in used : rows[i].profile = cache.active
          /\ \A i \in used : Head(ListItems("wireless")) = i
          /\ (used = {} /\ cache.active # NoProfile /\ cache.active \notin cache.readable /\ cache.point \in Heard(cache)) =>
               \E i \in DOMAIN rows : rows[i].key = <<"network", NetworkAt(cache.point)>> /\ rows[i].profile # NoProfile

\* A profile NetworkManager offers is on a row, unless one used later, or active, is for the same name, or
\* several networks have its name and none its class; and never on two.
OfferedShown ==
  ~due =>
    /\ \A p \in Profiles : Cardinality(RowsOf(p)) <= 1
    /\ \A p \in (cache.offered \cap cache.readable) :
         \/ RowsOf(p) # {} \/ Saved[p].hotspot
         \/ \E q \in Profiles : RowsOf(q) # {} /\ Saved[q].name = Saved[p].name /\ (Saved[q].used >= Saved[p].used \/ q = cache.active)
         \/ /\ ~\E a \in Heard(cache) : NetworkAt(a) = [name |-> Saved[p].name, class |-> Saved[p].class]
            /\ \E a, b \in Heard(cache) : Air[a].name = Saved[p].name /\ Air[b].name = Saved[p].name /\ Air[a].class # Air[b].class

\* A network is joined through an access point that is listed, if one of it is, and no network goes missing
\* or is there twice.
PointsListed ==
  ~due =>
    /\ \A i, j \in DOMAIN rows : rows[i].key = rows[j].key => i = j
    /\ {key \in KeysOf(rows) : key[1] = "network"} = {<<"network", n>> : n \in NetworksHeard(cache)}
    /\ \A i \in DOMAIN rows :
         rows[i].point \in cache.remembered /\ rows[i].point # cache.point =>
           \A a \in Shown(cache.listed) : NetworkAt(a) # NetworkAt(rows[i].point)

\* Rows that stay keep their order, before those that are new.
PlaceKept ==
  \A i, j \in DOMAIN rows : i < j /\ rows[j].key \in KeysOf(was) =>
    \E k, l \in DOMAIN was : k < l /\ was[k].key = rows[i].key /\ was[l].key = rows[j].key

\* A VPN that is tried again, or up, has no message of an earlier failure, and one that failed keeps it until
\* then, whatever else changes.
FailuresShown ==
  ~due => \A i \in DOMAIN rows :
            rows[i].key[1] = "vpn" => (rows[i].message => rows[i].state = "deactivated") /\ rows[i].message = (rows[i].profile \in failures)
=============================================================================
