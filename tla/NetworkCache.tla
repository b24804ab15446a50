---------------------------- MODULE NetworkCache ----------------------------
(***************************************************************************)
(* NetworkManager's profiles and permissions as networkmanager::Client     *)
(* (clients/networkmanager/client.cpp) has them: one GetManagedObjects,    *)
(* the signals since, and a GetSettings for each profile that is new or    *)
(* changed.  What the bus brings comes in order; NetworkManager, which     *)
(* asks polkit first, answers in any order.                                *)
(***************************************************************************)
EXTENDS Naturals, Sequences, FiniteSetsExt

CONSTANTS
  Profiles,   \* object paths
  MaxEvents   \* bounds what other programs, failures and restarts do

VARIABLES
  nm,      \* NetworkManager: its owner number (0 when it does not run), profiles, and permissions by version
  client,  \* the Client's members, and the calls it waits for
  inbox,   \* messages on their way to the process, in order
  unread,  \* what the latest reading of failed: profiles, and "/" for the permissions
  events   \* counts towards MaxEvents

vars == <<nm, client, inbox, unread, events>>

NoCall == 0
NoSettings == 0

\* watchName() answers at once.
Init ==
  /\ \E running \in {0, 1}, there \in SUBSET Profiles :
       /\ nm = [owner |-> running, starts |-> running, permission |-> 1, readable |-> Profiles, there |-> there,
                version |-> [p \in Profiles |-> 1]]
       /\ inbox = <<[type |-> "owner", owner |-> running]>>
  /\ client = [owner |-> 0, generation |-> 0, loading |-> FALSE, loaded |-> FALSE, ready |-> FALSE, objects |-> {},
               settings |-> [p \in Profiles |-> NoSettings], requests |-> [p \in Profiles |-> NoCall],
               permission |-> 0, permissionRequest |-> NoCall, next |-> 1, retry |-> FALSE, calls |-> {}]
  /\ unread = {} /\ events = 0

Event == events < MaxEvents /\ events' = events + 1

-----------------------------------------------------------------------------
(* The client's members.                                                   *)

Call(c, method, path) ==
  [c EXCEPT !.calls = @ \cup {[method |-> method, path |-> path, request |-> c.next, to |-> c.owner,
                               generation |-> c.generation]},
            !.next = @ + 1]

Reset(c) ==
  [c EXCEPT !.generation = @ + 1, !.owner = 0, !.loading = FALSE, !.loaded = FALSE, !.ready = FALSE,
            !.objects = {}, !.settings = [p \in Profiles |-> NoSettings], !.requests = [p \in Profiles |-> NoCall],
            !.permission = 0, !.retry = FALSE]

Load(c, owner) == Call([c EXCEPT !.owner = owner, !.loading = TRUE], "GetManagedObjects", "/")

OwnerChanged(c, owner) == IF owner = 0 THEN Reset(c) ELSE Load(Reset(c), owner)

\* refresh(): the retry, after a load that failed.
Refresh(c) == IF c.loading \/ c.loaded THEN c ELSE Call(c, "GetNameOwner", "/")
GotOwner(c, owner) == IF c.loading \/ c.loaded \/ owner = 0 THEN c ELSE Load(c, owner)

\* A newer request makes an older reply stale.
FetchSettings(c, p) == [Call(c, "GetSettings", p) EXCEPT !.requests[p] = c.next]
FetchPermissions(c) ==
  IF c.loading THEN c ELSE [Call(c, "GetPermissions", "/") EXCEPT !.permissionRequest = c.next]

\* Once ready, later fetches do not take that back.
UpdateReady(c) ==
  [c EXCEPT !.ready = @ \/ (c.loaded /\ \A p \in Profiles : c.requests[p] = NoCall)]

AddInterfaces(c, p) == FetchSettings([c EXCEPT !.objects = @ \cup {p}], p)
RemoveInterfaces(c, p) ==
  UpdateReady([c EXCEPT !.objects = @ \ {p}, !.settings[p] = NoSettings, !.requests[p] = NoCall])

GotObjects(c, reply) ==
  IF ~reply.ok THEN [Reset(c) EXCEPT !.retry = TRUE]
  ELSE LET d == FoldSet(LAMBDA p, e : AddInterfaces(e, p), c, reply.value) IN
       UpdateReady(FetchPermissions([d EXCEPT !.loading = FALSE, !.loaded = TRUE]))

\* Mutant: any answer to GetSettings is taken for the profile's.
AnyRequest(c, call) == call.generation = c.generation
Newest(c, call) == call.generation = c.generation /\ c.requests[call.path] = call.request

\* An answer that is an error hides the profile: another user's, it is taken for.
GotSettings(c, reply) ==
  LET p == reply.call.path IN
  IF Newest(c, reply.call)
  THEN UpdateReady([c EXCEPT !.requests[p] = NoCall, !.settings[p] = IF reply.ok THEN reply.value ELSE NoSettings])
  ELSE c

GotPermissions(c, reply) ==
  IF reply.call.generation = c.generation /\ reply.call.request = c.permissionRequest
  THEN [c EXCEPT !.permission = IF reply.ok THEN reply.value ELSE 0] ELSE c

\* Until the reply has come, signals tell what it holds already.
Signal(c, message) ==
  CASE c.loading -> c
    [] message.type = "added" -> AddInterfaces(c, message.path)
    [] message.type = "removed" /\ message.path \in c.objects -> RemoveInterfaces(c, message.path)
    [] message.type = "updated" /\ message.path \in c.objects -> FetchSettings(c, message.path)
    [] message.type = "permissions" -> FetchPermissions(c)
    [] OTHER -> c

Got(c, reply) ==
  CASE reply.call.method = "GetSettings" -> GotSettings(c, reply)
    [] reply.call.method = "GetPermissions" -> GotPermissions(c, reply)
    [] reply.call.generation # c.generation -> c
    [] reply.call.method = "GetManagedObjects" -> GotObjects(c, reply)
    [] reply.call.method = "GetNameOwner" -> GotOwner(c, reply.value)

Receive ==
  /\ inbox # <<>>
  /\ inbox' = Tail(inbox)
  /\ LET message == Head(inbox) IN
     client' = CASE message.type = "owner" -> OwnerChanged(client, message.owner)
                 [] message.type = "reply" -> Got(client, message)
                 [] OTHER -> IF message.from = client.owner THEN Signal(client, message) ELSE client
  /\ UNCHANGED <<nm, unread, events>>

RetryTimeout ==
  /\ client.retry
  /\ client' = Refresh([client EXCEPT !.retry = FALSE])
  /\ UNCHANGED <<nm, inbox, unread, events>>

-----------------------------------------------------------------------------
(* NetworkManager and the bus.                                             *)

Reply(call, ok, value) == [type |-> "reply", call |-> call, ok |-> ok, value |-> value]
Signalled(type, p) == Append(inbox, [type |-> type, from |-> nm.owner, path |-> p])
Answered(call, reply) == client' = [client EXCEPT !.calls = @ \ {call}] /\ inbox' = Append(inbox, reply)

Result(call) ==
  LET there == call.to = nm.owner /\ nm.owner # 0  p == call.path IN
  CASE call.method = "GetNameOwner" -> Reply(call, TRUE, nm.owner)
    [] ~there -> Reply(call, FALSE, 0)
    [] call.method = "GetManagedObjects" -> Reply(call, TRUE, nm.there)
    [] call.method = "GetPermissions" -> Reply(call, TRUE, nm.permission)
    [] OTHER -> Reply(call, p \in nm.there \cap nm.readable, nm.version[p])

\* The answer that counts, of those to the readings of one thing.
Current(call) ==
  /\ call.generation = client.generation
  /\ \/ call.method = "GetSettings" /\ call.request = client.requests[call.path]
     \/ call.method = "GetPermissions" /\ call.request = client.permissionRequest

Serve(call) ==
  /\ Answered(call, Result(call))
  /\ unread' = IF Current(call) THEN unread \ {call.path} ELSE unread
  /\ UNCHANGED <<nm, events>>

\* It may be busy for longer than a caller waits.
Refuse(call) ==
  /\ call.method \in {"GetManagedObjects", "GetSettings", "GetPermissions"} /\ Event
  /\ Answered(call, Reply(call, FALSE, 0))
  /\ unread' = IF Current(call) THEN unread \cup {call.path} ELSE unread
  /\ UNCHANGED nm

Stop ==
  /\ nm.owner # 0 /\ Event
  /\ nm' = [nm EXCEPT !.owner = 0]
  /\ inbox' = Append(inbox, [type |-> "owner", owner |-> 0])
  /\ UNCHANGED <<client, unread>>

Start ==
  /\ nm.owner = 0
  /\ nm' = [nm EXCEPT !.owner = nm.starts + 1, !.starts = @ + 1]
  /\ inbox' = Append(inbox, [type |-> "owner", owner |-> nm'.owner])
  /\ UNCHANGED <<client, unread, events>>

\* A profile is added, removed, changed, given to or taken from this user; a permission changes.
Others ==
  /\ nm.owner # 0 /\ Event
  /\ \/ \E p \in Profiles \ nm.there :
          nm' = [nm EXCEPT !.there = @ \cup {p}] /\ inbox' = Signalled("added", p)
     \/ \E p \in nm.there :
          \/ nm' = [nm EXCEPT !.there = @ \ {p}] /\ inbox' = Signalled("removed", p)
          \/ nm' = [nm EXCEPT !.version[p] = @ + 1] /\ inbox' = Signalled("updated", p)
          \/ /\ nm' = [nm EXCEPT !.readable = IF p \in @ THEN @ \ {p} ELSE @ \cup {p}]
             /\ inbox' = Signalled("updated", p)
     \/ nm' = [nm EXCEPT !.permission = @ + 1] /\ inbox' = Signalled("permissions", "/")
  /\ UNCHANGED <<client, unread>>

Next ==
  \/ Receive \/ RetryTimeout
  \/ (\E call \in client.calls : Serve(call) \/ Refuse(call)) \/ Stop \/ Start \/ Others

Spec == Init /\ [][Next]_vars

-----------------------------------------------------------------------------
(* Properties.                                                             *)

\* Every variable holds a value of its kind; nothing is known before it was loaded.
TypeOK ==
  /\ nm.owner \in 0..nm.starts /\ nm.there \subseteq Profiles
  /\ client.objects \subseteq Profiles /\ client.permissionRequest < client.next
  /\ ~(client.loading /\ client.loaded)
  /\ ~client.loaded => client.objects = {} /\ ~client.ready

AtRest == inbox = <<>> /\ client.calls = {} /\ ~client.retry

\* However NetworkManager restarts, is busy or changes while it is read, once nothing is under way the
\* client is ready, and has the settings of exactly the profiles this user may read and the permissions as
\* they are, except what the latest reading of failed: it is taken for a profile of another user's, or for
\* no permission at all, and is not read again until NetworkManager tells of a change.
MirrorsNetwork ==
  AtRest =>
    /\ client.owner = nm.owner
    /\ client.loaded = (nm.owner # 0) /\ client.ready = client.loaded
    /\ client.loaded =>
         /\ client.objects = nm.there
         /\ \A p \in Profiles :
              client.settings[p] = IF p \in (nm.there \cap nm.readable) \ unread THEN nm.version[p] ELSE NoSettings
         /\ client.permission = IF "/" \in unread THEN 0 ELSE nm.permission
=============================================================================
