---------------------------- MODULE ProfileForms ----------------------------
(***************************************************************************)
(* A profile's forms (clients/networkmanager/handler.cpp): each request of *)
(* the VPN and address forms is a chain of calls of NetworkManager and     *)
(* runs of nmcli, answered by one signal.  An update carries the whole     *)
(* profile, made from Client's copy of it.                                 *)
(***************************************************************************)
EXTENDS Naturals, Sequences, FiniteSets

CONSTANTS
  Requests,   \* what the user asks for
  Values,     \* of the part of the profile a form edits
  Plugins,    \* how many of installedPlugins() are tried
  MaxEvents   \* bounds failures and what others do to the profile

Kinds == {"saveVpn", "saveIp", "addVpn", "importVpn", "exportVpn"}
Groups == {"vpn", "ip"}

VARIABLES
  nm,        \* NetworkManager: the profile by group, whether it is up, the addresses its device uses
  client,    \* Client's copy of the profile, and whether it is up
  request,   \* each request: its kind, its value, and how often it was answered
  work,      \* calls and processes under way
  inbox,     \* messages on their way to the process, in order
  past,      \* groups an update took back, those it could, and whether the device may use other addresses
  events     \* counts towards MaxEvents

vars == <<nm, client, request, work, inbox, past, events>>

NoRequest == [kind |-> "none", value |-> 0, added |-> 0, failed |-> 0]

Init ==
  /\ \E up \in BOOLEAN :
       LET v == CHOOSE v \in Values : TRUE  profile == [g \in Groups |-> v] IN
       /\ nm = [profile |-> profile, up |-> up, device |-> v]
       /\ client = [profile |-> profile, up |-> up]
  /\ request = [r \in Requests |-> NoRequest]
  /\ work = {} /\ inbox = <<>> /\ events = 0
  /\ past = [undone |-> {}, crossed |-> {}, unapplied |-> FALSE]

Event == events < MaxEvents /\ events' = events + 1

-----------------------------------------------------------------------------
(* The requests.                                                           *)

Succeed(r) == [request EXCEPT ![r].added = @ + 1]
Fail(r) == [request EXCEPT ![r].failed = @ + 1]
Work(r, step, value) == [request |-> r, step |-> step, value |-> value, late |-> FALSE]

AsBefore(r, v) == [Succeed(r) EXCEPT ![r].value = v]

\* A change of the profile has not reached the client's copy: an update made from it may take that back.
Updating == {w \in work : w.step = "Update"}
Rereading == {w \in work : w.step = "GetSettings"}
Crossing == Updating \cup Rereading # {} \/ \E i \in DOMAIN inbox : inbox[i].type \in {"updated", "settings"}

\* saveVpn() and saveIp() of a complete form.
Save(r, kind, v) ==
  LET group == IF kind = "saveVpn" THEN "vpn" ELSE "ip"
      profile == [client.profile EXCEPT ![group] = v]
      asked == [request EXCEPT ![r].kind = kind, ![r].value = v] IN
  /\ IF kind = "saveIp" /\ profile = client.profile
     THEN request' = [AsBefore(r, v) EXCEPT ![r].kind = kind] /\ UNCHANGED work
     ELSE request' = asked /\ work' = work \cup {Work(r, "Update", profile)}
  /\ past' = [past EXCEPT !.crossed = @ \cup IF Crossing THEN Groups ELSE {}]

\* The first step of the others.  A form that is incomplete, or a file no plugin reads, fails at once.
First(kind) ==
  CASE kind = "addVpn" -> {"AddConnection"}
    [] kind = "importVpn" -> {"AddConnection"} \cup (IF Plugins = 0 THEN {} ELSE {"import"})
    [] kind = "exportVpn" -> {"GetSecrets", "export"}

Ask(r) ==
  /\ request[r] = NoRequest
  /\ \/ \E kind \in {"saveVpn", "saveIp"}, v \in Values : Save(r, kind, v)
     \/ \E kind \in Kinds \ {"saveVpn", "saveIp"} : \E step \in First(kind) :
          /\ request' = [request EXCEPT ![r].kind = kind]
          /\ work' = work \cup {Work(r, step, 1)}
          /\ UNCHANGED past
     \/ \E kind \in Kinds \ {"exportVpn"} :
          request' = [request EXCEPT ![r].kind = kind, ![r].failed = 1] /\ UNCHANGED <<work, past>>
  /\ UNCHANGED <<nm, client, inbox, events>>

\* reapply(): on the device the profile is up on.
Reapply(r) == IF client.up THEN {Work(r, "Reapply", 1)} ELSE {}

Updated(r) ==
  /\ request' = Succeed(r)
  /\ work' = work \cup (IF request[r].kind = "saveIp" THEN Reapply(r) ELSE {})

\* A reply, in the order NetworkManager sent it.  On a device that is not active there is nothing to apply.
Completion(message) ==
  LET r == message.work.request  ok == message.result = "ok" IN
  CASE message.work.step = "Update" /\ ok -> Updated(r)
    [] message.work.step = "AddConnection" /\ ok -> request' = Succeed(r) /\ UNCHANGED work
    [] message.work.step \in {"Update", "AddConnection"} /\ ~ok -> request' = Fail(r) /\ UNCHANGED work
    [] message.work.step = "GetSecrets" ->
         request' \in (IF ok THEN {Succeed(r), Fail(r)} ELSE {Fail(r)}) /\ UNCHANGED work
    [] message.work.step = "Reapply" /\ message.result = "error" ->
         work' = work \cup {Work(r, "Activate", 1)} /\ UNCHANGED request
    [] OTHER -> UNCHANGED <<request, work>>

\* Mutant: the client keeps its copy.
RereadNever == UNCHANGED work
\* An Updated signal makes Client read the profile again (NetworkCache).
Reread == work' = work \cup {Work("client", "GetSettings", 1)}

Receive ==
  /\ inbox # <<>>
  /\ inbox' = Tail(inbox)
  /\ LET message == Head(inbox) IN
     CASE message.type = "reply" -> Completion(message) /\ UNCHANGED client
       [] message.type = "updated" -> Reread /\ UNCHANGED <<client, request>>
       [] message.type = "settings" -> client' = [client EXCEPT !.profile = message.profile] /\ UNCHANGED <<request, work>>
       [] message.type = "up" -> client' = [client EXCEPT !.up = message.up] /\ UNCHANGED <<request, work>>
  /\ UNCHANGED <<nm, past, events>>

-----------------------------------------------------------------------------
(* nmcli: importVpnAs() tries a plugin after the other.                    *)

\* Mutant: the last plugin's failure is tried again, past the end.
TriesMore(n) == n <= Plugins
HasNext(n) == n < Plugins

Process(w) ==
  /\ w.step \in {"import", "export"}
  /\ \/ request' = Succeed(w.request) /\ work' = work \ {w}
     \/ request' = Fail(w.request) /\ work' = work \ {w} /\ (w.step = "import" => ~HasNext(w.value))
     \/ /\ w.step = "import" /\ HasNext(w.value)
        /\ work' = (work \ {w}) \cup {[w EXCEPT !.value = @ + 1]} /\ UNCHANGED request
  /\ UNCHANGED <<nm, client, inbox, past, events>>

-----------------------------------------------------------------------------
(* NetworkManager.                                                         *)

Tell(messages) == inbox' = inbox \o messages
Reply(w, result) == [type |-> "reply", work |-> w, result |-> result]
Answer(w, result) == IF w.late THEN <<>> ELSE <<Reply(w, result)>>
UpdatedSignal == [type |-> "updated"]
UpSignal(up) == [type |-> "up", up |-> up]

GroupOf(r) == IF request[r].kind = "saveIp" THEN "ip" ELSE "vpn"

\* Addresses saved after the form was told that it failed are not applied.
Serve(w) ==
  /\ CASE w.step = "Update" ->
            /\ nm' = [nm EXCEPT !.profile = w.value]
            /\ past' = [past EXCEPT !.undone = @ \cup {g \in Groups \ {GroupOf(w.request)} : w.value[g] # nm.profile[g]},
                                    !.unapplied = @ \/ ((GroupOf(w.request) = "vpn" \/ w.late) /\ w.value["ip"] # nm.profile["ip"])]
            /\ Tell(<<UpdatedSignal>> \o Answer(w, "ok"))
       [] w.step = "GetSettings" ->
            Tell(<<[type |-> "settings", profile |-> nm.profile]>>) /\ UNCHANGED <<nm, past>>
       [] w.step = "Reapply" ->
            /\ nm' = [nm EXCEPT !.device = IF nm.up THEN nm.profile["ip"] ELSE @]
            /\ Tell(Answer(w, IF nm.up THEN "ok" ELSE "inactive")) /\ UNCHANGED past
       [] w.step = "Activate" ->
            /\ nm' = [nm EXCEPT !.up = TRUE, !.device = nm.profile["ip"]]
            /\ Tell(<<UpSignal(TRUE)>> \o Answer(w, "ok")) /\ UNCHANGED past
       [] w.step \in {"AddConnection", "GetSecrets"} -> Tell(<<Reply(w, "ok")>>) /\ UNCHANGED <<nm, past>>
  /\ work' = work \ {w}
  /\ UNCHANGED <<client, request, events>>

\* Refused; or not answered in time, and carried out after that.
Refuse(w) ==
  /\ w.step \in {"Update", "AddConnection", "GetSecrets", "Reapply", "Activate"} /\ ~w.late /\ Event
  /\ \/ work' = work \ {w}
     \/ w.step \in {"Update", "Reapply", "Activate"} /\ work' = (work \ {w}) \cup {[w EXCEPT !.late = TRUE]}
  /\ Tell(<<Reply(w, "error")>>)
  /\ past' = [past EXCEPT !.unapplied = @ \/ w.step = "Activate"]
  /\ UNCHANGED <<nm, client, request>>

\* Another program changes the profile, or it comes up or goes down.
Others ==
  /\ Event
  /\ \/ \E g \in Groups, v \in Values :
          /\ nm' = [nm EXCEPT !.profile[g] = v] /\ Tell(<<UpdatedSignal>>)
          /\ past' = [past EXCEPT !.crossed = @ \cup (IF Updating = {} THEN {} ELSE Groups),
                                  !.unapplied = @ \/ g = "ip"]
     \/ /\ nm' = [nm EXCEPT !.up = ~@, !.device = IF nm.up THEN @ ELSE nm.profile["ip"]]
        /\ Tell(<<UpSignal(~nm.up)>>) /\ UNCHANGED past
  /\ UNCHANGED <<client, request, work>>

Next ==
  \/ \E r \in Requests : Ask(r)
  \/ Receive
  \/ \E w \in work : Process(w) \/ (w.step \notin {"import", "export"} /\ Serve(w)) \/ Refuse(w)
  \/ Others

Spec == Init /\ [][Next]_vars

-----------------------------------------------------------------------------
(* Properties.                                                             *)

AtRest == work = {} /\ inbox = <<>>

\* Every variable holds a value of its kind.
TypeOK ==
  /\ nm.profile \in [Groups -> Values] /\ client.profile \in [Groups -> Values] /\ nm.device \in Values
  /\ \A r \in Requests : request[r].kind \in Kinds \cup {"none"}
  /\ \A w \in work : w.step = "import" => w.value \in 1 .. Plugins

\* "vpnAdded or vpnSaved follows", "ipSaved or ipSaveFailed follows" (handler.h): each request is answered
\* once, by its success or its failure, and by the time nothing is under way.
FormsAnswered ==
  \A r \in Requests :
    /\ request[r].added + request[r].failed <= 1
    /\ AtRest /\ request[r].kind # "none" => request[r].added + request[r].failed = 1

\* A form changes its own part of the profile: what another form or program saved before is not taken
\* back, unless it had not reached the client's copy when the form was saved, or came between.
SavesTheirOwn == past.undone \subseteq past.crossed

\* Saving the addresses "applies [them] to the device the profile is up on" (handler.h): once nothing is
\* under way it uses them, but where applying them was refused twice, another form or program changed them,
\* or the update was carried out after the form was told that it had failed.
AppliedToDevice ==
  AtRest /\ nm.up /\ ~past.unapplied => nm.device = nm.profile["ip"]
=============================================================================
