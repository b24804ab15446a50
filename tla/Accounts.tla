------------------------------ MODULE Accounts ------------------------------
(***************************************************************************)
(* AccountsManager (clients/accounts/accounts_manager.cpp): the accounts   *)
(* org.freedesktop.Accounts lists, one shared object for each, while this  *)
(* process and others add and delete them.  The bus keeps the order of     *)
(* what the service sends; the service may work out a reply, or wait for   *)
(* a password, long before it sends it.                                    *)
(***************************************************************************)
EXTENDS Naturals, Sequences, FiniteSets, SequencesExt

CONSTANTS
  Paths,      \* object paths: the service makes one out of the user's number, and uses numbers again
  MaxEvents   \* bounds what users, other programs and failures do

VARIABLES
  users,    \* who has an account: path |-> the createUser() call that made it, 0 when another did
  manager,  \* the AccountsManager's members; an account object is its number
  calls,    \* on their way to the service, or being answered
  inbox,    \* messages on their way to the process, in order
  verdicts, \* what createUser() called back with, by call
  events    \* counts towards MaxEvents

vars == <<users, manager, calls, inbox, verdicts, events>>

None == 0
Other == 0
Unserved == [ok |-> FALSE, paths |-> {}]

Request(m, method, path) ==
  [id |-> m.nextCall + 1, method |-> method, path |-> path, started |-> m.serial,
   served |-> FALSE, result |-> Unserved, awaited |-> TRUE]

\* The service is asked for its accounts when the manager is made.
Init ==
  /\ \E S \in SUBSET Paths : users = [p \in S |-> Other]
  /\ manager = [serial |-> 0, nextCall |-> 1, objects |-> 0, byPath |-> [p \in Paths |-> None],
                deleted |-> [p \in Paths |-> 0], list |-> <<>>, loaded |-> FALSE, short |-> FALSE]
  /\ calls = {[id |-> 1, method |-> "ListCachedUsers", path |-> "", started |-> 0,
               served |-> FALSE, result |-> Unserved, awaited |-> TRUE]}
  /\ inbox = <<>> /\ verdicts = <<>> /\ events = 0

Event == events < MaxEvents /\ events' = events + 1

-----------------------------------------------------------------------------
(* What the manager does with its members.                                 *)

Deleted(m, p, requestSerial) == m.deleted[p] > requestSerial

\* account(): the shared object of a path, made when there is none.
Account(m, p, requestSerial) ==
  IF Deleted(m, p, requestSerial) \/ m.byPath[p] # None THEN m
  ELSE [m EXCEPT !.objects = @ + 1, !.byPath[p] = m.objects + 1]

Listed(m, object) == \E i \in DOMAIN m.list : m.list[i].object = object

AddToList(m, p) ==
  IF Listed(m, m.byPath[p]) THEN m
  ELSE [m EXCEPT !.list = Append(@, [path |-> p, object |-> m.byPath[p]])]

Added(m, p, requestSerial) ==
  IF Deleted(m, p, requestSerial) THEN m ELSE AddToList(Account(m, p, requestSerial), p)

AddedByService(m, p) == Added([m EXCEPT !.serial = @ + 1], p, m.serial + 1)

DropObject(m, p) == [m.byPath EXCEPT ![p] = None]
\* The account's number, and with it every account of that number, goes from the list.
RemovedByService(m, p) ==
  [m EXCEPT !.serial = @ + 1, !.deleted[p] = m.serial + 1, !.byPath = DropObject(m, p),
            !.list = SelectSeq(@, LAMBDA account : account.path # p)]

\* The first listing; what it names was there when it was asked for, or added since.
ListedUsers(m, result, started) ==
  [FoldSet(LAMBDA p, n : Added(n, p, started), m, result.paths)
     EXCEPT !.loaded = TRUE, !.short = ~result.ok]

\* findUserById(), findUserByName(), and what createUser() is answered.
Named(m, result, started) == FoldSet(LAMBDA p, n : Account(n, p, started), m, result.paths)

Verdict(m, c) ==
  CASE ~c.result.ok -> "failed"
    [] \E p \in c.result.paths : Deleted(m, p, c.started) -> "removed"
    [] OTHER -> "created"

-----------------------------------------------------------------------------
(* The process.  findUserById() waits for its reply, signals kept.         *)

Waiting == {c \in calls : c.method = "FindUser" /\ c.awaited}
Answers == {i \in DOMAIN inbox : inbox[i].type = "reply" /\ inbox[i].call.method = "FindUser"}
Free == Waiting = {} /\ Answers = {}
\* The next message the process takes.
Takeable == IF Free THEN {1} \cap DOMAIN inbox ELSE Answers

Complete(c) ==
  /\ manager' = IF c.method = "ListCachedUsers" THEN ListedUsers(manager, c.result, c.started)
                                                 ELSE Named(manager, c.result, c.started)
  /\ verdicts' = IF c.method = "CreateUser" THEN verdicts @@ (c.id :> Verdict(manager, c)) ELSE verdicts

Receive ==
  \E i \in Takeable :
    LET message == inbox[i] IN
    /\ inbox' = RemoveAt(inbox, i)
    /\ CASE message.type = "added" -> manager' = AddedByService(manager, message.path) /\ UNCHANGED verdicts
         [] message.type = "deleted" -> manager' = RemovedByService(manager, message.path) /\ UNCHANGED verdicts
         [] message.type = "reply" -> Complete(message.call)
    /\ UNCHANGED <<users, calls, events>>

Ask(method, p) ==
  /\ Free /\ Event
  /\ manager' = [manager EXCEPT !.nextCall = @ + 1]
  /\ calls' = calls \cup {Request(manager, method, p)}
  /\ UNCHANGED <<users, inbox, verdicts>>

CreateUser == Ask("CreateUser", "")
DeleteUser(p) == Ask("DeleteUser", p)
FindUser(p) == Ask("FindUser", p)

\* A creation that waited for a password for too long: the service may still make the account.
GiveUp(c) ==
  /\ c.method = "CreateUser" /\ c.awaited /\ Event
  /\ calls' = (calls \ {c}) \cup {[c EXCEPT !.awaited = FALSE]}
  /\ Complete([c EXCEPT !.result = Unserved])
  /\ UNCHANGED <<users, inbox>>

-----------------------------------------------------------------------------
(* The service.                                                            *)

Signal(type, p) == Append(inbox, [type |-> type, path |-> p])
Reply(c, result) == Append(inbox, [type |-> "reply", call |-> [c EXCEPT !.result = result]])
Found(S) == [ok |-> TRUE, paths |-> S]

Create(p, by) == users' = users @@ (p :> by) /\ inbox' = Signal("added", p)
Drop(p) == users' = [q \in DOMAIN users \ {p} |-> users[q]] /\ inbox' = Signal("deleted", p)

\* A listing is put together, and a new account reported, some time before the reply is sent.
Serving(c, result) == calls' = (calls \ {c}) \cup {[c EXCEPT !.served = TRUE, !.result = result]}

Serve(c) ==
  /\ ~c.served
  /\ \/ c.method = "ListCachedUsers" /\ Serving(c, Found(DOMAIN users)) /\ UNCHANGED <<users, inbox>>
     \/ c.method = "CreateUser" /\ \E p \in Paths \ DOMAIN users : Create(p, c.id) /\ Serving(c, Found({p}))
     \/ c.method = "DeleteUser" /\ c.path \in DOMAIN users /\ Drop(c.path) /\ calls' = calls \ {c}
     \/ /\ c.method = "FindUser" /\ calls' = calls \ {c} /\ UNCHANGED users
        /\ inbox' = Reply(c, IF c.path \in DOMAIN users THEN Found({c.path}) ELSE Unserved)
  /\ UNCHANGED <<manager, verdicts, events>>

\* The name is taken, the password refused, nobody to delete, the service gone.
Refuse(c) ==
  /\ ~c.served /\ c.method # "FindUser" /\ Event
  /\ calls' = calls \ {c}
  /\ inbox' = IF c.awaited /\ c.method # "DeleteUser" THEN Reply(c, Unserved) ELSE inbox
  /\ UNCHANGED <<users, manager, verdicts>>

Send(c) ==
  /\ c.served
  /\ calls' = calls \ {c}
  /\ inbox' = IF c.awaited THEN Reply(c, c.result) ELSE inbox
  /\ UNCHANGED <<users, manager, verdicts, events>>

Others ==
  /\ Event
  /\ \E p \in Paths : IF p \in DOMAIN users THEN Drop(p) ELSE Create(p, Other)
  /\ UNCHANGED <<manager, calls, verdicts>>

Next ==
  \/ Receive \/ CreateUser \/ (\E p \in Paths : DeleteUser(p) \/ FindUser(p))
  \/ (\E c \in calls : GiveUp(c) \/ Serve(c) \/ Refuse(c) \/ Send(c))
  \/ Others

Spec == Init /\ [][Next]_vars

-----------------------------------------------------------------------------
(* Properties.                                                             *)

\* Every variable holds a value of its kind.
TypeOK ==
  /\ DOMAIN users \subseteq Paths
  /\ manager.byPath \in [Paths -> 0..manager.objects] /\ manager.deleted \in [Paths -> 0..manager.serial]
  /\ \A i \in DOMAIN manager.list : manager.list[i].path \in Paths
  /\ \A k \in DOMAIN verdicts : verdicts[k] \in {"created", "failed", "removed"}

AtRest == calls = {} /\ inbox = <<>>

\* "One UserAccount is kept per account and shared" (accounts_manager.h:20): an account is listed
\* once, and what is listed is the object that lookups and creations hand out.
OneObject ==
  /\ \A i, j \in DOMAIN manager.list : manager.list[i].path = manager.list[j].path => i = j
  /\ \A i \in DOMAIN manager.list : manager.list[i].object = manager.byPath[manager.list[i].path]

\* Whichever order replies and signals come in, once nothing is under way exactly the service's
\* accounts are listed, unless the first listing failed.
ListsUsers ==
  AtRest /\ ~manager.short => {manager.list[i].path : i \in DOMAIN manager.list} = DOMAIN users
=============================================================================
