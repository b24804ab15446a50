---------------------------- MODULE SecretReading ----------------------------
(***************************************************************************)
(* The secrets of a VPN profile for its form: Handler::loadVpnSecrets()    *)
(* (clients/networkmanager/handler.cpp) asks NetworkManager for those it   *)
(* keeps, and SecretReader (clients/networkmanager/secret_reader.cpp) the  *)
(* keyring for the user's, which may have to ask the user to unlock it.    *)
(***************************************************************************)
EXTENDS Naturals, Sequences, FiniteSets

CONSTANTS
  Loads,      \* the calls of loadVpnSecrets()
  Items,      \* the keyring's items for the profile
  Unkeyed,    \* those without a "setting-key" attribute
  MaxEvents   \* bounds the failures and what the user does to prompts

VARIABLES
  keyring,   \* the Secret Service: what is locked, who has a session, the prompts shown
  reads,     \* each load's members, and what was given to vpnSecretsLoaded
  calls,     \* calls nobody has answered yet
  inbox,     \* replies and signals on their way to the process, in order
  alive,     \* the Handler and its reader exist
  events     \* counts towards MaxEvents

vars == <<keyring, reads, calls, inbox, alive, events>>

\* m_prompts and the State of a prompt stand in "prompting"; pending->calls in waiting.
NewRead == [phase |-> "new", system |-> FALSE, session |-> FALSE, unlocked |-> {}, prompting |-> FALSE,
            waiting |-> 0, secrets |-> {}, answers |-> 0, asked |-> {}, failed |-> FALSE]

Init ==
  /\ keyring \in [locked : SUBSET Items, sessions : {{}}, prompts : {{}}]
  /\ reads = [l \in Loads |-> NewRead]
  /\ calls = {} /\ inbox = <<>> /\ alive = TRUE /\ events = 0

Event == events < MaxEvents /\ events' = events + 1

-----------------------------------------------------------------------------
(* The chain of a load.  A step gives the load's next members and the      *)
(* calls it makes.                                                         *)

Ask(l, method) == {[load |-> l, method |-> method, items |-> {}]}
About(l, method, items) == {[load |-> l, method |-> method, items |-> items]}
AboutEach(l, method, items) == {[load |-> l, method |-> method, items |-> {i}] : i \in items}
Step(r, made) == [read |-> r, calls |-> made]

Done(r) == [r EXCEPT !.phase = "done", !.answers = @ + 1]

Concluded(l, r) == Step(Done(r), Ask(l, "Close"))

Found(l, r, items) ==
  IF items = {} THEN Concluded(l, r)
  ELSE Step([r EXCEPT !.phase = "reading", !.unlocked = items, !.waiting = Cardinality(items)],
            AboutEach(l, "Attributes", items))

Unlock(l, r, unlocked, locked) ==
  IF locked = {} THEN Found(l, r, unlocked)
  ELSE Step([r EXCEPT !.unlocked = unlocked], About(l, "Unlock", locked))

\* Mutant: each of prompt()'s three ends goes on with the load.
FinishAgain(r) == r.phase # "new"
Finishable(r) == r.prompting

\* finish(): the user's answer, the call's failure or the timer, whichever is first.
Finish(l, r, dismissed, result) ==
  IF ~Finishable(r) THEN Step(r, {})
  ELSE Found(l, [r EXCEPT !.prompting = FALSE], IF dismissed THEN r.unlocked ELSE r.unlocked \cup result)

Settle(l, r, secrets) ==
  LET s == [r EXCEPT !.waiting = @ - 1, !.secrets = @ \cup secrets] IN
  IF s.waiting > 0 THEN Step(s, {}) ELSE Concluded(l, s)
SettleUnkeyed(l, r) == Settle(l, r, {})

Completion(reply) ==
  LET c == reply.call  l == c.load  r == reads[l] IN
  CASE c.method = "GetSecrets" -> Step([r EXCEPT !.phase = "opening", !.system = reply.ok], Ask(l, "OpenSession"))
    [] c.method = "OpenSession" /\ ~reply.ok -> Step(Done(r), {})
    [] c.method = "OpenSession" /\ reply.ok -> Step([r EXCEPT !.phase = "searching", !.session = TRUE], Ask(l, "SearchItems"))
    [] c.method = "SearchItems" /\ ~reply.ok -> Concluded(l, r)
    [] c.method = "SearchItems" /\ reply.ok -> Unlock(l, [r EXCEPT !.asked = reply.value], Items \ reply.value, reply.value)
    [] c.method = "Unlock" /\ ~reply.ok -> Found(l, r, r.unlocked)
    [] c.method = "Unlock" /\ reply.ok /\ ~reply.prompt -> Found(l, [r EXCEPT !.asked = {}], r.unlocked \cup reply.value)
    [] c.method = "Unlock" /\ reply.ok /\ reply.prompt ->
         Step([r EXCEPT !.phase = "prompting", !.prompting = TRUE, !.unlocked = @ \cup reply.value,
                         !.asked = @ \ reply.value], About(l, "Prompt", c.items))
    [] c.method = "Prompt" -> IF reply.ok THEN Step(r, {}) ELSE Finish(l, r, TRUE, {})
    [] c.method = "Attributes" ->
         IF ~reply.ok THEN Settle(l, r, {})
         ELSE IF c.items \subseteq Unkeyed THEN SettleUnkeyed(l, r)
         ELSE Step(r, About(l, "GetSecret", c.items))
    [] c.method = "GetSecret" -> Settle(l, r, IF reply.ok THEN c.items ELSE {})
    [] c.method = "Close" -> Step(r, {})

Take(l, step) == reads' = [reads EXCEPT ![l] = step.read] /\ calls' = calls \cup step.calls

-----------------------------------------------------------------------------
(* The process.                                                            *)

Load(l) ==
  /\ alive /\ reads[l].phase = "new"
  /\ Take(l, Step([reads[l] EXCEPT !.phase = "system"], Ask(l, "GetSecrets")))
  /\ UNCHANGED <<keyring, inbox, alive, events>>

Receive ==
  /\ inbox # <<>>
  /\ inbox' = Tail(inbox)
  /\ LET message == Head(inbox) IN
     CASE ~alive -> UNCHANGED <<reads, calls>>
       [] alive /\ message.type = "reply" -> Take(message.call.load, Completion(message))
       [] alive /\ message.type = "completed" ->
            Take(message.load, Finish(message.load, reads[message.load], message.dismissed, message.value))
  /\ UNCHANGED <<keyring, alive, events>>

\* The prompt's 10 min are over.
Timeout(l) ==
  /\ alive /\ reads[l].prompting /\ Event
  /\ Take(l, [Finish(l, reads[l], TRUE, {}) EXCEPT !.read.failed = TRUE])
  /\ UNCHANGED <<keyring, inbox, alive>>

\* The replies of calls made are no longer waited for, nor are the prompts.
Destroy ==
  /\ alive /\ Event
  /\ alive' = FALSE
  /\ UNCHANGED <<keyring, reads, calls, inbox>>

-----------------------------------------------------------------------------
(* The keyring and NetworkManager.                                         *)

Answered(c, ok, value, prompt) ==
  /\ calls' = calls \ {c}
  /\ inbox' = Append(inbox, [type |-> "reply", call |-> c, ok |-> ok, value |-> value, prompt |-> prompt])

Session(c) == c.load \in keyring.sessions

Serve(c) ==
  /\ CASE c.method = "OpenSession" ->
            keyring' = [keyring EXCEPT !.sessions = @ \cup {c.load}] /\ Answered(c, TRUE, {}, FALSE)
       [] c.method = "Close" ->
            keyring' = [keyring EXCEPT !.sessions = @ \ {c.load}] /\ Answered(c, Session(c), {}, FALSE)
       [] c.method = "SearchItems" -> Answered(c, TRUE, keyring.locked, FALSE) /\ UNCHANGED keyring
       [] c.method = "Unlock" ->
            Answered(c, TRUE, c.items \ keyring.locked, c.items \cap keyring.locked # {}) /\ UNCHANGED keyring
       [] c.method = "Prompt" -> keyring' = [keyring EXCEPT !.prompts = @ \cup {c}] /\ Answered(c, TRUE, {}, FALSE)
       [] c.method = "GetSecret" -> Answered(c, Session(c) /\ c.items \cap keyring.locked = {}, {}, FALSE) /\ UNCHANGED keyring
       [] OTHER -> Answered(c, TRUE, {}, FALSE) /\ UNCHANGED keyring
  /\ UNCHANGED <<reads, alive, events>>

\* A call fails, or is not answered in time.
Fail(c) ==
  /\ Event
  /\ calls' = calls \ {c}
  /\ inbox' = Append(inbox, [type |-> "reply", call |-> c, ok |-> FALSE, value |-> {}, prompt |-> FALSE])
  /\ reads' = [reads EXCEPT ![c.load].failed = @ \/ c.method # "GetSecrets"]
  /\ UNCHANGED <<keyring, alive>>

\* The user answers: the keyring is unlocked, or the prompt is dismissed.
AnswerPrompt(p) ==
  \E dismissed \in BOOLEAN :
    /\ keyring' = [keyring EXCEPT !.prompts = @ \ {p}, !.locked = IF dismissed THEN @ ELSE @ \ p.items]
    /\ inbox' = Append(inbox, [type |-> "completed", load |-> p.load, dismissed |-> dismissed,
                               value |-> IF dismissed THEN {} ELSE p.items])
    /\ reads' = [reads EXCEPT ![p.load].asked = IF dismissed THEN @ ELSE {}]
    /\ UNCHANGED <<calls, alive, events>>

\* The keyring's daemon crashes; the next call starts it, and it is locked.
Crash ==
  /\ Event
  /\ keyring' = [locked |-> Items, sessions |-> {}, prompts |-> {}]
  /\ reads' = [l \in Loads |-> [reads[l] EXCEPT !.failed = TRUE]]
  /\ UNCHANGED <<calls, inbox, alive>>

Process == (\E l \in Loads : Load(l) \/ Timeout(l)) \/ Receive \/ Destroy
Services == (\E c \in calls : Serve(c) \/ Fail(c)) \/ (\E p \in keyring.prompts : AnswerPrompt(p)) \/ Crash
Next == Process \/ Services

Spec == Init /\ [][Next]_vars

-----------------------------------------------------------------------------
(* Properties.                                                             *)

\* Every variable holds a value of its kind.
TypeOK ==
  /\ keyring.locked \subseteq Items /\ keyring.sessions \subseteq Loads
  /\ \A l \in Loads :
       /\ reads[l].phase \in {"new", "system", "opening", "searching", "prompting", "reading", "done"}
       /\ reads[l].waiting \in 0 .. Cardinality(Items) /\ reads[l].secrets \subseteq Items
       /\ reads[l].prompting => reads[l].phase = "prompting"

\* loadVpnSecrets() (handler.h: "vpnSecretsLoaded answers") is answered once, whichever of its calls
\* fail, whenever the keyring crashes, and whether its prompt is answered, fails, or is never completed:
\* never twice, and by the time nothing is under way.
SecretsAnswered ==
  \A l \in Loads :
    /\ reads[l].answers <= 1
    /\ alive /\ inbox = <<>> /\ calls = {} /\ ~reads[l].prompting /\ reads[l].phase # "new" => reads[l].answers = 1

\* A load that is answered has every secret it could read, and no session is left behind once nothing
\* is under way.  (A reader destroyed while it reads leaves its session until the process ends.)
SecretsWhole ==
  \A l \in Loads :
    /\ reads[l].phase = "done" /\ ~reads[l].failed => reads[l].secrets = Items \ (Unkeyed \cup reads[l].asked)
    /\ alive /\ inbox = <<>> /\ calls = {} /\ reads[l].phase = "done" /\ ~reads[l].failed => l \notin keyring.sessions
=============================================================================
