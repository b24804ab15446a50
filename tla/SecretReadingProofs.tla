------------------------- MODULE SecretReadingProofs -------------------------
(***************************************************************************)
(* Proofs about SecretReading for every number of loads and every finite   *)
(* set of items: loadVpnSecrets() is answered once (SecretsAnswered), with *)
(* every secret it could read, and leaves no session (SecretsWhole).       *)
(*                                                                         *)
(* The invariant counts what a load waits for.  Up to the search one call  *)
(* of it is under way, on its way there or back; while it reads, one for   *)
(* each item that is left, as many as are waited for; what remains of a    *)
(* prompt once the load has gone on finds it no longer prompting.  That    *)
(* the secrets are whole needs what the keyring does meanwhile: an item    *)
(* found unlocked stays so until the daemon crashes, and a prompt was      *)
(* asked for the items that are not among them.                            *)
(***************************************************************************)
EXTENDS SecretReading, FiniteSetTheorems, TLAPS

Methods == {"GetSecrets", "OpenSession", "SearchItems", "Unlock", "Prompt", "Attributes", "GetSecret", "Close"}
Phases == {"new", "system", "opening", "searching", "prompting", "reading", "done"}

Calls == [load : Loads, method : Methods, items : SUBSET Items]
Replies == [type : {"reply"}, call : Calls, ok : BOOLEAN, value : SUBSET Items, prompt : BOOLEAN]
Completions == [type : {"completed"}, load : Loads, dismissed : BOOLEAN, value : SUBSET Items]
Reads == [phase : Phases, system : BOOLEAN, session : BOOLEAN, unlocked : SUBSET Items, prompting : BOOLEAN,
          waiting : Nat, secrets : SUBSET Items, answers : Nat, asked : SUBSET Items, failed : BOOLEAN]

Types ==
  /\ keyring \in [locked : SUBSET Items, sessions : SUBSET Loads, prompts : SUBSET Calls]
  /\ reads \in [Loads -> Reads]
  /\ calls \subseteq Calls
  /\ inbox \in Seq(Replies \cup Completions)
  /\ alive \in BOOLEAN /\ events \in Nat

-----------------------------------------------------------------------------
(* Calls under way.                                                        *)

Arriving == {inbox[k] : k \in 1 .. Len(inbox)}
Answering(c) == \E m \in Arriving : m.type = "reply" /\ m.call = c
UnderWay(c) == c \in calls \/ Answering(c)

\* A call is answered once.
Once ==
  /\ \A c \in calls : ~Answering(c)
  /\ \A j, k \in 1 .. Len(inbox) :
       inbox[j].type = "reply" /\ inbox[k].type = "reply" /\ inbox[j].call = inbox[k].call => j = k

\* The calls that may be under way in each phase; those of a prompt outlive it.
Expected(phase, method) ==
  \/ phase = "system" /\ method = "GetSecrets"
  \/ phase = "opening" /\ method = "OpenSession"
  \/ phase = "searching" /\ method \in {"SearchItems", "Unlock"}
  \/ phase \in {"prompting", "reading", "done"} /\ method = "Prompt"
  \/ phase = "reading" /\ method \in {"Attributes", "GetSecret"}
  \/ phase = "done" /\ method = "Close"

The(l, method, items) == [load |-> l, method |-> method, items |-> items]

\* The items a load still waits for.
Left(l) == {i \in Items : UnderWay(The(l, "Attributes", {i})) \/ UnderWay(The(l, "GetSecret", {i}))}

OnlyExpected(l) == \A c \in Calls : UnderWay(c) /\ c.load = l => Expected(reads[l].phase, c.method)

OneCall(l) ==
  reads[l].phase \in {"system", "opening", "searching"} =>
    \E c \in Calls : /\ c.load = l /\ UnderWay(c)
                     /\ \A d \in Calls : d.load = l /\ UnderWay(d) => d = c

CallEach(l) ==
  reads[l].phase = "reading" =>
    /\ reads[l].waiting = Cardinality(Left(l)) /\ Left(l) # {}
    /\ \A c \in Calls : c.load = l /\ c.method \in {"Attributes", "GetSecret"} /\ UnderWay(c) =>
         \E i \in reads[l].unlocked : c.items = {i}
    /\ \A i \in Items : ~(UnderWay(The(l, "Attributes", {i})) /\ UnderWay(The(l, "GetSecret", {i})))

Chain(l) ==
  /\ OnlyExpected(l) /\ OneCall(l) /\ CallEach(l)
  /\ reads[l].prompting <=> reads[l].phase = "prompting"

Counted(l) == reads[l].answers = IF reads[l].phase = "done" THEN 1 ELSE 0

-----------------------------------------------------------------------------
(* What a load that nothing failed for has, and what the keyring knows.    *)

Prompts(l) == {c \in calls : c.load = l /\ c.method = "Prompt"} \cup {p \in keyring.prompts : p.load = l}
Answers(l) == {m \in Arriving : m.type = "completed" /\ m.load = l}

Prompted(l) == Prompts(l) # {} => reads[l].phase = "prompting"
Whole(l) == reads[l].phase = "done" => reads[l].secrets = Items \ (Unkeyed \cup reads[l].asked)

\* What is found unlocked stays so; what is not is asked for.
AskedFor(l) == reads[l].unlocked = Items \ reads[l].asked
Open(l) == reads[l].unlocked \cap keyring.locked = {}

Succeeds(l) ==
  \A m \in Arriving :
    m.type = "reply" /\ m.call.load = l =>
      /\ m.call.method \notin {"GetSecrets", "Close"} => m.ok
      /\ m.call.method = "OpenSession" => l \in keyring.sessions
      /\ m.call.method = "SearchItems" => (Items \ m.value) \cap keyring.locked = {}
      /\ m.call.method = "Unlock" => /\ m.value \subseteq m.call.items /\ m.value \cap keyring.locked = {}
                                     /\ ~m.prompt => m.value = m.call.items

Searched(l) ==
  /\ reads[l].phase \notin {"reading", "done"} => reads[l].secrets = {}
  /\ reads[l].phase \in {"searching", "prompting", "reading"} => l \in keyring.sessions
  /\ \A c \in Calls : UnderWay(c) /\ c.load = l /\ c.method = "Unlock" => c.items = reads[l].asked /\ AskedFor(l)

OnePrompt(l) ==
  /\ \A c \in Prompts(l) :
       AskedFor(l) /\ reads[l].asked \subseteq c.items /\ Prompts(l) = {c} /\ Answers(l) = {}
  /\ \A c \in calls : c.load = l /\ c.method = "Prompt" => c \notin keyring.prompts

PromptAnswer(l) ==
  \A m \in Answers(l) :
    /\ reads[l].phase \in {"prompting", "reading", "done"}
    /\ reads[l].phase = "prompting" =>
         IF m.dismissed THEN AskedFor(l)
         ELSE reads[l].asked = {} /\ Items \subseteq reads[l].unlocked \cup m.value /\ m.value \cap keyring.locked = {}

ReadSoFar(l) ==
  reads[l].phase = "reading" =>
    /\ AskedFor(l)
    /\ reads[l].secrets = (reads[l].unlocked \ Left(l)) \ Unkeyed
    /\ \A i \in Unkeyed : ~UnderWay(The(l, "GetSecret", {i}))

Closes(l) == reads[l].phase = "done" => The(l, "Close", {}) \in calls \/ l \notin keyring.sessions

Kept(l) ==
  /\ Open(l) /\ Succeeds(l) /\ Searched(l) /\ OnePrompt(l) /\ PromptAnswer(l) /\ ReadSoFar(l) /\ Closes(l)

LoadInv(l) ==
  /\ Counted(l)
  /\ alive => Chain(l)
  /\ ~reads[l].failed => /\ Prompted(l) /\ Whole(l)
                         /\ alive => Kept(l)

Inv == Types /\ Once /\ \A l \in Loads : LoadInv(l)

-----------------------------------------------------------------------------
(* Messages.                                                               *)

\* A message sent to the process is the only one that is new.
LEMMA Sent ==
  ASSUME Types, NEW m \in Replies \cup Completions, inbox' = Append(inbox, m)
  PROVE  /\ inbox' \in Seq(Replies \cup Completions) /\ Arriving' = Arriving \cup {m}
         /\ Len(inbox') = Len(inbox) + 1 /\ inbox'[Len(inbox) + 1] = m
         /\ \A k \in 1 .. Len(inbox) : inbox'[k] = inbox[k]
<1>1. inbox \in Seq(Replies \cup Completions) /\ Len(inbox) \in Nat
  BY DEF Types
<1>2. /\ inbox' \in Seq(Replies \cup Completions)
      /\ Len(inbox') = Len(inbox) + 1 /\ inbox'[Len(inbox) + 1] = m
      /\ \A k \in 1 .. Len(inbox) : inbox'[k] = inbox[k]
  BY <1>1
<1>3. Arriving' = {inbox'[k] : k \in 1 .. Len(inbox) + 1}
  BY <1>2 DEF Arriving
<1>4. 1 .. Len(inbox) + 1 = (1 .. Len(inbox)) \cup {Len(inbox) + 1}
  BY <1>1
<1> QED BY <1>2, <1>3, <1>4 DEF Arriving

\* The message taken in is gone; another to the same call there is not.
LEMMA Taken ==
  ASSUME Types, inbox # <<>>, inbox' = Tail(inbox)
  PROVE  /\ inbox' \in Seq(Replies \cup Completions)
         /\ Head(inbox) \in Replies \cup Completions /\ Head(inbox) \in Arriving
         /\ Arriving' \subseteq Arriving /\ Arriving \subseteq Arriving' \cup {Head(inbox)}
         /\ Once /\ Head(inbox).type = "reply" =>
              \A m \in Arriving' : m.type = "reply" => m.call # Head(inbox).call
         /\ Once => \A j, k \in 1 .. Len(inbox') :
              inbox'[j].type = "reply" /\ inbox'[k].type = "reply" /\ inbox'[j].call = inbox'[k].call => j = k
<1>1. inbox \in Seq(Replies \cup Completions) /\ Len(inbox) \in Nat /\ Len(inbox) > 0
  BY DEF Types
<1>2. /\ inbox' \in Seq(Replies \cup Completions) /\ Len(inbox') = Len(inbox) - 1
      /\ \A k \in 1 .. Len(inbox') : inbox'[k] = inbox[k + 1] /\ k + 1 \in 1 .. Len(inbox) /\ k + 1 # 1
  BY <1>1
<1>3. \A k \in 2 .. Len(inbox) : k - 1 \in 1 .. Len(inbox') /\ inbox[k] = inbox'[k - 1]
  BY <1>1, <1>2
<1>4. Head(inbox) = inbox[1] /\ 1 \in 1 .. Len(inbox) /\ inbox[1] \in Replies \cup Completions
  BY <1>1
<1>5. Arriving' \subseteq Arriving
  BY <1>2 DEF Arriving
<1>6. Arriving \subseteq Arriving' \cup {Head(inbox)}
  <2> SUFFICES ASSUME NEW k \in 1 .. Len(inbox) PROVE inbox[k] \in Arriving' \cup {inbox[1]}
    BY <1>4 DEF Arriving
  <2>1. k = 1 \/ k \in 2 .. Len(inbox)
    BY <1>1
  <2> QED BY <2>1, <1>3 DEF Arriving
<1>7. ASSUME Once, Head(inbox).type = "reply", NEW m \in Arriving', m.type = "reply"
      PROVE  m.call # Head(inbox).call
  <2>1. PICK k \in 1 .. Len(inbox') : m = inbox'[k]
    BY <1>7 DEF Arriving
  <2> QED BY <1>2, <1>4, <1>7, <2>1 DEF Once
<1>8. ASSUME Once, NEW j \in 1 .. Len(inbox'), NEW k \in 1 .. Len(inbox'),
             inbox'[j].type = "reply", inbox'[k].type = "reply", inbox'[j].call = inbox'[k].call
      PROVE  j = k
  <2>1. j + 1 = k + 1
    BY <1>2, <1>8 DEF Once
  <2>2. j \in Nat /\ k \in Nat
    BY <1>1, <1>2
  <2> QED BY <2>1, <2>2
<1> QED BY <1>2, <1>4, <1>5, <1>6, <1>7, <1>8 DEF Arriving

\* A call that is answered is under way as before; what else is under way does not change.
LEMMA AnswerSent ==
  ASSUME Types, Once, NEW c \in calls, NEW m \in Replies, m.call = c,
         calls' = calls \ {c}, inbox' = Append(inbox, m)
  PROVE  /\ Once' /\ Arriving' = Arriving \cup {m}
         /\ \A d : UnderWay(d)' <=> UnderWay(d)
         /\ calls' \subseteq Calls /\ inbox' \in Seq(Replies \cup Completions)
<1>1. m.type = "reply" /\ m \in Replies \cup Completions
  BY DEF Replies
<1>2. /\ inbox' \in Seq(Replies \cup Completions) /\ Arriving' = Arriving \cup {m}
      /\ Len(inbox') = Len(inbox) + 1 /\ inbox'[Len(inbox) + 1] = m
      /\ \A k \in 1 .. Len(inbox) : inbox'[k] = inbox[k]
  BY <1>1, Sent
<1>3. \A d : Answering(d)' <=> Answering(d) \/ d = c
  BY <1>1, <1>2 DEF Answering
<1>4. \A d : UnderWay(d)' <=> UnderWay(d)
  BY <1>3 DEF UnderWay
<1>5. \A d \in calls' : ~Answering(d)'
  BY <1>3 DEF Once
<1>6. ~Answering(c)
  BY DEF Once
<1>7. \A k \in 1 .. Len(inbox) : inbox[k].type = "reply" => inbox[k].call # c
  BY <1>6 DEF Answering, Arriving
<1>8. ASSUME NEW j \in 1 .. Len(inbox'), NEW k \in 1 .. Len(inbox'),
             inbox'[j].type = "reply", inbox'[k].type = "reply", inbox'[j].call = inbox'[k].call
      PROVE  j = k
  <2>1. Len(inbox) \in Nat
    BY DEF Types
  <2>2. (j \in 1 .. Len(inbox) \/ j = Len(inbox) + 1) /\ (k \in 1 .. Len(inbox) \/ k = Len(inbox) + 1)
    BY <1>2, <2>1
  <2> QED BY <1>2, <1>7, <1>8, <2>2 DEF Once
<1>9. Once'
  BY <1>5, <1>8 DEF Once
<1> QED BY <1>2, <1>4, <1>9 DEF Types

\* The signal of a prompt answers no call.
LEMMA SignalSent ==
  ASSUME Types, Once, NEW m \in Completions, UNCHANGED calls, inbox' = Append(inbox, m)
  PROVE  /\ Once' /\ Arriving' = Arriving \cup {m}
         /\ \A d : UnderWay(d)' <=> UnderWay(d)
         /\ inbox' \in Seq(Replies \cup Completions)
<1>1. m.type # "reply" /\ m \in Replies \cup Completions
  BY DEF Completions
<1>2. /\ inbox' \in Seq(Replies \cup Completions) /\ Arriving' = Arriving \cup {m}
      /\ Len(inbox') = Len(inbox) + 1 /\ inbox'[Len(inbox) + 1] = m
      /\ \A k \in 1 .. Len(inbox) : inbox'[k] = inbox[k]
  BY <1>1, Sent
<1>3. \A d : Answering(d)' <=> Answering(d)
  BY <1>1, <1>2 DEF Answering
<1>4. ASSUME NEW j \in 1 .. Len(inbox'), NEW k \in 1 .. Len(inbox'),
             inbox'[j].type = "reply", inbox'[k].type = "reply", inbox'[j].call = inbox'[k].call
      PROVE  j = k
  <2>1. Len(inbox) \in Nat
    BY DEF Types
  <2>2. j \in 1 .. Len(inbox) /\ k \in 1 .. Len(inbox)
    BY <1>1, <1>2, <1>4, <2>1
  <2> QED BY <1>2, <1>4, <2>2 DEF Once
<1> QED BY <1>2, <1>3, <1>4 DEF Once, UnderWay

-----------------------------------------------------------------------------
(* What does not concern a load.                                           *)

LEMMA Made == \A l \in Loads, method \in Methods, items \in SUBSET Items :
                /\ The(l, method, items) \in Calls /\ The(l, method, items).load = l
                /\ The(l, method, items).method = method /\ The(l, method, items).items = items
BY DEF The, Calls

LEMMA LeftSame ==
  ASSUME NEW l \in Loads, \A c \in Calls : c.load = l => (UnderWay(c)' <=> UnderWay(c))
  PROVE  Left(l)' = Left(l)
<1>1. \A i \in Items : /\ UnderWay(The(l, "Attributes", {i}))' <=> UnderWay(The(l, "Attributes", {i}))
                       /\ UnderWay(The(l, "GetSecret", {i}))' <=> UnderWay(The(l, "GetSecret", {i}))
  <2> SUFFICES ASSUME NEW i \in Items, NEW method \in {"Attributes", "GetSecret"}
               PROVE  UnderWay(The(l, method, {i}))' <=> UnderWay(The(l, method, {i}))
    OBVIOUS
  <2>1. {i} \in SUBSET Items /\ method \in Methods
    BY DEF Methods
  <2> QED BY <2>1, Made
<1> QED BY <1>1 DEF Left

\* The chain of a load rests on its calls under way and on these members.
LEMMA ChainSame ==
  ASSUME NEW l \in Loads, Chain(l), \A c \in Calls : c.load = l => (UnderWay(c)' <=> UnderWay(c)),
         reads'[l].phase = reads[l].phase, reads'[l].waiting = reads[l].waiting,
         reads'[l].unlocked = reads[l].unlocked, reads'[l].prompting = reads[l].prompting
  PROVE  Chain(l)'
<1>1. Left(l)' = Left(l)
  BY LeftSame
<1>2. OnlyExpected(l)'
  BY DEF Chain, OnlyExpected
<1>3. OneCall(l)'
  BY DEF Chain, OneCall
<1>4. CallEach(l)'
  <2> SUFFICES ASSUME reads[l].phase = "reading"
               PROVE  /\ reads[l].waiting = Cardinality(Left(l)) /\ Left(l) # {}
                      /\ \A c \in Calls : c.load = l /\ c.method \in {"Attributes", "GetSecret"} /\ UnderWay(c)' =>
                           \E i \in reads[l].unlocked : c.items = {i}
                      /\ \A i \in Items :
                           ~(UnderWay(The(l, "Attributes", {i}))' /\ UnderWay(The(l, "GetSecret", {i}))')
    BY <1>1 DEF CallEach
  <2>1. CallEach(l)
    BY DEF Chain
  <2>2. \A i \in Items : The(l, "Attributes", {i}) \in Calls /\ The(l, "GetSecret", {i}) \in Calls
    <3> SUFFICES ASSUME NEW i \in Items, NEW method \in {"Attributes", "GetSecret"}
                 PROVE  The(l, method, {i}) \in Calls
      OBVIOUS
    <3>1. {i} \in SUBSET Items /\ method \in Methods
      BY DEF Methods
    <3> QED BY <3>1, Made
  <2>3. \A i \in Items : The(l, "Attributes", {i}).load = l /\ The(l, "GetSecret", {i}).load = l
    BY DEF The
  <2> QED BY <2>1, <2>2, <2>3 DEF CallEach
<1> QED BY <1>2, <1>3, <1>4 DEF Chain

\* m is about l.
Concerns(m, l) == \/ m.type = "reply" /\ m.call.load = l
                  \/ m.type = "completed" /\ m.load = l

LEMMA Unaffected ==
  ASSUME Types, Types', NEW l \in Loads, LoadInv(l), reads'[l] = reads[l], alive' => alive,
         \A c \in Calls : c.load = l => (c \in calls' <=> c \in calls),
         \A m \in Replies \cup Completions : Concerns(m, l) => (m \in Arriving' <=> m \in Arriving),
         \A p \in Calls : p.load = l => (p \in keyring'.prompts <=> p \in keyring.prompts),
         l \in keyring'.sessions <=> l \in keyring.sessions, keyring'.locked \subseteq keyring.locked
  PROVE  LoadInv(l)'
<1>1. Arriving \subseteq Replies \cup Completions /\ Arriving' \subseteq Replies \cup Completions
  BY DEF Arriving, Types
<1>2. calls \subseteq Calls /\ calls' \subseteq Calls /\ keyring.prompts \subseteq Calls /\ keyring'.prompts \subseteq Calls
  BY DEF Types
<1>3. \A c \in Calls : c.load = l => (Answering(c)' <=> Answering(c))
  BY <1>1 DEF Answering, Concerns
<1>4. \A c \in Calls : c.load = l => (UnderWay(c)' <=> UnderWay(c))
  BY <1>3 DEF UnderWay
<1>5. Left(l)' = Left(l)
  BY <1>4, LeftSame
<1>6. Prompts(l)' = Prompts(l)
  BY <1>2 DEF Prompts
<1>7. Answers(l)' = Answers(l)
  BY <1>1 DEF Answers, Concerns
<1>8. ASSUME alive', ~reads[l].failed PROVE Kept(l)'
  <2> USE <1>8
  <2>1. Kept(l)
    BY DEF LoadInv
  <2>2. Open(l)'
    BY <2>1 DEF Kept, Open
  <2>3. Succeeds(l)'
    <3> SUFFICES ASSUME NEW m \in Arriving', m.type = "reply", m.call.load = l
                 PROVE  /\ m.call.method \notin {"GetSecrets", "Close"} => m.ok
                        /\ m.call.method = "OpenSession" => l \in keyring'.sessions
                        /\ m.call.method = "SearchItems" => (Items \ m.value) \cap keyring'.locked = {}
                        /\ m.call.method = "Unlock" => /\ m.value \subseteq m.call.items /\ m.value \cap keyring'.locked = {}
                                                       /\ ~m.prompt => m.value = m.call.items
      BY DEF Succeeds
    <3>1. m \in Arriving
      BY <1>1 DEF Concerns
    <3>2. /\ m.call.method \notin {"GetSecrets", "Close"} => m.ok
          /\ m.call.method = "OpenSession" => l \in keyring.sessions
          /\ m.call.method = "SearchItems" => (Items \ m.value) \cap keyring.locked = {}
          /\ m.call.method = "Unlock" => /\ m.value \subseteq m.call.items /\ m.value \cap keyring.locked = {}
                                         /\ ~m.prompt => m.value = m.call.items
      BY <2>1, <3>1 DEF Kept, Succeeds
    <3> QED BY <3>2
  <2>4. Searched(l)'
    BY <1>4, <2>1 DEF Kept, Searched, AskedFor
  <2>5. OnePrompt(l)'
    <3>1. \A c \in Prompts(l)' :
            AskedFor(l)' /\ reads'[l].asked \subseteq c.items /\ Prompts(l)' = {c} /\ Answers(l)' = {}
      BY <1>6, <1>7, <2>1 DEF Kept, OnePrompt, AskedFor
    <3>2. \A c \in calls' : c.load = l /\ c.method = "Prompt" => c \notin keyring'.prompts
      BY <1>2, <2>1 DEF Kept, OnePrompt
    <3> QED BY <3>1, <3>2 DEF OnePrompt
  <2>6. PromptAnswer(l)'
    BY <1>7, <2>1 DEF Kept, PromptAnswer, AskedFor
  <2>7. ReadSoFar(l)'
    <3>1. \A i \in Unkeyed \cap Items : UnderWay(The(l, "GetSecret", {i}))' <=> UnderWay(The(l, "GetSecret", {i}))
      <4> TAKE i \in Unkeyed \cap Items
      <4>1. {i} \in SUBSET Items /\ "GetSecret" \in Methods
        BY DEF Methods
      <4> QED BY <1>4, <4>1, Made
    <3>2. \A i \in Unkeyed : i \notin Items => ~UnderWay(The(l, "GetSecret", {i}))'
      <4> SUFFICES ASSUME NEW i \in Unkeyed, UnderWay(The(l, "GetSecret", {i}))' PROVE i \in Items
        OBVIOUS
      <4>1. The(l, "GetSecret", {i}) \in Calls
        BY <1>1, <1>2 DEF UnderWay, Answering, Replies, Completions
      <4> QED BY <4>1 DEF Calls, The
    <3> QED BY <1>5, <2>1, <3>1, <3>2 DEF Kept, ReadSoFar, AskedFor
  <2>8. Closes(l)'
    <3>1. {} \in SUBSET Items /\ "Close" \in Methods
      BY DEF Methods
    <3> QED BY <2>1, <3>1, Made DEF Kept, Closes
  <2> QED BY <2>2, <2>3, <2>4, <2>5, <2>6, <2>7, <2>8 DEF Kept
<1>9. alive' => Chain(l)'
  BY <1>4, ChainSame DEF LoadInv
<1>10. Counted(l)' /\ (~reads'[l].failed => Prompted(l)' /\ Whole(l)')
  BY <1>6 DEF LoadInv, Counted, Prompted, Whole
<1> QED BY <1>8, <1>9, <1>10 DEF LoadInv

-----------------------------------------------------------------------------
(* The keyring and NetworkManager.                                         *)

\* What a reply to a load that did not fail says.
Says(l, m) ==
  /\ m.call.method \notin {"GetSecrets", "Close"} => m.ok
  /\ m.call.method = "OpenSession" => l \in keyring.sessions
  /\ m.call.method = "SearchItems" => (Items \ m.value) \cap keyring.locked = {}
  /\ m.call.method = "Unlock" => /\ m.value \subseteq m.call.items /\ m.value \cap keyring.locked = {}
                                 /\ ~m.prompt => m.value = m.call.items

\* The load whose call is answered.
LEMMA AnsweredOwn ==
  ASSUME Types, Types', Once, NEW l \in Loads, LoadInv(l),
         NEW c \in calls, c.load = l, NEW m \in Replies, m.call = c,
         calls' = calls \ {c}, inbox' = Append(inbox, m), reads'[l] = reads[l], alive' = alive,
         keyring'.locked = keyring.locked,
         keyring'.prompts = keyring.prompts \cup (IF c.method = "Prompt" THEN {c} ELSE {}),
         c.method # "Close" => keyring.sessions \subseteq keyring'.sessions,
         c.method # "OpenSession" => keyring'.sessions \subseteq keyring.sessions,
         c.method = "Close" /\ ~reads[l].failed => l \notin keyring'.sessions,
         alive /\ ~reads[l].failed => Says(l, m)'
  PROVE  LoadInv(l)'
<1>1. Arriving' = Arriving \cup {m} /\ \A d : UnderWay(d)' <=> UnderWay(d)
  BY AnswerSent
<1>2. Left(l)' = Left(l)
  BY <1>1, LeftSame
<1>3. Prompts(l)' = Prompts(l)
  BY DEF Prompts
<1>4. m.type = "reply" /\ Answers(l)' = Answers(l)
  BY <1>1 DEF Answers, Replies
<1>5. alive' => Chain(l)'
  BY <1>1, ChainSame DEF LoadInv
<1>6. Counted(l)' /\ (~reads'[l].failed => Prompted(l)' /\ Whole(l)')
  BY <1>3 DEF LoadInv, Counted, Prompted, Whole
<1>7. ASSUME alive, ~reads[l].failed PROVE Kept(l)'
  <2> USE <1>7
  <2>1. Kept(l) /\ Chain(l)
    BY DEF LoadInv
  <2>2. c \in Calls /\ UnderWay(c) /\ Expected(reads[l].phase, c.method)
    BY <2>1 DEF Types, UnderWay, Chain, OnlyExpected
  <2>3. Open(l)'
    BY <2>1 DEF Kept, Open
  <2>4. Succeeds(l)'
    <3> SUFFICES ASSUME NEW n \in Arriving, n.type = "reply", n.call.load = l PROVE Says(l, n)'
      BY <1>1 DEF Succeeds, Says
    <3>1. Says(l, n)
      BY <2>1 DEF Kept, Succeeds, Says
    <3>2. CASE c.method # "Close"
      BY <3>1, <3>2 DEF Says
    <3>3. CASE c.method = "Close"
      <4>1. n.call \in Calls /\ UnderWay(n.call)
        <5>1. n \in Replies \cup Completions
          BY DEF Types, Arriving
        <5>2. n.call \in Calls
          BY <5>1 DEF Replies, Completions
        <5> QED BY <5>2 DEF UnderWay, Answering
      <4>2. Expected(reads[l].phase, n.call.method)
        BY <2>1, <4>1 DEF Chain, OnlyExpected
      <4>3. n.call.method # "OpenSession"
        BY <2>2, <3>3, <4>2 DEF Expected
      <4> QED BY <3>1, <4>3 DEF Says
    <3> QED BY <3>2, <3>3
  <2>5. Searched(l)'
    <3>1. reads[l].phase \in {"searching", "prompting", "reading"} => c.method # "Close"
      BY <2>2 DEF Expected
    <3> QED BY <1>1, <2>1, <3>1 DEF Kept, Searched, AskedFor
  <2>6. OnePrompt(l)'
    <3>1. \A d \in Prompts(l)' :
            AskedFor(l)' /\ reads'[l].asked \subseteq d.items /\ Prompts(l)' = {d} /\ Answers(l)' = {}
      BY <1>3, <1>4, <2>1 DEF Kept, OnePrompt, AskedFor
    <3>2. ASSUME NEW d \in calls', d.load = l, d.method = "Prompt" PROVE d \notin keyring'.prompts
      <4>1. d \in Prompts(l) /\ d # c /\ d \notin keyring.prompts
        BY <2>1, <3>2 DEF Prompts, Kept, OnePrompt
      <4>2. c.method = "Prompt" => c \in Prompts(l)
        BY DEF Prompts
      <4>3. c.method # "Prompt"
        BY <2>1, <4>1, <4>2 DEF Kept, OnePrompt
      <4> QED BY <4>1, <4>3
    <3> QED BY <3>1, <3>2 DEF OnePrompt
  <2>7. PromptAnswer(l)'
    BY <1>4, <2>1 DEF Kept, PromptAnswer, AskedFor
  <2>8. ReadSoFar(l)'
    BY <1>1, <1>2, <2>1 DEF Kept, ReadSoFar, AskedFor
  <2>9. Closes(l)'
    <3>1. SUFFICES ASSUME reads[l].phase = "done"
                   PROVE  The(l, "Close", {}) \in calls' \/ l \notin keyring'.sessions
      BY DEF Closes
    <3>2. c.method # "OpenSession"
      BY <2>2, <3>1 DEF Expected
    <3>3. c.method = "Close" \/ c # The(l, "Close", {})
      BY DEF The
    <3> QED BY <2>1, <3>1, <3>2, <3>3 DEF Kept, Closes
  <2> QED BY <2>3, <2>4, <2>5, <2>6, <2>7, <2>8, <2>9 DEF Kept
<1> QED BY <1>5, <1>6, <1>7 DEF LoadInv

\* The others.
LEMMA AnsweredOther ==
  ASSUME Types, Types', Once, NEW l \in Loads, LoadInv(l),
         NEW c \in calls, c.load # l, NEW m \in Replies, m.call = c,
         calls' = calls \ {c}, inbox' = Append(inbox, m), reads'[l] = reads[l], alive' = alive,
         keyring'.locked = keyring.locked,
         keyring'.prompts = keyring.prompts \/ keyring'.prompts = keyring.prompts \cup {c},
         l \in keyring'.sessions <=> l \in keyring.sessions
  PROVE  LoadInv(l)'
<1>1. Arriving' = Arriving \cup {m} /\ ~Concerns(m, l)
  BY AnswerSent DEF Concerns, Replies
<1> QED BY <1>1, Unaffected

\* What the keyring does to serve a call, and its answer.
Serves(c, ok, value, prompt) ==
  CASE c.method = "OpenSession" ->
         keyring' = [keyring EXCEPT !.sessions = @ \cup {c.load}] /\ ok
    [] c.method = "Close" -> keyring' = [keyring EXCEPT !.sessions = @ \ {c.load}]
    [] c.method = "Prompt" -> keyring' = [keyring EXCEPT !.prompts = @ \cup {c}] /\ ok
    [] c.method = "SearchItems" -> keyring' = keyring /\ ok /\ value = keyring.locked
    [] c.method = "Unlock" -> /\ keyring' = keyring /\ ok /\ value = c.items \ keyring.locked
                              /\ ~prompt => c.items \cap keyring.locked = {}
    [] c.method = "GetSecret" -> keyring' = keyring /\ (ok <=> Session(c) /\ c.items \cap keyring.locked = {})
    [] OTHER -> keyring' = keyring /\ ok

LEMMA ServeCases ==
  ASSUME Types, NEW c \in calls, Serve(c)
  PROVE  /\ \E ok \in BOOLEAN, value \in SUBSET Items, prompt \in BOOLEAN :
              Answered(c, ok, value, prompt) /\ Serves(c, ok, value, prompt)
         /\ UNCHANGED <<reads, alive, events>>
<1>1. c \in Calls /\ keyring.locked \in SUBSET Items /\ c.items \in SUBSET Items /\ c.method \in Methods
  BY DEF Types, Calls
<1>2. UNCHANGED <<reads, alive, events>>
  BY DEF Serve
<1>3. PICK session \in BOOLEAN : session <=> Session(c)
  BY Zenon DEF Session
<1>31. PICK ask \in BOOLEAN : ask <=> c.items \cap keyring.locked # {}
  BY Zenon
<1>32. PICK read \in BOOLEAN : read <=> session /\ ~ask
  BY Zenon
<1>4. CASE c.method = "OpenSession"
  <2>1. Answered(c, TRUE, {}, FALSE) /\ Serves(c, TRUE, {}, FALSE)
    BY <1>4 DEF Serve, Serves
  <2> QED BY <1>2, <2>1
<1>5. CASE c.method = "Close"
  <2>1. Answered(c, session, {}, FALSE) /\ Serves(c, session, {}, FALSE)
    BY <1>3, <1>5 DEF Serve, Serves, Answered, Session
  <2> QED BY <1>2, <2>1
<1>6. CASE c.method = "SearchItems"
  <2>1. Answered(c, TRUE, keyring.locked, FALSE) /\ Serves(c, TRUE, keyring.locked, FALSE)
    BY <1>6 DEF Serve, Serves
  <2> QED BY <1>1, <1>2, <2>1
<1>7. CASE c.method = "Unlock"
  <2>1. Answered(c, TRUE, c.items \ keyring.locked, ask) /\ Serves(c, TRUE, c.items \ keyring.locked, ask)
    BY <1>31, <1>7 DEF Serve, Serves, Answered
  <2>2. c.items \ keyring.locked \in SUBSET Items
    BY <1>1
  <2> QED BY <1>2, <2>1, <2>2
<1>8. CASE c.method = "Prompt"
  <2>1. Answered(c, TRUE, {}, FALSE) /\ Serves(c, TRUE, {}, FALSE)
    BY <1>8 DEF Serve, Serves
  <2> QED BY <1>2, <2>1
<1>9. CASE c.method = "GetSecret"
  <2>1. Answered(c, read, {}, FALSE) /\ Serves(c, read, {}, FALSE)
    BY <1>3, <1>31, <1>32, <1>9 DEF Serve, Serves, Answered, Session
  <2> QED BY <1>2, <2>1
<1>10. CASE c.method \in {"GetSecrets", "Attributes"}
  <2>1. Answered(c, TRUE, {}, FALSE) /\ Serves(c, TRUE, {}, FALSE)
    BY <1>10 DEF Serve, Serves
  <2> QED BY <1>2, <2>1
<1> QED BY <1>1, <1>4, <1>5, <1>6, <1>7, <1>8, <1>9, <1>10 DEF Methods

LEMMA ServeStep ==
  ASSUME Inv, NEW c \in calls, Serve(c)
  PROVE  Inv'
<1> USE DEF Inv
<1>1. PICK ok \in BOOLEAN, value \in SUBSET Items, prompt \in BOOLEAN :
        Answered(c, ok, value, prompt) /\ Serves(c, ok, value, prompt)
  BY ServeCases
<1>2. UNCHANGED <<reads, alive, events>>
  BY DEF Serve
<1>3. c \in Calls /\ c.load \in Loads /\ c.items \in SUBSET Items /\ c.method \in Methods
  BY DEF Types, Calls
<1>4. PICK m \in Replies : /\ m.call = c /\ m.ok = ok /\ m.value = value /\ m.prompt = prompt
                           /\ inbox' = Append(inbox, m) /\ calls' = calls \ {c}
  BY <1>1, <1>3 DEF Replies, Answered
<1>5. Once' /\ calls' \subseteq Calls /\ inbox' \in Seq(Replies \cup Completions)
  BY <1>4, AnswerSent
<1>6. keyring' \in [locked : SUBSET Items, sessions : SUBSET Loads, prompts : SUBSET Calls]
  BY <1>1, <1>3 DEF Types, Serves
<1>7. Types'
  BY <1>2, <1>5, <1>6 DEF Types
<1>8. /\ keyring'.locked = keyring.locked
      /\ keyring'.prompts = keyring.prompts \cup (IF c.method = "Prompt" THEN {c} ELSE {})
      /\ c.method = "OpenSession" => keyring'.sessions = keyring.sessions \cup {c.load}
      /\ c.method = "Close" => keyring'.sessions = keyring.sessions \ {c.load}
      /\ c.method \notin {"OpenSession", "Close"} => keyring'.sessions = keyring.sessions
  BY <1>1, <1>3 DEF Types, Serves
<1>9. ASSUME NEW l \in Loads, l # c.load PROVE LoadInv(l)'
  BY <1>2, <1>4, <1>7, <1>8, <1>9, AnsweredOther
<1>10. LoadInv(c.load)'
  <2> DEFINE l == c.load
  <2>1. LoadInv(l)
    BY <1>3
  <2>2. ASSUME alive, ~reads[l].failed PROVE Says(l, m)'
    <3>1. Chain(l) /\ Kept(l) /\ UnderWay(c)
      BY <2>1, <2>2 DEF LoadInv, UnderWay
    <3>2. ASSUME c.method = "GetSecret" PROVE Session(c) /\ c.items \cap keyring.locked = {}
      <4>1. reads[l].phase = "reading"
        BY <1>3, <3>1, <3>2 DEF Chain, OnlyExpected, Expected
      <4>2. l \in keyring.sessions
        BY <3>1, <4>1 DEF Kept, Searched
      <4>3. PICK i \in reads[l].unlocked : c.items = {i}
        BY <1>3, <3>1, <3>2, <4>1 DEF Chain, CallEach
      <4> QED BY <3>1, <4>2, <4>3 DEF Kept, Open, Session
    <3>3. m.call.method \notin {"GetSecrets", "Close"} => m.ok
      BY <1>1, <1>3, <1>4, <3>2 DEF Serves, Methods
    <3>4. m.call.method = "OpenSession" => l \in keyring'.sessions
      BY <1>3, <1>4, <1>8
    <3>5. m.call.method = "SearchItems" => (Items \ m.value) \cap keyring.locked = {}
      BY <1>1, <1>4 DEF Serves
    <3>6. m.call.method = "Unlock" => /\ m.value \subseteq m.call.items /\ m.value \cap keyring.locked = {}
                                      /\ ~m.prompt => m.value = m.call.items
      BY <1>1, <1>4 DEF Serves
    <3> QED BY <1>8, <3>3, <3>4, <3>5, <3>6 DEF Says
  <2>3. l \in Loads /\ reads'[l] = reads[l] /\ alive' = alive
    BY <1>2, <1>3
  <2> HIDE DEF l
  <2>4. c.load = l
    BY DEF l
  <2>5. /\ c.method # "Close" => keyring.sessions \subseteq keyring'.sessions
        /\ c.method # "OpenSession" => keyring'.sessions \subseteq keyring.sessions
        /\ c.method = "Close" => l \notin keyring'.sessions
    BY <1>8, <2>4
  <2> QED BY <1>4, <1>7, <1>8, <2>1, <2>2, <2>3, <2>4, <2>5, AnsweredOwn
<1> QED BY <1>5, <1>7, <1>9, <1>10

LEMMA FailStep ==
  ASSUME Inv, NEW c \in calls, Fail(c)
  PROVE  Inv'
<1> USE DEF Inv
<1>1. c \in Calls /\ c.load \in Loads
  BY DEF Types, Calls
<1>2. PICK m \in Replies : /\ m.call = c /\ ~m.ok
                           /\ inbox' = Append(inbox, m) /\ calls' = calls \ {c}
  <2>1. [type |-> "reply", call |-> c, ok |-> FALSE, value |-> {}, prompt |-> FALSE] \in Replies
    BY <1>1 DEF Replies
  <2> QED BY <2>1 DEF Fail
<1>3. UNCHANGED <<keyring, alive>> /\ events' \in Nat
  BY DEF Fail, Event, Types
<1>4. reads[c.load] \in Reads /\ reads[c.load].failed \in BOOLEAN
  BY <1>1 DEF Types, Reads
<1>5. PICK failed \in BOOLEAN : failed <=> reads[c.load].failed \/ c.method # "GetSecrets"
  BY Zenon
<1>6. reads' = [reads EXCEPT ![c.load] = [reads[c.load] EXCEPT !.failed = failed]]
  BY <1>1, <1>4, <1>5 DEF Fail, Types
<1>7. Once' /\ calls' \subseteq Calls /\ inbox' \in Seq(Replies \cup Completions) /\ \A d : UnderWay(d)' <=> UnderWay(d)
  BY <1>2, AnswerSent
<1>8. Types'
  <2>1. [reads[c.load] EXCEPT !.failed = failed] \in Reads
    BY <1>4 DEF Reads
  <2> QED BY <1>1, <1>3, <1>6, <1>7, <2>1 DEF Types
<1>9. ASSUME NEW l \in Loads, l # c.load PROVE LoadInv(l)'
  <2>1. reads'[l] = reads[l]
    BY <1>1, <1>6, <1>9 DEF Types
  <2> QED BY <1>2, <1>3, <1>8, <1>9, <2>1, AnsweredOther
<1>10. LoadInv(c.load)'
  <2>1. PICK l \in Loads : l = c.load
    BY <1>1
  <2>2. LoadInv(l)
    OBVIOUS
  <2>3. CASE c.method = "GetSecrets"
    <3>1. reads'[l] = reads[l]
      BY <1>1, <1>4, <1>5, <1>6, <2>1, <2>3 DEF Types, Reads
    <3>2. Says(l, m)'
      BY <1>2, <2>3 DEF Says
    <3> QED BY <1>2, <1>3, <1>8, <2>1, <2>2, <2>3, <3>1, <3>2, AnsweredOwn
  <2>4. CASE c.method # "GetSecrets"
    <3>1. /\ reads'[l].failed /\ reads'[l].phase = reads[l].phase /\ reads'[l].waiting = reads[l].waiting
          /\ reads'[l].unlocked = reads[l].unlocked /\ reads'[l].prompting = reads[l].prompting
          /\ reads'[l].answers = reads[l].answers
      BY <1>1, <1>4, <1>5, <1>6, <2>1, <2>4 DEF Types, Reads
    <3>2. alive => Chain(l)'
      BY <1>7, <2>2, <3>1, ChainSame DEF LoadInv
    <3>3. Counted(l)'
      BY <2>2, <3>1 DEF LoadInv, Counted
    <3>4. reads'[l].failed /\ (alive' => Chain(l)')
      BY <1>3, <3>1, <3>2
    <3> QED BY <2>1, <3>3, <3>4 DEF LoadInv
  <2> QED BY <2>1, <2>3, <2>4
<1> QED BY <1>7, <1>8, <1>9, <1>10

\* The daemon crashes: every load failed.
LEMMA CrashStep ==
  ASSUME Inv, Crash
  PROVE  Inv'
<1> USE DEF Inv
<1>1. UNCHANGED <<calls, inbox, alive>> /\ events' \in Nat
  BY DEF Crash, Event, Types
<1>2. \A l \in Loads : reads'[l] = [reads[l] EXCEPT !.failed = TRUE]
  BY DEF Crash
<1>3. Types'
  <2>1. \A l \in Loads : reads[l] \in Reads /\ [reads[l] EXCEPT !.failed = TRUE] \in Reads
    BY DEF Types, Reads
  <2>2. reads' \in [Loads -> Reads]
    BY <2>1 DEF Crash
  <2>3. keyring' \in [locked : SUBSET Items, sessions : SUBSET Loads, prompts : SUBSET Calls]
    BY DEF Crash
  <2> QED BY <1>1, <2>2, <2>3 DEF Types
<1>4. Arriving' = Arriving /\ Once' /\ \A d : UnderWay(d)' <=> UnderWay(d)
  BY <1>1 DEF Arriving, Once, Answering, UnderWay
<1>5. ASSUME NEW l \in Loads PROVE LoadInv(l)'
  <2>1. /\ reads'[l].failed /\ reads'[l].phase = reads[l].phase /\ reads'[l].waiting = reads[l].waiting
        /\ reads'[l].unlocked = reads[l].unlocked /\ reads'[l].prompting = reads[l].prompting
        /\ reads'[l].answers = reads[l].answers
    <3>1. PICK r \in Reads : r = reads[l]
      BY DEF Types
    <3>2. PICK s : s = [r EXCEPT !.failed = TRUE]
      OBVIOUS
    <3>3. /\ s.failed /\ s.phase = r.phase /\ s.waiting = r.waiting /\ s.unlocked = r.unlocked
          /\ s.prompting = r.prompting /\ s.answers = r.answers
      BY <3>2 DEF Reads
    <3>4. reads'[l] = s
      BY <1>2, <3>1, <3>2
    <3> QED BY <3>1, <3>3, <3>4
  <2>2. alive => Chain(l)'
    BY <1>4, <2>1, ChainSame DEF LoadInv
  <2> QED BY <1>1, <2>1, <2>2 DEF LoadInv, Counted
<1> QED BY <1>3, <1>4, <1>5

LEMMA AnswerPromptStep ==
  ASSUME Inv, NEW p \in keyring.prompts, AnswerPrompt(p)
  PROVE  Inv'
<1> USE DEF Inv
<1>1. p \in Calls /\ p.load \in Loads /\ p.items \subseteq Items
  BY DEF Types, Calls
<1>2. PICK dismissed \in BOOLEAN :
        /\ keyring' = [keyring EXCEPT !.prompts = @ \ {p}, !.locked = IF dismissed THEN @ ELSE @ \ p.items]
        /\ inbox' = Append(inbox, [type |-> "completed", load |-> p.load, dismissed |-> dismissed,
                                   value |-> IF dismissed THEN {} ELSE p.items])
        /\ reads' = [reads EXCEPT ![p.load].asked = IF dismissed THEN @ ELSE {}]
        /\ UNCHANGED <<calls, alive, events>>
  BY Zenon DEF AnswerPrompt
<1>3. PICK m \in Completions : /\ m.load = p.load /\ m.dismissed = dismissed
                               /\ m.value = IF dismissed THEN {} ELSE p.items
                               /\ inbox' = Append(inbox, m)
  <2>1. [type |-> "completed", load |-> p.load, dismissed |-> dismissed,
         value |-> IF dismissed THEN {} ELSE p.items] \in Completions
    BY <1>1 DEF Completions
  <2> QED BY <1>2, <2>1
<1>4. /\ Once' /\ inbox' \in Seq(Replies \cup Completions) /\ Arriving' = Arriving \cup {m}
      /\ \A d : UnderWay(d)' <=> UnderWay(d)
  BY <1>2, <1>3, SignalSent
<1>5. m.type = "completed"
  BY DEF Completions
<1>6. PICK asked \in SUBSET Items : asked = IF dismissed THEN reads[p.load].asked ELSE {}
  <2>1. reads[p.load] \in Reads
    BY <1>1 DEF Types
  <2>2. reads[p.load].asked \in SUBSET Items
    BY <2>1 DEF Reads
  <2> QED BY <2>2
<1>7. reads' = [reads EXCEPT ![p.load] = [reads[p.load] EXCEPT !.asked = asked]]
  BY <1>1, <1>2, <1>6 DEF Types
<1>8. Types'
  <2> DEFINE r == reads[p.load]
  <2>0. r \in Reads
    BY <1>1 DEF Types
  <2> HIDE DEF r
  <2>1. [r EXCEPT !.asked = asked] \in Reads
    BY <1>6, <2>0 DEF Reads
  <2>2. reads' \in [Loads -> Reads]
    BY <1>1, <1>7, <2>1 DEF Types, r
  <2>3. keyring' \in [locked : SUBSET Items, sessions : SUBSET Loads, prompts : SUBSET Calls]
    BY <1>2 DEF Types
  <2> QED BY <1>2, <1>4, <2>2, <2>3 DEF Types
<1>9. /\ keyring'.prompts = keyring.prompts \ {p} /\ keyring'.sessions = keyring.sessions
      /\ keyring'.locked = IF dismissed THEN keyring.locked ELSE keyring.locked \ p.items
  BY <1>2 DEF Types
<1>10. ASSUME NEW l \in Loads, l # p.load PROVE LoadInv(l)'
  <2>1. reads'[l] = reads[l]
    BY <1>1, <1>7, <1>10 DEF Types
  <2>2. ~Concerns(m, l)
    BY <1>3, <1>5, <1>10 DEF Concerns
  <2> QED BY <1>2, <1>4, <1>8, <1>9, <1>10, <2>1, <2>2, Unaffected
<1>11. LoadInv(p.load)'
  <2>1. PICK l \in Loads : l = p.load
    BY <1>1
  <2>2. /\ reads'[l].failed = reads[l].failed /\ reads'[l].phase = reads[l].phase /\ reads'[l].waiting = reads[l].waiting
        /\ reads'[l].unlocked = reads[l].unlocked /\ reads'[l].prompting = reads[l].prompting
        /\ reads'[l].answers = reads[l].answers /\ reads'[l].secrets = reads[l].secrets /\ reads'[l].asked = asked
    BY <1>6, <1>7, <2>1 DEF Types, Reads
  <2>3. LoadInv(l) /\ p \in Prompts(l)
    BY <2>1 DEF Prompts
  <2>4. alive' => Chain(l)'
    BY <1>2, <1>4, <2>2, <2>3, ChainSame DEF LoadInv
  <2>5. Counted(l)'
    BY <2>2, <2>3 DEF LoadInv, Counted
  <2>6. ASSUME ~reads[l].failed PROVE /\ reads[l].phase = "prompting" /\ Prompted(l)' /\ Whole(l)'
    <3>1. reads[l].phase = "prompting"
      BY <2>3, <2>6 DEF LoadInv, Prompted
    <3> QED BY <2>2, <3>1 DEF Prompted, Whole
  <2>7. ASSUME alive, ~reads[l].failed PROVE Kept(l)'
    <3> USE <2>6, <2>7
    <3>1. Kept(l) /\ reads[l].phase = "prompting" /\ Chain(l)
      BY <2>3 DEF LoadInv
    <3>2. AskedFor(l) /\ reads[l].asked \subseteq p.items /\ Prompts(l) = {p} /\ Answers(l) = {}
      BY <2>3, <3>1 DEF Kept, OnePrompt
    <3>3. p \notin calls
      <4>1. p \notin calls \/ p.load # l \/ p.method # "Prompt"
        BY <3>1 DEF Kept, OnePrompt
      <4>2. ASSUME p \in calls PROVE p.method = "Prompt"
        <5>1. UnderWay(p) /\ Expected(reads[l].phase, p.method)
          BY <1>1, <2>1, <3>1, <4>2 DEF UnderWay, Chain, OnlyExpected
        <5> QED BY <3>1, <5>1 DEF Expected
      <4> QED BY <2>1, <4>1, <4>2
    <3>4. Prompts(l)' = {}
      BY <1>2, <1>9, <3>2, <3>3 DEF Prompts
    <3>5. Answers(l)' = {m}
      BY <1>3, <1>4, <1>5, <2>1, <3>2 DEF Answers
    <3>6. Open(l)'
      BY <1>9, <2>2, <3>1 DEF Kept, Open
    <3>7. Succeeds(l)'
      <4> SUFFICES ASSUME NEW n \in Arriving, n.type = "reply", n.call.load = l PROVE Says(l, n)'
        BY <1>4, <1>5 DEF Succeeds, Says
      <4>1. Says(l, n)
        BY <3>1 DEF Kept, Succeeds, Says
      <4> QED BY <1>9, <4>1 DEF Says
    <3>8. Searched(l)'
      <4>1. \A c \in Calls : UnderWay(c)' /\ c.load = l => c.method = "Prompt"
        BY <1>4, <3>1 DEF Chain, OnlyExpected, Expected
      <4> QED BY <1>9, <2>2, <3>1, <4>1 DEF Kept, Searched
    <3>9. OnePrompt(l)'
      <4>1. \A c \in calls' : ~(c.load = l /\ c.method = "Prompt")
        BY <3>4 DEF Prompts
      <4> QED BY <3>4, <4>1 DEF OnePrompt
    <3>10. PromptAnswer(l)'
      BY <1>3, <1>6, <1>9, <2>1, <2>2, <3>1, <3>2, <3>5 DEF PromptAnswer, AskedFor
    <3>11. ReadSoFar(l)' /\ Closes(l)'
      BY <2>2, <3>1 DEF ReadSoFar, Closes
    <3> QED BY <3>6, <3>7, <3>8, <3>9, <3>10, <3>11 DEF Kept
  <2>8. LoadInv(l)'
    BY <1>2, <2>2, <2>4, <2>5, <2>6, <2>7 DEF LoadInv
  <2> QED BY <2>1, <2>8
<1> QED BY <1>4, <1>8, <1>10, <1>11

-----------------------------------------------------------------------------
(* The process: it begins a load, and ends.                                *)

LEMMA DestroyStep ==
  ASSUME Inv, Destroy
  PROVE  Inv'
<1> USE DEF Inv
<1>1. UNCHANGED <<keyring, reads, calls, inbox>> /\ ~alive'
  BY Zenon DEF Destroy
<1>11. alive' \in BOOLEAN
  BY Zenon DEF Destroy
<1>12. events' \in Nat
  BY DEF Destroy, Event, Types
<1>2. Types'
  BY <1>1, <1>11, <1>12 DEF Types
<1>3. Arriving' = Arriving
  BY <1>1 DEF Arriving
<1>4. Once'
  BY <1>1, <1>3 DEF Once, Answering
<1>5. ASSUME NEW l \in Loads PROVE LoadInv(l)'
  BY <1>1, <1>2, <1>3, Unaffected
<1> QED BY <1>2, <1>4, <1>5

-----------------------------------------------------------------------------
(* A load goes on with a step, once the call gone is answered.             *)

Good(l, step) ==
  /\ step.read \in Reads /\ step.calls \in SUBSET Calls
  /\ \A d \in step.calls : d.load = l /\ ~UnderWay(d)

Goes(l, gone, step) ==
  /\ reads' = [reads EXCEPT ![l] = step.read] /\ calls' = calls \cup step.calls
  /\ keyring' = keyring /\ alive' /\ Arriving' \subseteq Arriving
  /\ \A d \in Calls : UnderWay(d)' <=> (UnderWay(d) /\ d \notin gone) \/ d \in step.calls

LEMMA Asking ==
  ASSUME NEW l \in Loads, NEW method \in Methods, NEW items \in SUBSET Items
  PROVE  /\ Ask(l, method) = {The(l, method, {})} /\ About(l, method, items) = {The(l, method, items)}
         /\ AboutEach(l, method, items) = {The(l, method, {i}) : i \in items}
BY DEF Ask, About, AboutEach, The

LEMMA GoesByReply ==
  ASSUME Types, Once, alive, NEW l \in Loads, NEW step, Good(l, step),
         inbox # <<>>, inbox' = Tail(inbox), Head(inbox).type = "reply",
         Take(l, step), UNCHANGED keyring, alive'
  PROVE  Goes(l, {Head(inbox).call}, step)
<1> DEFINE c == Head(inbox).call
<1>1. /\ Head(inbox) \in Arriving /\ Arriving' \subseteq Arriving /\ Arriving \subseteq Arriving' \cup {Head(inbox)}
      /\ \A m \in Arriving' : m.type = "reply" => m.call # c
  BY Taken
<1>2. \A d : Answering(d)' <=> Answering(d) /\ d # c
  BY <1>1 DEF Answering
<1>3. c \notin calls
  BY <1>1 DEF Once, Answering
<1>4. calls' = calls \cup step.calls
  BY DEF Take
<1>5. \A d \in Calls : UnderWay(d)' <=> (UnderWay(d) /\ d # c) \/ d \in step.calls
  BY <1>2, <1>3, <1>4 DEF UnderWay, Good
<1> QED BY <1>1, <1>5 DEF Goes, Take

LEMMA GoesBySignal ==
  ASSUME Types, alive, NEW l \in Loads, NEW step, Good(l, step),
         UNCHANGED inbox \/ (inbox # <<>> /\ inbox' = Tail(inbox) /\ Head(inbox).type = "completed"),
         Take(l, step), UNCHANGED keyring, alive'
  PROVE  Goes(l, {}, step)
<1>1. Arriving' \subseteq Arriving /\ \A m \in Arriving : m.type = "reply" => m \in Arriving'
  <2>1. CASE UNCHANGED inbox
    BY <2>1 DEF Arriving
  <2>2. CASE inbox # <<>> /\ inbox' = Tail(inbox) /\ Head(inbox).type = "completed"
    BY <2>2, Taken
  <2> QED BY <2>1, <2>2
<1>2. \A d : Answering(d)' <=> Answering(d)
  BY <1>1 DEF Answering
<1>3. calls' = calls \cup step.calls
  BY DEF Take
<1>4. \A d \in Calls : UnderWay(d)' <=> UnderWay(d) \/ d \in step.calls
  BY <1>2, <1>3 DEF UnderWay
<1> QED BY <1>1, <1>4 DEF Goes, Take

\* The other loads, and the types, are as they were.
LEMMA Together ==
  ASSUME Inv, alive, NEW l \in Loads, NEW gone, NEW step, Good(l, step), Goes(l, gone, step), events' \in Nat,
         UNCHANGED inbox \/ (inbox # <<>> /\ inbox' = Tail(inbox) /\ Concerns(Head(inbox), l)),
         alive' \in BOOLEAN, LoadInv(l)'
  PROVE  Inv'
<1> USE DEF Inv
<1>1. /\ inbox' \in Seq(Replies \cup Completions) /\ Arriving' \subseteq Arriving
      /\ \A m \in Arriving : m \in Arriving' \/ Concerns(m, l)
      /\ \A j, k \in 1 .. Len(inbox') :
           inbox'[j].type = "reply" /\ inbox'[k].type = "reply" /\ inbox'[j].call = inbox'[k].call => j = k
  <2>1. CASE UNCHANGED inbox
    BY <2>1 DEF Types, Arriving, Once
  <2>2. CASE inbox # <<>> /\ inbox' = Tail(inbox) /\ Concerns(Head(inbox), l)
    BY <2>2, Taken
  <2> QED BY <2>1, <2>2
<1>2. /\ reads' = [reads EXCEPT ![l] = step.read] /\ calls' = calls \cup step.calls
      /\ keyring' = keyring
  BY DEF Goes
<1>3. Types'
  <2>1. reads' \in [Loads -> Reads] /\ calls' \subseteq Calls
    BY <1>2 DEF Good, Types
  <2> QED BY <1>1, <1>2, <2>1 DEF Types
<1>4. Once'
  <2>1. ASSUME NEW d \in calls', Answering(d)' PROVE FALSE
    <3>1. Answering(d)
      BY <1>1, <2>1 DEF Answering
    <3>2. d \in calls \/ ~UnderWay(d)
      BY <1>2 DEF Good
    <3> QED BY <3>1, <3>2 DEF Once, UnderWay
  <2> QED BY <1>1, <2>1 DEF Once
<1>5. ASSUME NEW k \in Loads, k # l PROVE LoadInv(k)'
  <2>1. reads'[k] = reads[k]
    BY <1>2, <1>5 DEF Types
  <2>2. \A c \in Calls : c.load = k => (c \in calls' <=> c \in calls)
    BY <1>2, <1>5 DEF Good
  <2>3. \A m \in Replies \cup Completions : Concerns(m, k) => (m \in Arriving' <=> m \in Arriving)
    BY <1>1, <1>5 DEF Concerns
  <2> QED BY <1>2, <1>3, <1>5, <2>1, <2>2, <2>3, Unaffected
<1> QED BY <1>3, <1>4, <1>5

\* What of a load's state a step leaves alone.
LEMMA GoesKeeps ==
  ASSUME Types, NEW l \in Loads, NEW gone, NEW step, Good(l, step), Goes(l, gone, step)
  PROVE  /\ reads'[l] = step.read /\ Answers(l)' \subseteq Answers(l)
         /\ Succeeds(l) => Succeeds(l)'
         /\ (\A d \in step.calls : d.method # "Prompt") => Prompts(l)' = Prompts(l)
<1>1. reads'[l] = step.read
  BY DEF Goes, Types
<1>2. Answers(l)' \subseteq Answers(l)
  BY DEF Goes, Answers
<1>3. ASSUME Succeeds(l) PROVE Succeeds(l)'
  <2>1. \A m \in Arriving : m.type = "reply" /\ m.call.load = l => Says(l, m)
    BY <1>3 DEF Succeeds, Says
  <2>2. \A m \in Arriving' : m.type = "reply" /\ m.call.load = l => Says(l, m)'
    BY <2>1 DEF Goes, Says
  <2> QED BY <2>2 DEF Succeeds, Says
<1>4. ASSUME \A d \in step.calls : d.method # "Prompt" PROVE Prompts(l)' = Prompts(l)
  BY <1>4 DEF Goes, Prompts
<1> QED BY <1>1, <1>2, <1>3, <1>4

\* What is left under way is a prompt's.
Rest(l, gone) == \A d \in Calls : d.load = l /\ UnderWay(d) /\ d \notin gone => d.method = "Prompt"

LEMMA DoneRead ==
  ASSUME NEW r \in Reads, r.answers = 0
  PROVE  /\ Done(r) \in Reads /\ Done(r).phase = "done" /\ Done(r).answers = 1
         /\ Done(r).prompting = r.prompting /\ Done(r).unlocked = r.unlocked /\ Done(r).secrets = r.secrets
         /\ Done(r).asked = r.asked /\ Done(r).failed = r.failed
<1>1. PICK one \in Nat : one = 1 /\ one = r.answers + 1
  OBVIOUS
<1>2. Done(r) = [r EXCEPT !.phase = "done", !.answers = one]
  BY <1>1 DEF Done
<1>3. Done(r) \in Reads
  BY <1>2 DEF Reads, Phases
<1> QED BY <1>1, <1>2, <1>3 DEF Reads

\* The load is answered, and its session closed.
LEMMA ConcludedStep ==
  ASSUME Types, NEW l \in Loads, LoadInv(l), alive, NEW r \in Reads, NEW gone, Rest(l, gone),
         r.answers = 0, ~r.prompting, r.unlocked = reads[l].unlocked, ~r.failed => ~reads[l].failed,
         ~r.failed => r.secrets = Items \ (Unkeyed \cup r.asked) /\ Prompts(l) = {},
         Good(l, Concluded(l, r)), Goes(l, gone, Concluded(l, r))
  PROVE  LoadInv(l)'
<1>1. Concluded(l, r).read = Done(r) /\ Concluded(l, r).calls = {The(l, "Close", {})}
  BY DEF Concluded, Step, Ask, The
<1>2. PICK s \in Reads : /\ s = Done(r) /\ s.phase = "done" /\ s.answers = 1 /\ ~s.prompting
                         /\ s.unlocked = r.unlocked /\ s.secrets = r.secrets /\ s.asked = r.asked /\ s.failed = r.failed
  BY DoneRead
<1>3. The(l, "Close", {}) \in Calls /\ The(l, "Close", {}).method = "Close"
  BY DEF The, Calls, Methods
<1>4. /\ reads'[l] = s /\ Answers(l)' \subseteq Answers(l) /\ (Succeeds(l) => Succeeds(l)')
      /\ Prompts(l)' = Prompts(l)
  <2>1. \A d \in Concluded(l, r).calls : d.method # "Prompt"
    BY <1>1, <1>3
  <2> QED BY <1>1, <1>2, <2>1, GoesKeeps
<1>5. \A d \in Calls : d.load = l /\ UnderWay(d)' => d.method \in {"Prompt", "Close"}
  BY <1>1, <1>3 DEF Goes, Rest
<1>6. Chain(l)'
  BY <1>2, <1>4, <1>5 DEF Chain, OnlyExpected, OneCall, CallEach, Expected
<1>7. Counted(l)'
  BY <1>2, <1>4 DEF Counted
<1>8. ASSUME ~r.failed PROVE Prompted(l)' /\ Whole(l)' /\ Kept(l)'
  <2> USE <1>8
  <2>1. Kept(l) /\ Prompts(l)' = {} /\ keyring' = keyring
    BY <1>4 DEF LoadInv, Goes
  <2>2. Prompted(l)' /\ Whole(l)'
    BY <1>2, <1>4, <2>1 DEF Prompted, Whole
  <2>3. Open(l)' /\ Succeeds(l)'
    BY <1>2, <1>4, <2>1 DEF Kept, Open
  <2>4. Searched(l)'
    BY <1>2, <1>4, <1>5 DEF Searched
  <2>5. OnePrompt(l)'
    <3>1. \A c \in calls' : ~(c.load = l /\ c.method = "Prompt")
      BY <2>1 DEF Prompts
    <3> QED BY <2>1, <3>1 DEF OnePrompt
  <2>6. PromptAnswer(l)' /\ ReadSoFar(l)'
    BY <1>2, <1>4 DEF PromptAnswer, ReadSoFar
  <2>7. Closes(l)'
    BY <1>1 DEF Goes, Closes
  <2> QED BY <2>2, <2>3, <2>4, <2>5, <2>6, <2>7 DEF Kept
<1> QED BY <1>2, <1>4, <1>6, <1>7, <1>8 DEF LoadInv

\* The items found are read, each by a call of its own; or there are none.
LEMMA FoundGood ==
  ASSUME IsFiniteSet(Items), NEW l \in Loads, Chain(l), reads[l].phase \in {"searching", "prompting"},
         NEW r \in Reads, r.answers = 0, NEW items \in SUBSET Items
  PROVE  Good(l, Found(l, r, items))
<1>1. \A method \in {"Attributes", "Close"}, x \in SUBSET Items :
        The(l, method, x) \in Calls /\ The(l, method, x).load = l /\ ~UnderWay(The(l, method, x))
  <2> SUFFICES ASSUME NEW method \in {"Attributes", "Close"}, NEW x \in SUBSET Items
               PROVE  /\ The(l, method, x) \in Calls /\ The(l, method, x).load = l
                      /\ ~UnderWay(The(l, method, x))
    OBVIOUS
  <2>1. /\ The(l, method, x) \in Calls /\ The(l, method, x).load = l /\ The(l, method, x).method = method
    BY Made DEF Methods
  <2> QED BY <2>1 DEF Chain, OnlyExpected, Expected
<1>2. CASE items = {}
  <2>1. Found(l, r, items).read = Done(r) /\ Found(l, r, items).calls = {The(l, "Close", {})}
    BY <1>2 DEF Found, Concluded, Step, Ask, The
  <2>2. Done(r) \in Reads
    BY DoneRead
  <2> QED BY <1>1, <2>1, <2>2 DEF Good
<1>3. CASE items # {}
  <2>1. /\ Found(l, r, items).read =
             [r EXCEPT !.phase = "reading", !.unlocked = items, !.waiting = Cardinality(items)]
        /\ Found(l, r, items).calls = {The(l, "Attributes", {i}) : i \in items}
    BY <1>3 DEF Found, Step, AboutEach, The
  <2>2. Cardinality(items) \in Nat
    BY FS_Subset, FS_CardinalityType
  <2>3. Found(l, r, items).read \in Reads
    BY <2>1, <2>2 DEF Reads, Phases
  <2>4. ASSUME NEW d \in Found(l, r, items).calls PROVE d \in Calls /\ d.load = l /\ ~UnderWay(d)
    <3>1. PICK i \in items : d = The(l, "Attributes", {i})
      BY <2>1
    <3>2. {i} \in SUBSET Items
      OBVIOUS
    <3> QED BY <1>1, <3>1, <3>2
  <2> QED BY <2>3, <2>4 DEF Good
<1> QED BY <1>2, <1>3

LEMMA FoundStep ==
  ASSUME IsFiniteSet(Items), Types, NEW l \in Loads, LoadInv(l), alive,
         reads[l].phase \in {"searching", "prompting"},
         NEW r \in Reads, r.answers = 0, ~r.prompting, r.unlocked = reads[l].unlocked, r.secrets = reads[l].secrets,
         ~r.failed => ~reads[l].failed,
         NEW items \in SUBSET Items, NEW gone, Rest(l, gone),
         ~r.failed => /\ items = Items \ r.asked /\ items \cap keyring.locked = {} /\ Prompts(l) = {},
         Goes(l, gone, Found(l, r, items))
  PROVE  LoadInv(l)'
<1>1. Good(l, Found(l, r, items))
  BY FoundGood DEF LoadInv
<1>2. ~r.failed => r.secrets = {} /\ l \in keyring.sessions
  BY DEF LoadInv, Kept, Searched
<1>3. CASE items = {}
  <2>1. Found(l, r, items) = Concluded(l, r)
    BY <1>3 DEF Found
  <2>2. ~r.failed => r.secrets = Items \ (Unkeyed \cup r.asked)
    BY <1>2, <1>3
  <2> QED BY <1>1, <2>1, <2>2, ConcludedStep
<1>4. CASE items # {}
  <2>1. /\ Found(l, r, items).read =
             [r EXCEPT !.phase = "reading", !.unlocked = items, !.waiting = Cardinality(items)]
        /\ Found(l, r, items).calls = {The(l, "Attributes", {i}) : i \in items}
    BY <1>4 DEF Found, Step, AboutEach, The
  <2>2. PICK s \in Reads : /\ s = Found(l, r, items).read /\ s.phase = "reading" /\ s.unlocked = items
                           /\ s.waiting = Cardinality(items) /\ ~s.prompting /\ s.answers = 0
                           /\ s.secrets = r.secrets /\ s.asked = r.asked /\ s.failed = r.failed
    BY <1>1, <2>1 DEF Good, Reads
  <2>3. \A i \in Items : /\ The(l, "Attributes", {i}) \in Calls /\ The(l, "GetSecret", {i}) \in Calls
                         /\ The(l, "Attributes", {i}).load = l /\ The(l, "GetSecret", {i}).load = l
                         /\ The(l, "Attributes", {i}).method = "Attributes" /\ The(l, "Attributes", {i}).items = {i}
                         /\ The(l, "GetSecret", {i}).method = "GetSecret"
    BY DEF The, Calls, Methods
  <2>4. /\ reads'[l] = s /\ Answers(l)' \subseteq Answers(l) /\ (Succeeds(l) => Succeeds(l)')
        /\ Prompts(l)' = Prompts(l)
    <3>1. \A d \in Found(l, r, items).calls : d.method # "Prompt"
      BY <2>1, <2>3
    <3> QED BY <1>1, <2>2, <3>1, GoesKeeps
  <2>5. \A d \in Calls : d.load = l /\ UnderWay(d)' =>
          d.method = "Prompt" \/ \E i \in items : d = The(l, "Attributes", {i})
    BY <2>1 DEF Goes, Rest
  <2>6. \A i \in items : UnderWay(The(l, "Attributes", {i}))'
    BY <2>1, <2>3 DEF Goes
  <2>7. \A i \in Items : /\ UnderWay(The(l, "Attributes", {i}))' => i \in items
                         /\ ~UnderWay(The(l, "GetSecret", {i}))'
    <3> SUFFICES ASSUME NEW i \in Items
                 PROVE  /\ UnderWay(The(l, "Attributes", {i}))' => i \in items
                        /\ ~UnderWay(The(l, "GetSecret", {i}))'
      OBVIOUS
    <3>1. ASSUME UnderWay(The(l, "Attributes", {i}))' PROVE i \in items
      <4>1. PICK j \in items : The(l, "Attributes", {i}) = The(l, "Attributes", {j})
        BY <2>3, <2>5, <3>1
      <4> QED BY <2>3, <4>1
    <3>2. ASSUME UnderWay(The(l, "GetSecret", {i}))' PROVE FALSE
      <4>1. PICK j \in items : The(l, "GetSecret", {i}) = The(l, "Attributes", {j})
        BY <2>3, <2>5, <3>2
      <4> QED BY <2>3, <4>1
    <3> QED BY <3>1, <3>2
  <2>8. Left(l)' = items
    BY <2>6, <2>7 DEF Left
  <2>9. Chain(l)'
    <3>1. OnlyExpected(l)'
      <4>1. \A c \in Calls : UnderWay(c)' /\ c.load = l => c.method \in {"Prompt", "Attributes"}
        BY <2>3, <2>5
      <4> QED BY <2>2, <2>4, <4>1 DEF OnlyExpected, Expected
    <3>2. OneCall(l)' /\ (reads'[l].prompting <=> reads'[l].phase = "prompting")
      BY <2>2, <2>4 DEF OneCall
    <3>3. \A c \in Calls : c.load = l /\ c.method \in {"Attributes", "GetSecret"} /\ UnderWay(c)' =>
            \E i \in items : c.items = {i}
      BY <2>3, <2>5
    <3>4. CallEach(l)'
      BY <1>4, <2>2, <2>4, <2>7, <2>8, <3>3 DEF CallEach
    <3> QED BY <3>1, <3>2, <3>4 DEF Chain
  <2>10. Counted(l)'
    BY <2>2, <2>4 DEF Counted
  <2>11. ASSUME ~r.failed PROVE Prompted(l)' /\ Whole(l)' /\ Kept(l)'
    <3> USE <2>11
    <3>1. Kept(l) /\ Prompts(l)' = {} /\ keyring' = keyring
      BY <2>4 DEF LoadInv, Goes
    <3>2. Prompted(l)' /\ Whole(l)'
      BY <2>2, <2>4, <3>1 DEF Prompted, Whole
    <3>3. Open(l)' /\ Succeeds(l)'
      BY <2>2, <2>4, <3>1 DEF Kept, Open
    <3>4. Searched(l)'
      BY <1>2, <2>2, <2>3, <2>4, <2>5, <3>1 DEF Searched
    <3>5. OnePrompt(l)'
      <4>1. \A c \in calls' : ~(c.load = l /\ c.method = "Prompt")
        BY <3>1 DEF Prompts
      <4> QED BY <3>1, <4>1 DEF OnePrompt
    <3>6. PromptAnswer(l)' /\ Closes(l)'
      BY <2>2, <2>4 DEF PromptAnswer, Closes
    <3>7. ReadSoFar(l)'
      <4>1. AskedFor(l)'
        BY <2>2, <2>4 DEF AskedFor
      <4>2. \A i \in Unkeyed : ~UnderWay(The(l, "GetSecret", {i}))'
        <5> SUFFICES ASSUME NEW i \in Unkeyed, UnderWay(The(l, "GetSecret", {i}))' PROVE FALSE
          OBVIOUS
        <5>1. Arriving \subseteq Replies \cup Completions /\ calls \subseteq Calls
          BY DEF Types, Arriving
        <5>2. \A d \in Found(l, r, items).calls : d \in Calls
          BY <1>1 DEF Good
        <5>3. The(l, "GetSecret", {i}) \in Calls
          BY <5>1, <5>2 DEF Goes, UnderWay, Answering, Replies, Completions
        <5>4. i \in Items
          BY <5>3 DEF The, Calls
        <5> QED BY <2>7, <5>4
      <4>3. reads'[l].secrets = (reads'[l].unlocked \ Left(l)') \ Unkeyed
        BY <1>2, <2>2, <2>4, <2>8
      <4> QED BY <4>1, <4>2, <4>3 DEF ReadSoFar
    <3> QED BY <3>2, <3>3, <3>4, <3>5, <3>6, <3>7 DEF Kept
  <2> QED BY <2>2, <2>4, <2>9, <2>10, <2>11 DEF LoadInv
<1> QED BY <1>3, <1>4

LEMMA CallIs == \A d \in Calls : d = The(d.load, d.method, d.items)
BY DEF Calls, The

LEMMA ItemCalls ==
  ASSUME NEW l \in Loads, NEW i \in Items
  PROVE  /\ The(l, "Attributes", {i}) \in Calls /\ The(l, "GetSecret", {i}) \in Calls
         /\ The(l, "Attributes", {i}).load = l /\ The(l, "GetSecret", {i}).load = l
         /\ The(l, "Attributes", {i}).method = "Attributes" /\ The(l, "GetSecret", {i}).method = "GetSecret"
         /\ The(l, "Attributes", {i}).items = {i} /\ The(l, "GetSecret", {i}).items = {i}
BY DEF The, Calls, Methods

\* A call whose answer changes nothing: what is left of a prompt, the closing of a session.
LEMMA NothingStep ==
  ASSUME Types, NEW l \in Loads, LoadInv(l), alive, NEW gone,
         \A d \in gone : d.method \in {"Prompt", "Close"},
         gone = {} \/ reads[l].phase \in {"prompting", "reading", "done"}
  PROVE  /\ Good(l, Step(reads[l], {}))
         /\ Goes(l, gone, Step(reads[l], {})) => LoadInv(l)'
<1> DEFINE step == Step(reads[l], {})
<1>1. step.read = reads[l] /\ step.calls = {} /\ Good(l, step)
  BY DEF Step, Good, Types
<1> SUFFICES ASSUME Goes(l, gone, step) PROVE LoadInv(l)'
  BY <1>1
<1> HIDE DEF step
<1>2. /\ reads'[l] = reads[l] /\ Answers(l)' \subseteq Answers(l) /\ (Succeeds(l) => Succeeds(l)')
      /\ Prompts(l)' = Prompts(l) /\ keyring' = keyring /\ calls' = calls /\ alive'
  BY <1>1, GoesKeeps DEF Goes
<1>3. \A d \in Calls : UnderWay(d)' <=> UnderWay(d) /\ d \notin gone
  BY <1>1 DEF Goes
<1>4. \A i \in Items : /\ UnderWay(The(l, "Attributes", {i}))' <=> UnderWay(The(l, "Attributes", {i}))
                       /\ UnderWay(The(l, "GetSecret", {i}))' <=> UnderWay(The(l, "GetSecret", {i}))
  BY <1>3, ItemCalls
<1>5. Left(l)' = Left(l)
  BY <1>4 DEF Left
<1>6. Chain(l) /\ Counted(l)
  BY DEF LoadInv
<1>7. Chain(l)'
  <2>1. OnlyExpected(l)'
    BY <1>2, <1>3, <1>6 DEF Chain, OnlyExpected
  <2>2. OneCall(l)'
    BY <1>2, <1>3, <1>6 DEF Chain, OneCall
  <2>3. \A c \in Calls : c.load = l /\ c.method \in {"Attributes", "GetSecret"} /\ UnderWay(c)' => UnderWay(c)
    BY <1>3
  <2>4. CallEach(l)'
    BY <1>2, <1>4, <1>5, <1>6, <2>3 DEF Chain, CallEach
  <2> QED BY <1>2, <1>6, <2>1, <2>2, <2>4 DEF Chain
<1>8. Counted(l)' /\ (~reads[l].failed => Prompted(l)' /\ Whole(l)')
  BY <1>2 DEF LoadInv, Counted, Prompted, Whole
<1>9. ASSUME ~reads[l].failed PROVE Kept(l)'
  <2>1. Kept(l)
    BY <1>9 DEF LoadInv
  <2>2. Open(l)' /\ Succeeds(l)'
    BY <1>2, <2>1 DEF Kept, Open
  <2>3. Searched(l)'
    BY <1>2, <1>3, <2>1 DEF Kept, Searched, AskedFor
  <2>4. OnePrompt(l)'
    BY <1>2, <2>1 DEF Kept, OnePrompt, AskedFor
  <2>5. PromptAnswer(l)'
    BY <1>2, <2>1 DEF Kept, PromptAnswer, AskedFor
  <2>6. ReadSoFar(l)'
    <3>1. \A i \in Unkeyed : UnderWay(The(l, "GetSecret", {i}))' => UnderWay(The(l, "GetSecret", {i}))
      BY <1>2 DEF Goes, UnderWay, Answering
    <3> QED BY <1>2, <1>5, <2>1, <3>1 DEF Kept, ReadSoFar, AskedFor
  <2>7. Closes(l)'
    BY <1>2, <2>1 DEF Kept, Closes
  <2> QED BY <2>2, <2>3, <2>4, <2>5, <2>6, <2>7 DEF Kept
<1> QED BY <1>2, <1>7, <1>8, <1>9 DEF LoadInv

\* From one call of the chain to the next, up to the search.
LEMMA NextStep ==
  ASSUME Types, NEW l \in Loads, LoadInv(l), alive, reads[l].phase \in {"system", "opening", "searching"},
         NEW c \in Calls, c.load = l, UnderWay(c),
         NEW r \in Reads, r.phase \in {"opening", "searching"}, ~r.prompting, r.answers = 0,
         r.failed = reads[l].failed, r.secrets = reads[l].secrets,
         NEW d \in Calls, d.load = l, d # c, Expected(r.phase, d.method),
         ~r.failed => /\ r.unlocked \cap keyring.locked = {} /\ (r.phase = "searching" => l \in keyring.sessions)
                      /\ d.method = "Unlock" => d.items = r.asked /\ r.unlocked = Items \ r.asked
  PROVE  /\ Good(l, Step(r, {d}))
         /\ Goes(l, {c}, Step(r, {d})) => LoadInv(l)'
<1> DEFINE step == Step(r, {d})
<1>1. Chain(l)
  BY DEF LoadInv
<1>2. \A e \in Calls : e.load = l /\ UnderWay(e) => e = c
  BY <1>1 DEF Chain, OneCall
<1>3. step.read = r /\ step.calls = {d} /\ Good(l, step)
  BY <1>2 DEF Step, Good
<1> SUFFICES ASSUME Goes(l, {c}, step) PROVE LoadInv(l)'
  BY <1>3
<1> HIDE DEF step
<1>4. d.method \in {"OpenSession", "SearchItems", "Unlock"}
  BY DEF Expected
<1>5. /\ reads'[l] = r /\ Answers(l)' \subseteq Answers(l) /\ (Succeeds(l) => Succeeds(l)')
      /\ Prompts(l)' = Prompts(l) /\ keyring' = keyring /\ alive'
  <2>1. \A e \in step.calls : e.method # "Prompt"
    BY <1>3, <1>4
  <2>2. keyring' = keyring /\ alive'
    BY Zenon DEF Goes
  <2>3. /\ reads'[l] = step.read /\ Answers(l)' \subseteq Answers(l) /\ (Succeeds(l) => Succeeds(l)')
        /\ Prompts(l)' = Prompts(l)
    BY <1>3, <2>1, GoesKeeps
  <2> QED BY <1>3, <2>2, <2>3
<1>6. \A e \in Calls : e.load = l => (UnderWay(e)' <=> e = d)
  BY <1>2, <1>3 DEF Goes
<1>7. Chain(l)'
  BY <1>5, <1>6 DEF Chain, OnlyExpected, OneCall, CallEach
<1>8. Counted(l)'
  BY <1>5 DEF Counted
<1>9. ASSUME ~r.failed PROVE Prompted(l)' /\ Whole(l)' /\ Kept(l)'
  <2> USE <1>9
  <2>1. Kept(l) /\ Prompts(l) = {}
    BY DEF LoadInv, Prompted
  <2>2. Answers(l) = {}
    BY <2>1 DEF Kept, PromptAnswer
  <2>3. Prompted(l)' /\ Whole(l)'
    BY <1>5, <2>1 DEF Prompted, Whole
  <2>4. Open(l)' /\ Succeeds(l)'
    BY <1>5, <2>1 DEF Kept, Open
  <2>5. Searched(l)'
    BY <1>5, <1>6, <2>1 DEF Kept, Searched, AskedFor
  <2>6. OnePrompt(l)'
    <3>1. \A e \in calls' : ~(e.load = l /\ e.method = "Prompt")
      BY <1>5, <2>1 DEF Prompts
    <3> QED BY <1>5, <2>1, <3>1 DEF OnePrompt
  <2>7. PromptAnswer(l)' /\ ReadSoFar(l)' /\ Closes(l)'
    BY <1>5, <2>2 DEF PromptAnswer, ReadSoFar, Closes
  <2> QED BY <2>3, <2>4, <2>5, <2>6, <2>7 DEF Kept
<1> QED BY <1>5, <1>7, <1>8, <1>9 DEF LoadInv

\* The keyring asks the user about the items that are locked.
LEMMA PromptStep ==
  ASSUME Types, NEW l \in Loads, LoadInv(l), alive, reads[l].phase = "searching",
         NEW c \in Calls, c.load = l, c.method = "Unlock", UnderWay(c),
         NEW value \in SUBSET Items, ~reads[l].failed => value \subseteq c.items /\ value \cap keyring.locked = {},
         NEW step,
         step = Step([reads[l] EXCEPT !.phase = "prompting", !.prompting = TRUE, !.unlocked = @ \cup value,
                                      !.asked = @ \ value], {The(l, "Prompt", c.items)})
  PROVE  /\ Good(l, step)
         /\ Goes(l, {c}, step) => LoadInv(l)'
<1>1. Chain(l) /\ Counted(l) /\ reads[l] \in Reads
  BY DEF LoadInv, Types
<1>2. \A e \in Calls : e.load = l /\ UnderWay(e) => e = c
  BY <1>1 DEF Chain, OneCall
<1>3. PICK d \in Calls : d = The(l, "Prompt", c.items) /\ d.load = l /\ d.method = "Prompt" /\ d.items = c.items
  BY Made DEF Calls, Methods
<1>4. PICK r \in Reads : /\ step = Step(r, {d}) /\ r.phase = "prompting" /\ r.prompting
                         /\ r.unlocked = reads[l].unlocked \cup value /\ r.asked = reads[l].asked \ value
                         /\ r.secrets = reads[l].secrets /\ r.failed = reads[l].failed /\ r.answers = reads[l].answers
  <2> DEFINE was == reads[l]
             r == [was EXCEPT !.phase = "prompting", !.prompting = TRUE, !.unlocked = @ \cup value, !.asked = @ \ value]
  <2>1. was \in Reads
    BY <1>1
  <2>2. step = Step(r, {d})
    BY <1>3
  <2> HIDE DEF was
  <2>3. r \in Reads
    BY <2>1 DEF Reads, Phases
  <2>4. /\ r.phase = "prompting" /\ r.prompting /\ r.unlocked = was.unlocked \cup value
        /\ r.asked = was.asked \ value /\ r.secrets = was.secrets /\ r.failed = was.failed /\ r.answers = was.answers
    BY <2>1 DEF Reads
  <2> QED BY <2>2, <2>3, <2>4 DEF was
<1>5. step.read = r /\ step.calls = {d} /\ Good(l, step)
  BY <1>2, <1>3, <1>4 DEF Step, Good
<1> SUFFICES ASSUME Goes(l, {c}, step) PROVE LoadInv(l)'
  BY <1>5
<1>6. /\ reads'[l] = r /\ Answers(l)' \subseteq Answers(l) /\ (Succeeds(l) => Succeeds(l)')
      /\ keyring' = keyring /\ alive' /\ calls' = calls \cup {d}
  <2>1. keyring' = keyring /\ alive' /\ calls' = calls \cup step.calls
    BY Zenon DEF Goes
  <2>2. reads'[l] = step.read /\ Answers(l)' \subseteq Answers(l) /\ (Succeeds(l) => Succeeds(l)')
    BY <1>5, GoesKeeps
  <2> QED BY <1>5, <2>1, <2>2
<1>7. \A e \in Calls : e.load = l => (UnderWay(e)' <=> e = d)
  BY <1>2, <1>3, <1>5 DEF Goes
<1>8. Chain(l)'
  BY <1>3, <1>4, <1>6, <1>7 DEF Chain, OnlyExpected, OneCall, CallEach, Expected
<1>9. Counted(l)'
  BY <1>1, <1>4, <1>6 DEF Counted
<1>10. ASSUME ~r.failed PROVE Prompted(l)' /\ Whole(l)' /\ Kept(l)'
  <2> USE <1>10
  <2>1. Kept(l) /\ Prompts(l) = {}
    BY <1>4 DEF LoadInv, Prompted
  <2>2. Answers(l) = {} /\ Prompts(l)' = {d}
    BY <1>3, <1>6, <2>1 DEF Kept, PromptAnswer, Prompts
  <2>3. Prompted(l)' /\ Whole(l)'
    BY <1>4, <1>6 DEF Prompted, Whole
  <2>4. c.items = reads[l].asked /\ AskedFor(l) /\ l \in keyring.sessions /\ reads[l].secrets = {}
    BY <2>1 DEF Kept, Searched
  <2>5. value \subseteq c.items /\ value \cap keyring.locked = {}
    BY <1>4
  <2>6. Open(l)' /\ Succeeds(l)'
    BY <1>4, <1>6, <2>1, <2>5 DEF Kept, Open
  <2>7. AskedFor(l)'
    BY <1>4, <1>6, <2>4, <2>5 DEF AskedFor
  <2>8. Searched(l)'
    BY <1>3, <1>4, <1>6, <1>7, <2>4 DEF Searched
  <2>9. OnePrompt(l)'
    <3>1. \A e \in calls' : e.load = l /\ e.method = "Prompt" => e = d
      BY <2>2 DEF Prompts
    <3>2. d \notin keyring.prompts
      BY <1>3, <2>1 DEF Prompts
    <3> QED BY <1>3, <1>4, <1>6, <2>2, <2>4, <2>7, <3>1, <3>2 DEF OnePrompt
  <2>10. PromptAnswer(l)' /\ ReadSoFar(l)' /\ Closes(l)'
    BY <1>4, <1>6, <2>2 DEF PromptAnswer, ReadSoFar, Closes
  <2> QED BY <2>3, <2>6, <2>8, <2>9, <2>10 DEF Kept
<1> QED BY <1>4, <1>6, <1>8, <1>9, <1>10 DEF LoadInv

\* An item that has a key: its secret is asked for.
LEMMA ReadStep ==
  ASSUME Types, NEW l \in Loads, LoadInv(l), alive, reads[l].phase = "reading",
         NEW i \in Items, i \notin Unkeyed, UnderWay(The(l, "Attributes", {i})),
         NEW step, step = Step(reads[l], {The(l, "GetSecret", {i})})
  PROVE  /\ Good(l, step)
         /\ Goes(l, {The(l, "Attributes", {i})}, step) => LoadInv(l)'
<1> DEFINE A(j) == The(l, "Attributes", {j})
           G(j) == The(l, "GetSecret", {j})
<1>1. Chain(l) /\ Counted(l) /\ reads[l] \in Reads
  BY DEF LoadInv, Types
<1>2. \A j \in Items : /\ A(j) \in Calls /\ G(j) \in Calls /\ A(j).load = l /\ G(j).load = l
                       /\ A(j).method = "Attributes" /\ G(j).method = "GetSecret" /\ A(j).items = {j} /\ G(j).items = {j}
  <2> TAKE j \in Items
  <2> QED BY ItemCalls
<1>3. step.read = reads[l] /\ step.calls = {G(i)}
  BY DEF Step
<1>4. ~UnderWay(G(i))
  BY <1>1 DEF Chain, CallEach
<1>5. Good(l, step)
  BY <1>1, <1>2, <1>3, <1>4 DEF Good
<1> SUFFICES ASSUME Goes(l, {A(i)}, step) PROVE LoadInv(l)'
  BY <1>5
<1>6. /\ reads'[l] = reads[l] /\ Answers(l)' \subseteq Answers(l) /\ (Succeeds(l) => Succeeds(l)')
      /\ Prompts(l)' = Prompts(l) /\ keyring' = keyring /\ alive'
  <2>1. \A d \in step.calls : d.method # "Prompt"
    BY <1>2, <1>3
  <2>2. keyring' = keyring /\ alive'
    BY Zenon DEF Goes
  <2> HIDE DEF A, G
  <2> QED BY <1>3, <1>5, <2>1, <2>2, GoesKeeps
<1>7. \A d \in Calls : UnderWay(d)' <=> (UnderWay(d) /\ d # A(i)) \/ d = G(i)
  BY <1>3 DEF Goes
<1>8. \A j \in Items : (A(j) = A(i) <=> j = i) /\ (G(j) = G(i) <=> j = i) /\ A(j) # G(i) /\ G(j) # A(i)
  <2> HIDE DEF A, G
  <2> QED BY <1>2
<1>9. \A j \in Items : /\ UnderWay(A(j))' <=> UnderWay(A(j)) /\ j # i
                       /\ UnderWay(G(j))' <=> UnderWay(G(j)) \/ j = i
  <2> HIDE DEF A, G
  <2> QED BY <1>2, <1>7, <1>8
<1>10. Left(l)' = Left(l)
  BY <1>9 DEF Left
<1>11. Chain(l)'
  <2>1. OnlyExpected(l)'
    <3> HIDE DEF A, G
    <3>1. \A d \in Calls : UnderWay(d)' /\ d.load = l => Expected("reading", d.method)
      BY <1>1, <1>2, <1>7 DEF Chain, OnlyExpected, Expected
    <3> QED BY <1>6, <3>1 DEF OnlyExpected
  <2>2. i \in reads[l].unlocked
    <3> HIDE DEF A, G
    <3>1. PICK j \in reads[l].unlocked : A(i).items = {j}
      BY <1>1, <1>2 DEF Chain, CallEach, A
    <3> QED BY <1>2, <3>1
  <2>3. \A c \in Calls : c.load = l /\ c.method \in {"Attributes", "GetSecret"} /\ UnderWay(c)' =>
          \E j \in reads[l].unlocked : c.items = {j}
    <3> HIDE DEF A, G
    <3> QED BY <1>1, <1>2, <1>7, <2>2 DEF Chain, CallEach
  <2>4. \A j \in Items : ~(UnderWay(A(j))' /\ UnderWay(G(j))')
    BY <1>1, <1>9 DEF Chain, CallEach
  <2>5. CallEach(l)'
    BY <1>1, <1>6, <1>10, <2>3, <2>4 DEF Chain, CallEach
  <2> QED BY <1>1, <1>6, <2>1, <2>5 DEF Chain, OneCall
<1>12. Counted(l)' /\ (~reads[l].failed => Prompted(l)' /\ Whole(l)')
  BY <1>6 DEF LoadInv, Counted, Prompted, Whole
<1>13. ASSUME ~reads[l].failed PROVE Kept(l)'
  <2> USE <1>13
  <2>1. Kept(l) /\ Prompts(l)' = {}
    BY <1>6 DEF LoadInv, Prompted
  <2>2. Open(l)' /\ Succeeds(l)'
    BY <1>6, <2>1 DEF Kept, Open
  <2>3. Searched(l)'
    <3>1. \A c \in Calls : UnderWay(c)' /\ c.load = l => c.method # "Unlock"
      BY <1>6, <1>11 DEF Chain, OnlyExpected, Expected
    <3> QED BY <1>6, <2>1, <3>1 DEF Kept, Searched
  <2>4. OnePrompt(l)'
    <3>1. \A e \in calls' : ~(e.load = l /\ e.method = "Prompt")
      BY <2>1 DEF Prompts
    <3> QED BY <2>1, <3>1 DEF OnePrompt
  <2>5. PromptAnswer(l)' /\ Closes(l)'
    BY <1>6 DEF PromptAnswer, Closes
  <2>6. \A j \in Unkeyed : ~UnderWay(G(j))'
    <3> SUFFICES ASSUME NEW j \in Unkeyed, UnderWay(G(j))' PROVE FALSE
      OBVIOUS
    <3>1. ~UnderWay(G(j))
      BY <2>1 DEF Kept, ReadSoFar
    <3>2. G(j) = G(i)
      BY <1>3, <3>1 DEF Goes, UnderWay, Answering
    <3>3. G(j).items = {j}
      BY DEF The
    <3> HIDE DEF A, G
    <3> QED BY <1>2, <3>2, <3>3
  <2>7. ReadSoFar(l)'
    BY <1>6, <1>10, <2>1, <2>6 DEF Kept, ReadSoFar, AskedFor
  <2> QED BY <2>2, <2>3, <2>4, <2>5, <2>7 DEF Kept
<1> QED BY <1>6, <1>11, <1>12, <1>13 DEF LoadInv

\* An item is done with: the next is waited for, or the load is answered.
LEMMA SettleStep ==
  ASSUME IsFiniteSet(Items), Types, NEW l \in Loads, LoadInv(l), alive, reads[l].phase = "reading",
         NEW i \in Items, NEW c \in {The(l, "Attributes", {i}), The(l, "GetSecret", {i})}, UnderWay(c),
         NEW secrets \in SUBSET Items, ~reads[l].failed => secrets = {i} \ Unkeyed,
         NEW step, step = Settle(l, reads[l], secrets)
  PROVE  /\ Good(l, step)
         /\ Goes(l, {c}, step) => LoadInv(l)'
<1> DEFINE A(j) == The(l, "Attributes", {j})
           G(j) == The(l, "GetSecret", {j})
<1>1. Chain(l) /\ Counted(l) /\ reads[l] \in Reads /\ CallEach(l)
  BY DEF LoadInv, Types, Chain
<1>2. \A j \in Items : /\ A(j) \in Calls /\ G(j) \in Calls /\ A(j).load = l /\ G(j).load = l
                       /\ A(j).method = "Attributes" /\ G(j).method = "GetSecret" /\ A(j).items = {j} /\ G(j).items = {j}
  <2> TAKE j \in Items
  <2> QED BY ItemCalls
<1>3. i \in Left(l) /\ i \in reads[l].unlocked
  <2>1. i \in Left(l)
    BY DEF Left
  <2>2. PICK j \in reads[l].unlocked : c.items = {j}
    <3>1. c \in Calls /\ c.load = l /\ c.method \in {"Attributes", "GetSecret"}
      BY <1>2
    <3> QED BY <1>1, <3>1 DEF CallEach
  <2>3. c.items = {i}
    BY <1>2
  <2> QED BY <2>1, <2>2, <2>3
<1>4. PICK n \in Nat : n = reads[l].waiting - 1 /\ n = Cardinality(Left(l) \ {i}) /\ (n = 0 <=> Left(l) \ {i} = {})
  <2>1. Left(l) \subseteq Items /\ IsFiniteSet(Left(l)) /\ IsFiniteSet(Left(l) \ {i})
    <3>1. Left(l) \in SUBSET Items /\ Left(l) \ {i} \in SUBSET Items
      BY DEF Left
    <3> QED BY <3>1, FS_Subset
  <2>2. /\ Cardinality(Left(l)) \in Nat /\ Cardinality(Left(l) \ {i}) \in Nat
        /\ Cardinality(Left(l) \ {i}) = Cardinality(Left(l)) - 1
    BY <1>3, <2>1, FS_CardinalityType, FS_RemoveElement
  <2>3. Cardinality(Left(l) \ {i}) = 0 <=> Left(l) \ {i} = {}
    BY <2>1, FS_EmptySet
  <2>4. reads[l].waiting = Cardinality(Left(l))
    BY <1>1 DEF CallEach
  <2> QED BY <2>2, <2>3, <2>4
<1>5. PICK s \in Reads : /\ s = [reads[l] EXCEPT !.waiting = @ - 1, !.secrets = @ \cup secrets]
                         /\ s.phase = "reading" /\ s.waiting = n /\ s.secrets = reads[l].secrets \cup secrets
                         /\ s.unlocked = reads[l].unlocked /\ ~s.prompting /\ s.answers = 0
                         /\ s.asked = reads[l].asked /\ s.failed = reads[l].failed
  <2> DEFINE was == reads[l]
             s == [was EXCEPT !.waiting = n, !.secrets = @ \cup secrets]
  <2>1. was \in Reads /\ was.phase = "reading" /\ was.answers = 0 /\ ~was.prompting
    BY <1>1 DEF Counted, Chain
  <2>2. s = [reads[l] EXCEPT !.waiting = @ - 1, !.secrets = @ \cup secrets]
    BY <1>4
  <2> HIDE DEF was
  <2>3. s \in Reads
    BY <2>1 DEF Reads
  <2>4. /\ s.phase = "reading" /\ s.waiting = n /\ s.secrets = was.secrets \cup secrets
        /\ s.unlocked = was.unlocked /\ ~s.prompting /\ s.answers = 0 /\ s.asked = was.asked /\ s.failed = was.failed
    BY <2>1 DEF Reads
  <2> QED BY <2>2, <2>3, <2>4 DEF was
<1>6. \A d \in Calls : d.load = l /\ UnderWay(d) =>
        d.method = "Prompt" \/ \E j \in Left(l) : d = A(j) \/ d = G(j)
  <2> SUFFICES ASSUME NEW d \in Calls, d.load = l, UnderWay(d), d.method # "Prompt"
               PROVE  \E j \in Left(l) : d = A(j) \/ d = G(j)
    OBVIOUS
  <2>1. d.method \in {"Attributes", "GetSecret"}
    BY <1>1 DEF Chain, OnlyExpected, Expected
  <2>2. PICK j \in reads[l].unlocked : d.items = {j}
    BY <1>1, <2>1 DEF CallEach
  <2>3. j \in Items
    BY <1>1 DEF Reads
  <2>4. d = A(j) \/ d = G(j)
    BY <2>1, <2>2, CallIs
  <2>5. j \in Left(l)
    BY <2>3, <2>4 DEF Left
  <2> QED BY <2>4, <2>5
<1>7. ~reads[l].failed => /\ AskedFor(l) /\ Prompts(l) = {}
                          /\ s.secrets = (reads[l].unlocked \ (Left(l) \ {i})) \ Unkeyed
  <2> SUFFICES ASSUME ~reads[l].failed
               PROVE  /\ AskedFor(l) /\ Prompts(l) = {}
                      /\ s.secrets = (reads[l].unlocked \ (Left(l) \ {i})) \ Unkeyed
    OBVIOUS
  <2>1. AskedFor(l) /\ reads[l].secrets = (reads[l].unlocked \ Left(l)) \ Unkeyed
    BY DEF LoadInv, Kept, ReadSoFar
  <2>2. Prompts(l) = {}
    BY DEF LoadInv, Prompted
  <2> QED BY <1>3, <1>5, <2>1, <2>2
<1>8. CASE n = 0
  <2>1. step = Concluded(l, s)
    BY <1>5, <1>8 DEF Settle
  <2>2. PICK d \in Calls : d = The(l, "Close", {}) /\ d.load = l /\ d.method = "Close"
    <3>1. {} \in SUBSET Items /\ "Close" \in Methods
      BY DEF Methods
    <3> QED BY <3>1, Made
  <2>3. ~UnderWay(d)
    BY <1>1, <2>2 DEF Chain, OnlyExpected, Expected
  <2>4. step.read = Done(s) /\ step.calls = {d}
    BY <2>1, <2>2 DEF Concluded, Step, Ask, The
  <2>5. Good(l, step)
    BY <1>5, <2>2, <2>3, <2>4, DoneRead DEF Good
  <2>6. Rest(l, {c})
    <3> SUFFICES ASSUME NEW e \in Calls, e.load = l, UnderWay(e), e # c, e.method # "Prompt" PROVE FALSE
      BY DEF Rest
    <3>1. PICK j \in Left(l) : e = A(j) \/ e = G(j)
      BY <1>6
    <3>2. j = i
      BY <1>4, <1>8
    <3> QED BY <1>1, <3>1, <3>2 DEF CallEach
  <2>7. ~s.failed => s.secrets = Items \ (Unkeyed \cup s.asked) /\ Prompts(l) = {}
    BY <1>4, <1>5, <1>7, <1>8 DEF AskedFor
  <2> QED BY <1>5, <2>1, <2>5, <2>6, <2>7, ConcludedStep
<1>9. CASE n # 0
  <2>1. step.read = s /\ step.calls = {} /\ Good(l, step)
    <3>1. s.waiting > 0
      BY <1>5, <1>9
    <3>2. step = Step(s, {})
      BY <1>5, <3>1 DEF Settle
    <3> QED BY <3>2 DEF Step, Good
  <2> SUFFICES ASSUME Goes(l, {c}, step) PROVE LoadInv(l)'
    BY <2>1
  <2>2. /\ reads'[l] = s /\ Answers(l)' \subseteq Answers(l) /\ (Succeeds(l) => Succeeds(l)')
        /\ Prompts(l)' = Prompts(l) /\ keyring' = keyring /\ alive'
    <3>1. keyring' = keyring /\ alive'
      BY Zenon DEF Goes
    <3> QED BY <2>1, <3>1, GoesKeeps
  <2>3. \A d \in Calls : UnderWay(d)' <=> UnderWay(d) /\ d # c
    BY <2>1 DEF Goes
  <2>4. \A j \in Items : (j # i => A(j) # c /\ G(j) # c)
    <3> HIDE DEF A, G
    <3>1. c = A(i) \/ c = G(i)
      BY DEF A, G
    <3> QED BY <1>2, <3>1
  <2>5. ~UnderWay(A(i))' /\ ~UnderWay(G(i))'
    <3>1. ~(UnderWay(A(i)) /\ UnderWay(G(i)))
      BY <1>1 DEF CallEach
    <3>2. c = A(i) \/ c = G(i)
      OBVIOUS
    <3> HIDE DEF A, G
    <3> QED BY <1>2, <2>3, <3>1, <3>2
  <2>6. \A j \in Items : j # i => /\ UnderWay(A(j))' <=> UnderWay(A(j))
                                  /\ UnderWay(G(j))' <=> UnderWay(G(j))
    <3> HIDE DEF A, G
    <3> QED BY <1>2, <2>3, <2>4
  <2>7. Left(l)' = Left(l) \ {i}
    BY <2>5, <2>6 DEF Left
  <2>8. Chain(l)'
    <3>1. OnlyExpected(l)'
      BY <1>1, <1>5, <2>2, <2>3 DEF Chain, OnlyExpected
    <3>2. \A d \in Calls : d.load = l /\ d.method \in {"Attributes", "GetSecret"} /\ UnderWay(d)' =>
            \E j \in reads[l].unlocked : d.items = {j}
      BY <1>1, <2>3 DEF CallEach
    <3>3. \A j \in Items : ~(UnderWay(A(j))' /\ UnderWay(G(j))')
      BY <1>1, <2>5, <2>6 DEF CallEach
    <3>4. Cardinality(Left(l)') = s.waiting /\ Left(l)' # {}
      BY <1>4, <1>5, <1>9, <2>7
    <3>5. CallEach(l)'
      BY <1>5, <2>2, <3>2, <3>3, <3>4 DEF CallEach
    <3> QED BY <1>5, <2>2, <3>1, <3>5 DEF Chain, OneCall
  <2>9. Counted(l)'
    BY <1>5, <2>2 DEF Counted
  <2>10. ASSUME ~reads[l].failed PROVE Prompted(l)' /\ Whole(l)' /\ Kept(l)'
    <3> USE <2>10
    <3>1. Kept(l) /\ Prompts(l)' = {}
      BY <1>7, <2>2 DEF LoadInv
    <3>2. Prompted(l)' /\ Whole(l)'
      BY <1>5, <2>2, <3>1 DEF Prompted, Whole
    <3>3. Open(l)' /\ Succeeds(l)'
      BY <1>5, <2>2, <3>1 DEF Kept, Open
    <3>4. Searched(l)'
      BY <1>5, <2>2, <2>3, <3>1 DEF Kept, Searched, AskedFor
    <3>5. OnePrompt(l)'
      <4>1. \A e \in calls' : ~(e.load = l /\ e.method = "Prompt")
        BY <3>1 DEF Prompts
      <4> QED BY <3>1, <4>1 DEF OnePrompt
    <3>6. PromptAnswer(l)' /\ Closes(l)'
      BY <1>5, <2>2 DEF PromptAnswer, Closes
    <3>7. \A j \in Unkeyed : ~UnderWay(G(j))'
      <4>1. \A j : UnderWay(G(j))' => UnderWay(G(j))
        BY <2>1 DEF Goes, UnderWay, Answering
      <4> QED BY <3>1, <4>1 DEF Kept, ReadSoFar
    <3>8. ReadSoFar(l)'
      BY <1>5, <1>7, <2>2, <2>7, <3>7 DEF ReadSoFar, AskedFor
    <3> QED BY <3>2, <3>3, <3>4, <3>5, <3>6, <3>8 DEF Kept
  <2> QED BY <1>5, <2>2, <2>8, <2>9, <2>10 DEF LoadInv
<1> QED BY <1>8, <1>9

-----------------------------------------------------------------------------
(* The replies, by the call answered.                                      *)

\* A load's members with one of them changed.
Others(s, r) ==
  s.phase = r.phase /\ s.secrets = r.secrets /\ s.failed = r.failed /\ s.answers = r.answers /\ s.waiting = r.waiting

LEMMA AskedRead ==
  ASSUME NEW r \in Reads, NEW items \in SUBSET Items
  PROVE  \E s \in Reads : /\ s = [r EXCEPT !.asked = items] /\ Others(s, r)
                         /\ s.asked = items /\ s.unlocked = r.unlocked /\ s.prompting = r.prompting
<1>1. ASSUME NEW s, s = [r EXCEPT !.asked = items]
      PROVE  s \in Reads /\ Others(s, r) /\ s.asked = items /\ s.unlocked = r.unlocked /\ s.prompting = r.prompting
  BY <1>1 DEF Reads, Others
<1> QED BY <1>1

LEMMA UnlockedRead ==
  ASSUME NEW r \in Reads, NEW items \in SUBSET Items
  PROVE  \E s \in Reads : /\ s = [r EXCEPT !.unlocked = items] /\ Others(s, r)
                         /\ s.asked = r.asked /\ s.unlocked = items /\ s.prompting = r.prompting
<1>1. ASSUME NEW s, s = [r EXCEPT !.unlocked = items]
      PROVE  s \in Reads /\ Others(s, r) /\ s.asked = r.asked /\ s.unlocked = items /\ s.prompting = r.prompting
  BY <1>1 DEF Reads, Others
<1> QED BY <1>1

LEMMA PromptedRead ==
  ASSUME NEW r \in Reads
  PROVE  \E s \in Reads : /\ s = [r EXCEPT !.prompting = FALSE] /\ Others(s, r)
                         /\ s.asked = r.asked /\ s.unlocked = r.unlocked /\ s.prompting = FALSE
<1>1. ASSUME NEW s, s = [r EXCEPT !.prompting = FALSE]
      PROVE  s \in Reads /\ Others(s, r) /\ s.asked = r.asked /\ s.unlocked = r.unlocked /\ s.prompting = FALSE
  BY <1>1 DEF Reads, Others
<1> QED BY <1>1

\* A load that asks the user goes on with what is unlocked.
LEMMA FinishStep ==
  ASSUME IsFiniteSet(Items), Types, NEW l \in Loads, LoadInv(l), alive,
         NEW dismissed \in BOOLEAN, NEW result \in SUBSET Items,
         NEW gone, \A d \in gone : d.method = "Prompt", gone = {} \/ reads[l].phase \in {"prompting", "reading", "done"},
         reads[l].prompting /\ ~reads[l].failed =>
           /\ Prompts(l) = {}
           /\ IF dismissed THEN AskedFor(l)
              ELSE reads[l].asked = {} /\ Items \subseteq reads[l].unlocked \cup result /\ result \cap keyring.locked = {},
         NEW step, step = Finish(l, reads[l], dismissed, result)
  PROVE  /\ Good(l, step)
         /\ Goes(l, gone, step) => LoadInv(l)'
<1> DEFINE was == reads[l]
<1>1. was \in Reads /\ Chain(l) /\ Counted(l)
  BY DEF LoadInv, Types
<1>2. CASE ~was.prompting
  <2>1. step = Step(reads[l], {})
    BY <1>2 DEF Finish, Finishable
  <2> QED BY <2>1, NothingStep
<1>3. CASE was.prompting
  <2>1. was.phase = "prompting" /\ was.answers = 0
    BY <1>1, <1>3 DEF Chain, Counted
  <2>2. PICK r \in Reads : /\ r = [was EXCEPT !.prompting = FALSE] /\ Others(r, was)
                           /\ r.asked = was.asked /\ r.unlocked = was.unlocked /\ r.prompting = FALSE
    <3> HIDE DEF was
    <3> QED BY <1>1, PromptedRead
  <2>21. r.answers = 0 /\ r.secrets = was.secrets /\ r.failed = was.failed
    BY <2>1, <2>2 DEF Others
  <2>3. PICK items \in SUBSET Items : items = IF dismissed THEN was.unlocked ELSE was.unlocked \cup result
    BY <1>1 DEF Reads
  <2>4. step = Found(l, r, items)
    BY <1>3, <2>2, <2>3 DEF Finish, Finishable
  <2>5. Rest(l, gone)
    BY <1>1, <2>1 DEF Rest, Chain, OnlyExpected, Expected
  <2>6. ~r.failed => /\ items = Items \ r.asked /\ items \cap keyring.locked = {} /\ Prompts(l) = {}
    <3> SUFFICES ASSUME ~r.failed
                 PROVE  /\ items = Items \ r.asked /\ items \cap keyring.locked = {} /\ Prompts(l) = {}
      OBVIOUS
    <3>1. Open(l)
      BY <2>21 DEF LoadInv, Kept
    <3> QED BY <1>3, <2>2, <2>21, <2>3, <3>1 DEF Open, AskedFor
  <2>7. Good(l, step)
    BY <1>1, <2>1, <2>2, <2>21, <2>4, FoundGood
  <2> QED BY <2>1, <2>2, <2>21, <2>4, <2>5, <2>6, <2>7, FoundStep
<1> QED BY <1>2, <1>3

\* No session: the load is answered with what NetworkManager has.
LEMMA FailedOpen ==
  ASSUME Types, NEW l \in Loads, LoadInv(l), alive, reads[l].phase = "opening", reads[l].failed,
         NEW c \in Calls, c.load = l, UnderWay(c), NEW step, step = Step(Done(reads[l]), {})
  PROVE  /\ Good(l, step)
         /\ Goes(l, {c}, step) => LoadInv(l)'
<1>1. Chain(l) /\ reads[l] \in Reads /\ reads[l].answers = 0 /\ ~reads[l].prompting
  BY DEF LoadInv, Types, Chain, Counted
<1>2. PICK s \in Reads : s = Done(reads[l]) /\ s.phase = "done" /\ s.answers = 1 /\ ~s.prompting /\ s.failed
  BY <1>1, DoneRead
<1>3. step.read = s /\ step.calls = {} /\ Good(l, step)
  BY <1>2 DEF Step, Good
<1> SUFFICES ASSUME Goes(l, {c}, step) PROVE LoadInv(l)'
  BY <1>3
<1>4. reads'[l] = s
  BY <1>3, GoesKeeps
<1>5. \A d \in Calls : d.load = l => ~UnderWay(d)'
  BY <1>1, <1>3 DEF Goes, Chain, OneCall
<1>6. Chain(l)'
  BY <1>2, <1>4, <1>5 DEF Chain, OnlyExpected, OneCall, CallEach
<1>7. Counted(l)'
  BY <1>2, <1>4 DEF Counted
<1> QED BY <1>2, <1>4, <1>6, <1>7 DEF LoadInv

LEMMA SearchReply ==
  ASSUME IsFiniteSet(Items), Types, NEW l \in Loads, LoadInv(l), alive, reads[l].phase = "searching",
         NEW c \in Calls, c.load = l, c.method = "SearchItems", UnderWay(c), NEW value \in SUBSET Items,
         ~reads[l].failed => (Items \ value) \cap keyring.locked = {},
         NEW step, step = Unlock(l, [reads[l] EXCEPT !.asked = value], Items \ value, value)
  PROVE  /\ Good(l, step)
         /\ Goes(l, {c}, step) => LoadInv(l)'
<1> DEFINE was == reads[l]
<1>1. was \in Reads /\ Chain(l) /\ was.answers = 0 /\ ~was.prompting /\ was.phase = "searching"
  BY DEF LoadInv, Types, Chain, Counted
<1>2. PICK r \in Reads : /\ r = [was EXCEPT !.asked = value] /\ Others(r, was)
                         /\ r.asked = value /\ r.unlocked = was.unlocked /\ r.prompting = was.prompting
  <2> HIDE DEF was
  <2>1. was \in Reads /\ value \in SUBSET Items
    BY <1>1
  <2> QED BY ONLY <2>1, AskedRead
<1>21. /\ r.phase = "searching" /\ ~r.prompting /\ r.answers = 0 /\ r.secrets = was.secrets
       /\ r.failed = was.failed
  BY <1>1, <1>2 DEF Others
<1>3. PICK unlocked \in SUBSET Items : unlocked = Items \ value
  OBVIOUS
<1>4. ~was.failed => Prompts(l) = {} /\ l \in keyring.sessions
  BY <1>1 DEF LoadInv, Prompted, Kept, Searched
<1>5. CASE value = {}
  <2>1. step = Found(l, r, unlocked)
    BY <1>2, <1>3, <1>5 DEF Unlock
  <2>2. Rest(l, {c})
    BY <1>1 DEF Rest, Chain, OneCall
  <2>3. Good(l, step)
    BY <1>1, <1>21, <2>1, FoundGood
  <2>4. ~r.failed => /\ unlocked = Items \ r.asked /\ unlocked \cap keyring.locked = {} /\ Prompts(l) = {}
    BY <1>2, <1>21, <1>3, <1>4
  <2> QED BY <1>2, <1>21, <2>1, <2>2, <2>3, <2>4, FoundStep
<1>6. CASE value # {}
  <2>1. PICK s \in Reads : /\ s = [r EXCEPT !.unlocked = unlocked] /\ Others(s, r)
                           /\ s.asked = r.asked /\ s.unlocked = unlocked /\ s.prompting = r.prompting
    BY ONLY r \in Reads, unlocked \in SUBSET Items, UnlockedRead
  <2>11. /\ s.phase = "searching" /\ ~s.prompting /\ s.answers = 0 /\ s.secrets = was.secrets
         /\ s.failed = was.failed
    BY <1>21, <2>1 DEF Others
  <2>2. PICK d \in Calls : d = The(l, "Unlock", value) /\ d.load = l /\ d.method = "Unlock" /\ d.items = value
    BY Made DEF Methods
  <2>3. step = Step(s, {d})
    BY <1>2, <1>3, <1>6, <2>1, <2>2 DEF Unlock, About, The
  <2>4. d # c /\ Expected(s.phase, d.method)
    BY <2>11, <2>2 DEF Expected
  <2>5. ~s.failed => /\ s.unlocked \cap keyring.locked = {} /\ (s.phase = "searching" => l \in keyring.sessions)
                     /\ d.method = "Unlock" => d.items = s.asked /\ s.unlocked = Items \ s.asked
    BY <1>2, <1>3, <1>4, <2>1, <2>11, <2>2
  <2>6. s.failed = reads[l].failed /\ s.secrets = reads[l].secrets /\ s.phase \in {"opening", "searching"}
    BY <2>11
  <2>7. Good(l, Step(s, {d})) /\ (Goes(l, {c}, Step(s, {d})) => LoadInv(l)')
    <3> HIDE DEF was
    <3> QED BY <2>1, <2>11, <2>2, <2>4, <2>5, <2>6, NextStep
  <2> QED BY <2>3, <2>7
<1> QED BY <1>5, <1>6

LEMMA UnlockReply ==
  ASSUME IsFiniteSet(Items), Types, NEW l \in Loads, LoadInv(l), alive, reads[l].phase = "searching",
         NEW c \in Calls, c.load = l, UnderWay(c), NEW value \in SUBSET Items, NEW asked \in SUBSET Items,
         ~reads[l].failed => reads[l].unlocked \cup value = Items \ asked /\ value \cap keyring.locked = {},
         NEW step, step = Found(l, [reads[l] EXCEPT !.asked = asked], reads[l].unlocked \cup value)
  PROVE  /\ Good(l, step)
         /\ Goes(l, {c}, step) => LoadInv(l)'
<1> DEFINE was == reads[l]
<1>1. was \in Reads /\ Chain(l) /\ was.answers = 0 /\ ~was.prompting /\ was.phase = "searching"
  BY DEF LoadInv, Types, Chain, Counted
<1>2. PICK r \in Reads : /\ r = [was EXCEPT !.asked = asked] /\ Others(r, was)
                         /\ r.asked = asked /\ r.unlocked = was.unlocked /\ r.prompting = was.prompting
  <2> HIDE DEF was
  <2> QED BY <1>1, AskedRead
<1>21. /\ r.phase = "searching" /\ ~r.prompting /\ r.answers = 0 /\ r.secrets = was.secrets
       /\ r.failed = was.failed
  BY <1>1, <1>2 DEF Others
<1>3. PICK items \in SUBSET Items : items = was.unlocked \cup value
  BY <1>1 DEF Reads
<1>4. step = Found(l, r, items)
  BY <1>2, <1>3
<1>5. Rest(l, {c})
  BY <1>1 DEF Rest, Chain, OneCall
<1>6. Good(l, step)
  BY <1>1, <1>21, <1>4, FoundGood
<1>7. ~r.failed => /\ items = Items \ r.asked /\ items \cap keyring.locked = {} /\ Prompts(l) = {}
  BY <1>1, <1>2, <1>21, <1>3 DEF LoadInv, Prompted, Kept, Open
<1>8. r.unlocked = reads[l].unlocked /\ r.secrets = reads[l].secrets /\ (~r.failed => ~reads[l].failed)
  BY <1>2, <1>21
<1>9. Goes(l, {c}, Found(l, r, items)) => LoadInv(l)'
  <2> HIDE DEF was
  <2> QED BY <1>21, <1>5, <1>7, <1>8, FoundStep
<1> QED BY <1>4, <1>6, <1>9

LEMMA ReplyStep ==
  ASSUME IsFiniteSet(Items), Types, alive, NEW m \in Replies, m \in Arriving,
         NEW l \in Loads, l = m.call.load, LoadInv(l), NEW step, step = Completion(m)
  PROVE  /\ Good(l, step)
         /\ Goes(l, {m.call}, step) => LoadInv(l)'
<1>1. PICK c \in Calls : c = m.call /\ c.load = l /\ UnderWay(c) /\ c.items \in SUBSET Items /\ c.method \in Methods
  BY DEF Replies, UnderWay, Answering, Calls
<1>2. m.ok \in BOOLEAN /\ m.prompt \in BOOLEAN /\ m.value \in SUBSET Items /\ m.type = "reply"
  BY DEF Replies
<1>3. PICK r \in Reads : r = reads[l]
  BY DEF Types
<1>4. Chain(l) /\ Counted(l) /\ Expected(r.phase, c.method) /\ (r.prompting <=> r.phase = "prompting")
  BY <1>1, <1>3 DEF LoadInv, Chain, OnlyExpected
<1>5. ~r.failed => Says(l, m) /\ Kept(l)
  BY <1>2, <1>3 DEF LoadInv, Kept, Succeeds, Says
<1>6. r.phase # "done" => r.answers = 0
  BY <1>3, <1>4 DEF Counted
<1>7. CASE c.method = "GetSecrets"
  <2>1. r.phase = "system" /\ ~r.prompting
    BY <1>4, <1>7 DEF Expected
  <2>2. PICK s \in Reads : /\ s = [r EXCEPT !.phase = "opening", !.system = m.ok]
    BY <1>2 DEF Reads, Phases
  <2>3. /\ s.phase = "opening" /\ ~s.prompting /\ s.answers = 0 /\ s.failed = r.failed /\ s.secrets = r.secrets
        /\ s.unlocked = r.unlocked
    BY <1>6, <2>1, <2>2 DEF Reads
  <2>4. PICK d \in Calls : d = The(l, "OpenSession", {}) /\ d.load = l /\ d.method = "OpenSession"
    BY Made DEF Methods
  <2>5. step = Step(s, {d})
    BY <1>1, <1>3, <1>7, <2>2, <2>4 DEF Completion, Ask, The
  <2>6. d # c /\ Expected(s.phase, d.method)
    BY <1>7, <2>3, <2>4 DEF Expected
  <2>7. ~s.failed => s.unlocked \cap keyring.locked = {}
    BY <1>3, <1>5, <2>3 DEF Kept, Open
  <2>8. Good(l, Step(s, {d})) /\ (Goes(l, {c}, Step(s, {d})) => LoadInv(l)')
    BY <1>1, <1>3, <2>1, <2>3, <2>4, <2>6, <2>7, NextStep
  <2> QED BY <1>1, <2>5, <2>8
<1>8. CASE c.method = "OpenSession" /\ m.ok
  <2>1. r.phase = "opening" /\ ~r.prompting
    BY <1>4, <1>8 DEF Expected
  <2>2. PICK s \in Reads : /\ s = [r EXCEPT !.phase = "searching", !.session = TRUE]
    BY DEF Reads, Phases
  <2>3. /\ s.phase = "searching" /\ ~s.prompting /\ s.answers = 0 /\ s.failed = r.failed /\ s.secrets = r.secrets
        /\ s.unlocked = r.unlocked
    BY <1>6, <2>1, <2>2 DEF Reads
  <2>4. PICK d \in Calls : d = The(l, "SearchItems", {}) /\ d.load = l /\ d.method = "SearchItems"
    BY Made DEF Methods
  <2>5. step = Step(s, {d})
    BY <1>1, <1>3, <1>8, <2>2, <2>4 DEF Completion, Ask, The
  <2>6. d # c /\ Expected(s.phase, d.method)
    BY <1>8, <2>3, <2>4 DEF Expected
  <2>7. ~s.failed => s.unlocked \cap keyring.locked = {} /\ l \in keyring.sessions
    BY <1>1, <1>3, <1>5, <1>8, <2>3 DEF Kept, Open, Says
  <2>8. Good(l, Step(s, {d})) /\ (Goes(l, {c}, Step(s, {d})) => LoadInv(l)')
    BY <1>1, <1>3, <2>1, <2>3, <2>4, <2>6, <2>7, NextStep
  <2> QED BY <1>1, <2>5, <2>8
<1>9. CASE c.method = "OpenSession" /\ ~m.ok
  <2>1. r.phase = "opening" /\ r.failed
    BY <1>1, <1>4, <1>5, <1>9 DEF Expected, Says
  <2>2. step = Step(Done(reads[l]), {})
    BY <1>1, <1>9 DEF Completion
  <2> QED BY <1>1, <1>3, <2>1, <2>2, FailedOpen
<1>10. CASE c.method = "SearchItems" /\ ~m.ok
  <2>1. r.phase = "searching" /\ r.failed
    BY <1>1, <1>4, <1>5, <1>10 DEF Expected, Says
  <2>2. step = Concluded(l, r)
    BY <1>1, <1>3, <1>10 DEF Completion
  <2>3. Rest(l, {c})
    BY <1>1, <1>3, <1>4, <2>1 DEF Rest, Chain, OneCall
  <2>4. Good(l, step)
    <3>1. Found(l, r, {}) = step
      BY <2>2 DEF Found
    <3>2. {} \in SUBSET Items /\ r.answers = 0
      BY <1>6, <2>1
    <3> QED BY <1>3, <1>4, <2>1, <3>1, <3>2, FoundGood
  <2> QED BY <1>1, <1>3, <1>4, <1>6, <2>1, <2>2, <2>3, <2>4, ConcludedStep
<1>11. CASE c.method = "SearchItems" /\ m.ok
  <2>1. r.phase = "searching" /\ (~r.failed => (Items \ m.value) \cap keyring.locked = {})
    BY <1>1, <1>4, <1>5, <1>11 DEF Expected, Says
  <2>2. step = Unlock(l, [reads[l] EXCEPT !.asked = m.value], Items \ m.value, m.value)
    BY <1>1, <1>11 DEF Completion
  <2> QED BY <1>1, <1>2, <1>3, <1>11, <2>1, <2>2, SearchReply
<1>12. CASE c.method = "Unlock"
  <2>1. r.phase = "searching"
    BY <1>4, <1>12 DEF Expected
  <2>2. ~r.failed => /\ m.ok /\ m.value \subseteq c.items /\ m.value \cap keyring.locked = {}
                     /\ ~m.prompt => m.value = c.items
                     /\ c.items = r.asked /\ r.unlocked = Items \ r.asked
                     /\ r.unlocked \cap keyring.locked = {}
    BY <1>1, <1>3, <1>5, <1>12 DEF Says, Kept, Searched, AskedFor, Open
  <2>3. CASE ~m.ok
    <3>1. step = Found(l, [reads[l] EXCEPT !.asked = reads[l].asked], reads[l].unlocked \cup {})
      <4>1. step = Found(l, r, r.unlocked)
        BY <1>1, <1>3, <1>12, <2>3 DEF Completion
      <4>2. [r EXCEPT !.asked = r.asked] = r /\ r.unlocked \cup {} = r.unlocked
        BY DEF Reads
      <4> QED BY <1>3, <4>1, <4>2
    <3>2. r.asked \in SUBSET Items /\ {} \in SUBSET Items /\ r.failed
      BY <2>2, <2>3 DEF Reads
    <3> QED BY <1>1, <1>3, <2>1, <3>1, <3>2, UnlockReply
  <2>4. CASE m.ok /\ ~m.prompt
    <3>1. step = Found(l, [reads[l] EXCEPT !.asked = {}], reads[l].unlocked \cup m.value)
      BY <1>1, <1>12, <2>4 DEF Completion
    <3>2. ~r.failed => r.unlocked \cup m.value = Items \ {} /\ m.value \cap keyring.locked = {}
      BY <2>2, <2>4 DEF Reads
    <3>3. {} \in SUBSET Items
      OBVIOUS
    <3> QED BY <1>1, <1>2, <1>3, <2>1, <3>1, <3>2, <3>3, UnlockReply
  <2>5. CASE m.ok /\ m.prompt
    <3>1. step = Step([reads[l] EXCEPT !.phase = "prompting", !.prompting = TRUE, !.unlocked = @ \cup m.value,
                                       !.asked = @ \ m.value], {The(l, "Prompt", c.items)})
      BY <1>1, <1>12, <2>5 DEF Completion, About, The
    <3> QED BY <1>1, <1>2, <1>3, <1>12, <2>1, <2>2, <3>1, PromptStep
  <2> QED BY <2>3, <2>4, <2>5
<1>13. CASE c.method = "Prompt"
  <2>1. r.phase \in {"prompting", "reading", "done"}
    BY <1>4, <1>13 DEF Expected
  <2>2. \A d \in {c} : d.method = "Prompt"
    BY <1>13
  <2>3. CASE m.ok
    <3>1. step = Step(reads[l], {})
      BY <1>1, <1>13, <2>3 DEF Completion
    <3> QED BY <1>1, <1>3, <2>1, <2>2, <3>1, NothingStep
  <2>4. CASE ~m.ok
    <3>1. step = Finish(l, reads[l], TRUE, {})
      BY <1>1, <1>13, <2>4 DEF Completion
    <3>2. r.failed /\ {} \in SUBSET Items /\ TRUE \in BOOLEAN
      BY <1>1, <1>5, <1>13, <2>4 DEF Says
    <3> QED BY <1>1, <1>3, <2>1, <2>2, <3>1, <3>2, FinishStep
  <2> QED BY <2>3, <2>4
<1>14. CASE c.method \in {"Attributes", "GetSecret"}
  <2>1. r.phase = "reading"
    BY <1>4, <1>14 DEF Expected
  <2>2. PICK i \in Items : c.items = {i}
    BY <1>1, <1>3, <1>4, <1>14, <2>1 DEF Chain, CallEach, Reads
  <2>3. c = The(l, c.method, {i})
    BY <1>1, <2>2, CallIs
  <2>4. c \in {The(l, "Attributes", {i}), The(l, "GetSecret", {i})}
    BY <1>14, <2>3
  <2>5. ~r.failed => m.ok /\ (c.method = "GetSecret" => i \notin Unkeyed)
    BY <1>1, <1>3, <1>5, <1>14, <2>1, <2>3 DEF Says, Kept, ReadSoFar
  <2>6. ASSUME NEW secrets \in SUBSET Items, ~r.failed => secrets = {i} \ Unkeyed, step = Settle(l, reads[l], secrets)
        PROVE  /\ Good(l, step)
               /\ Goes(l, {m.call}, step) => LoadInv(l)'
    BY <1>1, <1>3, <2>1, <2>4, <2>6, SettleStep
  <2>7. CASE c.method = "GetSecret"
    <3>1. PICK secrets \in SUBSET Items : secrets = IF m.ok THEN c.items ELSE {}
      BY <1>1
    <3>2. step = Settle(l, reads[l], secrets)
      BY <1>1, <2>7, <3>1 DEF Completion
    <3>3. ~r.failed => secrets = {i} \ Unkeyed
      BY <2>2, <2>5, <2>7, <3>1
    <3> QED BY <2>6, <3>2, <3>3
  <2>8. CASE c.method = "Attributes" /\ (~m.ok \/ i \in Unkeyed)
    <3>1. step = Settle(l, reads[l], {})
      BY <1>1, <2>2, <2>8 DEF Completion, SettleUnkeyed
    <3>2. ~r.failed => {} = {i} \ Unkeyed
      BY <2>5, <2>8
    <3>3. {} \in SUBSET Items
      OBVIOUS
    <3> QED BY <2>6, <3>1, <3>2, <3>3
  <2>9. CASE c.method = "Attributes" /\ m.ok /\ i \notin Unkeyed
    <3>1. step = Step(reads[l], {The(l, "GetSecret", {i})})
      BY <1>1, <2>2, <2>9 DEF Completion, About, The
    <3>2. c = The(l, "Attributes", {i})
      BY <2>3, <2>9
    <3> QED BY <1>1, <1>3, <2>1, <2>9, <3>1, <3>2, ReadStep
  <2> QED BY <1>14, <2>7, <2>8, <2>9
<1>15. CASE c.method = "Close"
  <2>1. r.phase = "done"
    BY <1>4, <1>15 DEF Expected
  <2>2. \A d \in {c} : d.method \in {"Prompt", "Close"}
    BY <1>15
  <2>3. step = Step(reads[l], {})
    BY <1>1, <1>15 DEF Completion
  <2> QED BY <1>1, <1>3, <2>1, <2>2, <2>3, NothingStep
<1> QED BY <1>1, <1>7, <1>8, <1>9, <1>10, <1>11, <1>12, <1>13, <1>14, <1>15 DEF Methods

LEMMA ReceiveStep ==
  ASSUME IsFiniteSet(Items), Inv, Receive
  PROVE  Inv'
<1> USE DEF Inv
<1>1. inbox # <<>> /\ inbox' = Tail(inbox) /\ UNCHANGED <<keyring, alive, events>>
  BY Zenon DEF Receive
<1>2. Head(inbox) \in Replies \cup Completions /\ Head(inbox) \in Arriving /\ Arriving' \subseteq Arriving
  BY <1>1, Taken
<1>3. alive' \in BOOLEAN /\ events' \in Nat
  BY <1>1 DEF Types
<1>4. CASE ~alive
  <2>1. UNCHANGED <<reads, calls>>
    BY <1>4 DEF Receive
  <2>2. Types' /\ Once'
    <3>1. Types'
      BY <1>1, <2>1, Taken DEF Types
    <3>2. \A c \in calls' : ~Answering(c)'
      BY <1>2, <2>1 DEF Once, Answering
    <3> QED BY <1>1, <3>1, <3>2, Taken DEF Once
  <2>3. ASSUME NEW l \in Loads PROVE LoadInv(l)'
    <3>1. Prompts(l)' = Prompts(l) /\ reads'[l] = reads[l] /\ ~alive'
      BY <1>1, <1>4, <2>1 DEF Prompts
    <3> QED BY <1>4, <3>1 DEF LoadInv, Counted, Prompted, Whole
  <2> QED BY <2>2, <2>3
<1>5. CASE alive /\ Head(inbox).type = "reply"
  <2>1. PICK m \in Replies : m = Head(inbox) /\ m.call.load \in Loads
    BY <1>2, <1>5 DEF Replies, Completions, Calls
  <2>2. PICK l \in Loads : l = m.call.load
    BY <2>1
  <2>3. PICK step : step = Completion(m)
    OBVIOUS
  <2>4. Take(l, step)
    BY <1>5, <2>1, <2>2, <2>3 DEF Receive
  <2>5. Good(l, step) /\ (Goes(l, {m.call}, step) => LoadInv(l)')
    BY <1>2, <1>5, <2>1, <2>2, <2>3, ReplyStep
  <2>6. Goes(l, {m.call}, step)
    BY <1>1, <1>5, <2>1, <2>4, <2>5, GoesByReply
  <2>7. Concerns(Head(inbox), l)
    BY <1>5, <2>1, <2>2 DEF Concerns
  <2> QED BY <1>1, <1>3, <1>5, <2>5, <2>6, <2>7, Together
<1>6. CASE alive /\ Head(inbox).type = "completed"
  <2>1. PICK m \in Completions : m = Head(inbox) /\ m.load \in Loads /\ m.dismissed \in BOOLEAN /\ m.value \in SUBSET Items
    BY <1>2, <1>6 DEF Replies, Completions
  <2>2. PICK l \in Loads : l = m.load
    BY <2>1
  <2>3. PICK step : step = Finish(l, reads[l], m.dismissed, m.value)
    OBVIOUS
  <2>4. Take(l, step)
    BY <1>6, <2>1, <2>2, <2>3 DEF Receive
  <2>5. reads[l].prompting /\ ~reads[l].failed =>
          /\ Prompts(l) = {}
          /\ IF m.dismissed THEN AskedFor(l)
             ELSE /\ reads[l].asked = {} /\ Items \subseteq reads[l].unlocked \cup m.value
                  /\ m.value \cap keyring.locked = {}
    <3> SUFFICES ASSUME reads[l].prompting, ~reads[l].failed
                 PROVE  /\ Prompts(l) = {}
                        /\ IF m.dismissed THEN AskedFor(l)
                           ELSE /\ reads[l].asked = {} /\ Items \subseteq reads[l].unlocked \cup m.value
                                /\ m.value \cap keyring.locked = {}
      OBVIOUS
    <3>1. m \in Answers(l)
      BY <1>2, <1>6, <2>1, <2>2 DEF Answers
    <3>2. Kept(l) /\ reads[l].phase = "prompting"
      BY <1>6 DEF LoadInv, Chain
    <3> QED BY <3>1, <3>2 DEF Kept, OnePrompt, PromptAnswer
  <2>6. Good(l, step) /\ (Goes(l, {}, step) => LoadInv(l)')
    <3>1. PICK gone : gone = {}
      OBVIOUS
    <3>2. (\A d \in gone : d.method = "Prompt")
      BY <3>1
    <3>3. Good(l, step) /\ (Goes(l, gone, step) => LoadInv(l)')
      BY <1>6, <2>1, <2>3, <2>5, <3>1, <3>2, FinishStep
    <3> QED BY <3>1, <3>3
  <2>7. Goes(l, {}, step)
    BY <1>1, <1>6, <2>4, <2>6, GoesBySignal
  <2>8. Concerns(Head(inbox), l)
    BY <1>6, <2>1, <2>2 DEF Concerns
  <2> QED BY <1>1, <1>3, <1>6, <2>6, <2>7, <2>8, Together
<1>7. Head(inbox).type \in {"reply", "completed"}
  BY <1>2 DEF Replies, Completions
<1> QED BY <1>4, <1>5, <1>6, <1>7

LEMMA FailedStep ==
  ASSUME NEW read, NEW made
  PROVE  [[read |-> read, calls |-> made] EXCEPT !.read.failed = TRUE] =
           [read |-> [read EXCEPT !.failed = TRUE], calls |-> made]
<1>1. PICK t : t = [read |-> read, calls |-> made]
  OBVIOUS
<1>2. PICK failed : failed = [read EXCEPT !.failed = TRUE]
  OBVIOUS
<1>3. PICK u : u = [t EXCEPT !.read.failed = TRUE]
  OBVIOUS
<1>4. u \in [read : {failed}, calls : {made}]
  BY <1>1, <1>2, <1>3
<1>5. u = [read |-> failed, calls |-> made]
  BY <1>4
<1> QED BY <1>1, <1>2, <1>3, <1>5

\* The prompt is given up: the load goes on as if it had been dismissed, and has failed.
LEMMA TimeoutStep ==
  ASSUME IsFiniteSet(Items), Inv, NEW l \in Loads, Timeout(l)
  PROVE  Inv'
<1> USE DEF Inv
<1>1. alive /\ reads[l].prompting /\ UNCHANGED <<keyring, inbox, alive>>
  BY Zenon DEF Timeout
<1>2. events' \in Nat /\ alive' \in BOOLEAN
  <2>1. events' \in Nat
    BY DEF Timeout, Event, Types
  <2>2. alive' \in BOOLEAN
    BY <1>1 DEF Types
  <2> QED BY <2>1, <2>2
<1> DEFINE was == reads[l]
<1>3. was \in Reads /\ Chain(l) /\ was.phase = "prompting" /\ was.answers = 0
  BY <1>1 DEF LoadInv, Types, Chain, Counted
<1>4. PICK r \in Reads : /\ r = [was EXCEPT !.prompting = FALSE] /\ Others(r, was)
                         /\ r.asked = was.asked /\ r.unlocked = was.unlocked /\ r.prompting = FALSE
  <2> HIDE DEF was
  <2> QED BY <1>3, PromptedRead
<1>5. PICK s : s = [r EXCEPT !.failed = TRUE]
  OBVIOUS
<1>51. /\ s \in Reads /\ s.failed /\ s.prompting = r.prompting /\ s.answers = r.answers
       /\ s.unlocked = r.unlocked /\ s.secrets = r.secrets
  BY <1>5 DEF Reads
<1>6. PICK items \in SUBSET Items : items = was.unlocked
  BY <1>3 DEF Reads
<1>7. Finish(l, was, TRUE, {}) = Found(l, r, items)
  BY <1>1, <1>4, <1>6 DEF Finish, Finishable
<1>8. PICK step : step = Found(l, s, items)
  OBVIOUS
<1>9. [Found(l, r, items) EXCEPT !.read.failed = TRUE] = step
  <2>1. CASE items = {}
    <3>1. Found(l, r, items) = [read |-> Done(r), calls |-> Ask(l, "Close")] /\ step = [read |-> Done(s), calls |-> Ask(l, "Close")]
      BY <1>8, <2>1 DEF Found, Concluded, Step
    <3>2. [Done(r) EXCEPT !.failed = TRUE] = Done(s)
      BY <1>5 DEF Done, Reads
    <3> QED BY <3>1, <3>2, FailedStep
  <2>2. CASE items # {}
    <3> DEFINE reading(x) == [x EXCEPT !.phase = "reading", !.unlocked = items, !.waiting = Cardinality(items)]
    <3>1. /\ Found(l, r, items) = [read |-> reading(r), calls |-> AboutEach(l, "Attributes", items)]
          /\ step = [read |-> reading(s), calls |-> AboutEach(l, "Attributes", items)]
      BY <1>8, <2>2 DEF Found, Step
    <3>2. [reading(r) EXCEPT !.failed = TRUE] = reading(s)
      BY <1>5 DEF Reads
    <3> HIDE DEF reading
    <3> QED BY <3>1, <3>2, FailedStep
  <2> QED BY <2>1, <2>2
<1>10. Take(l, step)
  BY <1>7, <1>9 DEF Timeout
<1>11. s.answers = 0 /\ s.secrets = was.secrets /\ s.unlocked = was.unlocked /\ s.prompting = FALSE /\ s.failed
  BY <1>3, <1>4, <1>51 DEF Others
<1>12. Good(l, step)
  BY <1>3, <1>51, <1>8, <1>11, FoundGood
<1>13. PICK gone : gone = {}
  OBVIOUS
<1>14. Goes(l, gone, step)
  BY <1>1, <1>10, <1>12, <1>13, GoesBySignal
<1>15. Rest(l, gone)
  BY <1>3 DEF Rest, Chain, OnlyExpected, Expected
<1>16. LoadInv(l)'
  BY <1>1, <1>3, <1>51, <1>8, <1>11, <1>14, <1>15, FoundStep
<1> QED BY <1>1, <1>2, <1>12, <1>14, <1>16, Together

LEMMA LoadStep ==
  ASSUME Inv, NEW l \in Loads, Load(l)
  PROVE  Inv'
<1> USE DEF Inv
<1>1. alive /\ reads[l].phase = "new" /\ UNCHANGED <<keyring, inbox, alive, events>>
  BY Zenon DEF Load
<1>2. events' \in Nat /\ alive' \in BOOLEAN
  BY <1>1 DEF Types
<1>3. PICK r \in Reads : r = reads[l]
  BY DEF Types
<1>4. Chain(l) /\ Counted(l) /\ r.answers = 0 /\ ~r.prompting
  BY <1>1, <1>3 DEF LoadInv, Chain, Counted
<1>5. \A d \in Calls : d.load = l => ~UnderWay(d)
  BY <1>1, <1>4 DEF Chain, OnlyExpected, Expected
<1>6. PICK s \in Reads : s = [r EXCEPT !.phase = "system"]
  BY DEF Reads, Phases
<1>7. /\ s.phase = "system" /\ ~s.prompting /\ s.answers = 0 /\ s.failed = r.failed /\ s.secrets = r.secrets
      /\ s.unlocked = r.unlocked
  BY <1>4, <1>6 DEF Reads
<1>8. PICK c \in Calls : c = The(l, "GetSecrets", {}) /\ c.load = l /\ c.method = "GetSecrets"
  BY Made DEF Methods
<1>9. PICK step : step = Step(s, {c})
  OBVIOUS
<1>91. step.read = s /\ step.calls = {c}
  BY <1>9 DEF Step
<1>10. Take(l, step)
  BY <1>3, <1>6, <1>8, <1>9, <1>91 DEF Load, Ask, The
<1>11. Good(l, step)
  BY <1>5, <1>8, <1>9, <1>91 DEF Good
<1>12. PICK gone : gone = {}
  OBVIOUS
<1>13. Goes(l, gone, step)
  BY <1>1, <1>10, <1>11, <1>12, GoesBySignal
<1>14. LoadInv(l)'
  <2>1. /\ reads'[l] = s /\ Answers(l)' \subseteq Answers(l) /\ (Succeeds(l) => Succeeds(l)')
        /\ Prompts(l)' = Prompts(l) /\ keyring' = keyring
    <3>1. \A d \in step.calls : d.method # "Prompt"
      BY <1>8, <1>91
    <3> QED BY <1>1, <1>9, <1>91, <1>11, <1>13, <3>1, GoesKeeps
  <2>2. \A d \in Calls : d.load = l => (UnderWay(d)' <=> d = c)
    BY <1>5, <1>8, <1>9, <1>91, <1>13 DEF Goes
  <2>3. Chain(l)'
    BY <1>7, <1>8, <2>1, <2>2 DEF Chain, OnlyExpected, OneCall, CallEach, Expected
  <2>4. Counted(l)'
    BY <1>7, <2>1 DEF Counted
  <2>5. ASSUME ~r.failed PROVE Prompted(l)' /\ Whole(l)' /\ Kept(l)'
    <3> USE <2>5
    <3>1. Kept(l) /\ Prompts(l) = {}
      BY <1>1, <1>3 DEF LoadInv, Prompted
    <3>2. Answers(l) = {}
      BY <1>1, <3>1 DEF Kept, PromptAnswer
    <3>3. Prompted(l)' /\ Whole(l)'
      BY <1>7, <2>1, <3>1 DEF Prompted, Whole
    <3>4. Open(l)' /\ Succeeds(l)'
      BY <1>3, <1>7, <2>1, <3>1 DEF Kept, Open
    <3>5. Searched(l)'
      BY <1>1, <1>3, <1>7, <1>8, <2>1, <2>2, <3>1 DEF Kept, Searched
    <3>6. OnePrompt(l)'
      <4>1. \A e \in calls' : ~(e.load = l /\ e.method = "Prompt")
        BY <2>1, <3>1 DEF Prompts
      <4> QED BY <2>1, <3>1, <4>1 DEF OnePrompt
    <3>7. PromptAnswer(l)' /\ ReadSoFar(l)' /\ Closes(l)'
      BY <1>7, <2>1, <3>2 DEF PromptAnswer, ReadSoFar, Closes
    <3> QED BY <3>3, <3>4, <3>5, <3>6, <3>7 DEF Kept
  <2> QED BY <1>7, <2>1, <2>3, <2>4, <2>5 DEF LoadInv
<1> QED BY <1>1, <1>2, <1>11, <1>13, <1>14, Together

-----------------------------------------------------------------------------
(* The invariant, and the theorems.                                        *)

LEMMA InvInit == Init => Inv
<1> SUFFICES ASSUME Init PROVE Inv
  OBVIOUS
<1>0. PICK r : r = NewRead
  OBVIOUS
<1>1. r \in Reads /\ r.phase = "new" /\ ~r.prompting /\ r.answers = 0 /\ r.unlocked = {} /\ r.secrets = {}
  BY <1>0 DEF NewRead, Reads, Phases
<1>2. /\ reads = [l \in Loads |-> r] /\ calls = {} /\ inbox = <<>> /\ alive = TRUE /\ events = 0
      /\ keyring.locked \subseteq Items /\ keyring.sessions = {} /\ keyring.prompts = {}
  BY <1>0 DEF Init
<1>3. Types
  BY <1>1, <1>2 DEF Init, Types
<1>4. Arriving = {} /\ Len(inbox) = 0
  BY <1>2 DEF Arriving
<1>5. \A d : ~UnderWay(d) /\ ~Answering(d)
  BY <1>2, <1>4 DEF UnderWay, Answering
<1>6. Once
  BY <1>4, <1>5 DEF Once
<1>7. ASSUME NEW l \in Loads PROVE LoadInv(l)
  <2>1. reads[l] = r
    BY <1>2
  <2>2. Prompts(l) = {} /\ Answers(l) = {}
    BY <1>2, <1>4 DEF Prompts, Answers
  <2>3. Chain(l) /\ Counted(l)
    BY <1>1, <1>5, <2>1 DEF Chain, OnlyExpected, OneCall, CallEach, Counted
  <2>4. Prompted(l) /\ Whole(l)
    BY <1>1, <2>1, <2>2 DEF Prompted, Whole
  <2>5. Open(l) /\ Succeeds(l) /\ Searched(l)
    BY <1>1, <1>4, <1>5, <2>1 DEF Open, Succeeds, Searched
  <2>6. OnePrompt(l) /\ PromptAnswer(l) /\ ReadSoFar(l) /\ Closes(l)
    BY <1>1, <1>2, <2>1, <2>2 DEF OnePrompt, PromptAnswer, ReadSoFar, Closes
  <2> QED BY <2>3, <2>4, <2>5, <2>6 DEF LoadInv, Kept
<1> QED BY <1>3, <1>6, <1>7 DEF Inv

LEMMA InvStep == ASSUME IsFiniteSet(Items), Inv, [Next]_vars PROVE Inv'
<1>1. ASSUME UNCHANGED vars PROVE Inv'
  <2>1. UNCHANGED <<keyring, reads, calls, inbox, alive, events>>
    BY <1>1 DEF vars
  <2>2. Types' /\ Arriving' = Arriving
    BY <2>1 DEF Inv, Types, Arriving
  <2>3. Once'
    BY <2>1, <2>2 DEF Inv, Once, Answering
  <2>4. ASSUME NEW l \in Loads PROVE LoadInv(l)'
    BY <2>1, <2>2, Unaffected DEF Inv
  <2> QED BY <2>2, <2>3, <2>4 DEF Inv
<1>2. ASSUME NEW l \in Loads, Load(l) \/ Timeout(l) PROVE Inv'
  BY <1>2, LoadStep, TimeoutStep
<1>3. ASSUME Receive \/ Destroy PROVE Inv'
  BY <1>3, ReceiveStep, DestroyStep
<1>4. ASSUME NEW c \in calls, Serve(c) \/ Fail(c) PROVE Inv'
  BY <1>4, ServeStep, FailStep
<1>5. ASSUME NEW p \in keyring.prompts, AnswerPrompt(p) PROVE Inv'
  BY <1>5, AnswerPromptStep
<1>6. ASSUME Crash PROVE Inv'
  BY <1>6, CrashStep
<1> QED BY <1>1, <1>2, <1>3, <1>4, <1>5, <1>6 DEF Next, Process, Services

LEMMA AnsweredByInv == Inv => SecretsAnswered
<1> SUFFICES ASSUME Inv, NEW l \in Loads
             PROVE  /\ reads[l].answers <= 1
                    /\ alive /\ inbox = <<>> /\ calls = {} /\ ~reads[l].prompting /\ reads[l].phase # "new" =>
                         reads[l].answers = 1
  BY DEF SecretsAnswered
<1>1. Counted(l) /\ (alive => Chain(l)) /\ reads[l] \in Reads
  BY DEF Inv, LoadInv, Types
<1>2. reads[l].answers \in {0, 1}
  BY <1>1 DEF Counted
<1>3. ASSUME alive, inbox = <<>>, calls = {}, ~reads[l].prompting, reads[l].phase # "new" PROVE reads[l].phase = "done"
  <2>1. \A d : ~UnderWay(d)
    BY <1>3 DEF UnderWay, Answering, Arriving
  <2>2. Left(l) = {}
    BY <2>1 DEF Left
  <2>3. reads[l].phase \notin {"system", "opening", "searching", "reading", "prompting"}
    BY <1>1, <1>3, <2>1, <2>2 DEF Chain, OneCall, CallEach
  <2> QED BY <1>1, <1>3, <2>3 DEF Reads, Phases
<1> QED BY <1>1, <1>2, <1>3 DEF Counted

LEMMA WholeByInv == Inv => SecretsWhole
<1> SUFFICES ASSUME Inv, NEW l \in Loads, reads[l].phase = "done", ~reads[l].failed
             PROVE  /\ reads[l].secrets = Items \ (Unkeyed \cup reads[l].asked)
                    /\ alive /\ inbox = <<>> /\ calls = {} => l \notin keyring.sessions
  BY DEF SecretsWhole
<1>1. Whole(l) /\ (alive => Closes(l))
  BY DEF Inv, LoadInv, Kept
<1> QED BY <1>1 DEF Whole, Closes

\* loadVpnSecrets() answers each load once, whichever of its calls fail, whenever the keyring crashes and
\* whatever becomes of its prompt; and it has by the time nothing of it is under way.
THEOREM SecretsAnsweredOnce == IsFiniteSet(Items) => (Spec => []SecretsAnswered)
<1> SUFFICES ASSUME IsFiniteSet(Items) PROVE Spec => []SecretsAnswered
  OBVIOUS
<1>1. Init => Inv
  BY InvInit
<1>2. Inv /\ [Next]_vars => Inv'
  BY InvStep
<1>3. Inv => SecretsAnswered
  BY AnsweredByInv
<1> QED BY <1>1, <1>2, <1>3, PTL DEF Spec

\* A load that nothing failed for has every secret with a key that is not locked away from it, and leaves
\* no session of the keyring open.
THEOREM SecretsAllRead == IsFiniteSet(Items) => (Spec => []SecretsWhole)
<1> SUFFICES ASSUME IsFiniteSet(Items) PROVE Spec => []SecretsWhole
  OBVIOUS
<1>1. Init => Inv
  BY InvInit
<1>2. Inv /\ [Next]_vars => Inv'
  BY InvStep
<1>3. Inv => SecretsWhole
  BY WholeByInv
<1> QED BY <1>1, <1>2, <1>3, PTL DEF Spec
=============================================================================
