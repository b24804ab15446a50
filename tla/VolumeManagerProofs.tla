-------------------------- MODULE VolumeManagerProofs --------------------------
(***************************************************************************)
(* Proofs about VolumeManager for every finite set of volumes, on any      *)
(* drives, and any number of calls, restarts and acts of other programs.   *)
(* Operations are about what is left to do of each (Operations) and what   *)
(* it did (Achieved); the list is about which answers still count          *)
(* (Listing) and what they say once the news has been heard (Fresh).       *)
(***************************************************************************)
EXTENDS VolumeManager, FiniteSetTheorems, TLAPS

Steps == [volume : Volumes, method : {"Mount", "Unmount", "Lock", "Unlock", "Eject"}]
Kinds == {"mount", "unmount", "unlock", "eject"}
Runs == [step : {"asked", "ok", "error", "rejected"}, operation : Kinds, steps : Seq(Steps) \ {<<>>},
         generation : Nat, unlisted : BOOLEAN, done : BOOLEAN]
Queries == [step : {"asked", "failed"}, generation : Nat]
             \cup [step : {"answered"}, generation : Nat, objects : [Volumes -> DiskStates]]
ListStates == {"gone", "locked", "unmounted", "mounted"}

Types ==
  /\ disk \in [Volumes -> DiskStates] /\ volumes \in [Volumes -> ListStates]
  /\ up \in BOOLEAN /\ news \in BOOLEAN /\ heard \in Seq(BOOLEAN) /\ ownerKnown \in BOOLEAN
  /\ generation \in Nat /\ again \in BOOLEAN /\ lost \in BOOLEAN
  /\ query \in Queries \cup {NoQuery} /\ op \in [Volumes -> Runs \cup {Idle}]
  /\ calls \in Nat /\ events \in Nat /\ owed \in [Volumes -> Nat]

\* The call that an operation ends with.
Last(o) == o.steps[Len(o.steps)]
LastMethod(operation, v) ==
  IF operation = "eject" THEN "Eject"
  ELSE IF operation # "unmount" THEN "Mount" ELSE IF v \in Encrypted THEN "Lock" ELSE "Unmount"

\* An operation ends with the call that does what it is for, and when that call succeeded, or the
\* drive is empty, it is done.
Achieved(v) ==
  /\ Last(op[v]) = Step(v, LastMethod(op[v].operation, v))
  /\ op[v].operation = "eject" /\ disk[v] = "gone" => op[v].done
  /\ op[v].step = "ok" /\ Len(op[v].steps) = 1 => op[v].done

Unlisted(v) == volumes[v] = "gone" => op[v].unlisted
Operations == OneReport /\ OneAtATime /\ \A v \in Pending : Achieved(v) /\ Unlisted(v)

\* A change of owner is still to be heard.
Changing == Len(heard) > 1 \/ (ownerKnown /\ heard # <<>>)

\* Which answers are still to come and count.
Listing ==
  /\ heard # <<>> => heard[Len(heard)] = up
  /\ ~ownerKnown => heard # <<>> /\ generation = 0
  /\ again => query # NoQuery
  /\ query # NoQuery => query.generation <= generation
  /\ ~Changing /\ up /\ query # NoQuery => Current \/ again
  /\ ~Changing /\ ~up /\ query.step = "answered" => ~Current

\* What they say, and what is listed.
Fresh ==
  ~Changing =>
    IF up THEN /\ query.step = "answered" /\ Current => news \/ again \/ query.objects = disk
               /\ query = NoQuery => news \/ lost \/ volumes = [v \in Volumes |-> Shown(disk[v])]
          ELSE volumes = AllGone

Inv == Types /\ Operations /\ Listing /\ Fresh

-----------------------------------------------------------------------------
(* Operations and queries.                                                 *)

LEMMA Distinct == Idle \notin Runs /\ NoQuery \notin Queries
<1>1. \A o \in Runs : o.step # "none"
  BY DEF Runs
<1>2. \A q \in Queries : q.step # "none"
  BY DEF Queries
<1> QED BY <1>1, <1>2 DEF Idle, NoQuery

LEMMA PendingRuns == ASSUME Types PROVE Pending \subseteq Volumes /\ \A v \in Volumes : v \in Pending <=> op[v] \in Runs
BY Distinct DEF Types, Pending

LEMMA AnsweredQuery ==
  ASSUME Types, query.step = "answered"
  PROVE  query \in [step : {"answered"}, generation : Nat, objects : [Volumes -> DiskStates]]
BY DEF Types, Queries, NoQuery

LEMMA ShownStates == \A state \in DiskStates : Shown(state) \in ListStates
BY DEF DiskStates, ListStates, Shown

\* What UDisks2 makes of a call is a state of the disks.
LEMMA AfterStates ==
  ASSUME Types, NEW s \in Steps, NEW now \in After(s) PROVE now \in [Volumes -> DiskStates]
<1> DEFINE v == s.volume
           Becomes(state) == {[disk EXCEPT ![v] = state]}
           Emptied == [w \in Volumes |-> IF DriveOf[w] = DriveOf[v] THEN "gone" ELSE disk[w]]
<1>1. v \in Volumes
  BY DEF Steps
<1>2. \A state \in DiskStates : Becomes(state) \subseteq [Volumes -> DiskStates]
  BY <1>1 DEF Types
<1>3. Emptied \in [Volumes -> DiskStates]
  BY DEF Types, DiskStates
<1>4. Mounted \subseteq DiskStates /\ "unmounted" \in DiskStates /\ "locked" \in DiskStates
  BY DEF Mounted, DiskStates
<1>5. \/ now \in UNION {Becomes(state) : state \in Mounted}
      \/ now \in Becomes("unmounted") \/ now \in Becomes("locked") \/ now = Emptied
  BY DEF After
<1> HIDE DEF Becomes, Emptied
<1> QED BY <1>2, <1>3, <1>4, <1>5

\* refresh() leaves a query under way; only one that was asked anew is of now.
LEMMA Refreshes ==
  ASSUME Types, again => query # NoQuery, NEW now \in Nat, Refresh(query, now)
  PROVE  /\ query' \in Queries /\ query' # NoQuery /\ again' \in BOOLEAN
         /\ \/ query = NoQuery /\ query' = [step |-> "asked", generation |-> now] /\ again' = FALSE
            \/ query # NoQuery /\ query' = query /\ again' = TRUE
<1>1. [step |-> "asked", generation |-> now] \in Queries
  BY DEF Queries
<1>2. again \in BOOLEAN /\ query \in Queries \cup {NoQuery}
  BY DEF Types
<1>3. CASE query = NoQuery
  BY <1>1, <1>2, <1>3, Distinct, Zenon DEF Refresh
<1>4. CASE query # NoQuery
  BY <1>2, <1>4, Distinct, Zenon DEF Refresh
<1> QED BY <1>3, <1>4

\* The closing of a drive's volumes is a sequence of calls.
LEMMA ClosingSteps ==
  ASSUME IsFiniteSet(Volumes), NEW some \in SUBSET Volumes, NEW closing \in ClosingAll(some)
  PROVE  closing \in Seq(Steps)
<1> DEFINE wanted == {s \in [volume : some, method : {"Unmount", "Lock"}] :
                        \E k \in 1 .. Len(Closing(s.volume)) : Closing(s.volume)[k] = s}
           of(m) == [v \in some |-> Step(v, m)]
           calling(m) == {Step(v, m) : v \in some}
<1>1. \A m : IsFiniteSet(calling(m))
  <2>1. IsFiniteSet(some)
    BY FS_Subset
  <2>2. ASSUME NEW m PROVE of(m) \in Surjection(some, calling(m))
    BY DEF Surjection
  <2> HIDE DEF calling, of
  <2> QED BY <2>1, <2>2, FS_Surjection
<1>2. IsFiniteSet(wanted)
  <2>1. wanted \subseteq calling("Unmount") \cup calling("Lock")
    BY DEF Step
  <2>2. IsFiniteSet(calling("Unmount") \cup calling("Lock"))
    BY <1>1, FS_Union
  <2> QED BY <2>1, <2>2, FS_Subset
<1>3. wanted \subseteq Steps
  BY DEF Steps
<1>4. Cardinality(wanted) \in Nat
  BY <1>2, FS_CardinalityType
<1>5. closing \in [1 .. Cardinality(wanted) -> wanted]
  BY DEF ClosingAll
<1> HIDE DEF wanted
<1> QED BY <1>3, <1>4, <1>5

-----------------------------------------------------------------------------
(* The start.                                                              *)

LEMMA InvInit == Init => Inv
<1> SUFFICES ASSUME Init PROVE Inv
  OBVIOUS
<1> USE DEF Init
<1>1. Types
  <2>1. query \in Queries
    BY DEF Queries
  <2>2. disk \in [Volumes -> DiskStates] /\ volumes \in [Volumes -> ListStates]
    BY DEF DiskStates, ListStates, Inserted, AllGone
  <2>3. heard \in Seq(BOOLEAN) /\ op \in [Volumes -> Runs \cup {Idle}] /\ owed \in [Volumes -> Nat]
    OBVIOUS
  <2> QED BY <2>1, <2>2, <2>3 DEF Types
<1>2. Pending = {}
  BY DEF Pending
<1>3. Operations
  BY <1>2 DEF Operations, OneReport, OneAtATime
<1>4. query # NoQuery
  BY DEF NoQuery
<1>5. Listing
  BY <1>4 DEF Listing, Changing, Current
<1>6. Fresh
  BY <1>4 DEF Fresh, Changing
<1> QED BY <1>1, <1>3, <1>5, <1>6 DEF Inv

-----------------------------------------------------------------------------
(* Operations.                                                             *)

\* An operation at another step, or one that is known to be off the list, or done.
SameRun(o, n) == n.operation = o.operation /\ n.steps = o.steps /\ n.generation = o.generation

LEMMA AtStep ==
  ASSUME NEW o \in Runs, NEW step \in {"asked", "ok", "error", "rejected"}, NEW n, n = [o EXCEPT !.step = step]
  PROVE  n \in Runs /\ SameRun(o, n) /\ n.step = step /\ n.unlisted = o.unlisted /\ n.done = o.done
BY DEF Runs, SameRun

LEMMA OffTheList ==
  ASSUME NEW o \in Runs, NEW n, n = [o EXCEPT !.unlisted = TRUE]
  PROVE  n \in Runs /\ SameRun(o, n) /\ n.step = o.step /\ n.unlisted = TRUE /\ n.done = o.done
BY DEF Runs, SameRun

LEMMA NowDone ==
  ASSUME NEW o \in Runs, NEW n, n = [o EXCEPT !.done = TRUE]
  PROVE  n \in Runs /\ SameRun(o, n) /\ n.step = o.step /\ n.unlisted = o.unlisted /\ n.done = TRUE
BY DEF Runs, SameRun

\* The operations are the same ones, further on.
LEMMA OperationsKept ==
  ASSUME Types, Operations, UNCHANGED owed,
         \A v \in Volumes : op'[v] = Idle <=> op[v] = Idle,
         \A v \in Pending : (op[v].unlisted => op'[v].unlisted) /\ Achieved(v)' /\ Unlisted(v)'
  PROVE  Operations'
<1>1. Pending' = Pending
  BY DEF Pending
<1>2. OneReport'
  BY <1>1 DEF Operations, OneReport
<1>3. OneAtATime'
  BY <1>1 DEF Operations, OneAtATime
<1> QED BY <1>1, <1>2, <1>3 DEF Operations

\* rebuild(): what is not listed any more is marked.
LEMMA RebuildKeeps ==
  ASSUME Types, Operations, NEW objects \in [Volumes -> DiskStates], Rebuild(objects), UNCHANGED <<disk, owed>>
  PROVE  Operations' /\ op' \in [Volumes -> Runs \cup {Idle}] /\ volumes' \in [Volumes -> ListStates]
<1>1. volumes' \in [Volumes -> ListStates] /\ \A v \in Volumes : volumes'[v] = Shown(objects[v])
  BY ShownStates DEF Rebuild
<1>2. \A v \in Volumes \ Pending : op'[v] = Idle /\ op[v] = Idle
  BY DEF Rebuild, Pending
<1>3. ASSUME NEW v \in Pending
      PROVE  /\ op'[v] \in Runs /\ op[v] \in Runs /\ SameRun(op[v], op'[v]) /\ op'[v].step = op[v].step
             /\ op'[v].done = op[v].done /\ (op[v].unlisted => op'[v].unlisted)
             /\ volumes'[v] = "gone" => op'[v].unlisted
  <2>1. v \in Volumes /\ op[v] \in Runs
    BY PendingRuns
  <2>2. op'[v] = IF volumes'[v] = "gone" THEN [op[v] EXCEPT !.unlisted = TRUE] ELSE op[v]
    BY <1>1, <2>1 DEF Rebuild
  <2>3. CASE volumes'[v] = "gone"
    <3>1. op'[v] = [op[v] EXCEPT !.unlisted = TRUE]
      BY <2>2, <2>3
    <3>2. /\ op'[v] \in Runs /\ SameRun(op[v], op'[v]) /\ op'[v].step = op[v].step
          /\ op'[v].unlisted = TRUE /\ op'[v].done = op[v].done
      BY ONLY <2>1, <3>1, OffTheList
    <3> QED BY <2>1, <3>2
  <2>4. CASE volumes'[v] # "gone"
    BY <2>1, <2>2, <2>4 DEF SameRun
  <2> QED BY <2>3, <2>4
<1>4. op' \in [Volumes -> Runs \cup {Idle}]
  BY <1>2, <1>3 DEF Rebuild
<1>5. \A v \in Volumes : op'[v] = Idle <=> op[v] = Idle
  BY <1>2, <1>3, Distinct
<1>6. ASSUME NEW v \in Pending PROVE (op[v].unlisted => op'[v].unlisted) /\ Achieved(v)' /\ Unlisted(v)'
  BY <1>3 DEF Operations, Achieved, Unlisted, Last, LastMethod, SameRun
<1> QED BY <1>1, <1>4, <1>5, <1>6, OperationsKept

\* An operation is told of as ended.
LEMMA EndKeeps ==
  ASSUME Types, Operations, NEW v \in Pending, NEW result, Ends(v, result), UNCHANGED <<disk, volumes>>
  PROVE  Operations' /\ op' \in [Volumes -> Runs \cup {Idle}] /\ owed' \in [Volumes -> Nat]
<1>1. v \in Volumes /\ owed[v] = 1
  BY PendingRuns DEF Operations, OneReport
<1>2. op' = [op EXCEPT ![v] = Idle] /\ owed' = [owed EXCEPT ![v] = 0]
  BY <1>1 DEF Ends, Types
<1>3. op' \in [Volumes -> Runs \cup {Idle}] /\ owed' \in [Volumes -> Nat]
  BY <1>2 DEF Types
<1>4. Pending' = Pending \ {v}
  BY <1>1, <1>2 DEF Pending, Types
<1>5. \A w \in Pending' : op'[w] = op[w]
  BY <1>2, <1>4 DEF Types, Pending
<1>6. OneReport'
  BY <1>1, <1>2, <1>4 DEF Operations, OneReport, Types
<1>7. OneAtATime'
  BY <1>4, <1>5 DEF Operations, OneAtATime
<1>8. \A w \in Pending' : Achieved(w)' /\ Unlisted(w)'
  BY <1>4, <1>5 DEF Operations, Achieved, Unlisted, Last, LastMethod
<1> QED BY <1>3, <1>6, <1>7, <1>8 DEF Operations

\* The disks change: an operation whose call was served, or whose volume came to its goal by itself, has done
\* what it was for.
LEMMA SeenKeeps ==
  ASSUME Types, Operations, NEW now \in [Volumes -> DiskStates], NEW asked \in [Volumes -> Runs \cup {Idle}],
         \A v \in Volumes : asked[v] = Idle <=> op[v] = Idle,
         \A v \in Pending :
           /\ SameRun(op[v], asked[v]) /\ asked[v].unlisted = op[v].unlisted /\ asked[v].done = op[v].done
           /\ asked[v].step = "ok" /\ Len(op[v].steps) = 1 =>
                op[v].done \/ (now[v] # disk[v] /\ now[v] \in Goal(op[v].operation, v)),
         op' = Seen(now, asked), disk' = now, UNCHANGED <<volumes, owed>>
  PROVE  Operations' /\ op' \in [Volumes -> Runs \cup {Idle}]
<1>1. \A v \in Volumes \ Pending : op'[v] = Idle /\ op[v] = Idle
  BY DEF Seen, Pending
<1>2. ASSUME NEW v \in Pending
      PROVE  /\ op'[v] \in Runs /\ SameRun(op[v], op'[v]) /\ op'[v].unlisted = op[v].unlisted
             /\ op'[v].step = asked[v].step /\ op'[v].done \in BOOLEAN
             /\ op[v].done \/ (now[v] # disk[v] /\ now[v] \in Goal(op[v].operation, v)) => op'[v].done
  <2>1. v \in Volumes /\ op[v] \in Runs /\ asked[v] \in Runs
    BY PendingRuns, Distinct
  <2>2. op'[v] = IF now[v] # disk[v] /\ now[v] \in Goal(op[v].operation, v) THEN [asked[v] EXCEPT !.done = TRUE] ELSE asked[v]
    BY <2>1 DEF Seen
  <2>3. CASE now[v] # disk[v] /\ now[v] \in Goal(op[v].operation, v)
    <3>1. op'[v] = [asked[v] EXCEPT !.done = TRUE]
      BY <2>2, <2>3
    <3>2. /\ op'[v] \in Runs /\ SameRun(asked[v], op'[v]) /\ op'[v].step = asked[v].step
          /\ op'[v].unlisted = asked[v].unlisted /\ op'[v].done = TRUE
      BY ONLY <2>1, <3>1, NowDone
    <3> QED BY <3>2 DEF SameRun
  <2>4. CASE ~(now[v] # disk[v] /\ now[v] \in Goal(op[v].operation, v))
    <3>1. op'[v] = asked[v] /\ asked[v].done \in BOOLEAN
      BY <2>1, <2>2, <2>4 DEF Runs
    <3> QED BY <2>1, <2>4, <3>1
  <2> QED BY <2>3, <2>4
<1>3. op' \in [Volumes -> Runs \cup {Idle}]
  BY <1>1, <1>2 DEF Seen
<1>4. \A v \in Volumes : op'[v] = Idle <=> op[v] = Idle
  BY <1>1, <1>2, PendingRuns, Distinct
<1>5. ASSUME NEW v \in Pending PROVE (op[v].unlisted => op'[v].unlisted) /\ Achieved(v)' /\ Unlisted(v)'
  <2>1. Achieved(v) /\ Unlisted(v) /\ v \in Volumes
    BY PendingRuns DEF Operations
  <2>2. Last(op'[v]) = Step(v, LastMethod(op'[v].operation, v))
    BY <1>2, <2>1 DEF Achieved, Last, SameRun
  <2>3. op'[v].operation = "eject" /\ disk'[v] = "gone" => op'[v].done
    <3> SUFFICES ASSUME op'[v].operation = "eject", disk'[v] = "gone" PROVE op'[v].done
      OBVIOUS
    <3>1. op[v].operation = "eject" /\ now[v] = "gone" /\ Goal(op[v].operation, v) = {"gone"}
      BY <1>2 DEF SameRun, Goal
    <3>2. CASE disk[v] = "gone"
      BY <1>2, <2>1, <3>1, <3>2 DEF Achieved
    <3>3. CASE disk[v] # "gone"
      BY <1>2, <3>1, <3>3
    <3> QED BY <3>2, <3>3
  <2>4. op'[v].step = "ok" /\ Len(op'[v].steps) = 1 => op'[v].done
    BY <1>2 DEF SameRun
  <2>5. Unlisted(v)'
    BY <1>2, <2>1 DEF Unlisted
  <2> QED BY <1>2, <2>2, <2>3, <2>4, <2>5 DEF Achieved
<1> QED BY <1>3, <1>4, <1>5, OperationsKept

LEMMA AfterCalls ==
  ASSUME NEW v
  PROVE  /\ \A now \in After(Step(v, "Mount")) :
              disk[v] = "unmounted" /\ \E state \in Mounted : now = [disk EXCEPT ![v] = state]
         /\ \A now \in After(Step(v, "Unmount")) : disk[v] \in Mounted /\ now = [disk EXCEPT ![v] = "unmounted"]
         /\ \A now \in After(Step(v, "Lock")) : disk[v] = "unmounted" /\ now = [disk EXCEPT ![v] = "locked"]
         /\ \A now \in After(Step(v, "Eject")) :
              now = [w \in Volumes |-> IF DriveOf[w] = DriveOf[v] THEN "gone" ELSE disk[w]]
<1>1. \A m : Step(v, m).volume = v /\ Step(v, m).method = m
  BY DEF Step
<1>2. ASSUME NEW now \in After(Step(v, "Mount"))
      PROVE  disk[v] = "unmounted" /\ \E state \in Mounted : now = [disk EXCEPT ![v] = state]
  BY <1>1, <1>2 DEF After
<1>3. ASSUME NEW now \in After(Step(v, "Unmount"))
      PROVE  disk[v] \in Mounted /\ now = [disk EXCEPT ![v] = "unmounted"]
  BY <1>1, <1>3 DEF After
<1>4. ASSUME NEW now \in After(Step(v, "Lock"))
      PROVE  disk[v] = "unmounted" /\ now = [disk EXCEPT ![v] = "locked"]
  BY <1>1, <1>4 DEF After
<1>5. ASSUME NEW now \in After(Step(v, "Eject"))
      PROVE  now = [w \in Volumes |-> IF DriveOf[w] = DriveOf[v] THEN "gone" ELSE disk[w]]
  BY <1>1, <1>5 DEF After
<1> QED BY <1>2, <1>3, <1>4, <1>5

\* The call that an operation ends with brings what the operation is for, or it had come already.
LEMMA ServesGoal ==
  ASSUME Types, Operations, NEW v \in Pending, NEW now \in After(Head(op[v].steps)), Len(op[v].steps) = 1
  PROVE  op[v].done \/ (now[v] # disk[v] /\ now[v] \in Goal(op[v].operation, v))
<1>1. v \in Volumes /\ op[v] \in Runs /\ Achieved(v)
  BY PendingRuns DEF Operations
<1> DEFINE operation == op[v].operation
<1>2. Head(op[v].steps) = Step(v, LastMethod(operation, v)) /\ operation \in Kinds
  BY <1>1 DEF Achieved, Last, Runs
<1>3. disk[v] \in DiskStates /\ disk \in [Volumes -> DiskStates]
  BY <1>1 DEF Types
<1>4. CASE operation = "eject"
  <2>1. now = [w \in Volumes |-> IF DriveOf[w] = DriveOf[v] THEN "gone" ELSE disk[w]]
    BY <1>2, <1>4, AfterCalls DEF LastMethod
  <2>2. now[v] = "gone"
    BY <1>1, <2>1
  <2> QED BY <1>1, <1>4, <2>2 DEF Goal, Achieved
<1>5. CASE operation \in {"mount", "unlock"}
  <2>1. disk[v] = "unmounted" /\ \E state \in Mounted : now = [disk EXCEPT ![v] = state]
    BY <1>2, <1>5, AfterCalls DEF LastMethod
  <2> QED BY <1>1, <1>3, <1>5, <2>1 DEF Goal, Mounted
<1>6. CASE operation = "unmount" /\ v \in Encrypted
  <2>1. disk[v] = "unmounted" /\ now = [disk EXCEPT ![v] = "locked"]
    BY <1>2, <1>6, AfterCalls DEF LastMethod
  <2> QED BY <1>1, <1>3, <1>6, <2>1 DEF Goal, Inserted
<1>7. CASE operation = "unmount" /\ v \notin Encrypted
  <2>1. disk[v] \in Mounted /\ now = [disk EXCEPT ![v] = "unmounted"]
    BY <1>2, <1>7, AfterCalls DEF LastMethod
  <2> QED BY <1>1, <1>3, <1>7, <2>1 DEF Goal, Inserted, Mounted
<1> QED BY <1>2, <1>4, <1>5, <1>6, <1>7 DEF Kinds

\* An operation is refused at once, or is the only one of its drive that is listed.
LEMMA StartKeeps ==
  ASSUME Types, Operations, NEW v \in Volumes, NEW operation \in Kinds, NEW steps \in Seq(Steps),
         Supported(v, operation, steps) => steps[Len(steps)] = Step(v, LastMethod(operation, v)),
         Start(v, operation, steps)
  PROVE  Operations' /\ op' \in [Volumes -> Runs \cup {Idle}] /\ owed' \in [Volumes -> Nat] /\ calls' \in Nat
<1>0. calls' \in Nat /\ UNCHANGED <<disk, volumes>>
  BY DEF Start, Types, list
<1>1. CASE UNCHANGED <<op, owed>>
  BY <1>0, <1>1 DEF Types, Operations, OneReport, OneAtATime, Achieved, Unlisted, Last, Pending
<1>2. CASE ~UNCHANGED <<op, owed>>
  <2> DEFINE run == [step |-> "asked", operation |-> operation, steps |-> steps, generation |-> generation,
                     unlisted |-> FALSE, done |-> operation = "eject" /\ disk[v] = "gone"]
  <2>1. /\ Supported(v, operation, steps) /\ ~Busy(v)
        /\ op' = [op EXCEPT ![v] = run] /\ owed' = [owed EXCEPT ![v] = @ + 1]
    BY <1>2 DEF Start
  <2>2. run \in Runs
    BY <2>1 DEF Supported, Runs, Types
  <2>3. v \notin Pending /\ owed[v] = 0 /\ volumes[v] # "gone"
    BY <2>1 DEF Busy, Supported, Operations, OneReport
  <2>4. op' \in [Volumes -> Runs \cup {Idle}] /\ owed' = [owed EXCEPT ![v] = 1] /\ owed' \in [Volumes -> Nat]
    BY <2>1, <2>2, <2>3 DEF Types
  <2>5. op'[v] = run /\ \A w \in Volumes \ {v} : op'[w] = op[w]
    BY <2>1 DEF Types
  <2>6. run.step = "asked" /\ run.operation = operation /\ run.steps = steps /\ (run.done <=> operation = "eject" /\ disk[v] = "gone")
    OBVIOUS
  <2> HIDE DEF run
  <2>7. Pending' = Pending \cup {v}
    BY <2>2, <2>5, Distinct DEF Pending
  <2>8. OneReport'
    BY <2>3, <2>4, <2>7 DEF Operations, OneReport, Types
  <2>9. OneAtATime'
    <3>1. \A w \in Pending : SameDrive(v, w) => op[w].unlisted
      BY <2>1, PendingRuns DEF Busy, Operations, Unlisted
    <3>2. \A w \in Pending : SameDrive(w, v) <=> SameDrive(v, w)
      BY DEF SameDrive
    <3> QED BY <2>3, <2>5, <2>7, <3>1, <3>2, PendingRuns DEF Operations, OneAtATime
  <2>10. Achieved(v)' /\ Unlisted(v)'
    BY <1>0, <2>1, <2>3, <2>5, <2>6 DEF Achieved, Unlisted, Last
  <2>11. \A w \in Pending : Achieved(w)' /\ Unlisted(w)'
    BY <1>0, <2>3, <2>5, PendingRuns DEF Operations, Achieved, Unlisted, Last
  <2> QED BY <1>0, <2>4, <2>7, <2>8, <2>9, <2>10, <2>11 DEF Operations
<1> QED BY <1>1, <1>2

LEMMA TwoSteps ==
  ASSUME NEW s \in Steps, NEW t \in Steps, NEW steps, steps = <<s>> \o <<t>>
  PROVE  steps \in Seq(Steps) /\ steps[Len(steps)] = t
OBVIOUS

LEMMA UserSteps ==
  ASSUME IsFiniteSet(Volumes), Inv, User PROVE Inv'
<1>1. PICK v \in Volumes : Mount(v) \/ Unmount(v) \/ Unlock(v) \/ Eject(v)
  BY DEF User
<1> DEFINE mounting == <<Step(v, "Mount")>>
<1>2. \A m \in {"Mount", "Unmount", "Lock", "Unlock", "Eject"} : Step(v, m) \in Steps
  BY DEF Step, Steps
<1>3. mounting \in Seq(Steps) /\ Len(mounting) = 1 /\ mounting[Len(mounting)] = Step(v, "Mount")
  BY <1>2
<1> HIDE DEF mounting
<1>4. \E operation \in Kinds, steps \in Seq(Steps) :
        /\ Supported(v, operation, steps) => steps[Len(steps)] = Step(v, LastMethod(operation, v))
        /\ Start(v, operation, steps)
  <2>1. CASE Mount(v)
    <3> DEFINE steps == IF Locked(v) THEN <<>> ELSE mounting
    <3>1. steps \in Seq(Steps) /\ (steps # <<>> => steps = mounting)
      BY <1>3
    <3>2. Start(v, "mount", steps)
      BY <2>1 DEF Mount, MountSteps, mounting
    <3> HIDE DEF steps
    <3> QED BY <1>3, <3>1, <3>2 DEF Supported, LastMethod, Kinds
  <2>2. CASE Unmount(v)
    <3> DEFINE steps == IF v \in Encrypted THEN Closing(v) ELSE <<Step(v, "Unmount")>>
    <3>1. volumes[v] \in ListStates
      BY DEF Inv, Types
    <3>2. steps \in Seq(Steps)
      BY <1>2 DEF Closing
    <3>3. v \in Encrypted /\ volumes[v] = "mounted" => steps = <<Step(v, "Unmount")>> \o <<Step(v, "Lock")>>
      BY Zenon DEF Closing
    <3>4. v \in Encrypted /\ volumes[v] = "unmounted" => steps = <<Step(v, "Lock")>>
      BY <1>2 DEF Closing
    <3>5. v \in Encrypted /\ volumes[v] \in {"gone", "locked"} => steps = <<>>
      BY <1>2 DEF Closing
    <3>6. v \notin Encrypted => steps = <<Step(v, "Unmount")>>
      OBVIOUS
    <3>7. Start(v, "unmount", steps)
      BY <2>2 DEF Unmount
    <3> HIDE DEF steps
    <3>8. steps # <<>> => steps[Len(steps)] = Step(v, LastMethod("unmount", v))
      BY <3>1, <3>3, <3>4, <3>5, <3>6, <1>2, TwoSteps DEF LastMethod, ListStates
    <3> QED BY <3>2, <3>7, <3>8 DEF Supported, Kinds
  <2>3. CASE Unlock(v) /\ Locked(v)
    <3> DEFINE steps == <<Step(v, "Unlock")>> \o MountSteps(v)
    <3>1. steps = <<Step(v, "Unlock")>> \o <<Step(v, "Mount")>>
      BY DEF MountSteps
    <3>2. Start(v, "unlock", steps)
      BY <2>3 DEF Unlock
    <3> HIDE DEF steps
    <3>3. steps \in Seq(Steps) /\ steps[Len(steps)] = Step(v, "Mount")
      BY <1>2, <3>1, TwoSteps
    <3> QED BY <3>2, <3>3 DEF LastMethod, Kinds
  <2>4. CASE Unlock(v) /\ ~Locked(v)
    <3>1. Start(v, "mount", mounting)
      BY <2>4 DEF Unlock, MountSteps, mounting
    <3> QED BY <1>3, <3>1 DEF LastMethod, Kinds
  <2>5. CASE Eject(v)
    <3>1. PICK closing \in ClosingAll({w \in Volumes : volumes[w] # "gone" /\ DriveOf[w] = DriveOf[v]}) :
            Start(v, "eject", closing \o (IF DriveOf[v] \in Ejectable THEN <<Step(v, "Eject")>> ELSE <<>>))
      BY <2>5 DEF Eject
    <3>2. closing \in Seq(Steps)
      BY ClosingSteps
    <3> DEFINE steps == closing \o (IF DriveOf[v] \in Ejectable THEN <<Step(v, "Eject")>> ELSE <<>>)
    <3>3. steps \in Seq(Steps) /\ (DriveOf[v] \in Ejectable => steps[Len(steps)] = Step(v, "Eject"))
      BY <1>2, <3>2
    <3>4. Start(v, "eject", steps)
      BY <3>1
    <3> HIDE DEF steps
    <3> QED BY <3>3, <3>4 DEF Supported, LastMethod, Kinds
  <2> QED BY <1>1, <2>1, <2>2, <2>3, <2>4, <2>5
<1>5. Operations' /\ Types' /\ UNCHANGED <<disk, up, heard, news, volumes, ownerKnown, generation, query, again, lost>>
  BY <1>4, StartKeeps DEF Inv, Types, Start, udisks, list, listing
<1> QED BY <1>5 DEF Inv, Listing, Fresh, Changing, Current

-----------------------------------------------------------------------------
(* The list.                                                               *)

\* Whatever news is heard of, a listing begins after it, or the one under way is followed by another.
LEMMA RefreshKeeps ==
  ASSUME Types, Listing, Fresh, Refresh(query, generation), UNCHANGED <<disk, up, heard, volumes, ownerKnown, generation, lost>>
  PROVE  Listing' /\ Fresh' /\ query' \in Queries /\ again' \in BOOLEAN
<1>1. /\ query' \in Queries /\ query' # NoQuery /\ again' \in BOOLEAN
      /\ \/ query = NoQuery /\ query' = [step |-> "asked", generation |-> generation] /\ again' = FALSE
         \/ query # NoQuery /\ query' = query /\ again' = TRUE
  BY Refreshes DEF Types, Listing
<1>2. CASE query = NoQuery
  <2>1. query'.step = "asked" /\ query'.generation = generation
    BY <1>1, <1>2
  <2> QED BY <1>1, <2>1 DEF Listing, Fresh, Changing, Current, Types
<1>3. CASE query # NoQuery
  BY <1>1, <1>3 DEF Listing, Fresh, Changing, Current
<1> QED BY <1>2, <1>3

\* The disks change, and who is on the bus says so.
LEMMA ChangeKeeps ==
  ASSUME Types, Listing, Fresh, NEW now, Changes(now),
         UNCHANGED <<up, heard, volumes, ownerKnown, generation, query, again, lost>>
  PROVE  Listing' /\ Fresh' /\ disk' = now /\ news' \in BOOLEAN
<1>1. disk' = now /\ news' \in BOOLEAN /\ (up => news')
  BY DEF Changes, Types
<1> QED BY <1>1 DEF Listing, Fresh, Changing, Current

\* Operations that nothing touches.
LEMMA OperationsSame ==
  ASSUME Operations, UNCHANGED <<op, owed, disk, volumes>> PROVE Operations'
BY DEF Operations, OneReport, OneAtATime, Achieved, Unlisted, Last, Pending

LEMMA SignalStep == ASSUME Inv, Signal PROVE Inv'
<1>1. Listing' /\ Fresh' /\ query' \in Queries /\ again' \in BOOLEAN
  BY RefreshKeeps DEF Inv, Signal, udisks, list
<1>2. Operations'
  BY OperationsSame DEF Inv, Signal, list
<1>3. Types'
  BY <1>1 DEF Inv, Types, Signal, udisks, list
<1> QED BY <1>1, <1>2, <1>3 DEF Inv

LEMMA RefreshedStep == ASSUME Inv, Refreshed PROVE Inv'
<1>1. Types /\ Operations /\ Listing /\ Fresh /\ query \in Queries
  <2>1. query # NoQuery
    BY DEF Refreshed, NoQuery
  <2> QED BY <2>1 DEF Inv, Types
<1>2. UNCHANGED <<disk, up, heard, news, ownerKnown, generation, calls, events, owed>> /\ again' = FALSE
  BY DEF Refreshed, udisks
<1>3. \/ again = TRUE /\ query' = [step |-> "asked", generation |-> generation]
      \/ again = FALSE /\ query' = NoQuery
  BY <1>1, Zenon DEF Refreshed, Types
<1>4. query' \in Queries \cup {NoQuery}
  BY <1>1, <1>3 DEF Queries, Types
<1>5. /\ query' # NoQuery => query' \in Queries /\ query'.step = "asked" /\ query'.generation = generation
      /\ NoQuery.step = "none" /\ generation \in Nat /\ (again => query' # NoQuery)
  BY <1>1, <1>3, <1>4, Distinct DEF Types, Queries, NoQuery
<1>6. Listing'
  <2>1. Changing' <=> Changing
    BY <1>2 DEF Changing
  <2> QED BY <1>1, <1>2, <1>5, <2>1 DEF Listing, Current
<1>7. CASE Current /\ query.step = "answered"
  <2>1. Rebuild(query.objects) /\ query.objects \in [Volumes -> DiskStates] /\ lost' = FALSE
    BY <1>1, <1>7, AnsweredQuery DEF Refreshed
  <2>2. Operations' /\ op' \in [Volumes -> Runs \cup {Idle}] /\ volumes' \in [Volumes -> ListStates]
    BY <1>1, <1>2, <2>1, RebuildKeeps
  <2>3. Types'
    BY <1>1, <1>2, <1>4, <2>1, <2>2 DEF Types
  <2>4. Fresh'
    <3> SUFFICES ASSUME ~Changing, up, query' = NoQuery, ~news PROVE volumes' = [v \in Volumes |-> Shown(disk[v])]
      BY <1>1, <1>2, <1>3, <1>7 DEF Fresh, Listing, Changing, Current, NoQuery
    <3>1. query.objects = disk
      BY <1>1, <1>3, <1>7 DEF Fresh, NoQuery
    <3> QED BY <2>1, <3>1 DEF Rebuild
  <2> QED BY <1>6, <2>2, <2>3, <2>4 DEF Inv
<1>8. CASE ~(Current /\ query.step = "answered")
  <2>1. UNCHANGED <<volumes, op>>
    BY <1>8 DEF Refreshed
  <2>2. lost' \in BOOLEAN /\ (Current => lost' = TRUE)
    BY <1>1, <1>8 DEF Refreshed, Types
  <2>3. Operations'
    BY <1>1, <1>2, <2>1, OperationsSame
  <2>4. Types'
    BY <1>1, <1>2, <1>4, <2>1, <2>2 DEF Types
  <2>5. Fresh'
    BY <1>1, <1>2, <1>3, <2>1, <2>2, Distinct DEF Fresh, Listing, Changing, Current, NoQuery
  <2> QED BY <1>6, <2>3, <2>4, <2>5 DEF Inv
<1> QED BY <1>7, <1>8

LEMMA OwnerHeardStep == ASSUME Inv, OwnerHeard PROVE Inv'
<1>1. Types /\ Operations /\ Listing /\ Fresh /\ heard # <<>> /\ heard' = Tail(heard)
  BY DEF Inv, OwnerHeard
<1>2. UNCHANGED <<disk, up, news, calls, events, owed>>
  BY DEF OwnerHeard
<1>3. /\ heard' \in Seq(BOOLEAN) /\ (heard' = <<>> <=> Len(heard) = 1) /\ Len(heard') = Len(heard) - 1
      /\ heard' # <<>> => heard'[Len(heard')] = heard[Len(heard)]
      /\ Len(heard) = 1 => Head(heard) = up
      /\ Len(heard) \in Nat \ {0}
  <2>1. heard \in Seq(BOOLEAN) /\ heard[Len(heard)] = up /\ Len(heard) \in Nat \ {0} /\ Head(heard) = heard[1]
    BY <1>1 DEF Types, Listing
  <2>2. heard' \in Seq(BOOLEAN) /\ Len(heard') = Len(heard) - 1
    BY <1>1, <2>1
  <2>3. \A k \in 1 .. Len(heard) - 1 : heard'[k] = heard[k + 1]
    BY <1>1, <2>1
  <2>4. (heard' = <<>> <=> Len(heard) = 1) /\ (heard' # <<>> => heard'[Len(heard')] = heard[Len(heard)])
    BY <2>1, <2>2, <2>3
  <2> QED BY <2>1, <2>2, <2>4
<1>4. CASE ~ownerKnown
  <2>1. UNCHANGED <<volumes, generation, op, query, again>> /\ ownerKnown' = TRUE
    BY <1>4 DEF OwnerHeard
  <2>2. lost' = lost
    BY <1>1, <1>4 DEF OwnerHeard, Types
  <2>3. Changing' <=> Changing
    BY <1>3, <1>4, <2>1 DEF Changing
  <2>4. Types'
    BY <1>1, <1>2, <1>3, <2>1, <2>2 DEF Types
  <2>5. Listing'
    BY <1>1, <1>2, <1>3, <2>1, <2>3 DEF Listing, Current
  <2>6. Fresh'
    BY <1>1, <1>2, <2>1, <2>2, <2>3 DEF Fresh, Current
  <2> QED BY <1>1, <1>2, <2>1, <2>4, <2>5, <2>6, OperationsSame DEF Inv
<1>5. CASE ownerKnown
  <2>1. Rebuild(AllGone) /\ generation' = generation + 1 /\ ownerKnown' = TRUE /\ lost' = FALSE
    BY <1>1, <1>5 DEF OwnerHeard, Types
  <2>2. AllGone \in [Volumes -> DiskStates] /\ volumes' = AllGone
    BY <2>1 DEF AllGone, DiskStates, Rebuild, Shown
  <2>3. Operations' /\ op' \in [Volumes -> Runs \cup {Idle}] /\ volumes' \in [Volumes -> ListStates]
    BY <1>1, <1>2, <2>1, <2>2, RebuildKeeps
  <2>4. generation \in Nat /\ generation' \in Nat
    BY <1>1, <2>1 DEF Types
  <2>5. /\ query' \in Queries \cup {NoQuery} /\ again' \in BOOLEAN /\ (again' => query' # NoQuery)
        /\ query' # NoQuery => query'.generation \in Nat /\ query'.generation <= generation'
        /\ Head(heard) => /\ query' # NoQuery
                          /\ again' = TRUE \/ (query'.generation = generation' /\ query'.step = "asked")
        /\ ~Head(heard) /\ query' # NoQuery => query'.generation # generation'
    <3>1. query # NoQuery => query \in Queries /\ query.generation \in Nat /\ query.generation <= generation
      BY <1>1 DEF Listing, Types, Queries
    <3>4. query # NoQuery => query.generation <= generation' /\ query.generation # generation'
      BY <2>1, <2>4, <3>1
    <3>5. generation' <= generation' /\ \A q : q = [step |-> "asked", generation |-> generation'] => q.step = "asked" /\ q.generation = generation'
      BY <2>4
    <3>2. CASE Head(heard)
      <4>1. /\ query' \in Queries /\ query' # NoQuery /\ again' \in BOOLEAN
            /\ \/ query = NoQuery /\ query' = [step |-> "asked", generation |-> generation'] /\ again' = FALSE
               \/ query # NoQuery /\ query' = query /\ again' = TRUE
        BY <1>1, <1>5, <2>4, <3>2, Refreshes DEF OwnerHeard, Listing
      <4>2. CASE query = NoQuery
        BY <2>4, <3>2, <3>5, <4>1, <4>2, Zenon
      <4>3. CASE query # NoQuery
        BY <3>1, <3>2, <3>4, <4>1, <4>3, Zenon
      <4> QED BY <4>2, <4>3
    <3>3. CASE ~Head(heard)
      <4>1. UNCHANGED <<query, again>>
        BY <1>5, <3>3 DEF OwnerHeard
      <4> QED BY <1>1, <3>1, <3>3, <3>4, <4>1, Zenon DEF Types, Listing
    <3> QED BY <3>2, <3>3
  <2>6. Types'
    BY <1>1, <1>2, <1>3, <2>1, <2>3, <2>4, <2>5 DEF Types
  <2>7. Changing' <=> Len(heard) # 1
    BY <1>3, <2>1 DEF Changing
  <2>8. Listing'
    <3>1. NoQuery.step = "none" /\ "none" # "answered"
      BY DEF NoQuery
    <3>2. CASE Len(heard) = 1
      BY <1>1, <1>2, <1>3, <2>1, <2>5, <2>7, <3>1, <3>2, ZenonT(30) DEF Listing, Current
    <3>3. CASE Len(heard) # 1
      BY <1>1, <1>2, <1>3, <2>1, <2>5, <2>7, <3>3, ZenonT(30) DEF Listing, Current
    <3> QED BY <3>2, <3>3
  <2>9. Fresh'
    BY <1>1, <1>2, <1>3, <2>2, <2>5, <2>7 DEF Fresh, Current, NoQuery
  <2> QED BY <2>3, <2>6, <2>8, <2>9 DEF Inv
<1> QED BY <1>4, <1>5

LEMMA StepsLeft ==
  ASSUME NEW steps \in Seq(Steps), steps # <<>>, Len(steps) # 1
  PROVE  Tail(steps) \in Seq(Steps) \ {<<>>} /\ Tail(steps)[Len(Tail(steps))] = steps[Len(steps)]
<1>1. Len(steps) \in Nat /\ Len(steps) > 1
  OBVIOUS
<1>2. Tail(steps) \in Seq(Steps) /\ Len(Tail(steps)) = Len(steps) - 1
  BY <1>1
<1>3. \A k \in 1 .. Len(steps) - 1 : Tail(steps)[k] = steps[k + 1]
  BY <1>1
<1>4. Tail(steps)[Len(steps) - 1] = steps[Len(steps)]
  BY <1>1, <1>3
<1>5. Tail(steps) # <<>>
  <2>1. \A n \in Nat, s \in Seq(Steps) : n > 1 /\ Len(s) = n - 1 => s # <<>>
    OBVIOUS
  <2> QED BY <1>1, <1>2, <2>1, Zenon
<1> QED BY <1>2, <1>4, <1>5

LEMMA DoneStep == ASSUME Inv, NEW v \in Volumes, Done(v) PROVE Inv'
<1>1. /\ Types /\ Operations /\ Listing /\ Fresh /\ v \in Pending /\ op[v] \in Runs /\ op[v].step # "asked"
      /\ UNCHANGED <<disk, up, heard, news, volumes, ownerKnown, generation, calls, events, lost>>
  BY PendingRuns DEF Inv, Done, udisks, list
<1>2. CASE Unavailable(v)
  <2>1. Ends(v, "failed") /\ UNCHANGED <<query, again>>
    BY <1>2 DEF Done, NoLongerThere, listing
  <2>2. Operations' /\ op' \in [Volumes -> Runs \cup {Idle}] /\ owed' \in [Volumes -> Nat]
    BY <1>1, <2>1, EndKeeps
  <2> QED BY <1>1, <2>1, <2>2 DEF Inv, Types, Listing, Fresh, Changing, Current
<1>3. CASE ~Unavailable(v) /\ op[v].step = "ok" /\ ~LastStep(v)
  <2>1. /\ op' = [op EXCEPT ![v].step = "asked", ![v].steps = Tail(@)]
        /\ UNCHANGED <<query, again, owed>>
    BY <1>3 DEF Done, listing
  <2> DEFINE run == [[op[v] EXCEPT !.step = "asked"] EXCEPT !.steps = Tail(@)]
  <2>2. /\ Tail(op[v].steps) \in Seq(Steps) \ {<<>>}
        /\ Tail(op[v].steps)[Len(Tail(op[v].steps))] = op[v].steps[Len(op[v].steps)]
    <3>1. op[v].steps \in Seq(Steps) /\ op[v].steps # <<>> /\ Len(op[v].steps) # 1
      BY <1>1, <1>3 DEF LastStep, Runs
    <3> QED BY <3>1, StepsLeft
  <2>3. /\ run \in Runs /\ run.step = "asked" /\ run.operation = op[v].operation /\ run.steps = Tail(op[v].steps)
        /\ run.unlisted = op[v].unlisted /\ run.done = op[v].done
    BY <1>1, <2>2 DEF Runs
  <2>4. op'[v] = run /\ (\A w \in Volumes \ {v} : op'[w] = op[w]) /\ op' \in [Volumes -> Runs \cup {Idle}]
    BY <2>1, <2>3 DEF Types, Inv
  <2> HIDE DEF run
  <2>5. \A w \in Volumes : op'[w] = Idle <=> op[w] = Idle
    BY <1>1, <2>3, <2>4, Distinct
  <2>6. ASSUME NEW w \in Pending PROVE (op[w].unlisted => op'[w].unlisted) /\ Achieved(w)' /\ Unlisted(w)'
    <3>1. Achieved(w) /\ Unlisted(w) /\ w \in Volumes
      BY <1>1, PendingRuns DEF Operations
    <3>2. CASE w = v
      BY <1>1, <2>2, <2>3, <2>4, <3>1, <3>2 DEF Achieved, Unlisted, Last
    <3>3. CASE w # v
      BY <1>1, <2>4, <3>1, <3>3 DEF Achieved, Unlisted, Last
    <3> QED BY <3>2, <3>3
  <2>7. Operations'
    BY <1>1, <2>1, <2>5, <2>6, OperationsKept
  <2>8. Types'
    BY <1>1, <2>1, <2>4 DEF Types
  <2>9. Listing' /\ Fresh'
    BY <1>1, <2>1 DEF Listing, Fresh, Changing, Current
  <2> QED BY <2>7, <2>8, <2>9 DEF Inv
<1>4. CASE ~Unavailable(v) /\ ~(op[v].step = "ok" /\ ~LastStep(v))
  <2>1. (\E result : Ends(v, result)) /\ Refresh(query, generation)
    BY <1>4 DEF Done
  <2>2. Operations' /\ op' \in [Volumes -> Runs \cup {Idle}] /\ owed' \in [Volumes -> Nat]
    BY <1>1, <2>1, EndKeeps
  <2>3. Listing' /\ Fresh' /\ query' \in Queries /\ again' \in BOOLEAN
    BY <1>1, <2>1, RefreshKeeps
  <2> QED BY <1>1, <2>2, <2>3 DEF Inv, Types
<1> QED BY <1>2, <1>3, <1>4

-----------------------------------------------------------------------------
(* UDisks2 and other programs.                                             *)

LEMMA ServeStep == ASSUME Inv, NEW v \in Volumes, Serve(v) PROVE Inv'
<1>1. /\ Types /\ Operations /\ Listing /\ Fresh /\ v \in Pending /\ op[v] \in Runs /\ op[v].step = "asked"
      /\ UNCHANGED <<up, heard, volumes, ownerKnown, generation, query, again, calls, events, owed, lost>>
  BY PendingRuns DEF Inv, Serve, udisks, list, listing
<1> DEFINE asked == [op EXCEPT ![v].step = "ok"]
           served == [op[v] EXCEPT !.step = "ok"]
<1>2. PICK now \in After(Head(op[v].steps)) : Changes(now) /\ op' = Seen(now, asked)
  BY DEF Serve
<1>3. Head(op[v].steps) \in Steps
  BY <1>1 DEF Runs
<1>4. now \in [Volumes -> DiskStates]
  BY <1>1, <1>3, AfterStates
<1>5. served \in Runs /\ SameRun(op[v], served) /\ served.step = "ok" /\ served.unlisted = op[v].unlisted /\ served.done = op[v].done
  BY <1>1, AtStep
<1>6. asked \in [Volumes -> Runs \cup {Idle}] /\ asked[v] = served /\ \A w \in Volumes \ {v} : asked[w] = op[w]
  BY <1>1, <1>5 DEF Types
<1> HIDE DEF asked, served
<1>7. \A w \in Volumes : asked[w] = Idle <=> op[w] = Idle
  BY <1>1, <1>5, <1>6, Distinct
<1>8. ASSUME NEW w \in Pending
      PROVE  /\ SameRun(op[w], asked[w]) /\ asked[w].unlisted = op[w].unlisted /\ asked[w].done = op[w].done
             /\ asked[w].step = "ok" /\ Len(op[w].steps) = 1 =>
                  op[w].done \/ (now[w] # disk[w] /\ now[w] \in Goal(op[w].operation, w))
  <2>1. CASE w = v
    BY <1>1, <1>5, <1>6, <2>1, ServesGoal
  <2>2. CASE w # v
    <3>1. w \in Volumes /\ asked[w] = op[w] /\ Achieved(w)
      BY <1>1, <1>6, <2>2, PendingRuns DEF Operations
    <3> QED BY <3>1 DEF SameRun, Achieved
  <2> QED BY <2>1, <2>2
<1>9. Listing' /\ Fresh' /\ disk' = now /\ news' \in BOOLEAN
  BY <1>1, <1>2, ChangeKeeps
<1>10. Operations' /\ op' \in [Volumes -> Runs \cup {Idle}]
  BY <1>1, <1>2, <1>4, <1>6, <1>7, <1>8, <1>9, SeenKeeps
<1> QED BY <1>1, <1>4, <1>9, <1>10 DEF Inv, Types

LEMMA OthersStep == ASSUME Inv, Others PROVE Inv'
<1>1. /\ Types /\ Operations /\ Listing /\ Fresh /\ events' \in Nat
      /\ UNCHANGED <<up, heard, volumes, ownerKnown, generation, query, again, calls, owed, lost>>
  BY DEF Inv, Types, Others, udisks, list, listing
<1>2. PICK v \in Volumes, method \in {"Mount", "Unmount", "Lock", "Unlock", "Plug"} :
        \E now \in IF method # "Plug" THEN After(Step(v, method))
                   ELSE {[w \in Volumes |-> IF DriveOf[w] # DriveOf[v] THEN disk[w]
                                            ELSE IF disk[v] = "gone" THEN Inserted(w) ELSE "gone"]} :
          Changes(now) /\ op' = Seen(now, op)
  BY DEF Others
<1>3. PICK now \in [Volumes -> DiskStates] : Changes(now) /\ op' = Seen(now, op)
  <2>1. CASE method # "Plug"
    <3>1. Step(v, method) \in Steps
      BY <2>1 DEF Step, Steps
    <3> QED BY <1>1, <1>2, <2>1, <3>1, AfterStates
  <2>2. CASE method = "Plug"
    <3> DEFINE plugged == [w \in Volumes |-> IF DriveOf[w] # DriveOf[v] THEN disk[w]
                                             ELSE IF disk[v] = "gone" THEN Inserted(w) ELSE "gone"]
    <3>1. plugged \in [Volumes -> DiskStates]
      BY <1>1 DEF Types, DiskStates, Inserted
    <3>2. Changes(plugged) /\ op' = Seen(plugged, op)
      BY <1>2, <2>2
    <3> HIDE DEF plugged
    <3> QED BY <3>1, <3>2
  <2> QED BY <2>1, <2>2
<1>4. Listing' /\ Fresh' /\ disk' = now /\ news' \in BOOLEAN
  BY <1>1, <1>3, ChangeKeeps
<1>5. op \in [Volumes -> Runs \cup {Idle}]
  BY <1>1 DEF Types
<1>6. \A w \in Pending : SameRun(op[w], op[w]) /\ (op[w].step = "ok" /\ Len(op[w].steps) = 1 => op[w].done)
  BY <1>1 DEF Operations, Achieved, SameRun
<1>7. Operations' /\ op' \in [Volumes -> Runs \cup {Idle}]
  BY <1>1, <1>3, <1>4, <1>5, <1>6, SeenKeeps
<1> QED BY <1>1, <1>4, <1>7 DEF Inv, Types

LEMMA RefuseStep == ASSUME Inv, NEW v \in Volumes, Refuse(v) PROVE Inv'
<1>1. /\ Types /\ Operations /\ Listing /\ Fresh /\ v \in Pending /\ op[v] \in Runs
      /\ UNCHANGED <<disk, up, heard, news, volumes, ownerKnown, generation, query, again, calls, events, owed, lost>>
  BY PendingRuns DEF Inv, Refuse, udisks, list, listing
<1>2. PICK answer \in {"error", "rejected"} : op' = [op EXCEPT ![v].step = answer]
  BY DEF Refuse
<1> DEFINE refused == [op[v] EXCEPT !.step = answer]
<1>3. /\ refused \in Runs /\ SameRun(op[v], refused) /\ refused.step = answer
      /\ refused.unlisted = op[v].unlisted /\ refused.done = op[v].done
  BY <1>1, AtStep
<1>4. op' \in [Volumes -> Runs \cup {Idle}] /\ op'[v] = refused /\ \A w \in Volumes \ {v} : op'[w] = op[w]
  BY <1>1, <1>2, <1>3 DEF Types
<1> HIDE DEF refused
<1>5. \A w \in Volumes : op'[w] = Idle <=> op[w] = Idle
  BY <1>1, <1>3, <1>4, Distinct
<1>6. ASSUME NEW w \in Pending PROVE (op[w].unlisted => op'[w].unlisted) /\ Achieved(w)' /\ Unlisted(w)'
  <2>1. Achieved(w) /\ Unlisted(w) /\ w \in Volumes
    BY <1>1, PendingRuns DEF Operations
  <2>2. CASE w = v
    BY <1>1, <1>3, <1>4, <2>1, <2>2 DEF Achieved, Unlisted, Last, SameRun
  <2>3. CASE w # v
    BY <1>1, <1>4, <2>1, <2>3 DEF Achieved, Unlisted, Last
  <2> QED BY <2>2, <2>3
<1>7. Operations'
  BY <1>1, <1>5, <1>6, OperationsKept
<1> QED BY <1>1, <1>4, <1>7 DEF Inv, Types, Listing, Fresh, Changing, Current

LEMMA AnswerStep == ASSUME Inv, AnswerQuery PROVE Inv'
<1>1. /\ Types /\ Operations /\ Listing /\ Fresh /\ query.step = "asked"
      /\ UNCHANGED <<disk, up, heard, news, volumes, ownerKnown, generation, again, op, calls, events, owed, lost>>
  BY DEF Inv, AnswerQuery, udisks, list
<1>2. query # NoQuery /\ query.generation \in Nat
  BY <1>1 DEF Types, Queries, NoQuery
<1>3. /\ query' \in Queries /\ query' # NoQuery /\ query'.generation = query.generation
      /\ query'.step = "failed" \/ (up /\ query'.step = "answered" /\ query'.objects = disk)
  <2>1. CASE up /\ query' = [step |-> "answered", generation |-> query.generation, objects |-> disk]
    BY <1>1, <1>2, <2>1, Distinct DEF Types, Queries
  <2>2. CASE query' = [step |-> "failed", generation |-> query.generation]
    BY <1>2, <2>2, Distinct DEF Queries
  <2> QED BY <2>1, <2>2 DEF AnswerQuery
<1>4. Types' /\ Operations'
  BY <1>1, <1>3, OperationsSame DEF Types
<1>5. Listing' /\ Fresh'
  BY <1>1, <1>2, <1>3 DEF Listing, Fresh, Changing, Current
<1> QED BY <1>4, <1>5 DEF Inv

\* A change of owner is under way, after which nothing that was asked before counts.
LEMMA OwnerChanges ==
  ASSUME Types, Listing, NEW now \in BOOLEAN, up' = now, heard' = Append(heard, now),
         UNCHANGED <<ownerKnown, generation, again>>,
         query' = query \/ (query' \in Queries /\ query # NoQuery /\ query'.generation = query.generation)
  PROVE  Listing' /\ Fresh' /\ heard' \in Seq(BOOLEAN)
<1>1. heard' \in Seq(BOOLEAN) /\ heard'[Len(heard')] = now /\ Len(heard') = Len(heard) + 1 /\ Len(heard) \in Nat
  BY DEF Types
<1>2. (heard # <<>> => Len(heard) > 0) /\ heard' # <<>>
  BY <1>1 DEF Types
<1>3. Changing'
  BY <1>1, <1>2 DEF Changing, Types, Listing
<1>4. (query' # NoQuery <=> query # NoQuery) /\ (query # NoQuery => query'.generation = query.generation)
  BY Distinct
<1>5. Listing'
  BY <1>1, <1>2, <1>3, <1>4 DEF Listing
<1> QED BY <1>1, <1>3, <1>5 DEF Fresh

LEMMA ComeUpStep == ASSUME Inv, ComeUp PROVE Inv'
<1>1. /\ Types /\ Operations /\ Listing /\ up' = TRUE /\ heard' = Append(heard, TRUE)
      /\ UNCHANGED <<disk, news, volumes, ownerKnown, generation, query, again, op, calls, events, owed, lost>>
  BY DEF Inv, ComeUp, list, listing
<1>2. Listing' /\ Fresh' /\ heard' \in Seq(BOOLEAN)
  BY <1>1, OwnerChanges
<1>3. Operations'
  BY <1>1, OperationsSame
<1> QED BY <1>1, <1>2, <1>3 DEF Inv, Types

LEMMA GoDownStep == ASSUME Inv, GoDown PROVE Inv'
<1>1. /\ Types /\ Operations /\ Listing /\ up' = FALSE /\ heard' = Append(heard, FALSE) /\ events' \in Nat
      /\ UNCHANGED <<disk, news, volumes, ownerKnown, generation, again, calls, owed, lost>>
  BY DEF Inv, Types, GoDown, list
<1>2. /\ query' \in Queries \cup {NoQuery}
      /\ query' = query \/ (query' \in Queries /\ query # NoQuery /\ query'.generation = query.generation)
  <2>1. CASE query.step = "asked"
    <3>1. query \in Queries /\ query # NoQuery /\ query' = [query EXCEPT !.step = "failed"]
      BY <1>1, <2>1, Distinct DEF GoDown, Types, NoQuery
    <3> QED BY <2>1, <3>1 DEF Queries
  <2>2. CASE query.step # "asked"
    BY <1>1, <2>2 DEF GoDown, Types
  <2> QED BY <2>1, <2>2
<1>3. Listing' /\ Fresh' /\ heard' \in Seq(BOOLEAN)
  BY <1>1, <1>2, OwnerChanges
<1>4. \A v \in Volumes \ Pending : op'[v] = Idle /\ op[v] = Idle
  BY DEF GoDown, Pending
<1>5. ASSUME NEW v \in Pending
      PROVE  /\ op'[v] \in Runs /\ SameRun(op[v], op'[v]) /\ op'[v].step \in {op[v].step, "error"}
             /\ op'[v].unlisted = op[v].unlisted /\ op'[v].done = op[v].done
  <2>1. v \in Volumes /\ op[v] \in Runs
    BY <1>1, PendingRuns
  <2>2. CASE op[v].step = "asked"
    <3>1. op'[v] = [op[v] EXCEPT !.step = "error"]
      BY <2>1, <2>2 DEF GoDown
    <3>2. /\ op'[v] \in Runs /\ SameRun(op[v], op'[v]) /\ op'[v].step = "error"
          /\ op'[v].unlisted = op[v].unlisted /\ op'[v].done = op[v].done
      BY ONLY <2>1, <3>1, AtStep
    <3> QED BY <3>2
  <2>3. CASE op[v].step # "asked"
    <3>1. op'[v] = op[v]
      BY <2>1, <2>3 DEF GoDown
    <3> QED BY <2>1, <3>1 DEF SameRun
  <2> QED BY <2>2, <2>3
<1>6. op' \in [Volumes -> Runs \cup {Idle}]
  BY <1>4, <1>5 DEF GoDown
<1>7. \A v \in Volumes : op'[v] = Idle <=> op[v] = Idle
  BY <1>1, <1>4, <1>5, PendingRuns, Distinct
<1>8. ASSUME NEW v \in Pending PROVE (op[v].unlisted => op'[v].unlisted) /\ Achieved(v)' /\ Unlisted(v)'
  BY <1>1, <1>5 DEF Operations, Achieved, Unlisted, Last, SameRun
<1>9. Operations'
  BY <1>1, <1>7, <1>8, OperationsKept
<1> QED BY <1>1, <1>2, <1>3, <1>6, <1>9 DEF Inv, Types

-----------------------------------------------------------------------------
(* What follows.                                                           *)

LEMMA InvStep == ASSUME IsFiniteSet(Volumes), Inv, [Next]_vars PROVE Inv'
<1>1. CASE Next
  BY <1>1, UserSteps, RefreshedStep, SignalStep, OwnerHeardStep, DoneStep, AnswerStep, GoDownStep, ComeUpStep,
     OthersStep, ServeStep, RefuseStep
  DEF Next, Loop, Bus
<1>2. CASE UNCHANGED vars
  BY <1>2, OperationsSame DEF vars, udisks, list, listing, Inv, Types, Listing, Fresh, Changing, Current
<1> QED BY <1>1, <1>2

\* The inductive invariant holds however calls, restarts, signals and listings overlap.
THEOREM InvAlways == ASSUME IsFiniteSet(Volumes) PROVE Spec => []Inv
<1>1. Inv /\ [Next]_vars => Inv'
  BY InvStep
<1> QED BY <1>1, InvInit, PTL DEF Spec

\* The manager's state is well formed, and an operation under way always has a call to make or to wait
\* for (VolumeManager::perform takes the first of its steps without looking).
THEOREM TypeCorrect == ASSUME IsFiniteSet(Volumes) PROVE Spec => []TypeOK
<1>1. Inv => TypeOK
  <2> SUFFICES ASSUME Inv PROVE TypeOK
    OBVIOUS
  <2>1. query.step \in {"none", "asked", "answered", "failed"}
    BY DEF Inv, Types, Queries, NoQuery
  <2>2. \A v \in Pending : op[v].steps # <<>> /\ op[v].step \in {"asked", "ok", "error", "rejected"}
    BY PendingRuns DEF Inv, Runs
  <2>3. again => query # NoQuery
    BY DEF Inv, Listing
  <2> QED BY <2>1, <2>2, <2>3 DEF Inv, Types, TypeOK, ListStates
<1> QED BY <1>1, InvAlways, PTL

\* Every call to mount, unmount, unlock or eject is reported once, whatever UDisks2 and the drive do.
THEOREM OneReportCorrect == ASSUME IsFiniteSet(Volumes) PROVE Spec => []OneReport
<1>1. Inv => OneReport
  BY DEF Inv, Operations
<1> QED BY <1>1, InvAlways, PTL

\* start() lets no two operations run on one drive whose volumes are both listed throughout.
THEOREM OneAtATimeCorrect == ASSUME IsFiniteSet(Volumes) PROVE Spec => []OneAtATime
<1>1. Inv => OneAtATime
  BY DEF Inv, Operations
<1> QED BY <1>1, InvAlways, PTL

\* m_generation and m_refreshAgain are enough: however UDisks2 comes and goes, and whatever changes while
\* a listing is under way, the list ends up as what UDisks2 would say, unless the last listing failed.
THEOREM UpToDateCorrect == ASSUME IsFiniteSet(Volumes) PROVE Spec => []UpToDate
<1>1. Inv => UpToDate
  <2> SUFFICES ASSUME Inv, query = NoQuery, ~news, heard = <<>>, ~lost
               PROVE  volumes = [v \in Volumes |-> IF up THEN Shown(disk[v]) ELSE "gone"]
    BY DEF UpToDate
  <2>1. ~Changing
    BY DEF Changing
  <2>2. CASE up
    BY <2>1, <2>2 DEF Inv, Fresh
  <2>3. CASE ~up
    BY <2>1, <2>3 DEF Inv, Fresh, AllGone
  <2> QED BY <2>2, <2>3
<1> QED BY <1>1, InvAlways, PTL

\* operationFinished is told, by perform()'s reply, only of an operation that did what it was for.
THEOREM FinishedCorrect == ASSUME IsFiniteSet(Volumes) PROVE Spec => [][FinishedDid]_vars
<1>1. Inv /\ [Next]_vars => [FinishedDid]_vars
  <2> SUFFICES ASSUME Inv, Next, NEW v \in Volumes, v \in Pending, op'[v] = Idle, told' = "finished"
               PROVE  op[v].done
    BY DEF FinishedDid
  <2>1. PICK w \in Volumes : Done(w)
    BY DEF Next, User, Loop, Bus, Mount, Unmount, Unlock, Eject, Start, Report, Silent, Refreshed, Signal, OwnerHeard,
       AnswerQuery, GoDown, ComeUp, Others, Serve, Refuse
  <2>2. op[w].step = "ok" /\ LastStep(w) /\ op' = [op EXCEPT ![w] = Idle] /\ w \in Pending
    BY <2>1 DEF Done, NoLongerThere, Ends, Report, Silent
  <2>3. w = v
    BY <2>2 DEF Inv, Types, Pending
  <2> QED BY <2>2, <2>3 DEF LastStep, Inv, Operations, Achieved
<1> QED BY <1>1, InvAlways, PTL DEF Spec

=============================================================================
