---------------------------- MODULE VolumeManager ----------------------------
(***************************************************************************)
(* VolumeManager (files/volume_manager.cpp): a list of UDisks2's volumes   *)
(* kept up to date from its signals, and mount(), unmount(), unlock() and  *)
(* eject(), each a sequence of D-Bus calls.  Calls, signals and changes of *)
(* owner are delivered in any order here; the bus keeps more order.        *)
(***************************************************************************)
EXTENDS Naturals, Sequences, FiniteSets

CONSTANTS
  Volumes, Encrypted,       \* block devices, those with a LUKS layer
  DriveOf, Ejectable,       \* the drive of each, drives that eject or power off
  NoDrive,                  \* "/"
  MaxCalls, MaxEvents       \* bound the user's calls; restarts and other programs' acts

VARIABLES
  disk,         \* what UDisks2 would say of each volume
  up,           \* whether UDisks2 is on the bus
  news,         \* a signal of UDisks2 is under way
  heard,        \* the answer and the news of the name's owner under way
  volumes,      \* m_volumes
  ownerKnown, generation, again,    \* m_ownerKnown, m_generation, m_refreshAgain
  query,        \* the call of refresh(), or NoQuery: m_refreshing
  op,           \* the operation of each volume in m_pending, or Idle
  \* What bounds and properties look back on.
  calls, events,
  owed,         \* the calls for each volume not reported yet
  told,         \* the report of the last step
  lost          \* the last listing that counted failed

udisks == <<up, heard>>
list == <<volumes, ownerKnown, generation>>
listing == <<query, again>>
vars == <<disk, up, news, heard, volumes, ownerKnown, generation, again, query, op,
          calls, events, owed, told, lost>>

\* Mounted at /home or the like, a volume is left out: isSystemMountPoint.
DiskStates == {"gone", "locked", "unmounted", "mounted", "system"}
Mounted == {"mounted", "system"}
Inserted(v) == IF v \in Encrypted THEN "locked" ELSE "unmounted"
Shown(state) == IF state = "system" THEN "gone" ELSE state
AllGone == [v \in Volumes |-> "gone"]
OfDrive(d) == {v \in Volumes : DriveOf[v] = d}
SameDrive(v, w) == DriveOf[v] = DriveOf[w] /\ DriveOf[v] # NoDrive

Idle == [step |-> "none"]
NoQuery == [step |-> "none"]

Init ==
  /\ disk \in {[v \in Volumes |-> Inserted(v)], [v \in Volumes |-> "mounted"]}
  /\ up \in BOOLEAN /\ news = FALSE /\ heard = <<up>>
  /\ volumes = AllGone /\ ownerKnown = FALSE /\ generation = 0
  /\ again = FALSE /\ query = [step |-> "asked", generation |-> 0]
  /\ op = [v \in Volumes |-> Idle]
  /\ calls = 0 /\ events = 0
  /\ owed = [v \in Volumes |-> 0] /\ told = "none" /\ lost = FALSE

Silent == told' = "none"
Pending == {v \in Volumes : op[v] # Idle}

-----------------------------------------------------------------------------
(* Listing.                                                                *)

\* refresh(): the query and m_refreshAgain after it, where the query was q.
Refresh(q, now) ==
  IF q = NoQuery
  THEN query' = [step |-> "asked", generation |-> now] /\ UNCHANGED again
  ELSE query' = q /\ again' = TRUE

\* rebuild(): what is listed from now on, and the operations whose volume went.
Rebuild(objects) ==
  /\ volumes' = [v \in Volumes |-> Shown(objects[v])]
  /\ op' = [v \in Volumes |-> IF v \in Pending /\ Shown(objects[v]) = "gone"
                              THEN [op[v] EXCEPT !.unlisted = TRUE] ELSE op[v]]

\* Only what UDisks2 said since its owner last changed counts.
Current == query.generation = generation

Refreshed ==
  /\ query.step \in {"answered", "failed"}
  /\ IF Current /\ query.step = "answered"
     THEN Rebuild(query.objects) ELSE UNCHANGED <<volumes, op>>
  /\ lost' = IF Current THEN query.step = "failed" ELSE lost
  /\ again' = FALSE
  /\ query' = IF again THEN [step |-> "asked", generation |-> generation] ELSE NoQuery
  /\ UNCHANGED <<disk, udisks, news, ownerKnown, generation, calls, events, owed>> /\ Silent

Signal ==
  /\ news
  /\ news' = FALSE
  /\ Refresh(query, generation)
  /\ UNCHANGED <<disk, udisks, list, op, calls, events, owed, lost>> /\ Silent

\* The first is the owner as of now, the others are changes.
OwnerHeard ==
  /\ heard # <<>>
  /\ heard' = Tail(heard)
  /\ IF ~ownerKnown
     THEN ownerKnown' = TRUE /\ UNCHANGED <<volumes, generation, op, query, again>>
     ELSE /\ generation' = generation + 1
          /\ Rebuild(AllGone)
          /\ IF Head(heard) THEN Refresh(query, generation') ELSE UNCHANGED <<query, again>>
          /\ UNCHANGED ownerKnown
  /\ lost' = (lost /\ ~ownerKnown)
  /\ UNCHANGED <<disk, up, news, calls, events, owed>> /\ Silent

-----------------------------------------------------------------------------
(* Operations.                                                             *)

Step(v, method) == [volume |-> v, method |-> method]
Locked(v) == v \in Encrypted /\ volumes[v] = "locked"

\* The filesystem to unmount and the cleartext to lock.
Closing(v) ==
  (IF volumes[v] = "mounted" THEN <<Step(v, "Unmount")>> ELSE <<>>)
    \o (IF v \in Encrypted /\ volumes[v] \in {"unmounted", "mounted"} THEN <<Step(v, "Lock")>> ELSE <<>>)
\* The ids, by which m_volumes is in order.
Ids == CHOOSE id \in [Volumes -> 1 .. Cardinality(Volumes)] : \A v, w \in Volumes : id[v] = id[w] => v = w

\* Those of a drive's volumes, one after the other.
ClosingAll(some) ==
  LET id == Ids
      wanted == {s \in [volume : some, method : {"Unmount", "Lock"}] :
                   \E k \in 1 .. Len(Closing(s.volume)) : Closing(s.volume)[k] = s}
      Before(s, t) == \/ id[s.volume] < id[t.volume]
                      \/ s.volume = t.volume /\ s.method = "Unmount" /\ t.method = "Lock" IN
  {steps \in [1 .. Cardinality(wanted) -> wanted] : \A j, k \in DOMAIN steps : j < k => Before(steps[j], steps[k])}

Supported(v, operation, steps) ==
  /\ volumes[v] # "gone" /\ steps # <<>>
  /\ operation = "eject" => DriveOf[v] \in Ejectable
  /\ operation = "mount" => volumes[v] # "locked"
  /\ operation = "unlock" => v \in Encrypted

\* Mutant: only the volume itself is busy.
BusyVolume(v) == v \in Pending
\* A volume that is no longer listed has no drive.
Busy(v) == v \in Pending \/ \E w \in Pending : volumes[w] # "gone" /\ SameDrive(v, w)

Report(result) == told' = result

\* start(): refused at once, or the first call is made.
Start(v, operation, steps) ==
  /\ calls' = calls + 1
  /\ IF ~Supported(v, operation, steps) \/ Busy(v)
     THEN Report("failed") /\ UNCHANGED <<op, owed>>
     ELSE /\ op' = [op EXCEPT ![v] =
                      [step |-> "asked", operation |-> operation, steps |-> steps, generation |-> generation,
                       unlisted |-> FALSE, done |-> operation = "eject" /\ disk[v] = "gone"]]
          /\ owed' = [owed EXCEPT ![v] = @ + 1]
          /\ Silent
  /\ UNCHANGED <<disk, udisks, news, list, listing, events, lost>>

MountSteps(v) == <<Step(v, "Mount")>>

\* A locked device is refused under the same name start() would refuse it.
Mount(v) == Start(v, "mount", IF Locked(v) THEN <<>> ELSE MountSteps(v))

Unmount(v) ==
  Start(v, "unmount", IF v \in Encrypted THEN Closing(v) ELSE <<Step(v, "Unmount")>>)

Unlock(v) ==
  IF Locked(v)
  THEN Start(v, "unlock", <<Step(v, "Unlock")>> \o MountSteps(v))
  ELSE Start(v, "mount", MountSteps(v))

Eject(v) ==
  \E closing \in ClosingAll({w \in Volumes : volumes[w] # "gone" /\ DriveOf[w] = DriveOf[v]}) :
    Start(v, "eject", closing \o (IF DriveOf[v] \in Ejectable THEN <<Step(v, "Eject")>> ELSE <<>>))

Ends(v, result) ==
  /\ op' = [op EXCEPT ![v] = Idle]
  /\ owed' = [owed EXCEPT ![v] = @ - 1]
  /\ Report(result)

\* Mutant: it is asked too late whether a step is left.
NeverLast(v) == FALSE
\* Mutant: the steps left are forgotten.
NoneLeft(v) == TRUE
LastStep(v) == Len(op[v].steps) = 1

\* UDisks2 started anew, or the volume went: the reply no longer counts.
NoLongerThere(v) == Ends(v, "failed")

Unavailable(v) ==
  op[v].generation # generation \/ (op[v].operation # "eject" /\ volumes[v] = "gone")

\* perform()'s reply.
Done(v) ==
  /\ v \in Pending /\ op[v].step # "asked"
  /\ IF Unavailable(v)
     THEN NoLongerThere(v) /\ UNCHANGED listing
     ELSE IF op[v].step = "ok" /\ ~LastStep(v)
     THEN /\ op' = [op EXCEPT ![v].step = "asked", ![v].steps = Tail(@)]
          /\ UNCHANGED <<owed, listing>> /\ Silent
     ELSE /\ Ends(v, CASE op[v].step = "ok" -> "finished"
                       [] op[v].step = "rejected" -> "rejected" [] OTHER -> "failed")
          /\ Refresh(query, generation)
  /\ UNCHANGED <<disk, udisks, news, list, calls, events, lost>>

-----------------------------------------------------------------------------
(* UDisks2 and other programs.                                             *)

\* The disks change: who is on the bus says so.
Changes(now) ==
  /\ disk' = now
  /\ news' = (news \/ up)

\* What an operation is for: the volume mounted, unmounted and locked again, or the drive empty.
Goal(operation, v) ==
  IF operation = "eject" THEN {"gone"} ELSE IF operation = "unmount" THEN {Inserted(v)} ELSE Mounted

Seen(now, asked) ==
  [v \in Volumes |-> IF v \in Pending /\ now[v] # disk[v] /\ now[v] \in Goal(op[v].operation, v)
                     THEN [asked[v] EXCEPT !.done = TRUE] ELSE asked[v]]

\* What UDisks2 makes of a call: the disks after it; none when it refuses.
After(step) ==
  LET v == step.volume  Becomes(state) == {[disk EXCEPT ![v] = state]} IN
  CASE step.method = "Mount" /\ disk[v] = "unmounted" -> UNION {Becomes(s) : s \in Mounted}
    [] step.method = "Unmount" /\ disk[v] \in Mounted -> Becomes("unmounted")
    [] step.method = "Lock" /\ disk[v] = "unmounted" -> Becomes("locked")
    [] step.method = "Unlock" /\ disk[v] = "locked" -> Becomes("unmounted")
    [] /\ step.method = "Eject" /\ \E w \in OfDrive(DriveOf[v]) : disk[w] # "gone"
       /\ \A w \in OfDrive(DriveOf[v]) : disk[w] \in {"gone", Inserted(w)} ->
         {[w \in Volumes |-> IF DriveOf[w] = DriveOf[v] THEN "gone" ELSE disk[w]]}
    [] OTHER -> {}

Serve(v) ==
  /\ up /\ v \in Pending /\ op[v].step = "asked"
  /\ \E now \in After(Head(op[v].steps)) :
       Changes(now) /\ op' = Seen(now, [op EXCEPT ![v].step = "ok"])
  /\ UNCHANGED <<udisks, list, listing, calls, events, owed, lost>> /\ Silent

\* Refused, not authorized, timed out or never answered; a wrong passphrase.
Refuse(v) ==
  /\ v \in Pending /\ op[v].step = "asked"
  /\ \E answer \in {"error"} \cup IF Head(op[v].steps).method = "Unlock" THEN {"rejected"} ELSE {} :
       op' = [op EXCEPT ![v].step = answer]
  /\ UNCHANGED <<disk, udisks, news, list, listing, calls, events, owed, lost>> /\ Silent

AnswerQuery ==
  /\ query.step = "asked"
  /\ \/ up /\ query' = [step |-> "answered", generation |-> query.generation, objects |-> disk]
     \/ query' = [step |-> "failed", generation |-> query.generation]
  /\ UNCHANGED <<disk, udisks, news, list, again, op, calls, events, owed, lost>> /\ Silent

\* The bus answers what a service that is gone leaves unanswered.
GoDown ==
  /\ up /\ events < MaxEvents /\ events' = events + 1
  /\ up' = FALSE /\ heard' = Append(heard, FALSE)
  /\ op' = [v \in Volumes |-> IF v \in Pending /\ op[v].step = "asked"
                              THEN [op[v] EXCEPT !.step = "error"] ELSE op[v]]
  /\ query' = IF query.step = "asked" THEN [query EXCEPT !.step = "failed"] ELSE query
  /\ UNCHANGED <<disk, news, list, again, calls, owed, lost>> /\ Silent

ComeUp ==
  /\ ~up
  /\ up' = TRUE /\ heard' = Append(heard, TRUE)
  /\ UNCHANGED <<disk, news, list, listing, op, calls, events, owed, lost>> /\ Silent

\* Other programs mount, unmount, lock and unlock; a drive is plugged in or pulled out.
Others ==
  /\ events < MaxEvents /\ events' = events + 1
  /\ \E v \in Volumes, method \in {"Mount", "Unmount", "Lock", "Unlock", "Plug"} :
       \E now \in IF method # "Plug" THEN After(Step(v, method))
                  ELSE {[w \in Volumes |-> IF DriveOf[w] # DriveOf[v] THEN disk[w]
                                           ELSE IF disk[v] = "gone" THEN Inserted(w) ELSE "gone"]} :
         Changes(now) /\ op' = Seen(now, op)
  /\ UNCHANGED <<udisks, list, listing, calls, owed, lost>> /\ Silent

User == calls < MaxCalls /\ \E v \in Volumes : Mount(v) \/ Unmount(v) \/ Unlock(v) \/ Eject(v)
Loop == Refreshed \/ Signal \/ OwnerHeard \/ \E v \in Volumes : Done(v)
Bus == AnswerQuery \/ GoDown \/ ComeUp \/ Others \/ \E v \in Volumes : Serve(v) \/ Refuse(v)

Next == User \/ Loop \/ Bus

Spec == Init /\ [][Next]_vars

-----------------------------------------------------------------------------
(* Properties.                                                             *)

\* Every variable holds a value of its kind.
TypeOK ==
  /\ disk \in [Volumes -> DiskStates]
  /\ volumes \in [Volumes -> {"gone", "locked", "unmounted", "mounted"}]
  /\ heard \in Seq(BOOLEAN) /\ query.step \in {"none", "asked", "answered", "failed"}
  /\ again => query # NoQuery
  /\ \A v \in Pending : op[v].steps # <<>> /\ op[v].step \in {"asked", "ok", "error", "rejected"}

\* Every call is reported once: at once when it is refused, else when its operation leaves
\* m_pending, also when UDisks2 or the volume goes while it runs.
OneReport == \A v \in Volumes : owed[v] = IF v \in Pending THEN 1 ELSE 0

\* Two operations run on one drive only when the volume of one left the list meanwhile.
OneAtATime ==
  \A v, w \in Pending : v # w /\ SameDrive(v, w) => op[v].unlisted \/ op[w].unlisted

\* "finished" is told of what happened while the operation ran: the volume was mounted,
\* unmounted and locked again, or the drive emptied.
FinishedDid ==
  \A v \in Volumes : v \in Pending /\ op'[v] = Idle /\ told' = "finished" => op[v].done

\* However UDisks2 comes and goes and calls overlap, once nothing is under way the list is what
\* UDisks2 would say, unless the last listing failed.
UpToDate ==
  query = NoQuery /\ ~news /\ heard = <<>> =>
    lost \/ volumes = [v \in Volumes |-> IF up THEN Shown(disk[v]) ELSE "gone"]
=============================================================================
