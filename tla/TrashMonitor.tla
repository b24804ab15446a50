----------------------------- MODULE TrashMonitor -----------------------------
(***************************************************************************)
(* TrashMonitor (files/trash_monitor.cpp), the watch it holds              *)
(* (files/file_watcher.cpp) and where that looks (files/trash_directory.cpp): *)
(* whether anything is in the home trash or that of a mounted volume, read *)
(* again on a pool thread when a folder or the mount table changes.        *)
(***************************************************************************)
EXTENDS Naturals, FiniteSets

CONSTANTS
  Volumes,     \* each with a trash of its own, beside the home's
  MaxEvents    \* bounds what happens to them, and watches that fail

VARIABLES
  world,     \* the volumes mounted, and how much there is of each trash
  watch,     \* m_watch: what it was asked for, the folders watched, and m_valid
  queued,    \* the kernel's events for it, not read yet
  timers,    \* those that run: m_emit, m_debounce, m_retry
  job,       \* m_job: its step, and what it read
  monitor,   \* m_pending and m_empty
  unseen,    \* what a job read changed as nobody watched, or the watch that saw it was cleared before it told
  events     \* counts towards MaxEvents

vars == <<world, watch, queued, timers, job, monitor, unseen, events>>

Home == "home"
Trashes == Volumes \cup {Home}

\* How much there is of a trash: nothing, its folder, its folder "files", and a file in that.
Nothing == 0
Folder == 1
Files == 2
Full == 3

Mounted(w, t) == t = Home \/ t \in w.mounted
NoJob == [step |-> "none"]
Event == events < MaxEvents /\ events' = events + 1

-----------------------------------------------------------------------------
(* What a watch is asked for: trashWatches().                              *)

\* The folder "files"; or that it is made in the trash's; or that that is made.  The home trash is one
\* also before it is made.
Wanted(w, t) ==
  IF ~Mounted(w, t) THEN "nothing"
  ELSE IF w.level[t] >= Files THEN "files"
  ELSE IF w.level[t] = Folder \/ t = Home THEN "folder"
  ELSE "top"

\* The folders watched then: those there are.  One that holds another is watched for its name.
Watched(wanted, w, t) ==
  {d \in CASE wanted = "files" -> {"top", "folder", "files"} [] wanted = "folder" -> {"top", "folder"}
           [] wanted = "top" -> {"top"} [] OTHER -> {} :
     Mounted(w, t) /\ (d = "folder" => w.level[t] >= Folder) /\ (d = "files" => w.level[t] >= Files)}

\* A folder to watch that is gone by now is left out, and with it the trash's folder.
StillThere(wanted, t) == IF wanted = "files" /\ (~Mounted(world, t) \/ world.level[t] < Files) THEN "top" ELSE wanted

-----------------------------------------------------------------------------
(* FileWatcher                                                             *)

\* noticed(), and m_emit; a change of the mount table is told at once.
Notices ==
  /\ queued # {}
  /\ watch' = [watch EXCEPT !.valid = @ /\ "gone" \notin queued]
  /\ timers' = [timers EXCEPT !.emit = @ \/ queued \cap {"change", "gone"} # {}, !.debounce = @ \/ "mounts" \in queued]
  /\ queued' = {}
  /\ UNCHANGED <<world, job, monitor, unseen, events>>

Emits ==
  /\ timers.emit /\ timers' = [timers EXCEPT !.emit = FALSE, !.debounce = TRUE]
  /\ UNCHANGED <<world, watch, queued, job, monitor, unseen, events>>

-----------------------------------------------------------------------------
(* refresh()                                                               *)

Started == [step |-> "watches"]

Refresh ==
  IF job # NoJob THEN monitor' = [monitor EXCEPT !.pending = TRUE] /\ UNCHANGED <<job, unseen>>
  ELSE job' = Started /\ unseen' = FALSE /\ UNCHANGED monitor

TimesOut ==
  /\ \/ timers.debounce /\ timers' = [timers EXCEPT !.debounce = FALSE]
     \/ timers.retry /\ timers' = [timers EXCEPT !.retry = FALSE]
  /\ Refresh
  /\ UNCHANGED <<world, watch, queued, events>>

\* The job: what to watch, and then what is in the trash.
ReadWatches ==
  /\ job.step = "watches"
  /\ job' = [step |-> "entries", wanted |-> [t \in Trashes |-> Wanted(world, t)]]
  /\ UNCHANGED <<world, watch, queued, timers, monitor, unseen, events>>

IsEmpty(w) == \A t \in Trashes : Mounted(w, t) => w.level[t] # Full
ReadEntries ==
  /\ job.step = "entries"
  /\ job' = [step |-> "done", wanted |-> job.wanted, empty |-> IsEmpty(world)]
  /\ UNCHANGED <<world, watch, queued, timers, monitor, unseen, events>>

\* A watch that still holds is kept.  Another begins now, and one of a folder "files" can fail.
Done ==
  LET asked == [t \in Trashes |-> StillThere(job.wanted[t], t)]
      kept == watch.valid /\ asked = watch.asked IN
  /\ job.step = "done"
  /\ \/ /\ watch' = IF kept THEN watch
                    ELSE [asked |-> asked, on |-> [t \in Trashes |-> Watched(asked[t], world, t)], valid |-> TRUE]
        /\ timers' = [timers EXCEPT !.retry = FALSE] /\ UNCHANGED events
     \/ /\ ~kept /\ Event
        /\ \E failing \in SUBSET {t \in Trashes : asked[t] = "files"} \ {{}} :
             watch' = [asked |-> asked, valid |-> FALSE,
                       on |-> [t \in Trashes |-> Watched(asked[t], world, t) \ IF t \in failing THEN {"files"} ELSE {}]]
        /\ timers' = [timers EXCEPT !.retry = TRUE]
  /\ queued' = IF kept THEN queued ELSE {}
  /\ unseen' = (~monitor.pending /\ (unseen \/ (~kept /\ queued # {})))
  /\ monitor' = [pending |-> FALSE, empty |-> job.empty]
  /\ job' = IF monitor.pending THEN Started ELSE NoJob
  /\ UNCHANGED world

-----------------------------------------------------------------------------
(* The trash and its volumes change.                                       *)

\* What was watched in a folder that is gone, is not.
Changed(w, told) ==
  LET on == [t \in Trashes |-> {d \in watch.on[t] : d \in Watched("files", w, t)}] IN
  /\ world' = w
  /\ queued' = queued \cup told \cup IF on # watch.on THEN {"gone"} ELSE {}
  /\ watch' = [watch EXCEPT !.on = on]
  /\ unseen' = (unseen \/ (job # NoJob /\ told = {} /\ on = watch.on))
  /\ Event /\ UNCHANGED <<timers, job, monitor>>

To(t, level) == [world EXCEPT !.level[t] = level]
Told(t, folder) == IF folder \in watch.on[t] THEN {"change"} ELSE {}

Trashed ==
  \E t \in Trashes :
    /\ Mounted(world, t)
    /\ \/ world.level[t] = Nothing /\ Changed(To(t, Folder), Told(t, "top"))
       \/ world.level[t] = Folder /\ Changed(To(t, Files), Told(t, "folder"))
       \/ world.level[t] = Files /\ Changed(To(t, Full), Told(t, "files"))
Emptied ==
  \E t \in Trashes : Mounted(world, t) /\ world.level[t] = Full /\ Changed(To(t, Files), Told(t, "files"))
Removed ==
  \E t \in Trashes :
    /\ Mounted(world, t)
    /\ \/ world.level[t] > Nothing /\ Changed(To(t, Nothing), Told(t, "top"))
       \/ world.level[t] > Folder /\ Changed(To(t, Folder), Told(t, "folder"))
Mounts ==
  \E v \in Volumes :
    Changed([world EXCEPT !.mounted = IF v \in @ THEN @ \ {v} ELSE @ \cup {v}], IF watch.asked[Home] = "nothing" THEN {} ELSE {"mounts"})

Init ==
  /\ \E mounted \in SUBSET Volumes, level \in [Trashes -> Nothing..Full] : world = [mounted |-> mounted, level |-> level]
  /\ watch = [asked |-> [t \in Trashes |-> "nothing"], on |-> [t \in Trashes |-> {}], valid |-> FALSE]
  /\ queued = {} /\ timers = [emit |-> FALSE, debounce |-> FALSE, retry |-> FALSE]
  /\ job = Started /\ monitor = [pending |-> FALSE, empty |-> TRUE]
  /\ unseen = FALSE /\ events = 0

Next ==
  \/ Notices \/ Emits \/ TimesOut \/ ReadWatches \/ ReadEntries \/ Done
  \/ Trashed \/ Emptied \/ Removed \/ Mounts

Spec == Init /\ [][Next]_vars

-----------------------------------------------------------------------------
(* Properties.                                                             *)

\* Every variable holds a value of its kind.
TypeOK ==
  /\ world.mounted \subseteq Volumes /\ world.level \in [Trashes -> Nothing..Full]
  /\ queued \subseteq {"change", "gone", "mounts"} /\ events \in 0..MaxEvents
  /\ job.step \in {"none", "watches", "entries", "done"} /\ monitor \in [pending : BOOLEAN, empty : BOOLEAN]

\* A folder it was asked to watch was not there then, and is now: the watch is taken to hold, and is kept.
Deaf == \E t \in Trashes : watch.on[t] # Watched(watch.asked[t], world, t)

\* Once nothing is under way the trash is shown empty exactly while it is, on every volume there is, unless it
\* changed after the job looked and before a watch that told of it began, or the watch is deaf.
ShowsTrash ==
  job = NoJob /\ queued = {} /\ ~timers.emit /\ ~timers.debounce /\ ~timers.retry /\ ~unseen /\ ~Deaf =>
    monitor.empty = IsEmpty(world)

\* A watch that does not hold is tried again: the trash is never left unwatched.
KeepsTrying ==
  ~watch.valid => job # NoJob \/ timers.retry \/ timers.emit \/ timers.debounce
=============================================================================
