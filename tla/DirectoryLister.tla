--------------------------- MODULE DirectoryLister ---------------------------
(***************************************************************************)
(* DirectoryLister and the FileWatcher it holds (files/directory_lister.cpp,*)
(* files/file_watcher.cpp): a folder listed on a pool thread and kept up to *)
(* date from the kernel's events, while the user opens other folders, also  *)
(* from within the lister's own signals.  Searching is left out, and auto   *)
(* update is on.  base::Job is not in the repository: assigned over, it is  *)
(* taken to cancel the job it held, as TrashMonitor relies on its end to do.*)
(***************************************************************************)
EXTENDS Naturals

CONSTANTS
  Folders, Top,       \* folders in Top, and Top
  TrashRoots,         \* of Folders, those whose watches come with their listing
  None,
  MaxChanges,         \* bounds the changes of each folder
  MaxCalls            \* bounds openUrl() and stop()

ASSUME ListerAssumption ==
  /\ Top \notin Folders /\ TrashRoots \subseteq Folders /\ None \notin Folders \cup {Top}
  /\ MaxChanges \in [Folders \cup {Top} -> Nat] /\ MaxCalls \in Nat

Listable == Folders \cup {Top}

VARIABLES
  disk, there,  \* the version of each folder's contents, and whether it exists
  queued,       \* the kernel's events for the watch, not read yet
  watched,      \* the folder watched, or None
  deaf,         \* the watched folder was removed: only its name in Top is still watched
  valid,        \* m_valid
  emit, debounce, retry,    \* the timers that run: m_emit, m_debounce, m_retry
  url, generation, listed, pending,
  items,        \* what is shown: a folder and its version, or Nothing
  job,          \* m_job, or NoJob
  phase,        \* where done() is, between the signals it emits, or "loop"
  listing,      \* the result done() is given
  unseen,       \* the listing shown began before the folder was watched
  stopped       \* stop() was called since openUrl()

world == <<disk, there>>
watching == <<queued, watched, deaf, valid, emit, retry>>
view == <<url, generation, listed, items, stopped>>
vars == <<disk, there, queued, watched, deaf, valid, emit, debounce, retry, url, generation, listed,
          pending, items, job, phase, listing, unseen, stopped>>

Nothing == [folder |-> None, version |-> 0]
Job(folder, opened, was, unwatched) ==
  [step |-> "stat", generation |-> opened, url |-> folder, listed |-> was, unwatched |-> unwatched,
   version |-> 0, error |-> FALSE]
NoJob == [step |-> "none"]

Init ==
  /\ disk = [f \in Listable |-> 0] /\ there \in [Listable -> BOOLEAN] /\ \A f \in TrashRoots \cup {Top} : there[f]
  /\ queued = {} /\ watched = None /\ deaf = FALSE /\ valid = FALSE
  /\ emit = FALSE /\ debounce = FALSE /\ retry = FALSE
  /\ url = None /\ generation = 0 /\ listed = FALSE /\ pending = FALSE /\ items = Nothing
  /\ job = NoJob /\ phase = "loop" /\ listing = NoJob
  /\ unseen = FALSE /\ stopped = FALSE

-----------------------------------------------------------------------------
(* Watching.                                                               *)

\* Mutant: clear() leaves m_valid.
UnwatchValid == watched' = None /\ deaf' = FALSE /\ queued' = {} /\ UNCHANGED valid
Unwatch == watched' = None /\ deaf' = FALSE /\ valid' = FALSE /\ queued' = {}

\* FileWatcher::watch keeps a watch that still holds.
Kept(f) == watched = f /\ valid

\* keep is FALSE after clear().  A folder that is gone is not watched, and a watch can fail.
Watch(f, keep) ==
  \/ there[f] /\ keep /\ Kept(f) /\ UNCHANGED <<watched, deaf, valid, queued>>
  \/ ~(keep /\ Kept(f)) /\ there[f] /\ watched' = f /\ deaf' = FALSE /\ valid' = TRUE /\ queued' = {}
  \/ ~(there[f] /\ keep /\ Kept(f)) /\ Unwatch

\* watchDirectory(): what is there and cannot be watched is polled.
WatchDirectory(f, keep) ==
  Watch(f, keep) /\ retry' = (there[f] /\ ~(keep /\ Kept(f)) /\ ~valid')

-----------------------------------------------------------------------------
(* refresh(), and what calls it.                                           *)

\* Mutant: a refresh asked for while listing is dropped.
NotPending == FALSE
Pending == TRUE

\* A refresh while a listing runs is put off; the trash is watched once it is listed.
Refresh(waiting) ==
  IF url = None
  THEN pending' = waiting /\ UNCHANGED <<job, watched, deaf, valid, queued, retry>>
  ELSE IF job # NoJob
  THEN pending' = Pending /\ UNCHANGED <<job, watched, deaf, valid, queued, retry>>
  ELSE /\ pending' = waiting
       /\ IF url \in TrashRoots THEN UNCHANGED <<watched, deaf, valid, queued, retry>> ELSE WatchDirectory(url, TRUE)
       /\ job' = Job(url, generation, listed, url \notin TrashRoots /\ ~there[url])

\* Mutant: a listener that opened another folder is overlooked.
StillAnyway == TRUE
\* generation == m_generation after a signal of done().
Still == listing.generation = generation

\* Calls come from the loop or, from a listener, inside a signal of done().  A listener of the
\* error that a watch fails with calls from inside watchDirectory(), which goes on with the watch
\* it then finds: it polls if that holds nothing, and refresh() lists what is then open.
Called == phase # "take"
\* refresh(), called here, may fail to watch.
MayFail == url # None /\ url \notin TrashRoots /\ job = NoJob /\ there[url] /\ ~Kept(url)

UpdateDirectory ==
  /\ Called
  /\ Refresh(pending)
  /\ UNCHANGED <<world, emit, debounce, view, phase, listing, unseen>>

\* inError: from the error of an openUrl() or a refresh() before.
OpenUrl ==
  /\ Called
  /\ generation < MaxCalls
  /\ generation' = generation + 1
  /\ \E f \in Listable, inError \in BOOLEAN :
       /\ url' = f
       /\ IF f \in TrashRoots THEN Unwatch ELSE Watch(f, FALSE)
       /\ retry' = (~valid' /\ (inError \/ (f \notin TrashRoots /\ there[f])))
       /\ job' = Job(f, generation', FALSE, f \notin TrashRoots /\ ~there[f])
  /\ pending' = FALSE /\ debounce' = FALSE
  /\ items' = Nothing /\ listed' = FALSE /\ stopped' = FALSE
  /\ UNCHANGED <<world, emit, phase, listing, unseen>>

Stop ==
  /\ Called
  /\ generation < MaxCalls
  /\ generation' = generation + 1
  /\ pending' = FALSE /\ debounce' = FALSE
  /\ Unwatch
  /\ \/ retry' = FALSE /\ job' = NoJob
     \/ MayFail /\ retry' = TRUE /\ job' = Job(url, generation', listed, FALSE)
     \/ phase = "moved" /\ Still /\ job = NoJob /\ retry /\ retry' = TRUE /\ job' = NoJob
  /\ stopped' = TRUE
  /\ UNCHANGED <<world, emit, url, listed, items, phase, listing, unseen>>

-----------------------------------------------------------------------------
(* The pool thread.                                                        *)

\* A folder that was listed and is gone is listed where it was.
JobStat ==
  /\ job.step = "stat"
  /\ LET target == IF job.listed /\ ~there[job.url] THEN Top ELSE job.url IN
     job' = [job EXCEPT !.step = "list", !.url = target, !.version = disk[target]]
  /\ UNCHANGED <<world, watching, view, debounce, pending, phase, listing, unseen>>

\* Reading takes time: what is listed is as old as its beginning or as new as its end.
JobList ==
  /\ job.step = "list"
  /\ \E v \in job.version .. disk[job.url] :
       job' = [job EXCEPT !.step = "done", !.version = v, !.error = ~there[job.url]]
  /\ UNCHANGED <<world, watching, view, debounce, pending, phase, listing, unseen>>

-----------------------------------------------------------------------------
(* done(), in the loop.                                                    *)

\* The listing is taken; a trash and a folder moved to are watched now.
Done ==
  /\ phase = "loop" /\ job # NoJob /\ job.step = "done"
  /\ job' = NoJob /\ listing' = job
  /\ IF job.url \in TrashRoots \/ job.url # url
     THEN WatchDirectory(job.url, TRUE) ELSE UNCHANGED <<watched, deaf, valid, queued, retry>>
  /\ unseen' = (job.unwatched \/ ((job.url \in TrashRoots \/ job.url # url) /\ ~Kept(job.url)))
  /\ url' = job.url
  /\ phase' = IF job.url # url THEN "moved" ELSE "take"
  /\ UNCHANGED <<world, emit, debounce, generation, listed, items, stopped, pending>>

\* The trash cannot be watched, and a listener of that error opens a folder, which done() then
\* takes for the one moved from, or stops.
DoneInError ==
  /\ phase = "loop" /\ job # NoJob /\ job.step = "done"
  /\ job.url \in TrashRoots /\ ~Kept(job.url)
  /\ generation < MaxCalls
  /\ generation' = generation + 1
  /\ listing' = job /\ unseen' = TRUE
  /\ pending' = FALSE /\ debounce' = FALSE
  /\ url' = job.url
  /\ \/ /\ \E f \in Listable :
            /\ job' = Job(f, generation', FALSE, f \notin TrashRoots /\ ~there[f])
            /\ IF f = listing'.url
               THEN phase' = "take" /\ Unwatch /\ retry' = TRUE
               ELSE phase' = "moved" /\ WatchDirectory(listing'.url, FALSE)
       /\ items' = Nothing /\ listed' = FALSE /\ stopped' = FALSE
     \/ /\ job' = NoJob /\ phase' = "take" /\ Unwatch /\ retry' = TRUE /\ stopped' = TRUE
        /\ UNCHANGED <<items, listed>>
  /\ UNCHANGED <<world, emit>>

TakeItems ==
  /\ phase \in {"moved", "take"}
  /\ IF phase = "take" \/ Still
     THEN /\ items' = (IF listing.error THEN Nothing
                       ELSE [folder |-> listing.url, version |-> listing.version])
          /\ phase' = "items"
     ELSE phase' = "loop" /\ UNCHANGED items
  /\ UNCHANGED <<world, watching, debounce, url, generation, listed, stopped, pending, job, listing, unseen>>

Complete ==
  /\ phase = "items"
  /\ phase' = IF Still THEN "told" ELSE "loop"
  /\ listed' = (listed \/ (Still /\ ~listing.error))
  /\ UNCHANGED <<world, watching, debounce, url, generation, items, stopped, pending, job, listing, unseen>>

\* A refresh that was put off is made up for.
Again ==
  /\ phase = "told"
  /\ phase' = "loop" /\ listing' = NoJob
  /\ IF Still /\ pending
     THEN Refresh(FALSE)
     ELSE UNCHANGED <<pending, job, watched, deaf, valid, queued, retry>>
  /\ UNCHANGED <<world, emit, debounce, view, unseen>>

-----------------------------------------------------------------------------
(* The loop's other events.                                                *)

\* FileWatcher::noticed, once for the events the kernel reported together.
Notice ==
  /\ phase = "loop" /\ queued # {}
  /\ queued' = {} /\ emit' = TRUE
  /\ valid' = (valid /\ "gone" \notin queued)
  /\ UNCHANGED <<world, watched, deaf, retry, debounce, view, pending, job, phase, listing, unseen>>

Emit ==
  /\ phase = "loop" /\ emit
  /\ emit' = FALSE /\ debounce' = TRUE
  /\ UNCHANGED <<world, queued, watched, deaf, valid, retry, view, pending, job, phase, listing, unseen>>

Debounce ==
  /\ phase = "loop" /\ debounce
  /\ debounce' = FALSE
  /\ Refresh(pending)
  /\ UNCHANGED <<world, emit, view, phase, listing, unseen>>

\* A repeating timer: Refresh may stop it.
Retry ==
  /\ phase = "loop" /\ retry
  /\ Refresh(pending)
  /\ UNCHANGED <<world, emit, debounce, view, phase, listing, unseen>>

-----------------------------------------------------------------------------
(* Other programs.                                                         *)

Unheard == <<watched, valid, emit, debounce, retry, view, pending, job, phase, listing, unseen>>

Change ==
  /\ \E f \in Listable :
       /\ there[f] /\ disk[f] < MaxChanges[f]
       /\ disk' = [disk EXCEPT ![f] = @ + 1]
       /\ queued' = IF watched = f /\ ~deaf THEN queued \cup {"changed"} ELSE queued
  /\ UNCHANGED <<there, deaf>> /\ UNCHANGED Unheard

\* Removed or made anew, the folder changes and so does Top, where its name is watched too.
AppearOrVanish ==
  /\ \E f \in Folders \ TrashRoots :
       /\ disk[f] < MaxChanges[f] /\ disk[Top] < MaxChanges[Top]
       /\ there' = [there EXCEPT ![f] = ~@]
       /\ disk' = [disk EXCEPT ![f] = @ + (IF there[f] THEN 0 ELSE 1), ![Top] = @ + 1]
       /\ queued' = queued \cup (IF watched = f THEN {IF there[f] THEN "gone" ELSE "changed"}
                                 ELSE IF watched = Top THEN {"changed"} ELSE {})
       /\ deaf' = (deaf \/ (watched = f /\ there[f]))
  /\ UNCHANGED Unheard

User == UpdateDirectory \/ OpenUrl \/ Stop
Pool == JobStat \/ JobList
Loop == Done \/ DoneInError \/ TakeItems \/ Complete \/ Again \/ Notice \/ Emit \/ Debounce \/ Retry

Next == User \/ Pool \/ Loop \/ Change \/ AppearOrVanish

Spec == Init /\ [][Next]_vars

\* The pool runs every job, the loop every event that waits.
FairSpec ==
  /\ Spec
  /\ WF_vars(JobStat) /\ WF_vars(JobList) /\ WF_vars(Done \/ TakeItems \/ Complete \/ Again)
  /\ WF_vars(Notice) /\ WF_vars(Emit) /\ WF_vars(Debounce) /\ WF_vars(Retry)

-----------------------------------------------------------------------------
(* Properties.                                                             *)

\* Every variable holds a value of its kind.
TypeOK ==
  /\ disk \in [Listable -> Nat] /\ there \in [Listable -> BOOLEAN]
  /\ queued \subseteq {"changed", "gone"} /\ watched \in Listable \cup {None}
  /\ valid => watched # None
  /\ url \in Listable \cup {None} /\ generation \in 0 .. MaxCalls
  /\ phase \in {"loop", "moved", "take", "items", "told"}
  /\ phase # "loop" => listing.step = "done"

\* The items shown are those of the folder that is open, whatever listeners of the lister's
\* signals opened meanwhile; a stop() from the signal of a move keeps the folder's last items.
ItemsOfUrl == phase # "moved" /\ ~stopped /\ items # Nothing => items.folder = url

\* A refresh put off is never forgotten: a listing runs, or one is being handed over.
PendingKept == pending => job # NoJob \/ (phase # "loop" /\ Still)

\* A call made from a listener of the lister's signals leaves it with the folder it opened last.
Reentrant == ItemsOfUrl /\ PendingKept

Fresh == there[url] /\ items = [folder |-> url, version |-> disk[url]]

\* The view ends up with what is on the disk once changes stop, unless its last listing began
\* before its folder was watched.
FreshIfWatched == <>[](url # None /\ ~stopped /\ ~unseen => Fresh)

\* "Lists a folder, or the whole trash for trash:/ [...] and keeps the listing up to date"
\* (directory_lister.h:23).
KeepsUpToDate == <>[](url # None /\ ~stopped /\ there[url] => Fresh)
=============================================================================
