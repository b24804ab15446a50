------------------------ MODULE DirectoryListerProofs ------------------------
(***************************************************************************)
(* Proofs about DirectoryLister for every set of folders and number of     *)
(* calls: the view and the refreshes put off survive every call that a     *)
(* listener makes from within the lister's signals.  What makes the        *)
(* invariant inductive is that a listing under way is of the generation    *)
(* that is current, and that one being handed over is of the folder that   *)
(* is open unless the generation has moved on.                             *)
(***************************************************************************)
EXTENDS DirectoryLister, TLAPS

Jobs == [step : {"stat", "list", "done"}, generation : Nat, url : Listable, listed : BOOLEAN,
         unwatched : BOOLEAN, version : Nat, error : BOOLEAN]

WatchTypes ==
  /\ queued \subseteq {"changed", "gone"} /\ watched \in Listable \cup {None}
  /\ valid => watched # None

Types ==
  /\ disk \in [Listable -> Nat] /\ there \in [Listable -> BOOLEAN]
  /\ url \in Listable \cup {None} /\ generation \in 0 .. MaxCalls
  /\ listed \in BOOLEAN /\ pending \in BOOLEAN
  /\ items \in [folder : Listable \cup {None}, version : Nat]
  /\ job \in Jobs \cup {NoJob} /\ listing \in Jobs \cup {NoJob}
  /\ phase \in {"loop", "moved", "take", "items", "told"}
  /\ phase # "loop" => listing # NoJob /\ listing.step = "done"

\* A job is of the generation that is current; so is a listing handed over, or the lister has
\* moved on to another folder or was stopped.
Current ==
  /\ job # NoJob => job.generation = generation /\ url # None
  /\ phase # "loop" => /\ listing.generation <= generation
                       /\ Still \/ phase = "take" => listing.url = url

\* A listener called by the signal of a move has left nothing of the folder moved from.
Shown ==
  /\ ItemsOfUrl
  /\ phase = "moved" /\ ~Still /\ ~stopped => items = Nothing

Inv == WatchTypes /\ Types /\ Current /\ Shown /\ PendingKept

-----------------------------------------------------------------------------
(* Jobs and watches.                                                       *)

LEMMA Basics ==
  /\ Top \in Listable /\ None \notin Listable /\ Folders \subseteq Listable
  /\ Nothing \in [folder : Listable \cup {None}, version : Nat] /\ Nothing.folder = None
  /\ NoJob.step = "none" /\ NoJob \notin Jobs
BY ListerAssumption DEF Listable, Nothing, NoJob, Jobs

LEMMA NewJob ==
  ASSUME NEW f \in Listable, NEW opened \in Nat, NEW was \in BOOLEAN, NEW unwatched \in BOOLEAN
  PROVE  /\ Job(f, opened, was, unwatched) \in Jobs
         /\ Job(f, opened, was, unwatched).generation = opened /\ Job(f, opened, was, unwatched).url = f
BY DEF Job, Jobs

\* FileWatcher::watch and clear() leave a watch that is valid only on a folder.
LEMMA Watches ==
  ASSUME WatchTypes, NEW f \in Listable, NEW keep \in BOOLEAN,
         Watch(f, keep) \/ WatchDirectory(f, keep) \/ Unwatch
  PROVE  WatchTypes'
BY Basics DEF WatchTypes, WatchDirectory, Watch, Unwatch, Kept

\* refresh(): a job of this generation, or what there was, and the refresh is put off only
\* behind a job.
LEMMA Refreshed ==
  ASSUME WatchTypes, Types, NEW waiting \in BOOLEAN, Refresh(waiting)
  PROVE  /\ WatchTypes' /\ pending' \in BOOLEAN
         /\ job' = job \/ (job' \in Jobs /\ job'.generation = generation /\ url # None)
         /\ pending' => job' # NoJob \/ (waiting /\ job' = job)
<1> USE Basics DEF Types
<1>1. CASE url = None \/ job # NoJob
  BY <1>1 DEF Refresh, Pending, WatchTypes
<1>2. CASE url # None /\ job = NoJob
  <2>1. PICK unwatched \in BOOLEAN : unwatched = (url \notin TrashRoots /\ ~there[url])
    OBVIOUS
  <2>2. /\ pending' = waiting /\ job' = Job(url, generation, listed, unwatched)
        /\ UNCHANGED <<watched, deaf, valid, queued, retry>> \/ WatchDirectory(url, TRUE)
    BY <1>2, <2>1 DEF Refresh
  <2>3. job' \in Jobs /\ job'.generation = generation
    <3>1. url \in Listable /\ generation \in Nat /\ listed \in BOOLEAN
      BY <1>2, ListerAssumption
    <3> HIDE DEF Types
    <3> QED BY <2>2, <3>1, NewJob
  <2>4. WatchTypes'
    <3>1. ASSUME UNCHANGED <<watched, deaf, valid, queued, retry>> PROVE WatchTypes'
      BY <3>1 DEF WatchTypes
    <3>2. ASSUME WatchDirectory(url, TRUE) PROVE WatchTypes'
      BY <1>2, <3>2, Watches
    <3> QED BY <2>2, <3>1, <3>2
  <2> QED BY <1>2, <2>2, <2>3, <2>4
<1> QED BY <1>1, <1>2

-----------------------------------------------------------------------------
(* The invariant, action by action.                                        *)

\* What the watches hold is well formed, through every action that touches them.
LEMMA WatchStep == ASSUME Inv, Next PROVE WatchTypes'
<1> USE Basics DEF Inv
<1>1. CASE UpdateDirectory \/ Again \/ Debounce \/ Retry
  BY <1>1, Refreshed DEF UpdateDirectory, Again, Debounce, Retry, WatchTypes, Types
<1>2. CASE OpenUrl
  BY <1>2, Watches DEF OpenUrl
<1>3. CASE Stop
  BY <1>3, Watches DEF Stop
<1>4. CASE Done \/ DoneInError
  <2>1. job.url \in Listable
    BY <1>4 DEF Done, DoneInError, Types, Jobs
  <2>2. CASE Done
    BY <2>1, <2>2, Watches DEF Done, WatchTypes
  <2>3. CASE DoneInError
    <3>1. Unwatch \/ WatchDirectory(job.url, FALSE)
      BY <2>3 DEF DoneInError
    <3> QED BY <2>1, <3>1, Watches
  <2> QED BY <1>4, <2>2, <2>3
<1>5. CASE Notice
  BY <1>5 DEF Notice, WatchTypes
<1>6. CASE JobStat \/ JobList \/ TakeItems \/ Complete \/ Emit
  <2>1. UNCHANGED <<queued, watched, valid>>
    BY <1>6 DEF JobStat, JobList, TakeItems, Complete, Emit, watching
  <2> QED BY <2>1 DEF WatchTypes
<1>7. CASE Change \/ AppearOrVanish
  <2>1. UNCHANGED <<watched, valid>>
    BY <1>7 DEF Change, AppearOrVanish, Unheard
  <2>2. queued' \subseteq queued \cup {"changed", "gone"}
    BY <1>7 DEF Change, AppearOrVanish
  <2> QED BY <2>1, <2>2 DEF WatchTypes
<1> QED BY <1>1, <1>2, <1>3, <1>4, <1>5, <1>6, <1>7 DEF Next, User, Pool, Loop

LEMMA TypesStep == ASSUME Inv, Next PROVE Types'
<1> USE Basics, ListerAssumption DEF Inv, Types
<1>1. CASE UpdateDirectory \/ Again \/ Debounce \/ Retry
  <2>1. pending' \in BOOLEAN /\ job' \in Jobs \cup {NoJob}
    BY <1>1, Refreshed DEF UpdateDirectory, Again, Debounce, Retry
  <2>2. listing' = listing \/ (listing' = NoJob /\ phase' = "loop")
    BY <1>1 DEF UpdateDirectory, Again, Debounce, Retry
  <2> QED BY <1>1, <2>1, <2>2 DEF UpdateDirectory, Again, Debounce, Retry, world, view
<1>2. CASE OpenUrl
  <2>1. PICK f \in Listable, unwatched \in BOOLEAN : url' = f /\ job' = Job(f, generation', FALSE, unwatched)
    BY <1>2 DEF OpenUrl
  <2>2. generation' \in 0 .. MaxCalls /\ generation' \in Nat
    BY <1>2 DEF OpenUrl
  <2>3. job' \in Jobs
    BY <2>1, <2>2, NewJob
  <2> QED BY <1>2, <2>1, <2>2, <2>3 DEF OpenUrl, world
<1>3. CASE Stop
  <2>1. generation' \in 0 .. MaxCalls /\ generation' \in Nat
    BY <1>3 DEF Stop
  <2>2. pending' = FALSE /\ UNCHANGED <<disk, there, url, listed, items, phase, listing>>
    BY <1>3 DEF Stop, world
  <2>3. job' \in Jobs \cup {NoJob}
    <3>1. CASE job' = NoJob
      BY <3>1
    <3>2. CASE MayFail /\ job' = Job(url, generation', listed, FALSE)
      <4>1. url \in Listable /\ listed \in BOOLEAN
        BY <3>2 DEF MayFail
      <4> QED BY <2>1, <3>2, <4>1, NewJob
    <3> QED BY <1>3, <3>1, <3>2 DEF Stop
  <2> QED BY <2>1, <2>2, <2>3
<1>4. CASE JobStat
  <2>1. PICK target \in Listable : job' = [job EXCEPT !.step = "list", !.url = target, !.version = disk[target]]
    BY <1>4 DEF JobStat, NoJob, Jobs
  <2>2. job \in Jobs /\ disk[target] \in Nat
    BY <1>4 DEF JobStat
  <2>3. job' \in Jobs
    BY <2>1, <2>2 DEF Jobs
  <2> QED BY <1>4, <2>3 DEF JobStat, world, view
<1>5. CASE JobList
  <2>1. job \in Jobs /\ disk[job.url] \in Nat /\ job.version \in Nat /\ there[job.url] \in BOOLEAN
    BY <1>5 DEF JobList, Jobs
  <2>2. PICK v \in job.version .. disk[job.url] :
          job' = [job EXCEPT !.step = "done", !.version = v, !.error = ~there[job.url]]
    BY <1>5 DEF JobList
  <2>3. PICK error \in BOOLEAN : error = ~there[job.url]
    OBVIOUS
  <2>4. v \in Nat /\ job' = [job EXCEPT !.step = "done", !.version = v, !.error = error]
    BY <2>1, <2>2, <2>3
  <2>5. job' \in Jobs
    BY <2>1, <2>4 DEF Jobs
  <2> QED BY <1>5, <2>5 DEF JobList, world, view
<1>6. CASE Done
  BY <1>6 DEF Done, world, Jobs
<1>7. CASE TakeItems
  BY <1>7 DEF TakeItems, world, Jobs
<1>8. CASE Complete
  BY <1>8 DEF Complete, world
<1>9. CASE Notice \/ Emit
  BY <1>9 DEF Notice, Emit, world, view
<1>10. CASE Change
  BY <1>10 DEF Change, Unheard, view
<1>11. CASE AppearOrVanish
  BY <1>11 DEF AppearOrVanish, Unheard, view
<1>12. CASE DoneInError
  <2>1. generation' \in 0 .. MaxCalls /\ generation' \in Nat
    BY <1>12 DEF DoneInError
  <2>2. job \in Jobs /\ job.step = "done" /\ job.url \in Listable
    BY <1>12 DEF DoneInError, Jobs
  <2>3. job' \in Jobs \cup {NoJob}
    <3>1. ASSUME NEW f \in Listable, job' = Job(f, generation', FALSE, f \notin TrashRoots /\ ~there[f])
          PROVE  job' \in Jobs
      <4>1. PICK unwatched \in BOOLEAN : unwatched = (f \notin TrashRoots /\ ~there[f])
        OBVIOUS
      <4> QED BY <2>1, <3>1, <4>1, NewJob
    <3> QED BY <1>12, <3>1 DEF DoneInError
  <2>4. /\ listing' = job /\ pending' = FALSE /\ url' = job.url /\ phase' \in {"take", "moved"}
        /\ items' \in {items, Nothing} /\ listed' \in {listed, FALSE} /\ UNCHANGED <<disk, there>>
    BY <1>12 DEF DoneInError, world
  <2> QED BY <2>1, <2>2, <2>3, <2>4
<1> QED
  BY <1>1, <1>2, <1>3, <1>4, <1>5, <1>6, <1>7, <1>8, <1>9, <1>10, <1>11, <1>12
     DEF Next, User, Pool, Loop

LEMMA CurrentStep == ASSUME Inv, Next PROVE Current'
<1> USE Basics, ListerAssumption DEF Inv, Types, Current, Still
<1>1. CASE UpdateDirectory \/ Again \/ Debounce \/ Retry
  <2>1. job' = job \/ (job' \in Jobs /\ job'.generation = generation /\ url # None)
    BY <1>1, Refreshed DEF UpdateDirectory, Again, Debounce, Retry
  <2> QED BY <1>1, <2>1 DEF UpdateDirectory, Again, Debounce, Retry, view
<1>2. CASE OpenUrl
  <2>1. PICK f \in Listable, unwatched \in BOOLEAN : url' = f /\ job' = Job(f, generation', FALSE, unwatched)
    BY <1>2 DEF OpenUrl
  <2>2. job'.generation = generation'
    BY <2>1 DEF Job
  <2>3. phase' = phase /\ listing' = listing /\ generation' = generation + 1 /\ phase # "take"
    BY <1>2 DEF OpenUrl, Called
  <2>4. phase # "loop" => listing.generation \in Nat
    BY DEF Jobs
  <2>5. (job # NoJob => job.generation = generation /\ url # None)'
    BY <2>1, <2>2
  <2>6. (phase # "loop" => listing.generation <= generation /\ ~Still /\ phase # "take")'
    BY <2>3, <2>4
  <2> QED BY <2>5, <2>6
<1>3. CASE Stop
  <2>1. phase' = phase /\ listing' = listing /\ generation' = generation + 1 /\ url' = url /\ phase # "take"
    BY <1>3 DEF Stop, Called
  <2>2. phase # "loop" => listing.generation \in Nat
    BY DEF Jobs
  <2>3. job' # NoJob => job'.generation = generation' /\ url # None
    BY <1>3 DEF Stop, MayFail, Job
  <2> QED BY <2>1, <2>2, <2>3
<1>4. CASE JobStat \/ JobList
  <2>1. job # NoJob /\ job'.generation = job.generation
    BY ZenonT(60), <1>4 DEF JobStat, JobList, NoJob, Jobs
  <2> QED BY <1>4, <2>1 DEF JobStat, JobList, view
<1>5. CASE Done
  BY <1>5 DEF Done, Jobs
<1>6. CASE TakeItems \/ Complete
  BY <1>6 DEF TakeItems, Complete
<1>7. CASE Notice \/ Emit \/ Change \/ AppearOrVanish
  BY <1>7 DEF Notice, Emit, Change, AppearOrVanish, Unheard, view
<1>8. CASE DoneInError
  <2>1. /\ listing' = job /\ generation' = generation + 1 /\ url' = job.url
        /\ job \in Jobs /\ job.generation = generation /\ url # None /\ job.url \in Listable
    BY <1>8 DEF DoneInError, Jobs
  <2>2. job' # NoJob => job'.generation = generation'
    <3>1. ASSUME NEW f \in Listable, job' = Job(f, generation', FALSE, f \notin TrashRoots /\ ~there[f])
          PROVE  job'.generation = generation'
      BY <3>1 DEF Job
    <3> QED BY <1>8, <3>1 DEF DoneInError
  <2> QED BY <2>1, <2>2
<1> QED BY <1>1, <1>2, <1>3, <1>4, <1>5, <1>6, <1>7, <1>8 DEF Next, User, Pool, Loop

LEMMA ShownStep == ASSUME Inv, Next PROVE Shown'
<1> USE Basics, ListerAssumption DEF Inv, Types, Current, Still, Shown, ItemsOfUrl
<1>1. CASE UpdateDirectory \/ Again \/ Debounce \/ Retry
  BY <1>1 DEF UpdateDirectory, Again, Debounce, Retry, view
<1>2. CASE OpenUrl \/ Stop
  BY <1>2 DEF OpenUrl, Stop
<1>3. CASE JobStat \/ JobList \/ Notice \/ Emit
  BY <1>3 DEF JobStat, JobList, Notice, Emit, view
<1>4. CASE Done
  BY <1>4 DEF Done
<1>5. CASE TakeItems
  BY <1>5 DEF TakeItems
<1>6. CASE Complete
  BY <1>6 DEF Complete
<1>7. CASE Change \/ AppearOrVanish
  BY <1>7 DEF Change, AppearOrVanish, Unheard, view
<1>8. CASE DoneInError
  BY <1>8 DEF DoneInError
<1> QED BY <1>1, <1>2, <1>3, <1>4, <1>5, <1>6, <1>7, <1>8 DEF Next, User, Pool, Loop

LEMMA PendingStep == ASSUME Inv, Next PROVE PendingKept'
<1> USE Basics, ListerAssumption DEF Inv, Types, Current, Still, PendingKept
<1>1. CASE UpdateDirectory
  BY <1>1, Refreshed DEF UpdateDirectory, view
<1>2. CASE Debounce \/ Retry
  BY <1>2, Refreshed DEF Debounce, Retry, view
<1>3. CASE Again
  BY <1>3, Refreshed DEF Again, view
<1>4. CASE OpenUrl \/ Stop \/ DoneInError
  BY <1>4 DEF OpenUrl, Stop, DoneInError
<1>5. CASE JobStat \/ JobList
  <2>1. job'.step # "none"
    BY ZenonT(60), <1>5 DEF JobStat, JobList, NoJob, Jobs
  <2> QED BY <1>5, <2>1 DEF JobStat, JobList, view
<1>6. CASE Done
  BY <1>6 DEF Done
<1>7. CASE TakeItems \/ Complete
  BY <1>7 DEF TakeItems, Complete
<1>8. CASE Notice \/ Emit \/ Change \/ AppearOrVanish
  BY <1>8 DEF Notice, Emit, Change, AppearOrVanish, Unheard, view
<1> QED BY <1>1, <1>2, <1>3, <1>4, <1>5, <1>6, <1>7, <1>8 DEF Next, User, Pool, Loop

LEMMA InvInit == Init => Inv
<1> SUFFICES ASSUME Init PROVE Inv
  OBVIOUS
<1> USE Basics, ListerAssumption DEF Init
<1>1. WatchTypes
  BY DEF WatchTypes
<1>2. Types
  <2>1. disk \in [Listable -> Nat] /\ generation \in 0 .. MaxCalls
    OBVIOUS
  <2> QED BY <2>1 DEF Types
<1>3. Current /\ Shown /\ PendingKept
  BY DEF Current, Shown, ItemsOfUrl, PendingKept
<1> QED BY <1>1, <1>2, <1>3 DEF Inv

LEMMA InvSame == ASSUME Inv, UNCHANGED vars PROVE Inv'
BY DEF vars, Inv, WatchTypes, Types, Current, Shown, ItemsOfUrl, PendingKept, Still

\* The inductive invariant holds whatever is opened and stopped, and when.
THEOREM InvAlways == Spec => []Inv
<1>1. Inv /\ [Next]_vars => Inv'
  BY WatchStep, TypesStep, CurrentStep, ShownStep, PendingStep, InvSame DEF Inv
<1> QED BY <1>1, InvInit, PTL DEF Spec

-----------------------------------------------------------------------------
(* What follows.                                                           *)

\* The lister's state is well formed through every listing, watch and call of a listener.
THEOREM TypeCorrect == Spec => []TypeOK
<1>1. Inv => TypeOK
  BY DEF Inv, WatchTypes, Types, TypeOK
<1> QED BY <1>1, InvAlways, PTL

\* The generation that done() compares after each signal it emits is enough: a listener that
\* opens another folder, stops or refreshes leaves neither the items of the folder left nor a
\* refresh that was put off and is made up for by nobody.
THEOREM ReentrantCorrect == Spec => []Reentrant
<1>1. Inv => Reentrant
  BY DEF Inv, Shown, Reentrant
<1> QED BY <1>1, InvAlways, PTL
=============================================================================
