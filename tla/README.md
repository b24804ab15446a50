# A TLA+ development of cutefish-framework

The framework is a set of C++ libraries a desktop is built from: file operations and their
undo history, directory listings and their watches, the trash, removable volumes, thumbnails,
and clients of the system's services (BlueZ, NetworkManager, PipeWire, the display server,
accounts, power). What makes the code hard is the same everywhere: a user-interface thread
with an event loop, worker threads, other processes that change the same files or own the
same bus names, and objects that may be destroyed inside their own callbacks. The modules
here model that control and abstract the data.

Each component has a module of its own. The larger ones have an MC module and configurations
that TLC checks; the clients of the desktop's services, and what follows the file system, share
two: in `MCNetwork` and `MCDesktop` the first state picks a component. The components of the core,
and two of the clients, also have a module of proofs that TLAPS checks.

| Module | Models | Checked by | Proved |
|---|---|---|---|
| `Task`, `TaskPromise` | one file task: UI thread, worker, lock, loop | `task`, `task_start` | `TaskProofs` |
| `History` | undo and redo of `TaskController` | `history`, `history_fork` | `HistoryProofs` |
| `LocalFileSystem` | one copy, link, move or change of case | `file_system` | `LocalFileSystemProofs` |
| `Trash` | one trash folder used by several processes | `trash` | `TrashProofs` |
| `TrashPlaces` | which trash an item goes to, emptying all of them | `desktop` | |
| `DirectoryLister` | a listing, its watch, its refreshes | `lister`, `lister_stale` | `DirectoryListerProofs` |
| `VolumeManager` | volumes and operations on UDisks2 | `desktop` | `VolumeManagerProofs` |
| `HelperPool` | `runOnFreeThreads()` and its threads | `helpers`, `helpers_start` | `HelperPoolProofs` |
| `DirectoryModel` | the rows of a listing, and a view of them | `desktop` | |
| `Thumbnails` | the cache of thumbnails, shared by processes | `desktop` | |
| `Thumbnailers` | the programs that make thumbnails | `desktop` | |
| `TrashMonitor` | whether the trash is empty, and its watch | `desktop` | |
| `BluezDiscovery` | BlueZ's adapters, discovery on them | `network` | |
| `BluezPairing` | operations on devices, the pairing agent | `network` | |
| `NetworkCache` | profiles and permissions as `Client` has them | `network` | |
| `Activations` | joining a network, the hotspot | `network` | |
| `RememberedNetworks` | access points that aged out | `network` | |
| `NetworkRows` | the rows of the network lists | `network` | |
| `SecretReading` | a VPN's secrets from the keyring | `network` | `SecretReadingProofs` |
| `ProfileForms` | saving, adding, importing profiles | `network` | |
| `AudioRegistry` | PipeWire's objects, the default sink, levels | `network` | |
| `AudioRoutes` | a card's profile, routes and volumes | `network` | |
| `Accounts` | the list of accounts | `desktop` | |
| `DisplayConfig` | the compositor's state, applying a draft | `desktop` | |
| `DisplayDraft` | what a draft of the displays holds | `desktop` | |
| `SettingMirror` | one setting, by nine clients | `desktop` | |

`PROJECT.json` maps every definition that models code to the lines it stands for, and lists
the runs, the mutants that show each property can fail, the findings, the hazards and the
theorems.

## 1. Inventory

### Files (`src/files`)

**File tasks** (`task.h`, `task.cpp`). A `Task` carries out one request on a thread of its
own. State: `m_state`, the context shared with the worker (`canceled`), the conflict fields
under `m_conflictMutex` (`m_pendingConflict`, `m_resolved`, `m_resolution`,
`m_resolutionForAll`), and the closures posted to the loop. Operations: `start`, `cancel`,
`resolveConflict`, the destructor, the worker's `execute`. The worker says everything by
posting closures; they hold a weak pointer, and the destructor cancels and joins. Hard: answers
that come late or twice, a cancel between a predicate and a wait, destruction inside any
signal, an outcome posted by a thread that has not ended. Correct when: answers settle the
conflict they answer, the outcome is the worker's, nothing outlives the destructor, every task
ends. `TaskController` adds `m_undo` and `m_redo` and records each task when it ends. Hard:
partly done undos, tasks that overlap, entries whose items were emptied from the trash.

**Local file system** (`local_file_system.cpp`, with `error.*`, `operation_context.*`,
`posix_p.h`). No state but the disk. `copy`, `link` and `move` work under a temporary name and
publish with one rename, across volumes by copy, sync and removal. Hard: each system call can
fail, other programs use the same names, the process is killed, power is cut with the copy in
the page cache. Correct when no data is lost, nothing half-made shows, nothing is replaced that
was not to be.

**Trash** (`trash.cpp`, `trash_directory.cpp`). A folder `files`, a folder `info` and the cache
`directorysizes`, under a lock file that processes of this library take and other
implementations do not. Operations: trash, restore, remove, empty. Hard: two folders that must
agree through crashes; and which trash, when volumes are mounted twice, over one another or as
subvolumes, and change while all trashes are emptied. Correct when each item can go back where it
came from, and is in a trash that is listed.

**Directory lister** (`directory_lister.*`, `file_watcher.*`, `file_enumerator.*`). State: the
URL, the items, a generation, a pending mark, a debounce and a retry timer, an inotify watch, a
job on a pool thread. Hard: listings that end after the URL changed, listeners that navigate,
folders that change while they are listed, or are removed and remade. Correct when the items
are those of the URL and end up current.

**Helper threads** (`async_p.*`). A process-wide pool of threads and a queue;
`runOnFreeThreads()` spreads a body over those free right now. Hard: lost wakeups, work queued
behind work that waits for it, exceptions while helpers use the caller's stack.

**Volume manager** (`volume_manager.*`). The list of volumes, one query at a time with a
generation, operations of several steps (`m_pending`), all over UDisks2 on D-Bus. Hard: UDisks2
restarts, a drive is pulled, signals overlap with listings, and a step of several fails.

**Directory model** (`directory_model.*`, `background_release.h`). The rows of a view, kept in
step with a lister by insertions, removals and changes. Hard: what is told must fit the rows at
that moment, two files can have one URL. Correct when a view that applies the signals in order
shows the lister's items. **Trash monitor** (`trash_monitor.*`): one boolean kept by the lister's
pattern of watch, debounce and retry, over trashes that come and go with their volumes.

**Thumbnails** (`thumbnails/`): a cache on disk shared by threads and processes, entries checked
against the file's time and size, and failures remembered. Hard: the file changes between the
reading of its time and its decoding; directories are cleared while they are filled. Correct when
an entry that passes for the file's is of what the file has now. The thumbnailers are programs
found in folders that packages change, and run as children that may hang. **Listing and types**
(`file_item`, `mime_types`, `mime_sniffer`): functions of files' contents and of a type database.
**Paths and URLs** (`url`, `file_path`, `file_system_url`): text conversions.

### Clients (`src/clients`)

**BlueZ** (`bluez/manager.*`, `bluetooth_object.*`, `devices_model.*`): a mirror of BlueZ's
objects built from one reply and the signals replayed after it, discovery sessions per adapter
with three retries, a pairing agent, one prompt at a time with a 120 s limit, and operations on
a device (pair, trust, connect). Hard: replies to calls about objects that left and came back,
listeners that start operations from a signal. Correct when, at rest, discovery runs exactly
where it is wanted, nothing is busy, and each prompt was answered once.

**NetworkManager** (`networkmanager/client.*`, `handler.*`, `network_model.*`, `connections.*`,
`hotspot.*`, `secret_reader.*`): a cache of objects and profiles in which only the newest
`GetSettings` reply counts; joining a network with a profile that is removed unless it ever
connects; remembered access points; forms that save whole profiles; secrets from a keyring that
may have to be unlocked; switches whose written values a stale cache must not undo; rows worked
out from all of it. **NetworkManager forms** (`vpn_*`, `ip_utils`, `inet`, most of `wifi_utils`):
conversions.

**Audio** (`audio/`): PipeWire's registry, default devices, reconnection after a second, a card's
parameters read again by serial, volumes that come from a node and from its card's route.
**Display** (`display/`): snapshots of the compositor's state, an apply that ends by its reply,
by `OperationFinished` or by the state that shows it, previews the compositor reverts unless
confirmed, a draft that must stay applicable; the night light. **Accounts** (`accounts/`): one
shared object per account, requests and deletions numbered so that a late reply does not bring a
deleted account back; setters whose value shows until every call in flight is answered.
**Settings and power** (`appearance`, `timedate`, `powerprofiles`, `upower`): mirrors of D-Bus
properties.

### How the parts interact

The controller runs tasks; a task calls the local file system and the trash, and both report
conflicts back to it and test its `canceled`. The trash moves items by the local file system's
steps. The lister enumerates on a pool job, which spreads its blocks over the helper threads,
and the model follows the lister's signals. History entries are requests again. The trash monitor
and the lister use the same `FileWatcher`; the thumbnail cache calls the thumbnailers for what it
cannot decode. Among the clients, the forms, the rows and the activations of NetworkManager all
read `Client`'s cache and write through NetworkManager, and a draft of the displays becomes a
request of the display client. Otherwise clients share nothing but the loop and the bus.

## 2. What each module says

Names follow the source where TLA+ allows it. One action is one stretch of code no other actor
can observe the middle of: a handler on the loop, the body of a lock, one system call.

### Task

The UI thread runs the closures of `queue` and the calls of the caller or of listeners;
`frame` is the emission it is inside of and `call` what the current member function has still
to do, so that a listener's call nests as in the code. The worker goes through `execute()`:
it scans, asks about conflicts, waits on the condition (`Check`, `Block`, `SpuriousWakeup`,
`Relock`), settles, completes sources, unwinds, posts its outcome and exits; `mutex` is held from
one of its steps to the next only inside the wait. What an operation does to the disk is a
choice of completed, failed or cancelled.

- `AnswersHonoured`: a source's conflict is settled by the request's policy, by the answer to
  its own conflict id, or by an earlier answer for all.
- `OutcomeHonest`: the state reported is the worker's outcome; reported once, after the thread
  ended.
- `NoUseAfterDestroy`: neither the worker nor the rest of an emission uses a destroyed task.
- `KeepsPromise`: refinement of `TaskPromise`, a task as its caller sees it.
- `CancelEnds`, `UnattendedFinishes`: a cancelled task ends; so does one nobody answers.

Run `task`: three sources (one to ask about, one in between, one that an answer for all
settles). Run `task_start`, a finding: a listener of `stateChanged(Running)` may destroy the
task; `start()` goes on with its members.

Fairness: weak for the worker and for the loop, because the scheduler runs both; strong for
`ConflictArrives`, which needs the mutex: a worker that wakes spuriously takes it again and
again, and a mutex is not withheld forever. Neither users nor spurious wakeups are fair.

### History

An item is in a folder, in the trash with the folder it came from, absent or gone. A request
moves a set of items from one place to another, and is its own kind of history entry. A task
moves its items one by one, can skip, merge, fail or be cancelled anywhere, and is recorded
when its finish closure reaches the loop; `Record` is the whole of `record()`, with inverses,
remainders, `forgetTrashes()` and trimming.

- `HistoryReplays`: with one task at a time, every entry finds its items where it takes them
  from, and undoing everything puts each back. What cannot be taken back (a merge, an
  EmptyTrash that drops part of an entry, a restore of an item that left the trash)
  ends the claim by clearing `coherent`.
- `EmptiedForgotten`: no entry restores an item the trash was emptied of.
- `HistoryBounded`: a stack exceeds `kMaxHistory`, by entries that cancelled undos give back, by
  fewer than the tasks alive. The run has one task; for any number it is a theorem.
- `FreshForks` (run `history_fork`, a finding): an undo under way when a fresh operation is
  submitted is recorded on the redo stack afterwards, which the comment at `task.cpp:510`
  excludes.

Bounds: `history` has two items, two folders, one task at a time and a history of two, so that
entries are trimmed, split by cancelling and overlap in their items. Two items with two tasks
exceed what TLC does in five minutes; `history_fork` needs two tasks and stops early.

### LocalFileSystem

One call from its start to its end. Items have parts (the extents of a file, the children of a
folder), each of the source, the copy, what was there before, or another program's. `pc` is the
place between two system calls. `Stop` (a checkpoint finds `canceled`), `SyscallFails`, `Killed`,
`PowerCut` (what is not `synced` may vanish), `OtherAppears` and `OtherVanishes` are enabled
where the code allows them.

- `SourceSafe`: at every moment the source is whole, or a move put a whole one somewhere.
- `NoOverwrite`: only policy Replace puts anything in the place of something else, only at the
  destination, and with what is already on the disk.
- `NoDebris`, `PublishedWhole`, `CanceledUntouched`, `DoneIsDone`: no temporary is left, no copy
  in the making shows, a cancelled call changed nothing but merged parts, a done one is done.

Bounds: two parts are enough for a copy or removal that is half done, three names for a first
and a second choice taken. The last name stays free, as the code's bound of names is not
reached. Other programs do not change the source: that a source written to during a move
across volumes loses what was written after it was copied is beyond the code. Not claimed for
the change of case: its way back is a plain rename, and a kill between the two renames leaves
the hidden name (`SourceSafe` counts it as safe, `NoDebris` leaves it out).

### Trash

Processes call under `lock`; `pc` is the place between two system calls. A copy into the trash
is one step that brings the item in and one that removes the source, as `LocalFileSystem` shows.
What a call is asked for is chosen when it has the lock, since nothing depends on it before.
`Fails` stands for failures and checkpoints alike. A kill during the copy into the trash would
also leave a part under a temporary name; that part is left out.

- `InfoNamesOrigin`: each item in the trash has a written, synced info file naming its origin.
- `NothingLost`: each item is outside, in the trash, or was discarded on request.
- `TidyAtRest`: no orphaned info file and no stale size, unless a call was killed or failed.

Bounds: two processes, two places of the same file name, two items, and two names in the trash
so that the second item takes an identifier. Other implementations write sizes and move things
out; they take no lock, and do not write info files here.

### TrashPlaces

`table` is the mount table in its order, `volume` what is at the top of each volume, `at` and `from`
where each item is and was. A folder is named by the mount point (or subvolume) it is at the top of, and
what the name leads to is looked up when it is used, as by the code: `emptyTrash()` goes on with
paths whose volumes may have left since. An operation on one trash is a step; `Trash` has its inside.

The run is `desktop`, parts `places` (a disk and a volume of a type that holds no trash, one item, two
mount points, two mounts, one event of the administrator) and `parts` (a disk with a subvolume, no event).
Two mounts are what it takes to mount a volume twice or to hide another one.

- `ListedOnce`: an item in a volume's trash is in exactly one of the trashes listed, wherever and however
  often the volume is mounted by then.
- `NotOnThose`: nothing is thrown away on a volume whose type holds no trash.
- `EmptiesOthers`: a run of `emptyTrash()` that is not cancelled leaves nothing of what it began with but in
  trashes that failed or went.

Left out of `ListedOnce`: a shared `.Trash` that is no longer sticky, and, on kernels that do not tell
the roots of mounts, a trash at the top of a subvolume, which items go to and the listing does not show.

### DirectoryLister

`disk` counts the versions of each folder's contents, `items` is what was last taken over.
`JobStat` and `JobList` run on the pool, every other step on the loop; `phase` is the signal
`done()` is inside of, where the user (a listener) may open, stop or refresh. A watch that cannot
be set is an error that listeners hear inside `watchDirectory()` (`file_watcher.cpp:124`): what one
calls there is done before the outer call goes on, in one step with it (`inError` of `OpenUrl`,
`MayFail` in `Stop`, `DoneInError`). Then a `stop()` is undone by the refresh it was called in, and
`done()` takes the folder opened for the one it moved from; both heal, and the properties hold.
The lister shows an error once (`reportError()`); the model lets each be heard. `base::Job` is
outside the repository: a job assigned over another is taken to cancel it.

- `Reentrant` (`ItemsOfUrl` and `PendingKept`): the items are those of the open folder, a refresh put off is not
  forgotten.
- `FreshIfWatched`: once changes stop, the items are current, unless the last listing began
  before its folder was watched.
- `KeepsUpToDate` (run `lister_stale`, a finding): without that exception it is false, for the
  trash and for a folder moved to.

Fairness is weak for pool jobs and for each handler of the loop; users and other programs are
not fair. Bounds: a folder, its parent and the trash, two changes of each (one of the trash), two calls: a change
during a listing, one after it, and a removal and return need no more.

### VolumeManager

`disk` is what UDisks2 would say, `volumes` what the manager lists, `op` the operation of each
volume with the steps left, `query` the listing under way. Replies and signals arrive in any
order, which D-Bus does not do to one sender's messages: the model has more behaviours than the code.
A lost listing (`lost`) is not repeated until the next signal, as in the code.

The run is `desktop`, parts `open` (two plain volumes) and `sealed` (a plain and an encrypted one).

- `OneReport`: each call is reported exactly once. `FinishedDid`: "finished" is told only of
  what happened. `OneAtATime`: one operation per drive, unless its volume left the list.
  `UpToDate`: once nothing is under way, the list is what UDisks2 would say.

Bounds: a stick with a plain and an encrypted volume, so that ejecting closes both; two calls,
one event (a restart, a pull, or another program's act) at any moment. Volumes start inserted
or mounted. The system may stop (`CHECK_DEADLOCK FALSE`): both bounds are then used up.
A call that UDisks2 carries out after it timed out, an eject planned from a list that is behind,
and `unlock()` of an open volume, which finishes as "mount" (`volume_manager.h:67` speaks of
"unlock"), are as in the code and carry no claim.

### HelperPool

`queue` and `idle` are the pool's; `at` is where each caller and thread is. A caller recruits
(`WakeHelper`, `StartHelper`), runs the body itself, then waits for its helpers. A body takes
blocks until none is left or one throws. `stop` stands for the flag and the exception kept with
it; past the last block the counter is not told apart; `finished` holds which helpers are
done, where the code counts them. Each caller makes one call: threads live on, so two calls
are a call that finds threads at work, ending, asleep or woken.

- `TypeOK` includes that `idle` counts the waiting threads.
- `NeverBehind`: there are at least as many threads free as there is work queued.
- `StackAlive`: no call returns while a helper has or runs its work.
- `ListingWhole`: a call that returns without an exception has every block done.
- `CallsReturn`: every call returns.

Fairness is weak for every thread that is not asleep: nothing relies on spurious wakeups.
Run `helpers_start`, a finding: when the system refuses a thread, its work is on the queue and
the exception leaves the call while helpers use its stack.

### The clients and the followers: `network` and `desktop`

Both runs put several modules side by side. `part` says which one a behaviour is of; the parts
share the variables `service`, `client`, `calls`, `inbox` and so on, each under its own names by
`INSTANCE ... WITH`, and a variable that a part does not use is 0. Nothing is checked across
parts: it is one run for modules that do not meet. The properties of the parts are grouped by
what they are about:

- `Mirrors`: what is shown is what the service, or the file system, has, once nothing is under way.
- `Answered`: what is asked is answered, once and truly.
- `AsAsked`: what was last asked for is done, whatever comes first.
- `BusyWhile`: busy, prompting, watched or running only while something is under way that will end.
- `SavesWhole`: what was read or saved is whole. `FinishedDid` is `VolumeManager`'s.

All of them follow one pattern. The service (its state, restarts, refusals, what other programs
do) is external; what it sends to the process comes in order, as D-Bus and PipeWire keep it,
and replies are worked out early or late as the service may, and a call may fail while it runs. A handler
on the loop is one action. `MaxEvents` bounds what users, other programs and failures do, of two to four, enough for
a request, an interference and a restart or a second request. Safety only: "once nothing is
under way" (`AtRest`) replaces liveness, so that no fairness is assumed of a service.

**BluezDiscovery.** The manager loads by one reply, replays the signals that came meanwhile,
and keeps a discovery session on each powered adapter. `MirrorsBluez`: it ends up ready with
BlueZ's adapters, restarts and failures included. `DiscoversAsAsked`: each powered adapter
discovers exactly while asked, except where starting failed, or stopping failed as often as
it is tried. Left out (`astray`): a reply about an adapter that left and came back under its path
clears the pending mark of the new call (`manager.cpp:662`). `MaxStopRetries` is 2, for 3.

**BluezPairing.** One device, its operations and the agent. `RequestsAnswered`: each call of BlueZ
to the agent is answered once. `BusyWhileOperated`, `PromptsEnd`: busy while operated on, asked
about while the timer runs. `AgentAsAsked`, `CancelsSent`: the agent is registered while enabled,
and pairings are cancelled when it is disabled. A call is about a path, and BlueZ carries it out with
the device that is there by then (`on`); a device that left while somebody holds its object is still
trusted (`TrustedHeld`, `manager.cpp:590, 613`). Left out: an operation that a listener starts
between `setBusy(false)` and the trusting, and devices that come back (`astray`).

**NetworkCache.** `GetManagedObjects`, signals, a `GetSettings` for each profile that is new or
changed. Any call may fail. `MirrorsNetwork`: whatever overlaps, the cache ends up with NetworkManager's
profiles, settings and permissions; only the newest request's reply counts. A reading of settings or
permissions that failed is not repeated: the profile counts as another user's (`client.cpp:570`), the
permissions as none (`:590`), until NetworkManager tells of a change. The property says so (`unread`).

**Activations.** Networks joined from the list or by name, and `createHotspot()`. `JoinsDecided`:
a profile made for a network goes unless it connected or the user named it. A two-minute limit
lets go of it (`letGo`); its timer survives a restart of NetworkManager and can take the
record of the next activation of that path (`handler.cpp:426`), which leaves the profile behind and
carries no claim. The client knows a profile only by the reply of the `GetSettings` it sent for it
(`client.settings`, `client.requests`); of the calls, those of the hotspot's profiles are modelled, and
`ready` waits for them. `HotspotTold`, `HotspotShown`: a hotspot's failure is told once; one profile serves
all of them. Left out of `HotspotShown`: a hotspot created before the settings of the profile there is were
read (`past.early`), or after a reading failed (`past.unread`); `hotspotConnection()` then finds none
(`client.cpp:269`) and `createHotspot()` adds a second profile (`handler.cpp:585`). Of `HotspotTold`: an early
one whose activation is gone before the reply. A hotspot created while another is up counts as an event.

**RememberedNetworks.** Access points NetworkManager dropped for their age stay for two scans.
`RemembersAged`: exactly those. `JoinedOnceListed`: a click on one waits while it is remembered
and not listed, then joins at most once.

**NetworkRows.** `rebuild()` over a cache whose parts change one signal at a time: the access
points that stand for a network, the profile that stands for a row, rows that keep their place. Parts
`rows` (two access points of one network, an open one of its name, two profiles of that name) and
`VPN rows` (a wired profile, one's own hotspot, two VPNs). `InUseShown`: one row is in use, that of
the active profile. `OfferedShown`: a profile on offer is on exactly one row. `PointsListed`: a
network is joined through a listed access point if there is one, and each network has one row.
`PlaceKept`, `FailuresShown`. The rows of a type as a view lists them (`listItems()`) begin with
the one in use, though they are sorted by what it is and not by its being in use. Left out: with another user's profile active, a network for which
there is a profile of one's own too does not show in use (`network_model.cpp:419`).

**SecretReading.** `SecretsAnswered`: a load is answered once, whichever of the prompt's signal,
its reply and its limit comes first. `SecretsWhole`: with every secret that could be read.

**ProfileForms.** `FormsAnswered`: each form is answered once. `SavesTheirOwn`: a save, which
carries a whole profile made from the cached copy, takes back nobody else's part, except what had
not reached that copy (`crossed`). `AppliedToDevice`: saved addresses reach the device, except where
`Reapply` was refused twice. A device that is not active needs none (`NotActive`, `handler.cpp:1009`). An
`Update` whose reply does not come counts as failed for the form and may be carried out later (`late`);
nothing is applied then, and nothing claimed.

**AudioRegistry.** Binding and unbinding of PipeWire's globals, whose ids are used again, the default
sink, and level streams. `MirrorsPipeWire`, which also has `defaultNode()` find the default sink; `StreamBound`: a level is watched only on an
object that is there. A second metadata object named "default" is ignored while the first lives
(`backend.cpp:454`), as in the code.

**AudioRoutes.** One card with two profiles. `MirrorsCard`: profile, routes, ports and volumes
end up as the card has them. `NeverOlder`: a node never goes back to an older volume. Left out
(`direct`): a volume set before its route is known goes to the node, and the route's answer
overwrites it later (`backend.cpp:609`).

**Accounts.** `ListsUsers`: after any order of replies and signals, the service's accounts are
listed; `OneObject`: each once, by one object. Not claimed: that a creation is told as a success,
since the account may be deleted, or its number used again, first.

**SettingMirror.** One value of each of nine clients (`Kinds`), which differ in how they read, show and
set it. Every service may go and come back with another value, fail a read, refuse a set, or answer too
late for the bus (`GiveUp`). `ShowsService`: once nothing is under way the service's value shows. `KeepsOwn`:
a value set shows until it is answered, by the service or by the bus. `missed` says when a client cannot
know, and `ShowsService` then claims nothing until it is told again:

- a read failed (no client repeats one);
- the service came back with another value, and the client does not watch its name: `PowerProfiles`,
  `TimeDate`, `UserAccount`, `BatteryStatus` and `Device` (only four of the nine do, `Watching`);
- a fixed font changed, which the service does not announce (`appearance.cpp:143`): by another program, or
  here while a read made before was under way (`crossed`).

Left out besides: a profile's setting that another program wrote over before it was read back stays as
written (`connections.cpp:138`). "Pending until answered" is claimed where the header says so
(`user_account.h:17`).

**DisplayConfig.** `ShowsDisplays`: the compositor's state, or none after a reading that failed
(`unread`), which is not repeated until the compositor tells of a change (`display_client.cpp:126`); `OwnResult`: success is told only of an operation that the
compositor finished, and once; `OwnAnswer`, for power requests; `BusyTimed`: an operation always
has its timer.

**DisplayDraft.** The draft's rules and the placement of displays, on three displays and three
modes, with two edits. `DraftWhole`: there is a primary display, each mirror shows one that shows
a picture of its own. `PlacedApart`: placements touch a parent and overlap nothing.
`CleanShowsApplied`, `ChoicesTaken`. Left out (`astray`): an edit that names a source
which is off or is a mirror (`output_model.cpp:436`) or a primary display that is a mirror
(`output_model.cpp:341`); the code accepts both.

**DirectoryModel.** `synchronize()` of listings of up to four of three URLs, the same URL more than
once included, into one another, with a view that applies the signals. `ViewFollows`: the view has
the model's rows after each of them. `Mirrored`: the model has the listing's files; those that stay
keep their rows and order. One listing is enough, since it starts from any rows there can be;
four rows make two runs of removals, a moved row and an added one. Left out: the number of rows of
a URL that is listed twice before or after: when one of two goes while others move, both rows
stay (`directory_model.cpp:149`).

**Thumbnails.** Two calls in processes of their own, one of them `requestThumbnail()`, the other
any, each step a system call, on a file that changes or goes (a thumbnailer reads it again after
the toolkit's decoder), a cache that is cleared with the temporary files in it, damaged, or written
by other programs that may leave the file's size out, and processes that die. `EntryTrue`: an entry that would be served is of the file as it is;
`AnswerFresh`: no answer is older than its call. Both leave out what no cache of this format can
tell: other contents with the same second and size, or the same second where an entry has no size
(`Alike`). `ServedIsTold`, `NotOfItself`;
`Private`: directories are their owner's alone, but between `mkdir` and `chmod`; a process that
dies there, or a cache cleared there, leaves one open for good (`thumbnail_cache.cpp:119`). A
failure is remembered also when the thumbnailer was missing or timed out (`:409`); no claim.

**Thumbnailers.** Two folders with a file of one name, their times, and a program that comes and goes
beside them; a child of one call. `FollowsFolders`: the table is of the folders as they were when
their times were read, also if they change while they are read. `LeavesNoChild`: a call that
returned has no process left. Left out: what a folder's time does not tell (`missed`), such as a
program installed after its file was read (`thumbnailers.cpp:167`), and a kernel without `pidfd_open()`,
where a killed child may stay a zombie (`:299`).

**TrashMonitor.** The home trash and a volume's, at four stages from absent to not empty; the watch
with what inotify queued, three timers and the job in three steps. `ShowsTrash`: at rest it is shown
empty exactly if it is. `KeepsTrying`: a watch that does not hold is tried again. Left out, and
both real: a change after the job looked and before the watch began (`unseen`); and a
watch taken to hold whose folder "files" was not there yet (`Deaf`): `FileWatcher::watch()`
ignores entries it cannot watch (`file_watcher.cpp:103`) and keeps the watch for the same request
(`:71`), so that a home trash made in two steps more than 40 ms apart is not noticed.

Bounds of the parts are in the `INSTANCE`s of `MCNetwork` and `MCDesktop`. The systems may stop
(`CHECK_DEADLOCK FALSE`): the bounds are then used up and nothing is under way.

## 3. What is proved

TLAPS proves, for every value of the constants:

**Task** (`TaskProofs`): `TypeCorrect`, `AnswersCorrect`, `OutcomeCorrect`, `DestroySafe`
(assuming no listener of `stateChanged(Running)` destroys the task, which `task_start` shows
to be needed) and `Implements`, the refinement of `TaskPromise`. None of the properties is
inductive: the outcome travels from the worker's `error` through a posted closure to `state`,
and an answer from `resolveConflict()` through `resolution` to the source. The invariant says
what each place of the worker and each closure on the loop implies about the other variables;
`Invariance` has one lemma per group of its parts, and one step per action.

**HelperPool** (`HelperPoolProofs`), assuming the system starts the threads asked for
(`~CreationFails`; `helpers_start` shows it is needed), for any finite set of threads and any
callers, helpers and blocks:

- `TypeCorrect`, `NeverBehindCorrect`: from the types and `Counting`. Work is queued only with
  an idle thread to spare or with a new thread, and a thread stops being free only by taking work.
- `StackAliveCorrect`: from `Owed`. Each piece of work that is queued or under way was asked
  for, is not finished and is in one place only, so a call that returned is owed none.
- `ListingWholeCorrect`: from `Owed` and `Placed`. Each block taken is filled or held by a runner,
  unless the call was stopped; who left the body saw the last block taken; and by `StackAlive`
  no helper of a returned call holds one.

`Owed` and `Placed` were checked with TLC on the instance of `helpers` before they were proved.

**LocalFileSystem** (`LocalFileSystemProofs`), for any number of parts but none and any number of names
from two on: `TypeCorrect`, `SourceSafeCorrect`, `NoDebrisCorrect`, `PublishedWholeCorrect`,
`EndsAsToldCorrect`, and the action property `NoOverwriteCorrect`. None is inductive: that the source
may be removed rests on a copy that was whole when it was published, and on its having been flushed
before. `Inv` says for each place of the call how it can be reached (`Route`: which operation, which
policy, which name), what is at the temporary name (`Staged`: nothing, a copy in the making, a whole
one, one that is being merged part by part), where the source is and whether that survives a power cut
(`Sourced`), what a name may show of the copy (`Shown`) and what the call has told (`Told`).
One lemma per action proves it; the six theorems follow from it. `NoOverwriteCorrect` holds of each step by `Route`: only
three actions put something in the place of something else, and it names when they are reached.

**Trash** (`TrashProofs`), for any processes, places, items and names, assuming that the base name is not one of
the identifiers and that `None` is nothing else:

- `TypeCorrect`: from `Reliable`. Whoever is past its waiting holds the lock (`Locked`), so that nobody
  else's step touches the folder, and what a call learned of it between two system calls still holds
  (`Relies`: the name it took is free, the info file it wrote is there and flushed, and so on). Of what
  needs no lock, the programs that move items out, `Relies` claims nothing.
- `InfoCorrect`, `NothingLostCorrect`: inductive on top of `Reliable`. An item that moves in has a written and
  flushed info file by `Relies`; a source is removed only while what was copied of it is in the trash.
- `TidyCorrect`: `TidyAtRest` speaks of a trash nobody works on, so `Tidying` says what each place of a
  call still owes: an info file without an item is the one that the call at work is about to remove, and a
  stale size is of the name it is about to forget.

**DirectoryLister** (`DirectoryListerProofs`), for any folders and number of calls: `TypeCorrect` and
`ReentrantCorrect`, of `Spec`, which `FairSpec` implies. The code compares generations after each signal it
emits; `Current` says why that is enough: a job is of the generation that is current, and a listing
being handed over is of the open folder unless the generation has moved on. `Reentrant` alone does not
tell a listing of the folder before from one of this one.

**History** (`HistoryProofs`), for any items, folders, finite set of task slots and limit:

- `BoundedCorrect`: an undo takes its entry off the stack before it runs and may give part of it back
  untrimmed, so the length of a stack alone is not inductive; its length with the tasks that may
  still give back is (`HInv`). A task recorded frees its slot, so a push, trimmed to the limit, leaves
  room for the others; a fresh task that clears the redo stack occupies a slot that no redo has.
- `TypeCorrect`: what a task completed is within what it was asked, each entry is one that can be
  played (`EInv`), and a task that ended has its one closure on the loop.
- `EmptiedCorrect`: no entry, and no task that may become one, restores an item that was emptied
  (`Entries`, `Sound`), as long as tasks do not overlap (`Alone`). It rests on an emptied item staying
  gone. Trimming keeps the last entries and the tasks to record are found by the least index on the
  loop: the lemmas `Least`, `Greatest` and `Ranked` give the inductions needed from
  well-foundedness, of facts without an operator as parameter.
- `ReplaysCorrect`: the property follows, for each item, the chain of places along which the
  entries of a stack take it, which needs no fold. Each operation on a stack is a lemma about that
  chain: an entry more or less (`OneMoreReplays`), the oldest entries dropped (`TrimReplays`), entries that do not
  take the item left out (`ForgetReplays`, through `Embedded`). The property speaks of a history at rest; while a task
  is under way, `OnTheWay` says where the chains start instead: for the stack the task came from, where the task
  takes the item whether or not it has done so yet; for the other one, where the item was before the
  task touched it. So a cancelled undo may give back what it did not reach and push what it did, and both
  chains start where the items are (`GivenBack`, `PushedBack`). A copy is the exception: before it there is no
  item, and no entry takes one from nowhere (`Sited`, `Untouched`). TLC checked `RInv` on the
  instance of `history` first, and that the chain agrees with a fold that carries out each entry.

**VolumeManager** (`VolumeManagerProofs`), for any finite set of volumes, encrypted or not, on any drives, and
any number of calls, restarts and acts of others:

- `OneReportCorrect`, `OneAtATimeCorrect`, `FinishedCorrect` (an action property): from `Operations`. An
  operation keeps as its last step the call that does what it is for, and when that call succeeded, or
  the drive is empty already, it is `done` (`Achieved`); an operation whose volume is not listed is
  marked (`Unlisted`), so that the test of `start()`, which passes over such volumes, lets in no more than
  `OneAtATime` allows.
- `UpToDateCorrect`: from `Listing` and `Fresh`. While a change of owner is still to be heard nothing is
  claimed. After it, an answer counts only if it was asked for since; one that was asked for before is followed
  by another (`m_refreshAgain`); and an answer that counts is of the disks as they are, or a signal is
  under way, or another listing follows. It speaks of a list at rest only, which the steps before do
  not.
- `TypeCorrect`: `perform()` takes the first step of a list that is never empty.

`Inv` was checked with TLC on a stick with a plain and an encrypted volume before it was proved. The run
`desktop` states these properties as parts of `Answered`, `BusyWhile`, `FinishedDid` and `Mirrors`.

**SecretReading** (`SecretReadingProofs`), for any number of loads and any finite set of items, of which any
may be without a key, and any number of failed calls, crashes and timeouts; `IsFiniteSet(Items)` is what the
count of what a load waits for needs, and a keyring holds finitely many items:

- `SecretsAnsweredOnce`: a load goes on only when one of its calls is answered or its prompt ends, so it
  answers once, and has when nothing is under way, if each of these brings it one step further and none is lost or counted twice. `Chain` says so: up to the search exactly one call of a load is under way, on its
  way to the keyring or back; while it reads, `waiting` is the number of items with a call under way,
  and is not zero; and the call and the signal of a prompt, which may outlive it, find the load no longer
  `prompting`. `Once` is needed beside it: a call is answered once, or the counter would run ahead.
- `SecretsAllRead`: of a load that nothing failed for. What the keyring does meanwhile matters: an item
  found unlocked stays so until the daemon crashes (`Open`), a prompt asks for all that are not
  (`AskedFor`), at most one prompt is open or answered at a time, and the session the reads are made in is
  still the keyring's (`Searched`). Each answer on its way is then one the load can use (`Succeeds`), and
  what it has read is what it does not wait for any more (`ReadSoFar`).

TLC checked `Inv` with one load of three items and with two loads of two before it was proved. The run
`network` states the two properties as parts of `Answered` and `SavesWhole`.

Where an assumption on a constant stands in a theorem (`~CreationFails`, `~DestroyInStart`), a run that
expects a violation shows that the theorem is false without it. Everything else is assumed in the
module that declares the constants and checked by TLC on each run.

Only model-checked:

- Liveness (`CancelEnds`, `UnattendedFinishes`, `CallsReturn`, `FreshIfWatched`): fairness and `ENABLED` are
  out of TLAPS's reach.
- The properties of `MCNetwork` and `MCDesktop`, which are conjunctions over modules of which only
  `SecretReading` and `VolumeManager` have proofs.

## 4. What is not modelled

`PROJECT.json` lists every component with its reason. In modelled components: progress and
its rate, the preparation of restores, worker processes for requests that need them; `mkdir`,
`enumerate`, `directorySize`, sparse extents and writeback; the parsing of info files; searching, types kept across refreshes, the mount table,
auto update off; names, icons and sizes of volumes; `DirectoryModel::rename()`, which submits a
task; decoding and encoding of images, the words of a thumbnailer's command; cellular
networks; sources and capture streams, which mirror sinks and playback streams; the sums
over batteries; account pictures. The forms' conversions, types, paths and URLs are functions
of text.

Hazards with an exemption carry a note in `PROJECT.json`. Further ones known from the survey:
`FileWatcher::clear()` leaves its emission timer running (a refresh too many); a restore holds the
trash's lock while it asks about a conflict; each change restarts the lister's debounce; a
listing of volumes that failed is not repeated until the next signal; a second `createHotspot()`
before the first one's reply; a volume set with a stale active route switches the route back
(`backend.cpp:623`); the failure of a VPN is kept by object path over a restart of NetworkManager;
edits made while an apply runs are dropped when its state arrives (`screen.cpp:34`); a display
switched off keeps the mode and scale of a discarded draft (`output_model.cpp:493`).

## 5. Plan

Done: the modules of section 2. Left, in this order:

1. Proofs: `ListedOnce` of `TrashPlaces`; `SettingMirror`, and the parts of `BluezDiscovery` that follow a restart.
2. An abstract specification of a trash (each item outside, inside with its origin, or discarded)
   that `Trash` implements, and one of a mirror ("the value shown is the last one set until it is
   answered, then the service's") that the clients' modules implement.
3. Forms and types as operators over bounded inputs, checked against reference definitions.
