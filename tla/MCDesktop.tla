----------------------------- MODULE MCDesktop -----------------------------
(***************************************************************************)
(* The clients of AccountsService, UDisks2, the compositor and the         *)
(* settings services, and what follows the file system: the rows of a      *)
(* listing, thumbnails and trashes, side by side.  The first state picks   *)
(* one, and the behaviour is its own.  They share the variables; what each *)
(* holds is in the INSTANCE, and one a part has no use for is 0.           *)
(***************************************************************************)
EXTENDS Integers

CONSTANTS u1, u2, sda, sdb, stick, none, r1, r2

VARIABLES
  part,
  service, client, calls, inbox, asked, past, told, events,
  \* The volumes' own.
  disk, up, news, heard, volumes, ownerKnown, generation, again, query, op, owed, lost

Users == INSTANCE Accounts WITH
  Paths <- {u1, u2}, MaxEvents <- 2, users <- service, manager <- client, verdicts <- past
Setting == INSTANCE SettingMirror WITH Values <- {1, 2}, MaxEvents <- 3, kind <- past, missed <- told
Displays == INSTANCE DisplayConfig WITH
  MaxEvents <- 3, compositor <- service, process <- client, outcomes <- past, unread <- asked
\* One stick: two plain volumes, or a plain one and an encrypted one.
Open == INSTANCE VolumeManager WITH
  Volumes <- {sda, sdb}, Encrypted <- {}, DriveOf <- [v \in {sda, sdb} |-> stick], Ejectable <- {stick},
  NoDrive <- none, MaxCalls <- 2, MaxEvents <- 1
Sealed == INSTANCE VolumeManager WITH
  Volumes <- {sda, sdb}, Encrypted <- {sdb}, DriveOf <- [v \in {sda, sdb} |-> stick], Ejectable <- {stick},
  NoDrive <- none, MaxCalls <- 1, MaxEvents <- 1
\* Three displays; of the size that comes first, two refresh rates.
Draft == INSTANCE DisplayDraft WITH
  Screens <- {1, 2, 3}, Overlap <- 1, MaxEvents <- 2,
  Modes <- <<[width |-> 2, height |-> 1, refresh |-> 60], [width |-> 2, height |-> 1, refresh |-> 144],
             [width |-> 1, height |-> 1, refresh |-> 75]>>,
  Positions <- {[x |-> 0, y |-> 0], [x |-> 1, y |-> 2], [x |-> -3, y |-> 1]},
  applied <- service, model <- client, astray <- past
Listing == INSTANCE DirectoryModel WITH
  Urls <- {1, 2, 3}, MaxLength <- 4, MaxEvents <- 1,
  listed <- service, items <- client, was <- past, news <- told, view <- asked
Thumbnail == INSTANCE Thumbnails WITH
  Requests <- {r1, r2}, Makers <- {r1}, MaxEvents <- 2,
  file <- service, disk <- client, clock <- inbox, requests <- calls, astray <- told
Programs == INSTANCE Thumbnailers WITH
  MaxEvents <- 3,
  there <- service, table <- client, scan <- inbox, missed <- past, child <- calls, kernel <- asked
TrashShown == INSTANCE TrashMonitor WITH
  Volumes <- {stick}, MaxEvents <- 3,
  world <- service, watch <- client, queued <- inbox, timers <- asked, job <- calls, monitor <- told, unseen <- past
\* A disk, mounted once or twice or under what holds no trash; and one with a subvolume.
Places == INSTANCE TrashPlaces WITH
  Items <- {u1}, Points <- {r1, r2}, Volumes <- {sda, stick}, HoldsNone <- {stick},
  Within <- [v \in {sda, stick} |-> none], None <- none, MaxMounts <- 2, MaxEvents <- 1,
  table <- service, volume <- client, at <- calls, from <- inbox, run <- asked, tells <- told
Parts == INSTANCE TrashPlaces WITH
  Items <- {u1}, Points <- {r1, r2}, Volumes <- {sda, sdb}, HoldsNone <- {},
  Within <- [v \in {sda, sdb} |-> IF v = sdb THEN sda ELSE none], None <- none, MaxMounts <- 2, MaxEvents <- 0,
  table <- service, volume <- client, at <- calls, from <- inbox, run <- asked, tells <- told

disks == <<disk, up, news, heard, volumes, ownerKnown, generation, again, query, op, owed, lost>>

Init ==
  \/ /\ service = 0 /\ client = 0 /\ inbox = 0 /\ asked = 0 /\ past = 0
     /\ \/ part = "open" /\ Open!Init
        \/ part = "sealed" /\ Sealed!Init
  \/ /\ disk = 0 /\ up = 0 /\ news = 0 /\ heard = 0 /\ volumes = 0 /\ ownerKnown = 0
     /\ generation = 0 /\ again = 0 /\ query = 0 /\ op = 0 /\ owed = 0 /\ lost = 0
     /\ \/ part = "users" /\ Users!Init /\ asked = 0 /\ told = 0
        \/ part = "setting" /\ Setting!Init
        \/ part = "displays" /\ Displays!Init /\ calls = 0
        \/ part = "draft" /\ Draft!Init /\ calls = 0 /\ inbox = 0 /\ asked = 0 /\ told = 0
        \/ part = "listing" /\ Listing!Init /\ calls = 0 /\ inbox = 0
        \/ part = "thumbnail" /\ Thumbnail!Init /\ asked = 0
        \/ part = "programs" /\ Programs!Init /\ told = 0
        \/ part = "trash" /\ TrashShown!Init
        \/ part = "places" /\ Places!Init /\ past = 0
        \/ part = "parts" /\ Parts!Init /\ past = 0

Next ==
  \/ part = "open" /\ Open!Next /\ UNCHANGED <<part, service, client, inbox, asked, past>>
  \/ part = "sealed" /\ Sealed!Next /\ UNCHANGED <<part, service, client, inbox, asked, past>>
  \/ part = "users" /\ Users!Next /\ UNCHANGED <<part, disks, asked, told>>
  \/ part = "setting" /\ Setting!Next /\ UNCHANGED <<part, disks>>
  \/ part = "displays" /\ Displays!Next /\ UNCHANGED <<part, disks, calls>>
  \/ part = "draft" /\ Draft!Next /\ UNCHANGED <<part, disks, calls, inbox, asked, told>>
  \/ part = "listing" /\ Listing!Next /\ UNCHANGED <<part, disks, calls, inbox>>
  \/ part = "thumbnail" /\ Thumbnail!Next /\ UNCHANGED <<part, disks, asked>>
  \/ part = "programs" /\ Programs!Next /\ UNCHANGED <<part, disks, told>>
  \/ part = "trash" /\ TrashShown!Next /\ UNCHANGED <<part, disks>>
  \/ part = "places" /\ Places!Next /\ UNCHANGED <<part, disks, past>>
  \/ part = "parts" /\ Parts!Next /\ UNCHANGED <<part, disks, past>>

vars == <<part, service, client, calls, inbox, asked, past, told, events, disks>>
Spec == Init /\ [][Next]_vars

-----------------------------------------------------------------------------
(* Properties: those of the parts, by what they are about.                 *)

\* Every variable holds a value of its kind.
TypeOK ==
  /\ part = "open" => Open!TypeOK
  /\ part = "sealed" => Sealed!TypeOK
  /\ part = "users" => Users!TypeOK
  /\ part = "setting" => Setting!TypeOK
  /\ part = "displays" => Displays!TypeOK
  /\ part = "draft" => Draft!TypeOK
  /\ part = "listing" => Listing!TypeOK
  /\ part = "thumbnail" => Thumbnail!TypeOK
  /\ part = "programs" => Programs!TypeOK
  /\ part = "trash" => TrashShown!TypeOK
  /\ part = "places" => Places!TypeOK
  /\ part = "parts" => Parts!TypeOK

\* What is shown is what the service has, once nothing is under way, as far as its client was told: a reading
\* that failed is not repeated, and not every client of a setting watches for its service (ShowsService,
\* ShowsDisplays say which): accounts (each once, by one object), settings, displays, drafts of them that have
\* no edits, volumes, the rows of a folder and a view of them, thumbnails, which are of the file as it is,
\* the programs that make them, whether anything is in the trash, and each item there once.
Mirrors ==
  /\ part = "open" => Open!UpToDate
  /\ part = "sealed" => Sealed!UpToDate
  /\ part = "users" => Users!ListsUsers /\ Users!OneObject
  /\ part = "setting" => Setting!ShowsService
  /\ part = "displays" => Displays!ShowsDisplays
  /\ part = "draft" => Draft!CleanShowsApplied
  /\ part = "listing" => Listing!ViewFollows /\ Listing!Mirrored
  /\ part = "thumbnail" => Thumbnail!EntryTrue /\ Thumbnail!ServedIsTold /\ Thumbnail!NotOfItself
  /\ part = "programs" => Programs!FollowsFolders
  /\ part = "trash" => TrashShown!ShowsTrash
  /\ part = "places" => Places!ListedOnce
  /\ part = "parts" => Parts!ListedOnce

\* What is asked is answered, once and truly: each change of the displays, each operation on a volume and
\* each call for a thumbnail. What a draft of the displays asks for can be done: a primary display,
\* mirror groups and placements.  What is thrown away is kept where it can be, and emptying the trash
\* empties all that can be emptied.
Answered ==
  /\ part = "open" => Open!OneReport
  /\ part = "sealed" => Sealed!OneReport
  /\ part = "displays" => Displays!OwnResult /\ Displays!OwnAnswer
  /\ part = "draft" => Draft!DraftWhole /\ Draft!PlacedApart /\ Draft!ChoicesTaken
  /\ part = "thumbnail" => Thumbnail!AnswerFresh
  /\ part = "places" => Places!NotOnThose /\ Places!EmptiesOthers
  /\ part = "parts" => Parts!NotOnThose /\ Parts!EmptiesOthers

\* A screen or a drive is busy only while an operation on it is under way that will end, and a setting is
\* shown as it was set here until that is answered. A child runs only for a call that waits for it, the cache
\* of thumbnails is open to others only as it is made, and a watch on the trash that fails is tried again.
BusyWhile ==
  /\ part = "open" => Open!OneAtATime
  /\ part = "sealed" => Sealed!OneAtATime
  /\ part = "displays" => Displays!BusyTimed
  /\ part = "setting" => Setting!KeepsOwn
  /\ part = "thumbnail" => Thumbnail!Private
  /\ part = "programs" => Programs!LeavesNoChild
  /\ part = "trash" => TrashShown!KeepsTrying

\* No step tells of a volume's operation as finished that did not do what it was for.
FinishedDid ==
  [][/\ part = "open" => Open!FinishedDid
     /\ part = "sealed" => Sealed!FinishedDid]_vars
=============================================================================
