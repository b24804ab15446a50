------------------------------ MODULE Thumbnails ------------------------------
(***************************************************************************)
(* ThumbnailCache (files/thumbnails/thumbnail_cache.cpp): one file's       *)
(* thumbnail of one size, and the mark of one that cannot be made, as      *)
(* several processes ask for them while the file changes or goes, another  *)
(* program fills the cache or clears it, the machine loses power and a     *)
(* process dies.                                                           *)
(***************************************************************************)
EXTENDS Naturals, TLC

CONSTANTS
  Requests,   \* calls of the cache, each in a process of its own
  Makers,     \* of them, those of requestThumbnail()
  MaxEvents   \* bounds what changes, fails and dies

VARIABLES
  file,       \* whether it is there, its version, mtime in seconds and size, and whether it is in the cache itself
  disk,       \* the cache: its directories, and the entries in them
  clock,      \* seconds
  requests,
  past,       \* the versions the file had, with mtime and size
  astray,     \* a process died, or the cache was cleared, as a directory was made
  events      \* counts towards MaxEvents

vars == <<file, disk, clock, requests, past, astray, events>>

\* No file, or nothing encoded.
NoEntry == [mtime |-> 0, size |-> 0, version |-> 0, written |-> 0, whole |-> FALSE]
Directories == {"root", "directory", "failDirectory"}
Targets == {"target", "failTarget"}
DirectoryOf == [target |-> "directory", failTarget |-> "failDirectory"]

Event == events < MaxEvents /\ events' = events + 1
Stat == [version |-> file.version, mtime |-> file.mtime, size |-> file.size]

\* readPng(): the image and its text, when the whole of both can be decoded.
ReadPng(target) == IF disk[target].whole THEN disk[target] ELSE NoEntry

\* isCurrent(): made of a file with this mtime and size; who wrote it may have left the size out.
IsCurrent(entry, stat) == entry # NoEntry /\ entry.mtime = stat.mtime /\ entry.size \in {0, stat.size}

\* encodePng(): the image with the text as a PNG, or nothing.
EncodePng(image, text) == {NoEntry, image @@ text @@ [written |-> clock, whole |-> TRUE]}
Metadata(stat) == [mtime |-> stat.mtime, size |-> stat.size]

-----------------------------------------------------------------------------
(* A call's steps.                                                         *)

To(r, step) == requests' = [requests EXCEPT ![r].step = step]
Answer(r, version, path) ==
  requests' = [requests EXCEPT ![r].step = "answered", ![r].version = version, ![r].path = path]
Idle == UNCHANGED <<file, clock, past, astray, events>>

\* locate(), which knows nothing of a file that is not there, nor of an empty size; what lies in the
\* cache is for requestThumbnail() only.
Locate(r) ==
  /\ requests[r].step = "called"
  /\ \/ Answer(r, 0, FALSE)
     \/ /\ file.there
        /\ requests' = [requests EXCEPT ![r].stat = Stat,
                          ![r].step = IF ~file.inside THEN IF requests[r].call = "has" THEN "has" ELSE "cached"
                                      ELSE IF requests[r].call = "request" THEN "decode" ELSE "answered"]
  /\ UNCHANGED disk /\ Idle

\* hasCachedThumbnail(), which does not decode the entry.
HasCached(r) ==
  /\ requests[r].step = "has"
  /\ Answer(r, 0, disk.target # NoEntry /\ disk.target.written >= requests[r].stat.mtime)
  /\ UNCHANGED disk /\ Idle

\* The entry as the answer, with what it tells of the file it was made of.
Serve(r, entry, path) ==
  requests' = [requests EXCEPT ![r].step = "answered", ![r].version = entry.version, ![r].path = path,
                               ![r].sized = entry.size # 0]

\* cachedThumbnail(), and requestThumbnail() as it begins.
ReadCached(r) ==
  /\ requests[r].step = "cached"
  /\ IF IsCurrent(ReadPng("target"), requests[r].stat) THEN Serve(r, ReadPng("target"), TRUE)
     ELSE IF requests[r].call = "cached" THEN Answer(r, 0, FALSE)
     ELSE To(r, "failed")
  /\ UNCHANGED disk /\ Idle

ReadFailed(r) ==
  /\ requests[r].step = "failed"
  /\ IF IsCurrent(ReadPng("failTarget"), requests[r].stat) THEN Serve(r, ReadPng("failTarget"), FALSE)
     ELSE To(r, "decode")
  /\ UNCHANGED disk /\ Idle

\* generateThumbnail(), of the file as it is now, which the toolkit may not decode: a thumbnailer then
\* reads it again, and may fail too.
Image(r, image) ==
  IF file.inside THEN Answer(r, file.version, FALSE)
  ELSE requests' = [requests EXCEPT ![r].step = "root", ![r].version = file.version,
                                    ![r].target = IF image THEN "target" ELSE "failTarget"]
Decode(r) ==
  /\ requests[r].step = "decode"
  /\ (file.there /\ Image(r, TRUE)) \/ To(r, "generate")
  /\ UNCHANGED disk /\ Idle
GenerateThumbnail(r) ==
  /\ requests[r].step = "generate"
  /\ \E image \in BOOLEAN : (image => file.there) /\ Image(r, image)
  /\ UNCHANGED disk /\ Idle

\* ensurePrivateDirectory(), of the root and then of the entry's: made, with the root if that is gone, and made private.
Made(directory) ==
  [d \in Directories |-> IF d \in {"root", directory} /\ disk[d] = "absent" THEN "open" ELSE disk[d]] @@ disk
EnsureDirectory(r) ==
  LET directory == IF requests[r].step = "root" THEN "root" ELSE DirectoryOf[requests[r].target] IN
  /\ requests[r].step \in {"root", "directory"}
  /\ IF disk[directory] # "absent"
     THEN To(r, IF directory = "root" THEN "directory" ELSE "write") /\ UNCHANGED disk
     ELSE \/ To(r, IF directory = "root" THEN "chmod root" ELSE "chmod") /\ disk' = Made(directory)
          \/ Answer(r, requests[r].version, FALSE) /\ UNCHANGED disk
  /\ Idle
MakePrivate(r) ==
  LET directory == IF requests[r].step = "chmod root" THEN "root" ELSE DirectoryOf[requests[r].target] IN
  /\ requests[r].step \in {"chmod root", "chmod"}
  /\ IF disk[directory] = "absent" THEN Answer(r, requests[r].version, FALSE) /\ UNCHANGED disk
     ELSE To(r, IF directory = "root" THEN "directory" ELSE "write") /\ disk' = [disk EXCEPT ![directory] = "private"]
  /\ Idle

\* writeCacheFile(): what is encoded goes to a temporary file beside the entry, which is then renamed.
WriteTemporary(r) ==
  /\ requests[r].step = "write"
  /\ \/ \E contents \in EncodePng([version |-> requests[r].version], Metadata(requests[r].stat)) :
          /\ contents # NoEntry /\ disk[DirectoryOf[requests[r].target]] # "absent"
          /\ requests' = [requests EXCEPT ![r].step = "rename", ![r].temporary = contents]
     \/ Answer(r, requests[r].version, FALSE)
  /\ UNCHANGED disk /\ Idle

Rename(r) ==
  LET target == requests[r].target IN
  /\ requests[r].step = "rename"
  /\ IF requests[r].temporary = NoEntry THEN Answer(r, requests[r].version, FALSE) /\ UNCHANGED disk
     ELSE disk' = [disk EXCEPT ![target] = requests[r].temporary] /\ Answer(r, requests[r].version, target = "target")
  /\ Idle

-----------------------------------------------------------------------------
(* What goes on meanwhile.                                                 *)

\* The file is written, or replaced by one that keeps its time.
Changed ==
  /\ Event
  /\ \E mtime \in {file.mtime, clock}, size \in {1, 2} :
       file' = [file EXCEPT !.there = TRUE, !.version = @ + 1, !.mtime = mtime, !.size = size]
  /\ past' = past \cup {Stat}
  /\ UNCHANGED <<disk, clock, requests, astray>>

Removed == Event /\ file.there /\ file' = [file EXCEPT !.there = FALSE] /\ UNCHANGED <<disk, clock, requests, past, astray>>

Ticks == Event /\ clock' = clock + 1 /\ UNCHANGED <<file, disk, requests, past, astray>>

Making == \E r \in Requests : requests[r].step \in {"chmod root", "chmod", "directory"}

Dies(r) ==
  /\ Event /\ requests[r].step \notin {"answered", "dead"}
  /\ To(r, "dead") /\ astray' = (astray \/ Making) /\ UNCHANGED <<file, disk, clock, past>>

\* With the temporary files in it.
Empty == [d \in Directories |-> "absent"] @@ [t \in Targets |-> NoEntry]
Cleared ==
  /\ Event
  /\ disk' = Empty /\ requests' = [r \in Requests |-> [requests[r] EXCEPT !.temporary = NoEntry]]
  /\ astray' = (astray \/ Making) /\ UNCHANGED <<file, clock, past>>

\* Another program writes the entry, as the standard has it: without the size, if it likes.
OtherWrites ==
  /\ Event /\ file.there /\ ~file.inside
  /\ \E size \in {0, file.size} :
       disk' = [disk EXCEPT !.root = IF @ = "absent" THEN "private" ELSE @,
                            !.directory = IF @ = "absent" THEN "private" ELSE @,
                            !.target = [mtime |-> file.mtime, size |-> size, version |-> file.version,
                                        written |-> clock, whole |-> TRUE]]
  /\ UNCHANGED <<file, clock, requests, past, astray>>

\* Power is lost: what was renamed may not have been written.
Damaged ==
  /\ Event
  /\ \E t \in Targets : disk' = [disk EXCEPT ![t].whole = FALSE]
  /\ UNCHANGED <<file, clock, requests, past, astray>>

Init ==
  /\ \E inside \in BOOLEAN : file = [there |-> TRUE, version |-> 1, mtime |-> 1, size |-> 1, inside |-> inside]
  /\ disk = Empty /\ clock = 2 /\ past = {} /\ astray = FALSE /\ events = 0
  /\ \E call \in [Requests -> {"request", "cached", "has"}] :
       /\ \A r \in Makers : call[r] = "request"
       /\ requests = [r \in Requests |-> [call |-> call[r], step |-> "called", stat |-> Stat, version |-> 0,
                                          sized |-> TRUE, target |-> "target", temporary |-> NoEntry, path |-> FALSE]]

Next ==
  \/ \E r \in Requests :
       Locate(r) \/ HasCached(r) \/ ReadCached(r) \/ ReadFailed(r) \/ Decode(r) \/ GenerateThumbnail(r)
         \/ EnsureDirectory(r) \/ MakePrivate(r) \/ WriteTemporary(r) \/ Rename(r) \/ Dies(r)
  \/ Changed \/ Removed \/ Ticks \/ Cleared \/ OtherWrites \/ Damaged

Spec == Init /\ [][Next]_vars

-----------------------------------------------------------------------------
(* Properties.                                                             *)

\* Every variable holds a value of its kind.
TypeOK ==
  /\ file.version \in 1..(MaxEvents + 1) /\ clock \in 1..(MaxEvents + 2) /\ events \in 0..MaxEvents
  /\ \A d \in Directories : disk[d] \in {"absent", "open", "private"}
  /\ \A t \in Targets : disk[t].version \in 0..file.version /\ disk[t].written \in 0..clock
  /\ \A r \in Requests : requests[r].version \in 0..file.version

\* The file had other contents with what is told of it: within one second, or as its time was put back.
Alike(stat, sized) ==
  \E other \in past \cup {Stat} :
    other.version # stat.version /\ other.mtime = stat.mtime /\ (sized => other.size = stat.size)

\* An entry, or a mark, that passes for the file's is of what the file has now, though the file changed between
\* its reading and its decoding, and another process wrote an older entry since.
EntryTrue ==
  \A t \in Targets :
    IsCurrent(ReadPng(t), Stat) => disk[t].version = file.version \/ Alike(Stat, disk[t].size # 0)

\* No call is answered with a thumbnail, or a failure, older than the file as it was called.
AnswerFresh ==
  \A r \in Requests :
    LET request == requests[r] IN
    request.step = "answered" /\ request.version # 0 =>
      request.version >= request.stat.version \/ Alike(request.stat, request.sized)

\* An entry that would be served is one hasCachedThumbnail() tells of, which only compares times.
ServedIsTold == IsCurrent(ReadPng("target"), Stat) => disk.target.written >= file.mtime

\* The cache never feeds on itself.
NotOfItself == file.inside => \A t \in Targets : disk[t] = NoEntry

\* Its directories are its owner's alone, except as they are made.
Private ==
  astray \/ Making \/ \A d \in Directories : disk[d] # "open"
=============================================================================
