--------------------------- MODULE LocalFileSystem ---------------------------
(***************************************************************************)
(* LocalFileSystem::copy, link and move (files/local_file_system.cpp), one *)
(* call of one of them, step by step between the system calls, next to     *)
(* other programs that use the same folder, killed or cut off from power   *)
(* at any moment.                                                          *)
(*                                                                         *)
(* An item is a file, whose parts are its extents, or a folder, whose      *)
(* parts are what it holds.  Names stand for the destination (1) and the   *)
(* names an item kept beside it takes (2, 3, ..., "name (n).ext").         *)
(***************************************************************************)
EXTENDS Naturals

CONSTANTS
  Parts,
  MaxNames            \* bounds the names tried for an item kept beside another

ASSUME FileSystemAssumption == MaxNames \in Nat /\ MaxNames >= 2 /\ Parts # {}

Names == 1 .. MaxNames
Policies == {"Fail", "Skip", "KeepBoth", "Replace", "Ask"}
Kinds == {"file", "folder"}

\* What a part is: of the source itself, of the copy of it, of what was at the destination
\* before, of what another program put there, or missing.
Missing == "missing"
Origins == {"source", "copy", "old", "other"}
Contents == [Parts -> Origins \cup {Missing}]
Items == [kind : Kinds \cup {"none"}, parts : Contents]

All(origin) == [p \in Parts |-> origin]
Item(kind, origin) == [kind |-> kind, parts |-> All(origin)]
NoItem == Item("none", Missing)
Empty(item) == item.parts = All(Missing)
Whole(item, origins) == item.kind # "none" /\ \A p \in Parts : item.parts[p] \in origins

\* sameVolume: source and destination are on one file system.  bundle: the destination's name
\* is that of an application bundle.  duplicate: they are the same path.
Requests ==
  {r \in [op : {"Copy", "Link", "Move", "Recase"}, policy : Policies,
          sameVolume : BOOLEAN, bundle : BOOLEAN, duplicate : BOOLEAN] :
     /\ r.duplicate => r.op = "Copy" /\ r.sameVolume
     /\ r.op = "Recase" => r.sameVolume}

VARIABLES
  request,
  src,          \* at the source's path
  dst,          \* at each of Names
  tmp,          \* at the temporary name, which no other program knows
  synced,       \* the copy is on the disk
  pc, policy,   \* the call: where it is, and the conflict policy so far
  next,         \* the name it tries next
  canceled,     \* ctx.canceled
  merged,       \* ctx.merged
  outcome,      \* what the call returned or threw
  messy         \* cleaning up failed

call == <<request, policy, next, merged>>
vars == <<request, src, dst, tmp, synced, pc, policy, next, canceled, merged, outcome, messy>>

Outcomes == {"none", "done", "skipped", "failed", "canceled", "killed"}

Init ==
  /\ request \in Requests
  /\ \E kind \in Kinds : src = Item(kind, "source")
  /\ dst \in [Names -> {NoItem} \cup {Item(kind, "old") : kind \in Kinds}]
  /\ request.duplicate => dst[1] = Item(src.kind, "old")     \* the source itself
  /\ request.op = "Recase" => dst[1] = NoItem                \* its name is the source's own
  /\ dst[MaxNames] = NoItem
  /\ tmp = NoItem /\ synced = FALSE
  /\ pc = "begin" /\ policy = request.policy /\ next = 1
  /\ canceled = FALSE /\ merged = FALSE /\ outcome = "none" /\ messy = FALSE

-----------------------------------------------------------------------------
(* How steps end.                                                          *)

Goto(where) == pc' = where /\ UNCHANGED <<outcome, canceled, messy>>
Return(what) == pc' = "end" /\ outcome' = what /\ UNCHANGED <<canceled, messy>>

\* catch and the skip: what was staged is erased before the call ends.
Abandon(what) == pc' = "cleanup" /\ outcome' = what /\ UNCHANGED <<canceled, messy>>

\* Where a failure is caught: only once something may be staged.
Staging == {"stage", "copy", "publish", "askPublish", "sync", "stat", "exchange", "eraseOld", "merge", "over"}
\* Mutant: a failure leaves what was staged.
Rethrow(what) == Return(what)
Throw(what) == IF pc \in Staging THEN Abandon(what) ELSE Return(what)

\* Mutant: the removal of the source after a move across volumes can be cancelled.
CheckpointsAndRemove == {"begin", "ask", "stage", "copy", "askPublish", "merge", "remove"}
\* Where ctx.checkpoint() is called.
Checkpoints == {"begin", "ask", "stage", "copy", "askPublish", "merge"}
MayGoOn == ~canceled

\* The call finds that it was cancelled; a link has no checkpoint once it began.
Stop ==
  /\ pc \in Checkpoints /\ canceled
  /\ pc = "stage" => request.op # "Link"
  /\ Throw("canceled")
  /\ UNCHANGED <<call, src, dst, tmp, synced>>

\* A system call fails: no space, no permission, an I/O error.
SyscallFails ==
  /\ pc \in Staging \cup {"begin", "rename", "keep", "replace", "recase", "restoreCase", "syncTarget", "remove"}
  /\ CASE pc = "keep" -> Goto("stage")          \* break
       [] pc = "restoreCase" -> Goto("rollback")
       [] OTHER -> Throw("failed")
  /\ UNCHANGED <<call, src, dst, tmp, synced>>

-----------------------------------------------------------------------------
(* copy() and link().                                                      *)

\* A copy into its own folder is kept beside the source; anything else about oneself is EINVAL.
BeginCopy ==
  /\ pc = "begin" /\ request.op \in {"Copy", "Link"} /\ MayGoOn
  /\ policy' = IF request.duplicate /\ policy = "Ask" THEN "KeepBoth" ELSE policy
  /\ IF request.duplicate /\ policy' # "KeepBoth" THEN Return("failed") ELSE Goto("stage")
  /\ UNCHANGED <<request, next, merged, src, dst, tmp, synced>>

\* The temporary is made: a link at once, a file or folder with nothing in it yet.
Stage ==
  /\ pc = "stage" /\ (MayGoOn \/ request.op = "Link")
  /\ IF request.op = "Link"
     THEN tmp' = Item("file", "copy") /\ Goto("publish")
     ELSE tmp' = Item(src.kind, Missing) /\ Goto("copy")
  /\ next' = 1
  /\ UNCHANGED <<request, policy, merged, src, dst, synced>>

CopyPart ==
  /\ pc = "copy" /\ MayGoOn
  /\ \E p \in Parts : /\ tmp.parts[p] = Missing
                      /\ tmp' = [tmp EXCEPT !.parts[p] = "copy"]
  /\ UNCHANGED <<call, src, dst, synced, pc, canceled, outcome, messy>>

\* Mutant: a file cut short counts as copied.
CopiedAnyway == TRUE
AllCopied == Whole(tmp, {"copy"})
Copied ==
  /\ pc = "copy" /\ AllCopied /\ MayGoOn
  /\ Goto("publish")
  /\ UNCHANGED <<call, src, dst, tmp, synced>>

-----------------------------------------------------------------------------
(* publish(): from the temporary name to the destination's.                *)

\* Mutant: a plain rename, which takes the place of what is there.
FreeOrNot(n) == TRUE
\* RENAME_NOREPLACE finds the name free.
Free(n) == dst[n] = NoItem
NextName(n) == n + 1

\* Mutant: a move removes its source as soon as the copy has its name.
RemoveUnsynced == "remove"
AfterPublish == "syncTarget"
Published == IF request.op = "Move" THEN Goto(AfterPublish) ELSE Return("done")

\* Mutant: what to keep is replaced and what to replace kept.
PublishConflictSwapped(decided) ==
  \/ decided = "Skip" /\ Abandon("skipped") /\ UNCHANGED next
  \/ decided = "Fail" /\ Abandon("failed") /\ UNCHANGED next
  \/ decided = "KeepBoth" /\ Goto("sync") /\ UNCHANGED next
  \/ decided = "Replace" /\ next' = NextName(next) /\ Goto("publish")

\* What a conflict leads to once the policy is not to ask.
PublishConflict(decided) ==
  \/ decided = "Skip" /\ Abandon("skipped") /\ UNCHANGED next
  \/ decided = "Fail" /\ Abandon("failed") /\ UNCHANGED next
  \/ decided = "Replace" /\ Goto("sync") /\ UNCHANGED next
  \/ decided = "KeepBoth" /\ next' = NextName(next) /\ Goto("publish")

PublishNew ==
  /\ pc = "publish" /\ Free(next)
  /\ dst' = [dst EXCEPT ![next] = tmp] /\ tmp' = NoItem
  /\ Published
  /\ UNCHANGED <<call, src, synced>>

PublishExists ==
  /\ pc = "publish" /\ ~Free(next)
  /\ IF policy = "Ask" THEN Goto("askPublish") /\ UNCHANGED next ELSE PublishConflict(policy)
  /\ UNCHANGED <<request, policy, merged, src, dst, tmp, synced>>

\* ctx.conflict returns, and the checkpoint after it lets the call go on.
AskPublish ==
  /\ pc = "askPublish" /\ MayGoOn
  /\ policy' \in Policies \ {"Ask"}
  /\ PublishConflict(policy')
  /\ UNCHANGED <<request, merged, src, dst, tmp, synced>>

\* Mutant: the replacement is not flushed first.
SyncsNothing == synced
SyncsVolume == TRUE
SyncTemporary ==
  /\ pc = "sync"
  /\ synced' = SyncsVolume
  /\ Goto("stat")
  /\ UNCHANGED <<call, src, dst, tmp>>

Stat ==
  /\ pc = "stat" /\ dst[next] # NoItem
  /\ Goto(IF tmp.kind # "folder" \/ dst[next].kind # "folder" THEN "over"
          ELSE IF request.bundle THEN "exchange" ELSE "merge")
  /\ UNCHANGED <<call, src, dst, tmp, synced>>

\* A bundle is replaced whole; the old one then goes from the temporary name.
Exchange ==
  /\ pc = "exchange" /\ dst[next] # NoItem
  /\ dst' = [dst EXCEPT ![next] = tmp] /\ tmp' = dst[next]
  /\ Goto("eraseOld")
  /\ UNCHANGED <<call, src, synced>>

EraseOld ==
  /\ pc = "eraseOld"
  /\ tmp' = NoItem
  /\ Published
  /\ UNCHANGED <<call, src, dst, synced>>

MergePart ==
  /\ pc = "merge" /\ MayGoOn /\ dst[next].kind = "folder"
  /\ \E p \in Parts : /\ tmp.parts[p] # Missing
                      /\ dst' = [dst EXCEPT ![next].parts[p] = tmp.parts[p]]
                      /\ tmp' = [tmp EXCEPT !.parts[p] = Missing]
  /\ UNCHANGED <<call, src, synced, pc, outcome, canceled, messy>>

Merged ==
  /\ pc = "merge" /\ Empty(tmp)
  /\ tmp' = NoItem /\ merged' = TRUE
  /\ Published
  /\ UNCHANGED <<request, policy, next, src, dst, synced>>

\* rename(2) takes the place of a file with a file, of an empty folder with a folder.
TakesPlaceOf(from, to) == to = NoItem \/ (from.kind = to.kind /\ (to.kind = "file" \/ Empty(to)))

Over ==
  /\ pc = "over" /\ TakesPlaceOf(tmp, dst[next])
  /\ dst' = [dst EXCEPT ![next] = tmp] /\ tmp' = NoItem
  /\ Published
  /\ UNCHANGED <<call, src, synced>>

CleanUp ==
  /\ pc = "cleanup"
  /\ pc' = "end"
  /\ \/ tmp' = NoItem /\ UNCHANGED <<messy, outcome>>
     \/ messy' = TRUE /\ UNCHANGED tmp
        \* link() does not look whether its temporary went.
        /\ outcome' = IF outcome = "skipped" /\ request.op # "Link" THEN "failed" ELSE outcome
  /\ UNCHANGED <<call, src, dst, synced, canceled>>

-----------------------------------------------------------------------------
(* move().                                                                 *)

BeginMove ==
  /\ pc = "begin" /\ request.op \in {"Move", "Recase"} /\ MayGoOn
  /\ Goto(IF request.op = "Recase" THEN "recase" ELSE "rename")
  /\ UNCHANGED <<call, src, dst, tmp, synced>>

\* The source takes the name.
Rename(n) == dst' = [dst EXCEPT ![n] = src] /\ src' = NoItem /\ Return("done")

MoveConflict(decided) ==
  \/ decided = "Skip" /\ Return("skipped") /\ UNCHANGED next
  \/ decided = "Fail" /\ Return("failed") /\ UNCHANGED next
  \/ decided = "Replace" /\ Goto("replace") /\ UNCHANGED next
  \/ decided = "KeepBoth" /\ next' = NextName(next) /\ Goto("keep")

MoveAcross ==
  /\ pc = "rename" /\ ~request.sameVolume
  /\ Goto("stage")
  /\ UNCHANGED <<call, src, dst, tmp, synced>>

MoveNew ==
  /\ pc \in {"rename", "keep"} /\ request.sameVolume /\ Free(next)
  /\ Rename(next)
  /\ UNCHANGED <<call, tmp, synced>>

MoveExists ==
  /\ pc = "rename" /\ request.sameVolume /\ ~Free(next)
  /\ IF policy = "Ask" THEN Goto("ask") /\ UNCHANGED next ELSE MoveConflict(policy)
  /\ UNCHANGED <<request, policy, merged, src, dst, tmp, synced>>

AskMove ==
  /\ pc = "ask" /\ MayGoOn
  /\ policy' \in Policies \ {"Ask"}
  /\ MoveConflict(policy')
  /\ UNCHANGED <<request, merged, src, dst, tmp, synced>>

KeepExists ==
  /\ pc = "keep" /\ ~Free(next)
  /\ next' = NextName(next)
  /\ UNCHANGED <<request, policy, merged, src, dst, tmp, synced, pc, outcome, canceled, messy>>

\* A folder that is not empty is merged into by a copy; a file and a folder do not mix.
MoveReplace ==
  /\ pc = "replace"
  /\ IF TakesPlaceOf(src, dst[next]) THEN Rename(next)
     ELSE /\ IF src.kind = "folder" /\ dst[next].kind = "folder" THEN Goto("stage") ELSE Return("failed")
          /\ UNCHANGED <<src, dst>>
  /\ UNCHANGED <<call, tmp, synced>>

SyncTarget ==
  /\ pc = "syncTarget"
  /\ synced' = TRUE
  /\ Goto("remove")
  /\ UNCHANGED <<call, src, dst, tmp>>

RemovePart ==
  /\ pc = "remove" /\ src.kind = "folder"
  /\ \E p \in Parts : /\ src.parts[p] # Missing
                      /\ src' = [src EXCEPT !.parts[p] = Missing]
  /\ UNCHANGED <<call, dst, tmp, synced, pc, outcome, canceled, messy>>

Remove ==
  /\ pc = "remove" /\ (src.kind = "file" \/ Empty(src))
  /\ src' = NoItem
  /\ Return("done")
  /\ UNCHANGED <<call, dst, tmp, synced>>

\* A new case of the same name goes by way of another name.
HideSource ==
  /\ pc = "recase"
  /\ tmp' = src /\ src' = NoItem
  /\ Goto("restoreCase")
  /\ UNCHANGED <<call, dst, synced>>

TakeNewCase ==
  /\ pc = "restoreCase" /\ src = NoItem
  /\ src' = tmp /\ tmp' = NoItem
  /\ Return("done")
  /\ UNCHANGED <<call, dst, synced>>

\* The item goes back, over what another program put there meanwhile; a failure is ignored.
RollBack ==
  /\ pc = "rollback"
  /\ \/ TakesPlaceOf(tmp, src) /\ src' = tmp /\ tmp' = NoItem
     \/ UNCHANGED <<src, tmp>>
  /\ Return("failed")
  /\ UNCHANGED <<call, dst, synced>>

-----------------------------------------------------------------------------
(* Around the call: cancelling, other programs, the end of the process.    *)

Cancel ==
  /\ ~canceled /\ pc # "end"
  /\ canceled' = TRUE
  /\ UNCHANGED <<call, src, dst, tmp, synced, pc, outcome, messy>>

\* The last of Names stays free, as there is always a further name to keep an item under.
OtherAppears ==
  /\ \E kind \in Kinds :
       \/ /\ \E n \in Names \ {MaxNames} :
               dst[n] = NoItem /\ dst' = [dst EXCEPT ![n] = Item(kind, "other")]
          /\ UNCHANGED src
       \/ /\ pc \in {"restoreCase", "rollback"} /\ src = NoItem
          /\ src' = Item(kind, "other")
          /\ UNCHANGED dst
  /\ UNCHANGED <<call, tmp, synced, pc, outcome, canceled, messy>>

\* Another program removes what is its own, or was there before.
OtherVanishes ==
  /\ \E n \in Names :
       /\ Whole(dst[n], {"old", "other"}) /\ (request.duplicate => n # 1)
       /\ dst' = [dst EXCEPT ![n] = NoItem]
  /\ UNCHANGED <<call, src, tmp, synced, pc, outcome, canceled, messy>>

Killed ==
  /\ pc # "end"
  /\ pc' = "end" /\ outcome' = "killed"
  /\ UNCHANGED <<call, src, dst, tmp, synced, canceled, messy>>

\* What was copied and not flushed is lost; renames are journalled in their order.
Unflushed(item) == [item EXCEPT !.parts = [p \in Parts |-> IF @[p] = "copy" THEN Missing ELSE @[p]]]
PowerCut ==
  /\ pc' = "end" /\ outcome' = "killed" /\ synced' = TRUE
  /\ IF synced THEN UNCHANGED <<dst, tmp>>
     ELSE dst' = [n \in Names |-> Unflushed(dst[n])] /\ tmp' = Unflushed(tmp)
  /\ UNCHANGED <<call, src, canceled, messy>>

Others == OtherAppears \/ OtherVanishes
Copying == BeginCopy \/ Stage \/ CopyPart \/ Copied
Publishing ==
  \/ PublishNew \/ PublishExists \/ AskPublish \/ SyncTemporary \/ Stat
  \/ Exchange \/ EraseOld \/ MergePart \/ Merged \/ Over \/ CleanUp
Moving ==
  \/ BeginMove \/ MoveAcross \/ MoveNew \/ MoveExists \/ AskMove \/ KeepExists \/ MoveReplace
  \/ SyncTarget \/ RemovePart \/ Remove \/ HideSource \/ TakeNewCase \/ RollBack
Worker == Stop \/ SyscallFails \/ Copying \/ Publishing \/ Moving

Next == Worker \/ Cancel \/ Others \/ Killed \/ PowerCut

Spec == Init /\ [][Next]_vars

-----------------------------------------------------------------------------
(* Properties.                                                             *)

\* Every variable holds a value of its kind, only the policy Replace leads to where the item at
\* the destination is replaced, and only KeepBoth to another name.
Replacing == {"replace", "sync", "stat", "exchange", "eraseOld", "merge", "over"}
TypeOK ==
  /\ request \in Requests
  /\ src \in Items /\ tmp \in Items /\ dst \in [Names -> Items]
  /\ synced \in BOOLEAN /\ canceled \in BOOLEAN /\ merged \in BOOLEAN /\ messy \in BOOLEAN
  /\ policy \in Policies /\ next \in Names /\ outcome \in Outcomes
  /\ pc \in Replacing => policy = "Replace"
  /\ policy # "KeepBoth" => next = 1

\* Nothing is lost (copy, move): at every moment, through failures, cancelling, kills and power
\* cuts, the source is whole where it was, or a move has put it or a whole copy of it at a name.
SourceSafe ==
  \/ Whole(src, {"source"})
  \/ request.op = "Move" /\ \E n \in Names : Whole(dst[n], {"source"}) \/ Whole(dst[n], {"copy"})
  \/ request.op = "Recase" /\ Whole(tmp, {"source"})

\* The call puts what it makes in the place of something else only at the destination, only by
\* the policy Replace, and by nothing that a power cut could still take away.
NoOverwrite ==
  [][\A n \in Names, p \in Parts :
       dst[n].parts[p] \in {"old", "other"} /\ dst'[n].parts[p] # dst[n].parts[p] =>
         \/ Others
         \/ /\ n = 1 /\ policy = "Replace"
            /\ dst'[n].parts[p] = "source" \/ synced]_vars

\* What ends in a return or an exception leaves nothing under a temporary name, unless cleaning
\* up or the way back of a change of case failed.
NoDebris ==
  pc = "end" /\ outcome # "killed" /\ ~messy /\ request.op # "Recase" => tmp = NoItem

\* No other program sees a copy in the making: a name holds all of the copy or none of it,
\* apart from a folder that is merged into.
PublishedWhole ==
  outcome # "killed" =>
    \A n \in Names : (\E p \in Parts : dst[n].parts[p] = "copy") =>
      Whole(dst[n], {"copy"}) \/ (policy = "Replace" /\ dst[n].kind = "folder" /\ ~request.bundle)

\* "Once a cross-device copy is published, finish removal without cancellation": a call that
\* ends cancelled or skipped has its source whole and put nothing at any name, but for the parts of
\* a folder that were merged before it was cancelled.
CanceledUntouched ==
  outcome \in {"canceled", "skipped"} =>
    /\ Whole(src, {"source"})
    /\ \A n \in Names, p \in Parts :
         dst[n].parts[p] # "source" /\ (dst[n].parts[p] = "copy" => policy = "Replace")

\* What the call returns is there: after "done", some name holds the copy, a merged one its parts.
DoneIsDone ==
  outcome = "done" /\ request.op # "Recase" =>
    /\ \E n \in Names : Whole(dst[n], {"source"}) \/ Whole(dst[n], {"copy"})
    /\ request.op = "Move" <=> src = NoItem

\* Whatever stops a call, or stops it too late, what it returns is what it did.
EndsAsTold == CanceledUntouched /\ DoneIsDone
=============================================================================
