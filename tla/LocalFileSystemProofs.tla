------------------------ MODULE LocalFileSystemProofs ------------------------
(***************************************************************************)
(* Proofs about LocalFileSystem for every number of parts and of names.    *)
(* One inductive invariant says, place by place in the call, where it came *)
(* from (Route), what is at the temporary name (Staged), where the source  *)
(* is (Sourced), what names hold of it (Shown) and what the call has told  *)
(* (Told); each property of the module is then a consequence of it.        *)
(***************************************************************************)
EXTENDS LocalFileSystem, TLAPS

Moves == {"rename", "ask", "keep", "replace", "syncTarget", "remove"}
Recases == {"recase", "restoreCase", "rollback"}
Pcs == {"begin", "cleanup", "end"} \cup Staging \cup Moves \cup Recases

\* Where nothing is staged, where a whole copy is, and where a replacement has been flushed.
Unstaged == {"begin", "stage", "rename", "ask", "keep", "replace", "recase", "syncTarget", "remove"}
Ready == {"publish", "askPublish", "sync", "stat", "exchange", "over"}
Flushed == {"stat", "exchange", "eraseOld", "merge", "over"}

Types ==
  /\ request \in Requests
  /\ src \in Items /\ tmp \in Items /\ dst \in [Names -> Items]
  /\ synced \in BOOLEAN /\ canceled \in BOOLEAN /\ merged \in BOOLEAN /\ messy \in BOOLEAN
  /\ policy \in Policies /\ next \in Names /\ outcome \in Outcomes /\ pc \in Pcs

\* The operation and the policies that lead to each place, and the name that is tried there.
Route ==
  /\ pc \in Moves => request.op = "Move"
  /\ pc \in Recases => request.op = "Recase"
  /\ pc \notin Recases \cup {"begin", "end"} => request.op # "Recase"
  /\ pc \in Replacing => policy = "Replace"
  /\ pc \in {"ask", "askPublish"} => policy = "Ask"
  /\ pc = "keep" => policy = "KeepBoth"
  /\ policy # "KeepBoth" => next = 1
  /\ pc \in Flushed => synced
  /\ pc = "merge" => ~request.bundle
  /\ ~Free(MaxNames) => pc \in {"syncTarget", "remove", "end"}

\* What is at the temporary name.
Staged ==
  /\ pc \in Unstaged => tmp = NoItem
  /\ pc = "copy" => tmp.kind \in Kinds /\ \A p \in Parts : tmp.parts[p] \in {"copy", Missing}
  /\ pc \in Ready => Whole(tmp, {"copy"})
  /\ pc = "merge" =>
       /\ tmp.kind = "folder"
       /\ \A p \in Parts : \/ tmp.parts[p] = "copy"
                           \/ tmp.parts[p] = Missing /\ dst[next].parts[p] = "copy" /\ dst[next].kind = "folder"
  /\ pc \in {"restoreCase", "rollback"} => Whole(tmp, {"source"})
  /\ pc = "end" => outcome = "killed" \/ messy \/ request.op = "Recase" \/ tmp = NoItem

HasCopy == \E n \in Names : Whole(dst[n], {"copy"})
HasSource == \E n \in Names : Whole(dst[n], {"source"})

\* Where the source is, and that it lasts.
Sourced ==
  /\ pc \notin {"remove", "restoreCase", "rollback", "end"} => Whole(src, {"source"})
  /\ pc \in {"eraseOld", "syncTarget", "remove"} => HasCopy
  /\ pc = "remove" => synced
  /\ pc = "end" => \/ Whole(src, {"source"})
                   \/ request.op = "Move" /\ (HasSource \/ (HasCopy /\ synced))
                   \/ request.op = "Recase" /\ Whole(tmp, {"source"})

\* What a name may hold of the source or its copy.
ShownAt(n) ==
  /\ (\E p \in Parts : dst[n].parts[p] = "copy") =>
       /\ Whole(dst[n], {"copy"}) \/ (policy = "Replace" /\ dst[n].kind = "folder" /\ ~request.bundle)
       /\ policy = "Replace" \/ pc \in {"syncTarget", "remove"} \/ (pc = "end" /\ outcome \in {"done", "failed"})
  /\ (\E p \in Parts : dst[n].parts[p] = "source") => pc = "end" /\ outcome = "done"
Shown == outcome # "killed" => \A n \in Names : ShownAt(n)

\* What the call tells, and what is so then.
Told ==
  /\ pc = "cleanup" => outcome \in {"failed", "canceled", "skipped"}
  /\ outcome # "none" => pc \in {"cleanup", "end"}
  /\ outcome \in {"canceled", "skipped"} => Whole(src, {"source"})
  /\ outcome = "done" /\ request.op # "Recase" =>
       (HasSource \/ HasCopy) /\ (request.op = "Move" <=> src = NoItem)

Inv == Types /\ Route /\ Staged /\ Sourced /\ Shown /\ Told

-----------------------------------------------------------------------------
(* Items.                                                                  *)

LEMMA Basics ==
  /\ \A kind \in Kinds \cup {"none"}, origin \in Origins \cup {Missing} : Item(kind, origin) \in Items
  /\ NoItem \in Items /\ NoItem.kind = "none"
  /\ 1 \in Names /\ NextName(1) \in Names /\ MaxNames \in Names /\ 1 # MaxNames
  /\ \E p \in Parts : TRUE
BY FileSystemAssumption DEF Item, Items, All, Contents, NoItem, Missing, Origins, Names, NextName

\* The item at a name, all of it the copy, is not one that others may remove.
LEMMA NotTheirs ==
  ASSUME NEW item, NEW origin \in {"copy", "source"}, Whole(item, {origin}) PROVE ~Whole(item, {"old", "other"})
BY FileSystemAssumption DEF Whole

\* A further name is tried only before the last.
LEMMA NextNameOk == ASSUME Types, ~Free(next), Free(MaxNames) PROVE NextName(next) \in Names
BY FileSystemAssumption DEF Types, Names, NextName

\* One part moves from the temporary folder into the one at the destination.
LEMMA Merging ==
  ASSUME Types, MergePart
  PROVE  \E p \in Parts :
           /\ tmp.parts[p] # Missing /\ tmp' \in Items /\ dst' \in [Names -> Items]
           /\ tmp'.kind = tmp.kind /\ tmp'.parts = [tmp.parts EXCEPT ![p] = Missing]
           /\ dst'[next].kind = "folder" /\ dst[next].kind = "folder"
           /\ dst'[next].parts = [dst[next].parts EXCEPT ![p] = tmp.parts[p]]
           /\ \A n \in Names \ {next} : dst'[n] = dst[n]
<1>1. PICK p \in Parts : /\ tmp.parts[p] # Missing
                         /\ dst' = [dst EXCEPT ![next].parts[p] = tmp.parts[p]]
                         /\ tmp' = [tmp EXCEPT !.parts[p] = Missing]
  BY DEF MergePart
<1>2. /\ next \in Names /\ dst[next] \in Items /\ tmp \in Items /\ dst[next].kind = "folder"
      /\ tmp.parts \in Contents /\ dst[next].parts \in Contents
      /\ tmp.kind \in Kinds \cup {"none"}
  BY DEF Types, MergePart, Items
<1>3. PICK parts \in Contents : parts = [tmp.parts EXCEPT ![p] = Missing]
  BY <1>2 DEF Contents
<1>4. tmp' = [tmp EXCEPT !.parts = parts]
  BY <1>1, <1>3
<1>5. tmp' \in Items /\ tmp'.kind = tmp.kind /\ tmp'.parts = [tmp.parts EXCEPT ![p] = Missing]
  BY <1>2, <1>3, <1>4 DEF Items
<1>6. PICK item \in Items : item.kind = "folder" /\ item.parts = [dst[next].parts EXCEPT ![p] = tmp.parts[p]]
                            /\ item = [dst[next] EXCEPT !.parts[p] = tmp.parts[p]]
  <2>1. [dst[next].parts EXCEPT ![p] = tmp.parts[p]] \in Contents
    BY <1>2 DEF Contents
  <2> QED BY <1>2, <2>1 DEF Items
<1>7. dst' = [dst EXCEPT ![next] = item]
  BY <1>1, <1>6
<1>8. dst' \in [Names -> Items] /\ dst'[next] = item /\ \A n \in Names \ {next} : dst'[n] = dst[n]
  BY <1>2, <1>6, <1>7 DEF Types
<1> QED BY <1>1, <1>2, <1>5, <1>6, <1>8

\* One part is copied, one is removed.
LEMMA CopyingPart ==
  ASSUME Types, CopyPart
  PROVE  \E p \in Parts : /\ tmp' \in Items /\ tmp'.kind = tmp.kind /\ tmp.parts[p] = Missing
                          /\ tmp'.parts = [tmp.parts EXCEPT ![p] = "copy"] /\ tmp.parts \in Contents
<1>1. PICK p \in Parts : tmp.parts[p] = Missing /\ tmp' = [tmp EXCEPT !.parts[p] = "copy"]
  BY DEF CopyPart
<1>2. PICK kind \in Kinds \cup {"none"} : tmp = [kind |-> kind, parts |-> tmp.parts] /\ tmp.parts \in Contents
  BY DEF Types, Items
<1>3. PICK parts \in Contents : parts = [tmp.parts EXCEPT ![p] = "copy"]
  BY <1>2 DEF Contents, Origins
<1>4. tmp' = [kind |-> kind, parts |-> parts]
  BY <1>1, <1>2, <1>3
<1>5. tmp' \in Items /\ tmp'.kind = kind /\ tmp'.parts = parts /\ tmp.kind = kind
  BY <1>2, <1>3, <1>4 DEF Items
<1> QED BY <1>1, <1>2, <1>3, <1>5

LEMMA RemovingPart == ASSUME Types, RemovePart PROVE src' \in Items
<1>1. PICK p \in Parts : src' = [src EXCEPT !.parts[p] = Missing]
  BY DEF RemovePart
<1>2. PICK kind \in Kinds \cup {"none"} : src = [kind |-> kind, parts |-> src.parts] /\ src.parts \in Contents
  BY DEF Types, Items
<1>3. PICK parts \in Contents : parts = [src.parts EXCEPT ![p] = Missing]
  BY <1>2 DEF Contents
<1>4. src' = [kind |-> kind, parts |-> parts]
  BY <1>1, <1>2, <1>3
<1> QED BY <1>2, <1>4 DEF Items

\* What others do to a folder leaves what is wholly the source or its copy.
LEMMA OthersLeave ==
  ASSUME Types, OtherAppears \/ OtherVanishes, NEW origin \in {"copy", "source"}, NEW n \in Names,
         Whole(dst[n], {origin})
  PROVE  Whole(dst[n], {origin})'
<1>1. dst[n] # NoItem /\ ~Whole(dst[n], {"old", "other"})
  BY NotTheirs, Basics DEF Whole
<1>2. dst'[n] = dst[n]
  BY <1>1 DEF OtherAppears, OtherVanishes, Types
<1> QED BY <1>2 DEF Whole

\* A power cut takes what is not flushed of the copy, and nothing else.
LEMMA Unflushing ==
  ASSUME NEW item \in Items
  PROVE  /\ Unflushed(item) \in Items /\ Unflushed(item).kind = item.kind
         /\ \A p \in Parts : Unflushed(item).parts[p] = IF item.parts[p] = "copy" THEN Missing ELSE item.parts[p]
<1>1. item.parts \in Contents
  BY DEF Items
<1>2. PICK parts \in Contents : parts = [p \in Parts |-> IF item.parts[p] = "copy" THEN Missing ELSE item.parts[p]]
  BY <1>1 DEF Contents
<1>3. Unflushed(item) = [item EXCEPT !.parts = parts]
  BY <1>2 DEF Unflushed
<1>4. \A p \in Parts : parts[p] = IF item.parts[p] = "copy" THEN Missing ELSE item.parts[p]
  BY <1>2
<1>5. PICK kind \in Kinds \cup {"none"} : item = [kind |-> kind, parts |-> item.parts]
  BY DEF Items
<1>6. Unflushed(item) = [kind |-> kind, parts |-> parts]
  BY <1>3, <1>5
<1> QED BY <1>2, <1>4, <1>5, <1>6 DEF Items

LEMMA PowerCutTakes ==
  ASSUME Types, PowerCut
  PROVE  /\ dst' \in [Names -> Items] /\ tmp' \in Items
         /\ synced => UNCHANGED <<dst, tmp>>
         /\ \A n \in Names : Whole(dst[n], {"source"}) => Whole(dst[n], {"source"})'
         /\ Whole(tmp, {"source"}) => Whole(tmp, {"source"})'
<1>1. CASE synced
  BY <1>1 DEF PowerCut, Types, Whole
<1>2. CASE ~synced
  <2>1. dst' = [n \in Names |-> Unflushed(dst[n])] /\ tmp' = Unflushed(tmp)
    BY <1>2 DEF PowerCut
  <2>2. tmp \in Items /\ \A n \in Names : dst[n] \in Items
    BY DEF Types
  <2>3. \A n \in Names : dst'[n] = Unflushed(dst[n])
    BY <2>1
  <2>4. dst' \in [Names -> Items] /\ tmp' \in Items
    BY <2>1, <2>2, Unflushing
  <2>5. \A item \in Items : Whole(item, {"source"}) => Whole(Unflushed(item), {"source"})
    BY Unflushing DEF Whole
  <2> QED BY <1>2, <2>1, <2>2, <2>3, <2>4, <2>5 DEF Whole
<1> QED BY <1>1, <1>2

\* Once the whole of a folder was merged, the one at the destination is the copy.
LEMMA MergedWhole == ASSUME Types, Staged, Merged PROVE Whole(dst[next], {"copy"}) /\ next \in Names
BY FileSystemAssumption DEF Types, Staged, Merged, Empty, All, Whole, Missing

\* What holds of a name goes on while the name is left alone and the call does not turn back.
LEMMA ShownAtSame ==
  ASSUME NEW n \in Names, ShownAt(n), dst'[n] = dst[n], request' = request,
         policy = "Replace" => policy' = "Replace",
         pc \in {"syncTarget", "remove"} =>
           pc' \in {"syncTarget", "remove"} \/ (pc' = "end" /\ outcome' \in {"done", "failed"}),
         pc = "end" => pc' = "end" /\ outcome' = outcome
  PROVE  ShownAt(n)'
BY DEF ShownAt, Whole

LEMMA ShownSame ==
  ASSUME Shown, dst' = dst, request' = request,
         policy = "Replace" => policy' = "Replace",
         outcome' # "killed" =>
           /\ outcome # "killed"
           /\ pc \in {"syncTarget", "remove"} =>
                pc' \in {"syncTarget", "remove"} \/ (pc' = "end" /\ outcome' \in {"done", "failed"})
           /\ pc = "end" => pc' = "end" /\ outcome' = outcome
  PROVE  Shown'
BY ShownAtSame DEF Shown

\* A whole copy takes a name, or the source does.
LEMMA ShownTaken ==
  ASSUME Types, Shown, outcome = "none", request' = request, policy' = policy, next' = next,
         pc \notin {"syncTarget", "remove", "end"},
         NEW item, dst' = [dst EXCEPT ![next] = item],
         \/ /\ Whole(item, {"copy"})
            /\ policy = "Replace" \/ pc' = "syncTarget" \/ (pc' = "end" /\ outcome' = "done")
         \/ Whole(item, {"source"}) /\ pc' = "end" /\ outcome' = "done"
  PROVE  Shown'
<1>1. dst'[next] = item /\ \A n \in Names \ {next} : dst'[n] = dst[n]
  BY DEF Types
<1>2. ShownAt(next)'
  BY <1>1 DEF ShownAt, Whole
<1>3. \A n \in Names \ {next} : ShownAt(n)'
  BY <1>1, ShownAtSame DEF Shown
<1> QED BY <1>2, <1>3 DEF Shown

-----------------------------------------------------------------------------
(* The invariant, one conjunct after another.                              *)

\* What a step is.
LEMMA Steps ==
  ASSUME Next
  PROVE  \/ Stop \/ SyscallFails \/ BeginCopy \/ Stage \/ CopyPart \/ Copied \/ PublishNew
         \/ PublishExists \/ AskPublish \/ SyncTemporary \/ Stat \/ Exchange \/ EraseOld \/ MergePart
         \/ Merged \/ Over \/ CleanUp \/ BeginMove \/ MoveAcross \/ MoveNew \/ MoveExists \/ AskMove
         \/ KeepExists \/ MoveReplace \/ SyncTarget \/ RemovePart \/ Remove \/ HideSource
         \/ TakeNewCase \/ RollBack \/ Cancel \/ OtherAppears \/ OtherVanishes \/ Killed \/ PowerCut
BY DEF Next, Worker, Copying, Publishing, Moving, Others

LEMMA TypesStep == ASSUME Inv, Next PROVE Types'
<1> USE Basics, FileSystemAssumption DEF Inv, Types, Origins, Policies, Outcomes, Kinds, Pcs, Moves,
    Recases, Staging
<1>1. CASE Stop
  BY <1>1 DEF Stop, Throw, Abandon, Return, call
<1>2. CASE SyscallFails
  BY <1>2 DEF SyscallFails, Throw, Abandon, Return, Goto, call
<1>3. CASE BeginCopy
  BY <1>3 DEF BeginCopy, Return, Goto
<1>4. CASE Stage
  BY <1>4 DEF Stage, Goto, Items
<1>5. CASE CopyPart
  BY ZenonT(60), <1>5, CopyingPart DEF CopyPart, call
<1>6. CASE Copied
  BY <1>6 DEF Copied, AllCopied, Goto, call
<1>7. CASE PublishNew
  BY <1>7 DEF PublishNew, Published, AfterPublish, Goto, Return, call, Free
<1>8. CASE PublishExists
  BY <1>8, NextNameOk DEF PublishExists, PublishConflict, Abandon, Goto, Route
<1>9. CASE AskPublish
  BY <1>9, NextNameOk DEF AskPublish, PublishConflict, Abandon, Goto, Route
<1>10. CASE SyncTemporary
  BY <1>10 DEF SyncTemporary, SyncsVolume, Goto, call
<1>11. CASE Stat
  BY <1>11 DEF Stat, Goto, call
<1>12. CASE Exchange
  BY <1>12 DEF Exchange, Goto, call
<1>13. CASE EraseOld
  BY <1>13 DEF EraseOld, Published, AfterPublish, Goto, Return, call
<1>14. CASE MergePart
  BY ZenonT(60), <1>14, Merging DEF MergePart, call
<1>15. CASE Merged
  BY <1>15 DEF Merged, Published, AfterPublish, Goto, Return
<1>16. CASE Over
  BY <1>16 DEF Over, Published, AfterPublish, Goto, Return, call
<1>17. CASE CleanUp
  BY <1>17 DEF CleanUp, call
<1>18. CASE BeginMove
  BY <1>18 DEF BeginMove, Goto, call
<1>19. CASE MoveAcross
  BY <1>19 DEF MoveAcross, Goto, call
<1>20. CASE MoveNew
  BY <1>20 DEF MoveNew, Rename, Return, call
<1>21. CASE MoveExists
  BY <1>21, NextNameOk DEF MoveExists, MoveConflict, Goto, Return, Route
<1>22. CASE AskMove
  BY <1>22, NextNameOk DEF AskMove, MoveConflict, Goto, Return, Route
<1>23. CASE KeepExists
  BY <1>23, NextNameOk DEF KeepExists, Route
<1>24. CASE MoveReplace
  BY <1>24 DEF MoveReplace, Rename, Return, Goto, call
<1>25. CASE SyncTarget
  BY <1>25 DEF SyncTarget, Goto, call
<1>26. CASE RemovePart
  BY ZenonT(60), <1>26, RemovingPart DEF RemovePart, call
<1>27. CASE Remove
  BY <1>27 DEF Remove, Return, call
<1>28. CASE HideSource
  BY <1>28 DEF HideSource, Goto, call
<1>29. CASE TakeNewCase
  BY <1>29 DEF TakeNewCase, Return, call
<1>30. CASE RollBack
  BY <1>30 DEF RollBack, Return, call
<1>31. CASE Cancel
  BY <1>31 DEF Cancel, call
<1>32. CASE OtherAppears
  BY <1>32 DEF OtherAppears, call
<1>33. CASE OtherVanishes
  BY <1>33 DEF OtherVanishes, call
<1>34. CASE Killed
  BY <1>34 DEF Killed, call
<1>35. CASE PowerCut
  BY <1>35, PowerCutTakes DEF PowerCut, call
<1> QED BY Steps, <1>1, <1>2, <1>3, <1>4, <1>5, <1>6, <1>7, <1>8, <1>9, <1>10, <1>11, <1>12, <1>13, <1>14,
    <1>15, <1>16, <1>17, <1>18, <1>19, <1>20, <1>21, <1>22, <1>23, <1>24, <1>25, <1>26, <1>27, <1>28, <1>29,
    <1>30, <1>31, <1>32, <1>33, <1>34, <1>35

LEMMA RouteStep == ASSUME Inv, Next PROVE Route'
<1> USE Basics, FileSystemAssumption DEF Inv, Types, Route, Free, NoItem, Policies, Whole, Moves, Recases,
    Pcs, Flushed, Staging, Replacing, Checkpoints
<1>1. CASE Stop
  BY <1>1 DEF Stop, Throw, Abandon, Return, call
<1>2. CASE SyscallFails
  BY <1>2 DEF SyscallFails, Throw, Abandon, Return, Goto, call
<1>3. CASE BeginCopy
  BY <1>3 DEF BeginCopy, Return, Goto
<1>4. CASE Stage
  BY <1>4 DEF Stage, Goto
<1>5. CASE CopyPart
  BY <1>5 DEF CopyPart, call
<1>6. CASE Copied
  BY <1>6 DEF Copied, AllCopied, Goto, call
<1>7. CASE PublishNew
  BY <1>7 DEF PublishNew, Published, AfterPublish, Goto, Return, call
<1>8. CASE PublishExists
  BY <1>8 DEF PublishExists, PublishConflict, Abandon, Goto, NextName
<1>9. CASE AskPublish
  BY <1>9 DEF AskPublish, PublishConflict, Abandon, Goto, NextName
<1>10. CASE SyncTemporary
  BY <1>10 DEF SyncTemporary, SyncsVolume, Goto, call
<1>11. CASE Stat
  BY <1>11 DEF Stat, Goto, call
<1>12. CASE Exchange
  BY <1>12 DEF Exchange, Goto, call
<1>13. CASE EraseOld
  BY <1>13 DEF EraseOld, Published, AfterPublish, Goto, Return, call
<1>14. CASE MergePart
  BY <1>14, Merging DEF MergePart, call
<1>15. CASE Merged
  BY <1>15 DEF Merged, Published, AfterPublish, Goto, Return
<1>16. CASE Over
  BY <1>16 DEF Over, Published, AfterPublish, Goto, Return, call
<1>17. CASE CleanUp
  BY <1>17 DEF CleanUp, call
<1>18. CASE BeginMove
  BY <1>18 DEF BeginMove, Goto, call
<1>19. CASE MoveAcross
  BY <1>19 DEF MoveAcross, Goto, call
<1>20. CASE MoveNew
  BY <1>20 DEF MoveNew, Rename, Return, call
<1>21. CASE MoveExists
  BY <1>21 DEF MoveExists, MoveConflict, Goto, Return, NextName
<1>22. CASE AskMove
  BY <1>22 DEF AskMove, MoveConflict, Goto, Return, NextName
<1>23. CASE KeepExists
  BY <1>23 DEF KeepExists
<1>24. CASE MoveReplace
  BY <1>24 DEF MoveReplace, Rename, Return, Goto, call
<1>25. CASE SyncTarget
  BY <1>25 DEF SyncTarget, Goto, call
<1>26. CASE RemovePart
  BY <1>26 DEF RemovePart, call
<1>27. CASE Remove
  BY <1>27 DEF Remove, Return, call
<1>28. CASE HideSource
  BY <1>28 DEF HideSource, Goto, call
<1>29. CASE TakeNewCase
  BY <1>29 DEF TakeNewCase, Return, call
<1>30. CASE RollBack
  BY <1>30 DEF RollBack, Return, call
<1>31. CASE Cancel
  BY <1>31 DEF Cancel, call
<1>32. CASE OtherAppears
  BY <1>32 DEF OtherAppears, call
<1>33. CASE OtherVanishes
  BY <1>33 DEF OtherVanishes, call
<1>34. CASE Killed
  BY <1>34 DEF Killed, call
<1>35. CASE PowerCut
  BY <1>35 DEF PowerCut, call
<1> QED BY Steps, <1>1, <1>2, <1>3, <1>4, <1>5, <1>6, <1>7, <1>8, <1>9, <1>10, <1>11, <1>12, <1>13, <1>14,
    <1>15, <1>16, <1>17, <1>18, <1>19, <1>20, <1>21, <1>22, <1>23, <1>24, <1>25, <1>26, <1>27, <1>28, <1>29,
    <1>30, <1>31, <1>32, <1>33, <1>34, <1>35

LEMMA StagedStep == ASSUME Inv, Next PROVE Staged'
<1> USE Basics, FileSystemAssumption DEF Inv, Types, Route, Staged, Unstaged, Ready, Flushed, Staging,
    Checkpoints, Replacing, Whole, Items, Contents, Kinds, NoItem, Item, All, Missing
<1>1. CASE Stop
  BY <1>1 DEF Stop, Throw, Abandon, Return, call
<1>2. CASE SyscallFails
  BY <1>2 DEF SyscallFails, Throw, Abandon, Return, Goto, call
<1>3. CASE BeginCopy
  BY <1>3 DEF BeginCopy, Return, Goto
<1>4. CASE Stage
  BY <1>4 DEF Stage, Goto, Sourced, Pcs, Moves, Recases
<1>5. CASE CopyPart
  BY <1>5 DEF CopyPart, call
<1>6. CASE Copied
  BY <1>6 DEF Copied, AllCopied, Goto, call
<1>7. CASE PublishNew
  BY <1>7 DEF PublishNew, Published, AfterPublish, Goto, Return, call, Free
<1>8. CASE PublishExists
  BY <1>8 DEF PublishExists, PublishConflict, Abandon, Goto
<1>9. CASE AskPublish
  BY <1>9 DEF AskPublish, PublishConflict, Abandon, Goto
<1>10. CASE SyncTemporary
  BY <1>10 DEF SyncTemporary, SyncsVolume, Goto, call
<1>11. CASE Stat
  BY <1>11 DEF Stat, Goto, call
<1>12. CASE Exchange
  BY <1>12 DEF Exchange, Goto, call
<1>13. CASE EraseOld
  BY <1>13 DEF EraseOld, Published, AfterPublish, Goto, Return, call
<1>14. CASE MergePart
  BY <1>14, Merging DEF MergePart, call
<1>15. CASE Merged
  BY <1>15 DEF Merged, Published, AfterPublish, Goto, Return
<1>16. CASE Over
  BY <1>16 DEF Over, Published, AfterPublish, Goto, Return, call
<1>17. CASE CleanUp
  BY <1>17 DEF CleanUp, call
<1>18. CASE BeginMove
  BY <1>18 DEF BeginMove, Goto, call
<1>19. CASE MoveAcross
  BY <1>19 DEF MoveAcross, Goto, call
<1>20. CASE MoveNew
  BY <1>20 DEF MoveNew, Rename, Return, call
<1>21. CASE MoveExists
  BY <1>21 DEF MoveExists, MoveConflict, Goto, Return
<1>22. CASE AskMove
  BY <1>22 DEF AskMove, MoveConflict, Goto, Return
<1>23. CASE KeepExists
  BY <1>23 DEF KeepExists
<1>24. CASE MoveReplace
  BY <1>24 DEF MoveReplace, Rename, Return, Goto, call
<1>25. CASE SyncTarget
  BY <1>25 DEF SyncTarget, Goto, call
<1>26. CASE RemovePart
  BY <1>26 DEF RemovePart, call
<1>27. CASE Remove
  BY <1>27 DEF Remove, Return, call
<1>28. CASE HideSource
  BY <1>28 DEF HideSource, Goto, call, Sourced, Recases, Pcs
<1>29. CASE TakeNewCase
  BY <1>29 DEF TakeNewCase, Return, call
<1>30. CASE RollBack
  BY <1>30 DEF RollBack, Return, call, Recases
<1>31. CASE Cancel
  BY <1>31 DEF Cancel, call
<1>32. CASE OtherAppears
  BY <1>32 DEF OtherAppears, call
<1>33. CASE OtherVanishes
  BY <1>33 DEF OtherVanishes, call
<1>34. CASE Killed
  BY <1>34 DEF Killed, call
<1>35. CASE PowerCut
  BY <1>35 DEF PowerCut, call
<1> QED BY Steps, <1>1, <1>2, <1>3, <1>4, <1>5, <1>6, <1>7, <1>8, <1>9, <1>10, <1>11, <1>12, <1>13, <1>14,
    <1>15, <1>16, <1>17, <1>18, <1>19, <1>20, <1>21, <1>22, <1>23, <1>24, <1>25, <1>26, <1>27, <1>28, <1>29,
    <1>30, <1>31, <1>32, <1>33, <1>34, <1>35

LEMMA SourcedStep == ASSUME Inv, Next PROVE Sourced'
<1> USE Basics, FileSystemAssumption DEF Inv, Types, Route, Staged, Sourced, HasCopy, HasSource, Moves,
    Recases, Ready, Staging, Checkpoints, Whole, Items, Contents, Pcs
<1>1. CASE Stop
  BY <1>1 DEF Stop, Throw, Abandon, Return, call
<1>2. CASE SyscallFails
  BY <1>2 DEF SyscallFails, Throw, Abandon, Return, Goto, call
<1>3. CASE BeginCopy
  BY <1>3 DEF BeginCopy, Return, Goto
<1>4. CASE Stage
  BY <1>4 DEF Stage, Goto
<1>5. CASE CopyPart
  BY <1>5 DEF CopyPart, call
<1>6. CASE Copied
  BY <1>6 DEF Copied, AllCopied, Goto, call
<1>7. CASE PublishNew
  BY <1>7 DEF PublishNew, Published, AfterPublish, Goto, Return, call, Free
<1>8. CASE PublishExists
  BY <1>8 DEF PublishExists, PublishConflict, Abandon, Goto
<1>9. CASE AskPublish
  BY <1>9 DEF AskPublish, PublishConflict, Abandon, Goto
<1>10. CASE SyncTemporary
  BY <1>10 DEF SyncTemporary, SyncsVolume, Goto, call
<1>11. CASE Stat
  BY <1>11 DEF Stat, Goto, call
<1>12. CASE Exchange
  BY <1>12 DEF Exchange, Goto, call
<1>13. CASE EraseOld
  BY <1>13 DEF EraseOld, Published, AfterPublish, Goto, Return, call
<1>14. CASE MergePart
  BY <1>14, Merging DEF MergePart, call
<1>15. CASE Merged
  BY <1>15, MergedWhole DEF Merged, Published, AfterPublish, Goto, Return
<1>16. CASE Over
  BY <1>16 DEF Over, Published, AfterPublish, Goto, Return, call
<1>17. CASE CleanUp
  BY <1>17 DEF CleanUp, call
<1>18. CASE BeginMove
  BY <1>18 DEF BeginMove, Goto, call
<1>19. CASE MoveAcross
  BY <1>19 DEF MoveAcross, Goto, call
<1>20. CASE MoveNew
  BY <1>20 DEF MoveNew, Rename, Return, call
<1>21. CASE MoveExists
  BY <1>21 DEF MoveExists, MoveConflict, Goto, Return
<1>22. CASE AskMove
  BY <1>22 DEF AskMove, MoveConflict, Goto, Return
<1>23. CASE KeepExists
  BY <1>23 DEF KeepExists
<1>24. CASE MoveReplace
  BY <1>24 DEF MoveReplace, Rename, Return, Goto, call
<1>25. CASE SyncTarget
  BY <1>25 DEF SyncTarget, Goto, call
<1>26. CASE RemovePart
  BY <1>26 DEF RemovePart, call
<1>27. CASE Remove
  BY <1>27 DEF Remove, Return, call
<1>28. CASE HideSource
  BY <1>28 DEF HideSource, Goto, call
<1>29. CASE TakeNewCase
  BY <1>29 DEF TakeNewCase, Return, call
<1>30. CASE RollBack
  BY <1>30 DEF RollBack, Return, call
<1>31. CASE Cancel
  BY <1>31 DEF Cancel, call
<1>32. CASE OtherAppears
  BY ZenonT(60), <1>32, OthersLeave DEF OtherAppears, call
<1>33. CASE OtherVanishes
  <2>1. /\ \A n \in Names : Whole(dst[n], {"copy"}) => Whole(dst[n], {"copy"})'
        /\ \A n \in Names : Whole(dst[n], {"source"}) => Whole(dst[n], {"source"})'
    BY <1>33, OthersLeave
  <2>2. (HasCopy => HasCopy') /\ (HasSource => HasSource')
    BY <2>1
  <2> QED BY <1>33, <2>2 DEF OtherVanishes, call
<1>34. CASE Killed
  BY <1>34 DEF Killed, call
<1>35. CASE PowerCut
  <2>1. /\ synced => UNCHANGED <<dst, tmp>>
        /\ \A n \in Names : Whole(dst[n], {"source"}) => Whole(dst[n], {"source"})'
        /\ Whole(tmp, {"source"}) => Whole(tmp, {"source"})'
    BY <1>35, PowerCutTakes
  <2>2. (HasSource => HasSource') /\ (synced => HasCopy' = HasCopy)
    BY <2>1
  <2>3. pc' = "end" /\ synced' /\ UNCHANGED <<src, request>>
    BY <1>35 DEF PowerCut, call
  <2> QED BY <2>1, <2>2, <2>3
<1> QED BY Steps, <1>1, <1>2, <1>3, <1>4, <1>5, <1>6, <1>7, <1>8, <1>9, <1>10, <1>11, <1>12, <1>13, <1>14,
    <1>15, <1>16, <1>17, <1>18, <1>19, <1>20, <1>21, <1>22, <1>23, <1>24, <1>25, <1>26, <1>27, <1>28, <1>29,
    <1>30, <1>31, <1>32, <1>33, <1>34, <1>35

LEMMA ShownStep == ASSUME Inv, Next PROVE Shown'
<1> USE Basics, FileSystemAssumption DEF Inv, Types, Route, Told, Moves, Recases, Staging
<1>1. CASE Stop
  BY <1>1, ShownSame DEF Stop, Throw, Abandon, Return, call, Checkpoints
<1>2. CASE SyscallFails
  BY <1>2, ShownSame DEF SyscallFails, Throw, Abandon, Return, Goto, call
<1>3. CASE BeginCopy
  BY <1>3, ShownSame DEF BeginCopy, Return, Goto
<1>4. CASE Stage
  BY <1>4, ShownSame DEF Stage, Goto
<1>5. CASE CopyPart
  BY <1>5, ShownSame DEF CopyPart, call
<1>6. CASE Copied
  BY <1>6, ShownSame DEF Copied, AllCopied, Goto, call
<1>7. CASE PublishNew
  BY <1>7, ShownTaken, ShownSame DEF PublishNew, Published, AfterPublish, Goto, Return, call, Free, Staged,
      Ready
<1>8. CASE PublishExists
  BY <1>8, ShownSame DEF PublishExists, PublishConflict, Abandon, Goto
<1>9. CASE AskPublish
  BY <1>9, ShownSame DEF AskPublish, PublishConflict, Abandon, Goto
<1>10. CASE SyncTemporary
  BY <1>10, ShownSame DEF SyncTemporary, SyncsVolume, Goto, call
<1>11. CASE Stat
  BY <1>11, ShownSame DEF Stat, Goto, call
<1>12. CASE Exchange
  BY <1>12, ShownTaken, ShownSame DEF Exchange, Goto, call, Staged, Ready, Replacing
<1>13. CASE EraseOld
  BY <1>13, ShownSame DEF EraseOld, Published, AfterPublish, Goto, Return, call
<1>14. CASE MergePart
  <2>1. PICK p \in Parts :
          /\ dst'[next].kind = "folder" /\ dst[next].kind = "folder"
          /\ dst'[next].parts = [dst[next].parts EXCEPT ![p] = tmp.parts[p]] /\ tmp.parts[p] # Missing
          /\ \A n \in Names \ {next} : dst'[n] = dst[n]
    BY <1>14, Merging
  <2>2. UNCHANGED <<request, policy, pc, outcome, next>> /\ pc = "merge" /\ policy = "Replace" /\ outcome = "none" /\ ~request.bundle
    BY <1>14 DEF MergePart, call, Replacing
  <2>3. dst[next].parts \in Contents /\ tmp.parts[p] = "copy"
    BY <2>1, <2>2 DEF Staged, Items, Missing
  <2>4. \A q \in Parts : dst'[next].parts[q] = "source" => dst[next].parts[q] = "source"
    BY <2>1, <2>3 DEF Contents
  <2>5. ShownAt(next) /\ \A n \in Names \ {next} : ShownAt(n)'
    BY <2>1, <2>2, ShownAtSame DEF Shown
  <2>6. ShownAt(next)'
    BY <2>1, <2>2, <2>4, <2>5 DEF ShownAt
  <2> QED BY <2>2, <2>5, <2>6 DEF Shown
<1>15. CASE Merged
  BY <1>15, ShownSame DEF Merged, Published, AfterPublish, Goto, Return
<1>16. CASE Over
  BY <1>16, ShownTaken, ShownSame DEF Over, Published, AfterPublish, Goto, Return, call, Staged, Ready
<1>17. CASE CleanUp
  BY <1>17, ShownSame DEF CleanUp, call
<1>18. CASE BeginMove
  BY <1>18, ShownSame DEF BeginMove, Goto, call
<1>19. CASE MoveAcross
  BY <1>19, ShownSame DEF MoveAcross, Goto, call
<1>20. CASE MoveNew
  BY <1>20, ShownTaken, ShownSame DEF MoveNew, Rename, Return, call, Sourced, Pcs
<1>21. CASE MoveExists
  BY <1>21, ShownSame DEF MoveExists, MoveConflict, Goto, Return
<1>22. CASE AskMove
  BY <1>22, ShownSame DEF AskMove, MoveConflict, Goto, Return
<1>23. CASE KeepExists
  BY <1>23, ShownSame DEF KeepExists
<1>24. CASE MoveReplace
  BY <1>24, ShownTaken, ShownSame DEF MoveReplace, Rename, Return, Goto, call, Sourced, Pcs
<1>25. CASE SyncTarget
  BY <1>25, ShownSame DEF SyncTarget, Goto, call
<1>26. CASE RemovePart
  BY <1>26, ShownSame DEF RemovePart, call
<1>27. CASE Remove
  BY <1>27, ShownSame DEF Remove, Return, call
<1>28. CASE HideSource
  BY <1>28, ShownSame DEF HideSource, Goto, call
<1>29. CASE TakeNewCase
  BY <1>29, ShownSame DEF TakeNewCase, Return, call
<1>30. CASE RollBack
  BY <1>30, ShownSame DEF RollBack, Return, call
<1>31. CASE Cancel
  BY <1>31, ShownSame DEF Cancel, call
<1>32. CASE OtherAppears
  <2>1. UNCHANGED <<request, policy, pc, outcome>>
    BY <1>32 DEF OtherAppears, call
  <2>2. \A n \in Names : dst'[n] = dst[n] \/ \A p \in Parts : dst'[n].parts[p] \notin {"copy", "source"}
    BY <1>32 DEF OtherAppears, Item, All, NoItem, Missing
  <2> QED BY <2>1, <2>2, ShownAtSame DEF Shown, ShownAt
<1>33. CASE OtherVanishes
  <2>1. UNCHANGED <<request, policy, pc, outcome>>
    BY <1>33 DEF OtherVanishes, call
  <2>2. \A n \in Names : dst'[n] = dst[n] \/ \A p \in Parts : dst'[n].parts[p] \notin {"copy", "source"}
    BY <1>33 DEF OtherVanishes, Item, All, NoItem, Missing
  <2> QED BY <2>1, <2>2, ShownAtSame DEF Shown, ShownAt
<1>34. CASE Killed
  BY <1>34, ShownSame DEF Killed, call
<1>35. CASE PowerCut
  BY <1>35, ShownSame DEF PowerCut, call, Shown
<1> QED BY Steps, <1>1, <1>2, <1>3, <1>4, <1>5, <1>6, <1>7, <1>8, <1>9, <1>10, <1>11, <1>12, <1>13, <1>14,
    <1>15, <1>16, <1>17, <1>18, <1>19, <1>20, <1>21, <1>22, <1>23, <1>24, <1>25, <1>26, <1>27, <1>28, <1>29,
    <1>30, <1>31, <1>32, <1>33, <1>34, <1>35

LEMMA ToldStep == ASSUME Inv, Next PROVE Told'
<1> USE Basics, FileSystemAssumption DEF Inv, Types, Route, Staged, Sourced, Told, HasCopy, HasSource,
    Moves, Recases, Ready, Staging, Checkpoints, Whole, Items, Contents, NoItem
<1>1. CASE Stop
  BY <1>1 DEF Stop, Throw, Abandon, Return, call
<1>2. CASE SyscallFails
  BY <1>2 DEF SyscallFails, Throw, Abandon, Return, Goto, call
<1>3. CASE BeginCopy
  BY <1>3 DEF BeginCopy, Return, Goto
<1>4. CASE Stage
  BY <1>4 DEF Stage, Goto
<1>5. CASE CopyPart
  BY <1>5 DEF CopyPart, call
<1>6. CASE Copied
  BY <1>6 DEF Copied, AllCopied, Goto, call
<1>7. CASE PublishNew
  BY <1>7 DEF PublishNew, Published, AfterPublish, Goto, Return, call, Free
<1>8. CASE PublishExists
  BY <1>8 DEF PublishExists, PublishConflict, Abandon, Goto
<1>9. CASE AskPublish
  BY <1>9 DEF AskPublish, PublishConflict, Abandon, Goto
<1>10. CASE SyncTemporary
  BY <1>10 DEF SyncTemporary, SyncsVolume, Goto, call
<1>11. CASE Stat
  BY <1>11 DEF Stat, Goto, call
<1>12. CASE Exchange
  BY <1>12 DEF Exchange, Goto, call
<1>13. CASE EraseOld
  BY <1>13 DEF EraseOld, Published, AfterPublish, Goto, Return, call
<1>14. CASE MergePart
  BY <1>14, Merging DEF MergePart, call
<1>15. CASE Merged
  BY <1>15, MergedWhole DEF Merged, Published, AfterPublish, Goto, Return
<1>16. CASE Over
  BY <1>16 DEF Over, Published, AfterPublish, Goto, Return, call
<1>17. CASE CleanUp
  BY <1>17 DEF CleanUp, call
<1>18. CASE BeginMove
  BY <1>18 DEF BeginMove, Goto, call
<1>19. CASE MoveAcross
  BY <1>19 DEF MoveAcross, Goto, call
<1>20. CASE MoveNew
  BY <1>20 DEF MoveNew, Rename, Return, call
<1>21. CASE MoveExists
  BY <1>21 DEF MoveExists, MoveConflict, Goto, Return
<1>22. CASE AskMove
  BY <1>22 DEF AskMove, MoveConflict, Goto, Return
<1>23. CASE KeepExists
  BY <1>23 DEF KeepExists
<1>24. CASE MoveReplace
  BY <1>24 DEF MoveReplace, Rename, Return, Goto, call
<1>25. CASE SyncTarget
  BY <1>25 DEF SyncTarget, Goto, call
<1>26. CASE RemovePart
  BY <1>26 DEF RemovePart, call
<1>27. CASE Remove
  BY <1>27 DEF Remove, Return, call
<1>28. CASE HideSource
  BY <1>28 DEF HideSource, Goto, call
<1>29. CASE TakeNewCase
  BY <1>29 DEF TakeNewCase, Return, call
<1>30. CASE RollBack
  BY <1>30 DEF RollBack, Return, call
<1>31. CASE Cancel
  BY <1>31 DEF Cancel, call
<1>32. CASE OtherAppears
  BY <1>32, OthersLeave DEF OtherAppears, call
<1>33. CASE OtherVanishes
  BY <1>33, OthersLeave DEF OtherVanishes, call
<1>34. CASE Killed
  BY <1>34 DEF Killed, call
<1>35. CASE PowerCut
  BY <1>35, PowerCutTakes DEF PowerCut, call
<1> QED BY Steps, <1>1, <1>2, <1>3, <1>4, <1>5, <1>6, <1>7, <1>8, <1>9, <1>10, <1>11, <1>12, <1>13, <1>14,
    <1>15, <1>16, <1>17, <1>18, <1>19, <1>20, <1>21, <1>22, <1>23, <1>24, <1>25, <1>26, <1>27, <1>28, <1>29,
    <1>30, <1>31, <1>32, <1>33, <1>34, <1>35


LEMMA InvInit == Init => Inv
<1> SUFFICES ASSUME Init PROVE Inv
  OBVIOUS
<1> USE Basics, FileSystemAssumption DEF Init
<1>1. PICK kind \in Kinds : src = Item(kind, "source")
  OBVIOUS
<1>2. src \in Items /\ Whole(src, {"source"})
  BY <1>1 DEF Origins, Item, All, Whole, Kinds
<1>3. \A n \in Names : dst[n] \in Items /\ \A p \in Parts : dst[n].parts[p] \notin {"copy", "source"}
  <2>1. ASSUME NEW n \in Names PROVE dst[n] = NoItem \/ \E k \in Kinds : dst[n] = Item(k, "old")
    OBVIOUS
  <2>2. \A k \in Kinds : Item(k, "old") \in Items
    BY DEF Origins
  <2>3. \A k \in Kinds \cup {"none"}, origin \in {"old", Missing}, p \in Parts :
          Item(k, origin).parts[p] \notin {"copy", "source"}
    BY DEF Item, All, Missing
  <2>4. \A p \in Parts : NoItem.parts[p] \notin {"copy", "source"}
    BY DEF NoItem, Item, All, Missing
  <2> QED BY <2>1, <2>2, <2>3, <2>4
<1>4. Types
  BY <1>2, <1>3 DEF Types, Requests, Policies, Outcomes, Pcs
<1>5. Route
  BY <1>4 DEF Types, Route, Free, Moves, Recases, Replacing, Flushed, Requests, Policies
<1>6. Staged /\ Sourced /\ Told
  BY <1>2 DEF Staged, Sourced, Told, Unstaged, Ready
<1>7. Shown
  BY <1>3 DEF Shown, ShownAt
<1> QED BY <1>4, <1>5, <1>6, <1>7 DEF Inv

LEMMA InvSame == ASSUME Inv, UNCHANGED vars PROVE Inv'
<1> USE DEF Inv, vars
<1>1. Types' /\ Route' /\ Staged'
  BY DEF Types, Route, Staged, Free, Whole
<1>2. Sourced' /\ Told'
  BY DEF Sourced, Told, HasCopy, HasSource, Whole
<1>3. Shown'
  BY DEF Shown, ShownAt, Whole
<1> QED BY <1>1, <1>2, <1>3

\* The inductive invariant holds of every call.
THEOREM InvAlways == Spec => []Inv
<1>1. Inv /\ [Next]_vars => Inv'
  BY InvSame, TypesStep, RouteStep, StagedStep, SourcedStep, ShownStep, ToldStep DEF Inv
<1> QED BY <1>1, InvInit, PTL DEF Spec

-----------------------------------------------------------------------------
(* What follows.                                                           *)

\* The state of the call is well formed in every request, wherever it is stopped; what replaces
\* an item was asked to (LocalFileSystem::publish and move, "case ConflictPolicy::Replace").
THEOREM TypeCorrect == Spec => []TypeOK
<1>1. Inv => TypeOK
  BY DEF Inv, Types, Route, TypeOK
<1> QED BY <1>1, InvAlways, PTL

\* LocalFileSystem::copy and move never lose the source, whatever fails, cancels, kills or cuts
\* the power between two of their system calls, for any number of extents or entries.
THEOREM SourceSafeCorrect == Spec => []SourceSafe
<1>1. Inv => SourceSafe
  BY DEF Inv, Types, Route, Staged, Sourced, SourceSafe, HasCopy, HasSource, Moves, Recases
<1> QED BY <1>1, InvAlways, PTL

\* What a call leaves when it ends: the guard in publish() and the catch blocks have erased the
\* temporary, unless erasing it failed.
THEOREM NoDebrisCorrect == Spec => []NoDebris
<1>1. Inv => NoDebris
  BY DEF Inv, Staged, NoDebris
<1> QED BY <1>1, InvAlways, PTL

\* A copy appears at a name at once and whole: the rename of publish() is what shows it.
THEOREM PublishedWholeCorrect == Spec => []PublishedWhole
<1>1. Inv => PublishedWhole
  BY DEF Inv, Shown, ShownAt, PublishedWhole
<1> QED BY <1>1, InvAlways, PTL

\* What a call returns or throws is what it has done: "canceled" and "skipped" left source and
\* names alone, "done" put the source or its copy at a name and, in a move, took the source away.
THEOREM EndsAsToldCorrect == Spec => []EndsAsTold
<1>1. ASSUME Inv PROVE CanceledUntouched
  BY <1>1 DEF Inv, Shown, ShownAt, Told, CanceledUntouched
<1>2. ASSUME Inv PROVE DoneIsDone
  BY <1>2 DEF Inv, Told, DoneIsDone, HasCopy, HasSource
<1> QED BY <1>1, <1>2, InvAlways, PTL DEF EndsAsTold

-----------------------------------------------------------------------------
(* What a step may do to what it did not make.                             *)

MayOverwrite(n, p) ==
  /\ n = 1 /\ policy = "Replace"
  /\ dst'[n].parts[p] = "source" \/ synced

LEMMA OverwriteStep ==
  ASSUME Inv, Next, ~Others, NEW n \in Names, NEW p \in Parts,
         dst[n].parts[p] \in {"old", "other"}, dst'[n].parts[p] # dst[n].parts[p]
  PROVE  MayOverwrite(n, p)
<1> USE Basics DEF Inv, Types, Route, Replacing, Flushed, MayOverwrite
<1>1. ASSUME dst' = dst PROVE FALSE
  BY <1>1
<1>2. CASE PublishNew
  BY <1>2 DEF PublishNew, Free, NoItem, Item, All, Missing
<1>3. CASE Exchange
  BY <1>3 DEF Exchange
<1>4. CASE MergePart
  BY <1>4, Merging DEF MergePart
<1>5. CASE Over
  BY <1>5 DEF Over
<1>6. CASE MoveNew
  BY <1>6 DEF MoveNew, Rename, Free, NoItem, Item, All, Missing
<1>7. CASE MoveReplace
  BY <1>7, <1>1 DEF MoveReplace, Rename, Sourced, Whole
<1>8. CASE PowerCut
  <2>1. ~synced /\ dst' = [m \in Names |-> Unflushed(dst[m])]
    BY <1>8, <1>1 DEF PowerCut
  <2> QED BY <2>1, Unflushing
<1> QED
  BY <1>1, <1>2, <1>3, <1>4, <1>5, <1>6, <1>7, <1>8 DEF Next, Worker, Copying, Publishing, Moving, Others,
     Stop, SyscallFails, BeginCopy, Stage, CopyPart, Copied, PublishExists, AskPublish, SyncTemporary, Stat,
     EraseOld, Merged, CleanUp, BeginMove, MoveAcross, MoveExists, AskMove, KeepExists, SyncTarget,
     RemovePart, Remove, HideSource, TakeNewCase, RollBack, Cancel, Killed

\* publish() and move() take the place of what is at a name only at the destination itself, by
\* the policy Replace, and with what the disk already has (syncfs before the rename).
THEOREM NoOverwriteCorrect == Spec => NoOverwrite
<1>1. ASSUME Inv, Next
      PROVE  \A n \in Names, p \in Parts :
               dst[n].parts[p] \in {"old", "other"} /\ dst'[n].parts[p] # dst[n].parts[p] =>
                 Others \/ MayOverwrite(n, p)
  BY <1>1, OverwriteStep
<1>2. Inv /\ [Next]_vars =>
        [\A n \in Names, p \in Parts :
           dst[n].parts[p] \in {"old", "other"} /\ dst'[n].parts[p] # dst[n].parts[p] =>
             \/ Others
             \/ /\ n = 1 /\ policy = "Replace"
                /\ dst'[n].parts[p] = "source" \/ synced]_vars
  BY <1>1 DEF MayOverwrite
<1> QED BY <1>2, InvAlways, PTL DEF Spec, NoOverwrite
=============================================================================
