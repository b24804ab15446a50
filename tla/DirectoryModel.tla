---------------------------- MODULE DirectoryModel ----------------------------
(***************************************************************************)
(* DirectoryModel (files/directory_model.cpp): the rows of a lister's      *)
(* listing, brought in step with each new listing by rows removed, renewed *)
(* and inserted, and a view that follows them.  Two files can have one     *)
(* URL, as in two volumes' trash.                                          *)
(***************************************************************************)
EXTENDS Integers, SequencesExt

CONSTANTS
  Urls,        \* that are listed
  MaxLength,   \* of a listing
  MaxEvents    \* bounds listings and moves to other folders

VARIABLES
  listed,   \* the lister's items: each a URL, and the listing it is from
  items,    \* the model's
  was,      \* the model's before the last listing
  news,     \* the changes told of the last listing, each with the model's items as it is told
  view,     \* the URL of each row, as a view has it from the changes told, and the listing that inserted it
  events    \* counts towards MaxEvents

vars == <<listed, items, was, news, view, events>>

Listings(number) == {[i \in DOMAIN urls |-> [url |-> urls[i], listing |-> number]] : urls \in SeqOf(Urls, MaxLength)}
UrlsOf(list) == {list[i].url : i \in DOMAIN list}
Cut(list, first, count) == SubSeq(list, 1, first) \o SubSeq(list, first + count + 1, Len(list))

Told(change, first, count, now) == [change |-> change, first |-> first, count |-> count, items |-> now]
Inserted(first, count, now) == IF count = 0 THEN <<>> ELSE <<Told("inserted", first, count, now)>>
Renewed(now) == IF now = <<>> THEN <<>> ELSE <<Told("changed", 0, Len(now), now)>>

-----------------------------------------------------------------------------
(* synchronize()                                                           *)

\* The rows at both ends that have the same files.
Same(incoming) ==
  Max({n \in 0..Min({Len(items), Len(incoming)}) : \A i \in 1..n : items[i].url = incoming[i].url})
Rest(incoming) ==
  Max({n \in 0..(Min({Len(items), Len(incoming)}) - Same(incoming)) :
         \A i \in 0..(n - 1) : items[Len(items) - i].url = incoming[Len(incoming) - i].url})

\* A file in between them is still listed.
Moved(incoming) ==
  \E i \in (Same(incoming) + 1)..(Len(items) - Rest(incoming)) :
  \E j \in (Same(incoming) + 1)..(Len(incoming) - Rest(incoming)) : items[i].url = incoming[j].url

\* None is: the rows in between are replaced.
Replaced(incoming) ==
  LET same == Same(incoming)
      removed == Len(items) - Rest(incoming) - same
      left == Cut(items, same, removed) IN
  [items |-> incoming,
   news |-> (IF removed > 0 THEN <<Told("removed", same, removed, left)>> ELSE <<>>)
            \o Inserted(same, Len(incoming) - Rest(incoming) - same, incoming) \o Renewed(incoming)]

\* Where a URL is in the new listing: of two files with it, the last.
Position(incoming, url) == Max({i \in DOMAIN incoming : incoming[i].url = url})

\* The rows whose files are gone are removed, a run at a time, the last run first.
Shrink(incoming) ==
  LET gone == {i \in DOMAIN items : items[i].url \notin UrlsOf(incoming)}
      First(last) == Min({i \in gone : i..last \subseteq gone})
      Staying(e) == e.url \in UrlsOf(incoming)
      Removal(last) ==
        Told("removed", First(last) - 1, last - First(last) + 1,
             SubSeq(items, 1, First(last) - 1) \o SelectSeq(SubSeq(items, last + 1, Len(items)), Staying))
      ends == SetToSortSeq({i \in gone : i + 1 \notin gone}, >) IN
  [i \in DOMAIN ends |-> Removal(ends[i])]

\* The other rows keep their places, with the file their URL has now, and new files come last.
Matched(incoming) ==
  LET Staying(e) == e.url \in UrlsOf(incoming)
      rows == SelectSeq(items, Staying)
      kept == [i \in DOMAIN rows |-> incoming[Position(incoming, rows[i].url)]]
      Added(e) == e.url \notin UrlsOf(rows)
      added == SelectSeq(incoming, Added) IN
  [items |-> kept \o added,
   news |-> Shrink(incoming) \o Renewed(kept) \o Inserted(Len(kept), Len(added), kept \o added)]

Synchronized(incoming) ==
  IF items = <<>> THEN [items |-> incoming, news |-> Inserted(0, Len(incoming), incoming)]
  ELSE IF Same(incoming) = Len(items) /\ Same(incoming) = Len(incoming)
       THEN [items |-> incoming, news |-> Renewed(incoming)]
  ELSE IF Moved(incoming) THEN Matched(incoming)
  ELSE Replaced(incoming)

-----------------------------------------------------------------------------
\* A view: each change as it is told.
Follow(rows, told) ==
  CASE told.change = "removed" -> Cut(rows, told.first, told.count)
    [] told.change = "inserted" ->
         SubSeq(rows, 1, told.first)
           \o [i \in 1..told.count |-> [url |-> told.items[told.first + i].url, since |-> events + 1]]
           \o SubSeq(rows, told.first + 1, Len(rows))
    [] OTHER -> rows

\* setDirLister(), and a view that is reset.
Rows(list) == [i \in DOMAIN list |-> [url |-> list[i].url, since |-> 0]]

ItemsChanged ==
  /\ events < MaxEvents /\ events' = events + 1
  /\ \E incoming \in Listings(events + 1) :
       LET now == Synchronized(incoming) IN
       /\ listed' = incoming /\ items' = now.items /\ was' = items /\ news' = now.news
       /\ view' = FoldLeft(Follow, view, now.news)

\* Another folder is opened.
DirectoryChanged ==
  /\ events < MaxEvents /\ events' = events + 1
  /\ listed' = <<>> /\ items' = <<>> /\ was' = <<>> /\ news' = <<>> /\ view' = <<>>

Init ==
  /\ events = 0 /\ news = <<>>
  /\ listed \in Listings(0) /\ items = listed /\ was = listed /\ view = Rows(listed)
Next == ItemsChanged \/ DirectoryChanged

Spec == Init /\ [][Next]_vars

-----------------------------------------------------------------------------
(* Properties.                                                             *)

\* Every variable holds a value of its kind.
TypeOK ==
  /\ events \in 0..MaxEvents /\ listed \in Listings(events)
  /\ \A list \in {items, was} : UrlsOf(list) \subseteq Urls /\ \A i \in DOMAIN list : list[i].listing \in 0..events
  /\ \A i \in DOMAIN view : view[i].url \in Urls /\ view[i].since \in 0..events

\* A view that does what it is told has the model's rows: each change told fits the items there are as it
\* is told, whatever moved, came and went at once.
ViewFollows ==
  /\ [i \in DOMAIN view |-> view[i].url] = [i \in DOMAIN items |-> items[i].url]
  /\ \A n \in DOMAIN news :
       LET before == IF n = 1 THEN Len(was) ELSE Len(news[n - 1].items)
           change == news[n] IN
       /\ change.first >= 0 /\ change.count > 0
       /\ Len(change.items) = CASE change.change = "removed" -> before - change.count
                                [] change.change = "inserted" -> before + change.count
                                [] OTHER -> before
       /\ change.first + change.count <= IF change.change = "removed" THEN before ELSE Len(change.items)

\* The model has the files of the listing and no other, as they are now, each as often as listed while no URL
\* is twice in it nor was; a file that stays keeps its row, so that a view keeps it selected, and its place
\* among the others that stay.
Once(list) == {url \in UrlsOf(list) : \A i, j \in DOMAIN list : list[i].url = url /\ list[j].url = url => i = j}
Mirrored ==
  LET stay == Once(was) \cap Once(listed)
      Place(list, url) == CHOOSE i \in DOMAIN list : list[i].url = url IN
  /\ UrlsOf(items) = UrlsOf(listed) /\ Range(items) \subseteq Range(listed)
  /\ Once(was) = UrlsOf(was) /\ Once(listed) = UrlsOf(listed) => Len(items) = Len(listed)
  /\ \A url \in stay : url \in Once(items) /\ (view[Place(view, url)].since < events \/ events = 0)
  /\ \A a, b \in stay : Place(was, a) < Place(was, b) => Place(items, a) < Place(items, b)
=============================================================================
