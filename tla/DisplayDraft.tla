----------------------------- MODULE DisplayDraft -----------------------------
(***************************************************************************)
(* OutputModel (clients/display/output_model.cpp): the displays as the     *)
(* user edits them, a row each that outlives refreshes, and what is asked  *)
(* of the compositor for them: which are on, the primary one, mirror       *)
(* groups, and a tree of placements without gaps or overlaps.              *)
(***************************************************************************)
EXTENDS Integers, Sequences, FiniteSetsExt, SequencesExt

CONSTANTS
  Screens,     \* that come and go
  Modes,       \* of each display, as the compositor lists them: width, height, refresh
  Positions,   \* that a display is dragged to
  Overlap,     \* of a display's edge with its parent's, at least (32 pixels)
  MaxEvents    \* bounds edits, discards and hotplugs

VARIABLES
  applied,   \* the compositor's state
  model,     \* the rows, and whether they or their layout were edited
  astray,    \* whether an edit named a display that cannot be a source or the primary one
  events     \* counts towards MaxEvents

vars == <<applied, model, astray, events>>

None == 0
Abs(n) == IF n < 0 THEN -n ELSE n
Row(i) == model.rows[i]
RowsOf == DOMAIN model.rows
Source(e) == IF e.source = None THEN e.id ELSE e.source
Extended(e) == e.enabled /\ e.source = None

-----------------------------------------------------------------------------
(* Modes: by size, the largest first, then by refresh rate.                *)

Area(m) == Modes[m].width * Modes[m].height
SameSize(m, n) == Modes[m].width = Modes[n].width /\ Modes[m].height = Modes[n].height
ResolutionModes ==
  SortSeq(SetToSortSeq({m \in DOMAIN Modes : \A n \in 1..(m - 1) : ~SameSize(m, n)}, <), LAMBDA m, n : Area(m) > Area(n))
RefreshModesOf ==
  [mode \in DOMAIN Modes |->
     SortSeq(SetToSortSeq({m \in DOMAIN Modes : SameSize(m, mode)}, <), LAMBDA m, n : Modes[m].refresh < Modes[n].refresh)]
RefreshModes(e) == RefreshModesOf[e.mode]

ResolutionIndex(e) == CHOOSE i \in DOMAIN ResolutionModes : SameSize(ResolutionModes[i], e.mode)
RefreshRateIndex(e) == CHOOSE i \in DOMAIN RefreshModes(e) : RefreshModes(e)[i] = e.mode

Apart(m, n) == Abs(Modes[m].refresh - Modes[n].refresh)
\* Of the modes of a resolution, the first with the refresh rate nearest to the present one.
NearestMode ==
  [mode \in DOMAIN Modes |-> [index \in DOMAIN ResolutionModes |->
     Min({m \in DOMAIN Modes : /\ SameSize(m, ResolutionModes[index])
                               /\ \A n \in DOMAIN Modes : SameSize(n, m) => Apart(m, mode) <= Apart(n, mode)})]]

-----------------------------------------------------------------------------
(* Edits.                                                                  *)

Edited(rows, layout) == [model EXCEPT !.rows = rows, !.dirty = TRUE, !.layoutDirty = @ \/ layout]
With(i, field, value) == [model.rows EXCEPT ![i] = [@ EXCEPT ![field] = value]]

\* The primary passes to the first of the rows that can be.
MakePrimary(rows, able) ==
  IF able = {} THEN rows ELSE [k \in DOMAIN rows |-> [rows[k] EXCEPT !.primary = k = Min(able)]]

\* A display that showed the picture of one that is switched off extends the desktop instead.
SwitchedOff(i) ==
  LET off == [k \in RowsOf |-> [Row(k) EXCEPT !.enabled = @ /\ k # i, !.primary = @ /\ k # i,
                                              !.source = IF @ = Row(i).id THEN None ELSE @]] IN
  IF Row(i).primary THEN MakePrimary(off, {k \in RowsOf : Extended(off[k])}) ELSE off
SetEnabled(i, enabled) ==
  /\ enabled # Row(i).enabled
  /\ enabled \/ Cardinality({k \in RowsOf : Row(k).enabled}) > 1
  /\ model' = Edited(IF enabled THEN With(i, "enabled", TRUE) ELSE SwitchedOff(i), TRUE)
  /\ UNCHANGED astray

SetPrimary(i) ==
  /\ Row(i).enabled /\ ~Row(i).primary
  /\ model' = Edited([k \in RowsOf |-> [Row(k) EXCEPT !.primary = k = i]], FALSE)
  /\ astray' = (astray \/ Row(i).source # None)

\* The displays that mirrored this one follow it to its source, which mirrors nothing then.
Mirroring(i, source) ==
  LET rows == [k \in RowsOf |-> [Row(k) EXCEPT !.source = IF k = i THEN source
                                                          ELSE IF source # None /\ @ = Row(i).id
                                                          THEN IF Row(k).id = source THEN None ELSE source
                                                          ELSE @]] IN
  IF Row(i).primary THEN MakePrimary(rows, {k \in RowsOf : rows[k].id = source /\ Extended(rows[k])}) ELSE rows
\* Whether the display that is to be shown here shows a picture of its own, or will then.
CanBeSource(i, source) ==
  source = None \/ \E k \in RowsOf : Row(k).id = source /\ Row(k).enabled /\ Row(k).source \in {None, Row(i).id}
SetReplicationSource(i, source) ==
  /\ source # Row(i).source
  /\ model' = Edited(Mirroring(i, source), TRUE)
  /\ astray' = (astray \/ ~CanBeSource(i, source))

SetField(i, field, value, layout) ==
  Row(i)[field] # value /\ model' = Edited(With(i, field, value), layout) /\ UNCHANGED astray

Edit ==
  \E i \in RowsOf :
    \/ \E enabled \in BOOLEAN : SetEnabled(i, enabled)
    \/ SetPrimary(i)
    \/ \E source \in {None} \cup {Row(k).id : k \in RowsOf \ {i}} : SetReplicationSource(i, source)
    \/ \E p \in Positions : SetField(i, "position", p, TRUE)
    \/ \E r \in 0..1 : SetField(i, "rotation", r, FALSE)
    \/ \E s \in 1..2 : SetField(i, "scale", s, FALSE)
    \/ \E index \in DOMAIN ResolutionModes : SetField(i, "mode", NearestMode[Row(i).mode][index], FALSE)
    \/ \E index \in DOMAIN RefreshModes(Row(i)) : SetField(i, "mode", RefreshModes(Row(i))[index], FALSE)

-----------------------------------------------------------------------------
(* What is asked of the compositor.                                        *)

Primary(rows) == {e.id : e \in {rows[k] : k \in {j \in DOMAIN rows : rows[j].primary}}}

NeedsConfirmation(rows) ==
  \E k \in DOMAIN rows : /\ rows[k].enabled /\ applied.mode[rows[k].id] # None
                         /\ rows[k].mode # applied.mode[rows[k].id]

MirrorGroups(rows) ==
  {[source |-> s, mirrors |-> {rows[k].id : k \in {j \in DOMAIN rows : rows[j].enabled /\ rows[j].source = s}}] :
     s \in {rows[k].source : k \in {j \in DOMAIN rows : rows[j].enabled}} \ {None}}

Up(n, scale) == (n + scale - 1) \div scale
LogicalSize(e) ==
  LET m == Modes[e.mode] IN
  IF e.rotation = 1 THEN [width |-> Up(m.height, e.scale), height |-> Up(m.width, e.scale)]
  ELSE [width |-> Up(m.width, e.scale), height |-> Up(m.height, e.scale)]
RectOf(e) == [x |-> e.position.x, y |-> e.position.y, width |-> LogicalSize(e).width, height |-> LogicalSize(e).height]

Intersects(a, b) ==
  a.x < b.x + b.width /\ b.x < a.x + a.width /\ a.y < b.y + b.height /\ b.y < a.y + a.height

\* The place of e along an edge of a display (0 its top, then clockwise) that is nearest to where e is.
Place(e, k, placed, edge) ==
  LET size == LogicalSize(e)
      rect == placed[k].rect
      horizontal == edge % 2 = 1
      child == IF horizontal THEN size.height ELSE size.width
      along == IF horizontal THEN rect.height ELSE rect.width
      overlap == Min({Overlap, child, along})
      cross == IF horizontal THEN e.position.y - rect.y ELSE e.position.x - rect.x
      away == IF horizontal THEN e.position.x - rect.x ELSE e.position.y - rect.y
      offset == Max({overlap - child, Min({along - overlap, cross})})
      normal == CASE edge = 0 -> -size.height [] edge = 1 -> rect.width [] edge = 2 -> rect.height [] edge = 3 -> -size.width
  IN [id |-> e.id, parent |-> placed[k].id, edge |-> edge, offset |-> offset, order |-> 4 * k + edge,
      distance |-> Abs(away - normal) + Abs(cross - offset),
      rect |-> [x |-> rect.x + (IF horizontal THEN normal ELSE offset),
                y |-> rect.y + (IF horizontal THEN offset ELSE normal), width |-> size.width, height |-> size.height]]
Root(e) == [id |-> e.id, parent |-> None, edge |-> 0, offset |-> 0, order |-> 0, distance |-> 0, rect |-> RectOf(e)]

\* The nearest free place beside a display that is placed; of places as near, beside the one placed first.
Nearest(e, placed) ==
  LET places == {Place(e, o[1], placed, o[2]) : o \in (DOMAIN placed) \X (0..3)}
      free == {p \in places : \A j \in DOMAIN placed : ~Intersects(placed[j].rect, p.rect)}
      nearest == {p \in free : \A q \in free : p.distance <= q.distance}
  IN IF free = {} THEN [Root(e) EXCEPT !.id = None] ELSE CHOOSE p \in nearest : \A q \in nearest : p.order <= q.order

\* The root, which is the primary display, and the placement of each other display that is not a mirror.
Placements(rows) ==
  LET roots == SelectSeq(rows, LAMBDA e : e.id \in Primary(rows))
      others == SelectSeq(rows, LAMBDA e : Extended(e) /\ e.id \notin Primary(rows)) IN
  IF roots = <<>> THEN <<>>
  ELSE FoldLeft(LAMBDA placed, e : Append(placed, Nearest(e, placed)), <<Root(Last(roots))>>, others)

-----------------------------------------------------------------------------
(* The compositor's states.                                                *)

\* setState(): the rows of displays that are connected stay, in their order, and take what is applied to them.
Taken(e, s) ==
  IF s.source[e.id] = None THEN [e EXCEPT !.enabled = FALSE, !.primary = FALSE, !.source = None]
  ELSE [e EXCEPT !.enabled = TRUE, !.primary = s.primary = e.id, !.position = s.position[s.source[e.id]],
                 !.source = IF s.source[e.id] = e.id THEN None ELSE s.source[e.id],
                 !.scale = 1, !.rotation = 0, !.mode = s.mode[e.id]]
Fresh(d) ==
  [id |-> d, enabled |-> FALSE, primary |-> FALSE, position |-> [x |-> 0, y |-> 0], scale |-> 1, rotation |-> 0,
   mode |-> 1, source |-> None]
SetState(rows, s) ==
  LET kept == SelectSeq(rows, LAMBDA e : e.id \in DOMAIN s.source)
      added == SetToSortSeq(DOMAIN s.source \ {e.id : e \in ToSet(rows)}, <)
      all == kept \o [k \in DOMAIN added |-> Fresh(added[k])] IN
  [rows |-> [k \in DOMAIN all |-> Taken(all[k], s)], dirty |-> FALSE, layoutDirty |-> FALSE]

Discard == model.dirty /\ model' = SetState(model.rows, applied) /\ astray' = FALSE /\ UNCHANGED applied

\* Displays that are on show a picture of their own or mirror one that does; one of these is the primary display.
\* They stand side by side.
States ==
  UNION {{[source |-> source, primary |-> p, mode |-> [d \in D |-> IF source[d] = None THEN None ELSE 1],
           position |-> [d \in D |-> [x |-> Cardinality({c \in D : c < d /\ source[c] = c}) * Modes[1].width, y |-> 0]]] :
            p \in {d \in D : source[d] = d}} :
         <<D, source>> \in UNION {{<<E, f>> : f \in [E -> E \cup {None}]} : E \in SUBSET Screens \ {{}}}}
Layouts == {s \in States : \A d \in DOMAIN s.source : s.source[d] # None => s.source[s.source[d]] = s.source[d]}

Refresh ==
  \E s \in Layouts : s # applied /\ applied' = s /\ model' = SetState(model.rows, s) /\ astray' = FALSE

Init ==
  /\ applied \in Layouts
  /\ model = SetState(<<>>, applied) /\ astray = FALSE /\ events = 0

Next ==
  /\ events < MaxEvents /\ events' = events + 1
  /\ \/ Edit /\ UNCHANGED applied
     \/ Discard
     \/ Refresh

Spec == Init /\ [][Next]_vars

-----------------------------------------------------------------------------
(* Properties.                                                             *)

\* Every variable holds a value of its kind.
TypeOK ==
  /\ {Row(i).id : i \in RowsOf} = DOMAIN applied.source
  /\ \A i, k \in RowsOf : Row(i).id = Row(k).id => i = k
  /\ \A i \in RowsOf : Row(i).mode \in DOMAIN Modes
  /\ model.layoutDirty => model.dirty

\* A draft without edits shows what is applied, whatever was discarded, and asks for no confirmation.
CleanShowsApplied ==
  ~model.dirty =>
    /\ \A i \in RowsOf : LET e == Row(i) IN
         /\ e.enabled = (applied.source[e.id] # None)
         /\ e.enabled => Source(e) = applied.source[e.id] /\ e.mode = applied.mode[e.id]
    /\ Primary(model.rows) = {applied.primary} /\ ~NeedsConfirmation(model.rows)

\* However displays are switched, mirrored and made primary, the draft can be applied: one that shows a picture
\* of its own is the primary display, and each mirror shows such a one, in one group.
DraftWhole ==
  ~astray =>
    /\ \E i \in RowsOf : Extended(Row(i)) /\ Primary(model.rows) = {Row(i).id}
    /\ \A i \in RowsOf : Row(i).enabled => \E k \in RowsOf : Row(k).id = Source(Row(i)) /\ Extended(Row(k))
    /\ \A g, h \in MirrorGroups(model.rows) :
         g.source \notin h.mirrors /\ (g = h \/ (g.source # h.source /\ g.mirrors \cap h.mirrors = {}))

Touching(a, b) ==
  LET wide == Min({a.x + a.width, b.x + b.width}) - Max({a.x, b.x})
      high == Min({a.y + a.height, b.y + b.height}) - Max({a.y, b.y}) IN
  \/ wide = 0 /\ high >= Min({Overlap, a.height, b.height})
  \/ high = 0 /\ wide >= Min({Overlap, a.width, b.width})

\* Wherever displays are dragged, those that are not mirrors are placed, each once, beside one that is placed
\* before it, with enough of the edges in common, and none over another.
PlacedApart ==
  model.layoutDirty /\ ~astray =>
    LET placed == Placements(model.rows) IN
    /\ {placed[k].id : k \in DOMAIN placed} = {e.id : e \in {Row(i) : i \in {j \in RowsOf : Extended(Row(j))}}}
    /\ \A j, k \in DOMAIN placed : j < k =>
         placed[j].id # placed[k].id /\ ~Intersects(placed[j].rect, placed[k].rect)
    /\ \A k \in DOMAIN placed \ {1} : \E j \in 1..(k - 1) :
         placed[j].id = placed[k].parent /\ Touching(placed[j].rect, placed[k].rect)

\* A choice is taken as it is listed: a resolution at the nearest of its rates, a rate at the same resolution.
ChoicesTaken ==
  \A i \in RowsOf : LET e == Row(i) IN
    /\ \A r \in DOMAIN ResolutionModes : ResolutionIndex([e EXCEPT !.mode = NearestMode[e.mode][r]]) = r
    /\ \A r \in DOMAIN RefreshModes(e) : LET now == [e EXCEPT !.mode = RefreshModes(e)[r]] IN
         RefreshRateIndex(now) = r /\ ResolutionIndex(now) = ResolutionIndex(e)
=============================================================================
