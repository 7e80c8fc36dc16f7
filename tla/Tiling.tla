------------------------------- MODULE Tiling -------------------------------
(***************************************************************************)
(* Tiled windows: the strips of scrolling workspaces, the focus that picks  *)
(* the shown tab, TabPresenter, which hides the others, and Cursor's drags, *)
(* which take a tile or a whole tab group out of its strip and land it.     *)
(*                                                                         *)
(* Every workspace shows on an output of its own and scrolls.  A window     *)
(* that unmaps is gone; its place is taken by a new one.  Pinned, minimized *)
(* and attached windows, scratchpads, named columns, the overview's own     *)
(* drags and drags of clients' toplevels are left out, and so are sizes.    *)
(* Which window was focused most recently is not kept: each step takes any  *)
(* order of the windows for it.  Of a drag's drop only that it was computed *)
(* on the strips as they are is kept: when not, it lands wherever some      *)
(* strip of these windows could have put it.  Whether a drag carries the    *)
(* group is decided when it starts, and what it makes of the window, which  *)
(* the other button may change at any time, when it ends.                   *)
(***************************************************************************)
EXTENDS Strip, Integers, FiniteSets

CONSTANTS Windows, Workspaces,
          NoWindow,     \* no window: NoWindow \notin Windows
          Nowhere,      \* no workspace: Nowhere \notin Workspaces
          OpensTabbed   \* \subseteq BOOLEAN, whether new columns open as groups

VARIABLES
  strip,    \* the layout of each workspace
  home,     \* View::workspace
  kind,     \* "closed", or tiled or floating as View::tiled says of a mapped window
  focused,  \* Workspace::m_focusedView
  hidden,   \* windows with m_tabHidden
  members,  \* TabPresenter::m_members of each workspace
  unsettled,\* workspaces with m_arrangePending
  grab      \* Cursor::m_grab, when it is a move
tilingVars == <<strip, home, kind, focused, hidden, members, unsettled, grab>>

\* aimed: grab.drop is a place in the strips as they are.  column and row are where a lifted
\* group came from, row 0 when it filled its column.
NoGrab == [view |-> NoWindow, pending |-> FALSE, source |-> Nowhere, aimed |-> FALSE,
           lifted |-> <<>>, column |-> 0, row |-> 0]

TilingNow == [strip |-> strip, home |-> home, kind |-> kind, focused |-> focused, hidden |-> hidden,
              members |-> members, unsettled |-> unsettled, grab |-> grab]
TilingBecomes(t) ==
  /\ strip' = t.strip /\ home' = t.home /\ kind' = t.kind /\ focused' = t.focused
  /\ hidden' = t.hidden /\ members' = t.members /\ unsettled' = t.unsettled /\ grab' = t.grab

\* Any other step may leave the drop of a drag behind.
Changes(t) == TilingBecomes([t EXCEPT !.grab.aimed = @ /\ t.strip = strip])
ChangesToOneOf(T) == \E t \in T : Changes(t)

\* What a step takes from outside the model: the other windows, most recently focused first, and
\* whether new columns open as groups.
Open             == {v \in Windows : kind[v] # "closed"}
Recently         == [S \in SUBSET Windows |-> SetToSeqs(S)]
Circumstances(S) == [recent : Recently[S], tabbed : OpensTabbed]

IsMapped(t, v) == t.kind[v] # "closed"
Placed(t, v)   == InStrip(t.strip[t.home[v]], v)
MarkArrange(t, w) == [t EXCEPT !.unsettled = @ \cup {w}]
Lay(t, w, s)  == [t EXCEPT !.strip[w] = s]

----------------------------------------------------------------------------
(* The tab presenter *)

Tabs(s)         == {v \in Members(s) : IsTab(s, v)}
HiddenTabs(s)   == {v \in Members(s) : HiddenTab(s, v)}
\* Shows the active tabs of the groups of w that hold a window of S, and hides the others.
PresentGroups(t, w, S) ==
  [t EXCEPT !.members[w] = @ \cup S, !.hidden = (@ \ S) \cup (HiddenTabs(t.strip[w]) \cap S)]

\* Mutant: what was hidden stays hidden until its group shows it.
SyncShown(t, w) ==
  LET s == IF t.focused[w] = NoWindow THEN t.strip[w] ELSE SelectTab(t.strip[w], t.focused[w])
  IN  PresentGroups([Lay(t, w, s) EXCEPT !.members[w] = {}], w, Tabs(s))
Sync(t, w) ==
  LET s == IF t.focused[w] = NoWindow THEN t.strip[w] ELSE SelectTab(t.strip[w], t.focused[w])
  IN  PresentGroups([Lay(t, w, s) EXCEPT !.members[w] = {}, !.hidden = @ \ t.members[w]], w, Tabs(s))

Arrange(t, w)      == Sync([t EXCEPT !.unsettled = @ \ {w}], w)
FlushArrange(t, w) == IF w \in t.unsettled THEN Arrange(t, w) ELSE t

Released(t, w, v) ==
  IF v \in t.members[w] THEN [t EXCEPT !.members[w] = @ \ {v}, !.hidden = @ \ {v}] ELSE t

SetFocusedView(t, w, v) ==
  LET f == [t EXCEPT !.focused[w] = v]
      s == SelectTab(t.strip[w], v)
  IN  IF v # NoWindow /\ HiddenTab(t.strip[w], v)
      THEN PresentGroups(Lay(f, w, s), w, ToSet(UnitOf(s, v))) ELSE f
FocusTile(t, v) == SetFocusedView(t, t.home[v], v)

----------------------------------------------------------------------------
(* Windows in and out of a workspace *)

FirstOf(recent, S) == SelectInSeq(recent, LAMBDA v : v \in S)
MostRecent(recent, S) ==
  IF FirstOf(recent, S) = 0 THEN NoWindow ELSE recent[FirstOf(recent, S)]

\* The rows above v from the nearest, the rows below, the columns to the left from the
\* nearest, the columns to the right, and then whatever else the workspace has.
FocusReplacement(t, v, recent) ==
  LET s      == t.strip[t.home[v]]
      c      == ColumnOf(s, v)
      rows   == s[c].rows
      r      == RowOf(s, v)
      lefts  == 1..(c - 1)
      others == {u \in Windows \ {v} : IsMapped(t, u) /\ t.home[u] = t.home[v]}
  IN  CASE c = 0                      -> MostRecent(recent, others)
        [] c > 0 /\ r > 1             -> rows[r - 1]
        [] c > 0 /\ r = 1 /\ Len(rows) > 1 -> rows[2]
        [] c > 1 /\ Len(rows) = 1     -> MostRecent(recent, ToSet(s[c - 1].rows))
        [] c = 1 /\ Len(rows) = 1 /\ Len(s) > 1 -> MostRecent(recent, ToSet(s[2].rows))
        [] OTHER                      -> MostRecent(recent, others)

DetachFromLayout(t, w, v) == Released(Lay(t, w, RemoveView(t.strip[w], v)), w, v)
LayoutDetach(t, w, v)     == MarkArrange(DetachFromLayout(t, w, v), w)

\* Beside the focused column, else beside the one of the most recent tile, else last.
LayoutAttachIndex(t, w, v, recent) ==
  LET s    == t.strip[w]
      near == IF t.focused[w] # NoWindow /\ InStrip(s, t.focused[w]) THEN t.focused[w]
              ELSE MostRecent(recent, {u \in Members(s) \ {v} : t.kind[u] = "tiled"})
  IN  IF near = NoWindow THEN Len(s) + 1 ELSE ColumnOf(s, near) + 1

LayoutAttach(t, v, how) ==
  LET w == t.home[v]
  IN  IF t.kind[v] # "tiled" \/ InStrip(t.strip[w], v) THEN t
      ELSE MarkArrange(Lay(t, w, InsertView(t.strip[w], v, LayoutAttachIndex(t, w, v, how.recent),
                                            how.tabbed)), w)

AddView(t, w, v, attach, how) ==
  LET here == [t EXCEPT !.home[v] = w]
  IN  MarkArrange(IF attach THEN LayoutAttach(here, v, how) ELSE here, w)

WorkspaceRemoveView(t, w, v, recent) ==
  LET next  == FocusReplacement(t, v, recent)
      freed == IF t.focused[w] = v
               THEN SetFocusedView(DetachFromLayout([t EXCEPT !.focused[w] = next], w, v), w, next)
               ELSE DetachFromLayout(t, w, v)
  IN  MarkArrange(freed, w)

MoveToWorkspace(t, v, w, attach, how) ==
  IF t.home[v] = w THEN t
  ELSE AddView(WorkspaceRemoveView(t, t.home[v], v, how.recent), w, v, attach, how)

SetFloating(t, v, floating, attach, how) ==
  LET w       == t.home[v]
      flushed == IF InStrip(t.strip[w], v) THEN FlushArrange(t, w) ELSE t
  IN  CASE (t.kind[v] = "floating") = floating -> t
        [] t.kind[v] = "tiled" /\ floating ->
             [LayoutDetach(flushed, w, v) EXCEPT !.kind[v] = "floating"]
        [] t.kind[v] = "floating" /\ ~floating ->
             LET tiled == [t EXCEPT !.kind[v] = "tiled"]
             IN  IF attach THEN LayoutAttach(tiled, v, how) ELSE tiled

----------------------------------------------------------------------------
(* Tab groups carried by a drag *)

\* The tabs of v's group leave the layout with it, hidden; v itself is still in place.
LiftTabGroup(t, w, v) ==
  LET tabs == UnitOf(t.strip[w], v)
      Lift(acc, u) == IF u = v THEN acc ELSE [LayoutDetach(acc, w, u) EXCEPT !.hidden = @ \cup {u}]
      lift[n \in 0..Len(tabs)] == IF n = 0 THEN t ELSE Lift(lift[n - 1], tabs[n])
      out  == lift[Len(tabs)]
      c    == ColumnOf(out.strip[w], v)
  IN  IF ~IsTab(t.strip[w], v) THEN t
      ELSE [out EXCEPT !.grab.lifted = tabs, !.grab.column = c,
                       !.grab.row = IF Len(out.strip[w][c].rows) > 1 THEN RowOf(out.strip[w], v) ELSE 0]

\* A window that landed alone becomes a group of one.
AsGroup(s, v) ==
  IF IsTab(s, v) THEN s
  ELSE AdoptTabs(s, ColumnOf(s, v), Form(TabsAt(s, v), RowOf(s, v), 1, RowOf(s, v)))

\* Mutant: the later tabs go in front of one another.
BackToFront(i, j) == IF i < j THEN 0 ELSE 1
\* Where the i-th tab of a group goes in, counted from the j-th, which has landed.
RowFrom(i, j) == IF i < j THEN 0 ELSE i - j

\* A window of the group, moved to v's workspace, joins it offset rows from v in column c; when it
\* cannot, it is placed like any window.
JoinTabGroup(t, u, v, c, offset, how) ==
  LET w   == t.home[v]
      row == RowOf(t.strip[w], v) + offset
  IN  IF CanInsertTab(t.strip[w], u, c, row, v)
      THEN Lay(t, w, InsertTab(t.strip[w], u, c, row, v))
      ELSE LayoutAttach([t EXCEPT !.hidden = @ \ {u}], u, how)

\* The other tabs join v where it landed, before or after it as they were.
RebuildTabGroup(t, v, tabs, how) ==
  LET w     == t.home[v]
      c     == ColumnOf(t.strip[w], v)
      at(u) == CHOOSE k \in DOMAIN tabs : tabs[k] = u
      Rejoin(acc, u) ==
        IF u = v THEN acc
        ELSE JoinTabGroup(MoveToWorkspace(acc, u, w, FALSE, how), u, v, c, RowFrom(at(u), at(v)), how)
      rejoin[n \in 0..Len(tabs)] == IF n = 0 THEN Lay(t, w, AsGroup(t.strip[w], v))
                                    ELSE Rejoin(rejoin[n - 1], tabs[n])
  IN  MarkArrange(rejoin[Len(tabs)], w)

\* The window the group returns with goes back where the group was.
ReturnTabGroup(t, shown, how) ==
  LET w     == t.home[shown]
      again == IF t.grab.row = 0 THEN t.strip[w]
               ELSE InsertViewIntoColumn(t.strip[w], shown, t.grab.column, t.grab.row)
  IN  Lay([t EXCEPT !.hidden = @ \ {shown}], w, InsertView(again, shown, t.grab.column, how.tabbed))

\* Where the group of the dragged window goes when the drag ends: to it, back with it, or back
\* without it.
LandTabGroup(t, how) ==
  LET v       == t.grab.view
      lifted  == t.grab.lifted
      dragged == CHOOSE k \in DOMAIN lifted : lifted[k] = v
      joins   == Placed(t, v) \/ t.kind[v] = "tiled"
      tabs    == IF joins THEN lifted ELSE RemoveAt(lifted, dragged)
      shown   == IF joins THEN v ELSE tabs[Clamped(dragged - 1, 1, Len(tabs))]
      landed  == IF Placed(t, v) THEN t ELSE ReturnTabGroup(t, shown, how)
  IN  IF tabs = <<>> THEN t ELSE RebuildTabGroup(landed, shown, tabs, how)

ResetMode(t, how) ==
  LET landed == IF t.grab.lifted # <<>> THEN LandTabGroup(t, how) ELSE t
  IN  [landed EXCEPT !.grab = NoGrab]

BeginDrag(t, carry) ==
  LET v      == t.grab.view
      w      == t.grab.source
      lifted == IF carry THEN LiftTabGroup(t, w, v) ELSE t
  IN  [LayoutDetach(lifted, w, v) EXCEPT !.grab.pending = FALSE, !.grab.source = Nowhere]

\* Where a drop can be.  Between columns it has row 0; among tabs it names one of the group.
Drop(column, row, tab) == [column |-> column, row |-> row, tab |-> tab]

\* What the pointer can be over: a gap between columns, a boundary between units, or a tab
\* group, which takes the drop among its tabs.
DropTargets(s) ==
  LET Boundaries(col) == {r \in 1..(Len(col.rows) + 1) : Unit(col.tabs, r).first = r}
      Slots(v) == LET g == GroupAt(TabsAt(s, v), RowOf(s, v)) IN g.first..End(g)
  IN  {Drop(c, 0, NoWindow) : c \in 1..(Len(s) + 1)}
        \cup (UNION {{Drop(c, r, NoWindow) : r \in Boundaries(s[c])} : c \in DOMAIN s})
        \cup (UNION {{Drop(ColumnOf(s, v), r, v) : r \in Slots(v)} : v \in Tabs(s) \ HiddenTabs(s)})

\* A drop computed on another strip of the n other windows may also meet a row inside a group or
\* a column that is gone; one that names a tab the strip has no group of is a row.
StaleTargets(s, n) == DropTargets(s) \cup {Drop(c, r, NoWindow) : c \in 1..n, r \in 1..(n + 1)}

Landed(s, v, drop, tabbed) ==
  CASE drop.row = 0 -> InsertView(s, v, drop.column, tabbed)
    [] drop.row # 0 /\ CanInsertTab(s, v, drop.column, drop.row, drop.tab) ->
         InsertTab(s, v, drop.column, drop.row, drop.tab)
    [] OTHER -> InsertViewIntoColumn(s, v, drop.column, drop.row)

\* applyDrop up to where v lands, and the strips it may leave w with.
Lifted(t, v, w, how) ==
  IF t.home[v] # w THEN MoveToWorkspace(t, v, w, FALSE, how) ELSE Lay(t, w, RemoveView(t.strip[w], v))
Landings(t, v, w, tabbed) ==
  {Landed(t.strip[w], v, drop, tabbed) :
     drop \in IF t.grab.aimed THEN DropTargets(t.strip[w]) ELSE StaleTargets(t.strip[w], Cardinality(Open \ {v}))}

----------------------------------------------------------------------------
(* Actions: windows *)

\* A new window opens, attached to the layout if it tiles; a rule that sets how its column shows
\* comes to the same as the default of new columns.
Opened(v, w, tiled, focus, how) ==
  LET opened == [TilingNow EXCEPT !.kind[v] = IF tiled THEN "tiled" ELSE "floating", !.home[v] = w]
      added  == AddView(opened, w, v, TRUE, how)
  IN  IF focus THEN FocusTile(added, v) ELSE added
OpenWindow(v, w, tiled, focus) ==
  /\ kind[v] = "closed"
  /\ ChangesToOneOf({Opened(v, w, tiled, focus, how) : how \in Circumstances(Open)})

\* handleUnmap: the focus moves while the window still has its place; any drag ends.
Unmapped(v, how) ==
  LET w       == home[v]
      t       == TilingNow
      focus   == IF focused[w] = v THEN SetFocusedView(t, w, FocusReplacement(t, v, how.recent)) ELSE t
      gone    == LayoutDetach([focus EXCEPT !.kind[v] = "closed"], w, v)
      forgot  == IF grab.view = v THEN gone
                 ELSE [gone EXCEPT !.grab.lifted = RemoveFirst(@, v)]
  IN  [ResetMode(forgot, how) EXCEPT !.hidden = @ \ {v}]
CloseWindow(v) ==
  kind[v] # "closed" /\ ChangesToOneOf({Unmapped(v, how) : how \in Circumstances(Open \ {v})})

FocusOn(v) == kind[v] # "closed" /\ Changes(FocusTile(TilingNow, v))

ToggleFloating(v) ==
  /\ kind[v] # "closed"
  /\ ChangesToOneOf({SetFloating(TilingNow, v, kind[v] = "tiled", TRUE, how) :
                        how \in Circumstances(Open \ {v})})

MoveViewToWorkspace(v, w, follow) ==
  /\ kind[v] # "closed" /\ home[v] # w
  /\ LET T == {MoveToWorkspace(TilingNow, v, w, TRUE, how) : how \in Circumstances(Open \ {v})}
     IN  ChangesToOneOf(IF follow THEN {FocusTile(t, v) : t \in T} ELSE T)

\* The focused window's column is moved row by row and takes up its groups at the end.
ColumnMoved(w, u, how) ==
  LET v      == focused[w]
      column == strip[w][ColumnOf(strip[w], v)]
      first  == column.rows[1]
      near   == IF focused[u] = NoWindow THEN 0 ELSE ColumnOf(strip[u], focused[u])
      index  == IF near > 0 THEN near + 1 ELSE Len(strip[u]) + 1
      moved  == MoveToWorkspace(TilingNow, first, u, FALSE, how)
      start  == Lay(moved, u, InsertView(moved.strip[u], first, index, how.tabbed))
      c      == ColumnOf(start.strip[u], first)
      Follow(acc, x) ==
        LET here == MoveToWorkspace(acc, x, u, FALSE, how)
        IN  Lay(here, u, InsertViewIntoColumn(here.strip[u], x, c, RowIn(column, x)))
      follow[n \in 1..Len(column.rows)] == IF n = 1 THEN start
                                           ELSE Follow(follow[n - 1], column.rows[n])
      all    == follow[Len(column.rows)]
  IN  FocusTile(MarkArrange(Lay(all, u, AdoptTabs(all.strip[u], c, column.tabs)), u), v)
MoveFocusedColumnToWorkspace(w, u) ==
  /\ w # u /\ focused[w] # NoWindow /\ InStrip(strip[w], focused[w])
  /\ ChangesToOneOf({ColumnMoved(w, u, how) : how \in Circumstances(Open)})

----------------------------------------------------------------------------
(* Actions: the focused window of workspace w in its strip *)

\* One of the strip's operations, when it changes anything; some settle what is pending first.
Reshape(w, flush, Op(_)) ==
  LET t == IF flush THEN FlushArrange(TilingNow, w) ELSE TilingNow
      s == Op(t.strip[w])
  IN  IF s = t.strip[w] THEN Changes(t) ELSE Changes(MarkArrange(Lay(t, w, s), w))

Tile(w) == focused[w] # NoWindow /\ InStrip(strip[w], focused[w])

SwapFocusedInCycle(w, d) ==
  LET Ring(s) == FoldLeft(LAMBDA rows, col : rows \o col.rows, <<>>, s)
      at(s)   == CHOOSE k \in DOMAIN Ring(s) : Ring(s)[k] = focused[w]
      Peer(s) == Ring(s)[((at(s) - 1 + d) % Len(Ring(s))) + 1]
  IN  /\ Tile(w)
      /\ Reshape(w, FALSE, LAMBDA s : SwapViews(s, focused[w], Peer(s)))

\* The neighbour on screen is a window that shows.
SwapFocusedInDirection(w, v) ==
  LET s == FlushArrange(TilingNow, w).strip[w]
  IN  /\ Tile(w) /\ v \in Members(s) \ HiddenTabs(s)
      /\ Reshape(w, TRUE, LAMBDA x : SwapViews(x, focused[w], v))

\* Along the strip, or to its first or last place.
MoveFocusedColumn(w, to) ==
  LET c == ColumnOf(strip[w], focused[w])
  IN
  /\ Tile(w) /\ to \in DOMAIN strip[w] \cap {c - 1, c + 1, 1, Len(strip[w])}
  /\ Reshape(w, FALSE, LAMBDA s : MoveColumn(s, ColumnOf(s, focused[w]), to))

ConsumeFocused(w, d, after) == Tile(w) /\ Reshape(w, TRUE, LAMBDA s : Consume(s, focused[w], d, after))
ConsumeFromFocused(w, d, after) ==
  Tile(w) /\ Reshape(w, FALSE, LAMBDA s : ConsumeFrom(s, focused[w], d, after))
\* moveFocusedHorizontal does one of ConsumeFocused and ExpelFocused.
ExpelFocused(w, d, tabbed) == Tile(w) /\ Reshape(w, FALSE, LAMBDA s : Expel(s, focused[w], d, tabbed))
MoveWithinLane(w, d) == Tile(w) /\ Reshape(w, TRUE, LAMBDA s : MoveViewVertical(s, focused[w], d))
MoveFocusedTab(w, d) == Tile(w) /\ Reshape(w, FALSE, LAMBDA s : MoveTab(s, focused[w], d))
SetFocusedColumnTabbed(w, tabbed) ==
  Tile(w) /\ Reshape(w, FALSE, LAMBDA s : SetTabbed(s, focused[w], tabbed))

\* A frame of the output arranges what is pending.
ArrangePending(w) == w \in unsettled /\ Changes(Arrange(TilingNow, w))

----------------------------------------------------------------------------
(* Actions: drags *)

\* A press focuses the window.  A floating one is aimed when the other button makes it tile.
BeginMove(v) ==
  LET t == FocusTile(TilingNow, v)
  IN  /\ grab.view = NoWindow /\ kind[v] # "closed"
      /\ TilingBecomes([t EXCEPT !.grab =
           IF kind[v] = "tiled" THEN [NoGrab EXCEPT !.view = v, !.pending = TRUE, !.source = home[v]]
           ELSE [NoGrab EXCEPT !.view = v, !.aimed = TRUE]])

Dragging == grab.view # NoWindow /\ ~grab.pending

\* Motion past the threshold, or the other button.
StartDrag(carry) ==
  /\ grab.pending
  /\ TilingBecomes([BeginDrag(TilingNow, carry) EXCEPT !.grab.aimed = TRUE])

\* Motion, or a frame that moves windows under the pointer, computes the drop again.
UpdateDropTarget == Dragging /\ ~grab.aimed /\ TilingBecomes([TilingNow EXCEPT !.grab.aimed = TRUE])

\* The button is released, over workspace w: the window becomes what the drag made of it and is
\* placed, in the strip of w or floating where it is.
Tiled(w, how) ==
  LET v  == grab.view
      up == Lifted(SetFloating(TilingNow, v, FALSE, FALSE, how), v, w, how)
  IN  {ResetMode(FocusTile(MarkArrange(Lay(up, w, s), w), v), how) : s \in Landings(up, v, w, how.tabbed)}
Floated(w, how) ==
  LET t == SetFloating(TilingNow, grab.view, TRUE, FALSE, how)
  IN  FocusTile(ResetMode(MoveToWorkspace(t, grab.view, w, TRUE, how), how), grab.view)
FinishMove(w) ==
  /\ Dragging
  /\ LET S == Circumstances(Open)
     IN  ChangesToOneOf({Floated(w, how) : how \in S} \cup UNION {Tiled(w, how) : how \in S})

\* The drag is given up: a click, the overview, the lock screen, an output that is gone.
AbandonMove ==
  grab.view # NoWindow /\ ChangesToOneOf({ResetMode(TilingNow, how) : how \in Circumstances(Open)})

----------------------------------------------------------------------------

TilingInit ==
  /\ strip = [w \in Workspaces |-> <<>>]
  /\ home \in [Windows -> Workspaces] /\ \A u, v \in Windows : home[u] = home[v]
  /\ kind = [v \in Windows |-> "closed"]
  /\ focused = [w \in Workspaces |-> NoWindow]
  /\ hidden = {} /\ members = [w \in Workspaces |-> {}]
  /\ unsettled = {} /\ grab = NoGrab

TileStep(v) ==
  \/ FocusOn(v) \/ BeginMove(v) \/ CloseWindow(v) \/ ToggleFloating(v)
  \/ \E w \in Workspaces :
       \/ \E follow \in BOOLEAN : MoveViewToWorkspace(v, w, follow)
       \/ \E tiled, focus \in BOOLEAN : OpenWindow(v, w, tiled, focus)

StripStep(w) ==
  \/ ArrangePending(w)
  \/ \E v \in Windows : SwapFocusedInDirection(w, v)
  \/ \E to \in 1..Cardinality(Windows) : MoveFocusedColumn(w, to)
  \/ \E tabbed \in BOOLEAN : SetFocusedColumnTabbed(w, tabbed)
  \/ \E d \in {-1, 1} :
       \/ SwapFocusedInCycle(w, d) \/ MoveWithinLane(w, d) \/ MoveFocusedTab(w, d)
       \/ \E after \in BOOLEAN : ConsumeFocused(w, d, after) \/ ConsumeFromFocused(w, d, after)
       \/ \E tabbed \in OpensTabbed : ExpelFocused(w, d, tabbed)
  \/ \E u \in Workspaces : MoveFocusedColumnToWorkspace(w, u)

DragStep ==
  \/ UpdateDropTarget \/ AbandonMove
  \/ \E carry \in BOOLEAN : StartDrag(carry)
  \/ \E w \in Workspaces : FinishMove(w)

TilingNext == (\E v \in Windows : TileStep(v)) \/ (\E w \in Workspaces : StripStep(w)) \/ DragStep
TilingSpec == TilingInit /\ [][TilingNext]_tilingVars

----------------------------------------------------------------------------
(* Properties *)

\* The shape of the state.  A window has one place at most, in one strip; no column is empty, and
\* the tab groups of each are sound.
TilingTypeOK ==
  /\ home \in [Windows -> Workspaces] /\ kind \in [Windows -> {"closed", "tiled", "floating"}]
  /\ focused \in [Workspaces -> Windows \cup {NoWindow}]
  /\ hidden \subseteq Windows /\ unsettled \subseteq Workspaces
  /\ members \in [Workspaces -> SUBSET Windows]
  /\ \A w \in Workspaces : \A c \in DOMAIN strip[w] :
       /\ strip[w][c].rows \in Seq(Windows) \ {<<>>}
       /\ Sound(strip[w][c].tabs, Len(strip[w][c].rows))
       /\ \A r \in DOMAIN strip[w][c].rows : LET v == strip[w][c].rows[r] IN
            /\ RowIn(strip[w][c], v) = r
            /\ \A u \in Workspaces : \A d \in DOMAIN strip[u] :
                 v \in ToSet(strip[u][d].rows) => u = w /\ d = c
  /\ grab.lifted \in Seq(Windows) /\ grab.view \in Windows \cup {NoWindow}

\* Once what is pending has been arranged, the tabs that are not shown are hidden and every
\* other window is visible, the focused one too, whatever was inserted, swapped or regrouped.
TabsSettle ==
  grab.view = NoWindow => \A w \in Workspaces \ unsettled :
    /\ \A v \in Open : home[v] = w => (v \in hidden <=> HiddenTab(strip[w], v))
    /\ focused[w] # NoWindow => home[focused[w]] = w /\ focused[w] \notin hidden

\* On an arranged workspace the tab that shows stays on display until it leaves its group or
\* another takes the focus.
ShownTabStays ==
  [][\A w \in Workspaces \ unsettled : \A v \in Members(strip[w]) \cap Members(strip'[w]) :
       LET before == ToSet(UnitOf(strip[w], v))
           after  == ToSet(UnitOf(strip'[w], v))
       IN  \A u \in (before \cap after) \ {v} :
             ~HiddenTab(strip[w], v) /\ ~HiddenTab(strip'[w], u) => focused'[w] = u]_tilingVars

\* A group that a drag has lifted lands in one group and in order when the drag ends, with the
\* dragged window or without it.
GroupLandsTogether ==
  [][LET left  == {v \in ToSet(grab.lifted) : kind[v] = "tiled" /\ kind'[v] = "tiled"}
         group == SelectSeq(grab.lifted, LAMBDA v : v \in left)
     IN  group # <<>> /\ grab'.view = NoWindow =>
           LET w == home'[group[1]] IN
             /\ InStrip(strip'[w], group[1])
             /\ SelectSeq(UnitOf(strip'[w], group[1]), LAMBDA v : v \in left) = group]_tilingVars

\* A tiled window has its place in the strip of its workspace, and no other window has one.
TilesInStrip ==
  grab.view = NoWindow => \A v \in Windows : InStrip(strip[home[v]], v) <=> kind[v] = "tiled"

=============================================================================
