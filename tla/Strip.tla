-------------------------------- MODULE Strip --------------------------------
(***************************************************************************)
(* ScrollingLayout: the columns of a scrolling workspace, as operators on a *)
(* sequence of columns.                                                    *)
(*                                                                         *)
(* A column is the rows it stacks and the tab groups among them.  Extents,  *)
(* weights, scrolling and what a row remembers of the column it came from   *)
(* are left out.  Two settings that a reload may change at any time are     *)
(* parameters: tabbed, whether a new column opens as a group, and after,    *)
(* whether a new tab goes after the active one instead of last.             *)
(***************************************************************************)
EXTENDS ColumnTabs

Clamped(n, low, high) == IF n < low THEN low ELSE IF n > high THEN high ELSE n

Members(s)     == UNION {ToSet(s[c].rows) : c \in DOMAIN s}
InStrip(s, v)  == v \in Members(s)
ColumnOf(s, v) == IF InStrip(s, v) THEN CHOOSE c \in DOMAIN s : v \in ToSet(s[c].rows) ELSE 0
RowIn(col, v)  == CHOOSE r \in DOMAIN col.rows : col.rows[r] = v
RowOf(s, v)    == RowIn(s[ColumnOf(s, v)], v)

TabsAt(s, v)    == s[ColumnOf(s, v)].tabs
IsTab(s, v)     == InStrip(s, v) /\ Grouped(TabsAt(s, v), RowOf(s, v))
\* The rows that share the unit of v, as a sequence of windows.
UnitOf(s, v) ==
  LET u == Unit(TabsAt(s, v), RowOf(s, v))
  IN  SubSeq(s[ColumnOf(s, v)].rows, u.first, End(u) - 1)
HiddenTab(s, v) == InStrip(s, v) /\ HiddenRow(TabsAt(s, v), RowOf(s, v))

\* The window a column shows first.
EntryTab(col) == col.rows[Unit(col.tabs, 1).active]

InsertRow(col, row, v, into) == [rows |-> InsertAt(col.rows, row, v),
                                 tabs |-> RowInserted(col.tabs, row, into)]
EraseRow(col, row) == [rows |-> RemoveAt(col.rows, row), tabs |-> RowErased(col.tabs, row)]
NewColumn(v, tabbed) ==
  [rows |-> <<v>>, tabs |-> IF tabbed THEN Form(<<>>, 1, 1, 1) ELSE <<>>]

\* One column at most loses its last row.
WithoutEmpty(s) ==
  LET empty == {c \in DOMAIN s : s[c].rows = <<>>}
  IN  IF empty = {} THEN s ELSE RemoveAt(s, CHOOSE c \in empty : TRUE)

InsertView(s, v, c, tabbed) ==
  IF InStrip(s, v) THEN s ELSE InsertAt(s, Clamped(c, 1, Len(s) + 1), NewColumn(v, tabbed))

InsertViewIntoColumn(s, v, c, row) ==
  IF InStrip(s, v) \/ c \notin DOMAIN s THEN s
  ELSE [s EXCEPT ![c] = InsertRow(@, Clamped(row, 1, Len(@.rows) + 1), v, NoGroup)]

\* Whether v can become a tab beside member at row of column c, and v inserted there.
CanInsertTab(s, v, c, row, member) ==
  /\ ~InStrip(s, v) /\ c \in DOMAIN s /\ member \in ToSet(s[c].rows)
  /\ Grouped(s[c].tabs, RowIn(s[c], member))
  /\ LET g == GroupAt(s[c].tabs, RowIn(s[c], member)) IN row >= g.first /\ row <= End(g)
InsertTab(s, v, c, row, member) ==
  [s EXCEPT ![c] = InsertRow(@, row, v, GroupIndex(@.tabs, RowIn(@, member)))]

RemoveView(s, v) ==
  IF InStrip(s, v) THEN WithoutEmpty([s EXCEPT ![ColumnOf(s, v)] = EraseRow(@, RowIn(@, v))]) ELSE s

NewTabRow(g, after) == IF after THEN g.active + 1 ELSE End(g)

\* v joins the column beside its own, below its rows or in the group that ends it.
Consume(s, v, d, after) ==
  LET c    == ColumnOf(s, v)
      to   == s[c + d]
      last == Len(to.rows)
      into == IF Grouped(to.tabs, last) THEN GroupIndex(to.tabs, last) ELSE NoGroup
      row  == IF into = NoGroup THEN last + 1 ELSE NewTabRow(to.tabs[into], after)
  IN  IF c = 0 \/ c + d \notin DOMAIN s THEN s
      ELSE WithoutEmpty([s EXCEPT ![c] = EraseRow(@, RowIn(@, v)),
                                  ![c + d] = InsertRow(@, row, v, into)])

\* The window the column beside v's shows first joins v: as a tab of its group or the row below.
ConsumeFrom(s, v, d, after) ==
  LET c      == ColumnOf(s, v)
      pulled == EntryTab(s[c + d])
      taken  == RemoveView(s, pulled)
      row    == RowOf(taken, v)
      tabs   == TabsAt(taken, v)
      into   == IF Grouped(tabs, row) THEN GroupIndex(tabs, row) ELSE NoGroup
  IN  IF c = 0 \/ c + d \notin DOMAIN s THEN s
      ELSE [taken EXCEPT ![ColumnOf(taken, v)] =
              InsertRow(@, IF into = NoGroup THEN row + 1 ELSE NewTabRow(tabs[into], after), pulled, into)]

\* v leaves a column it shares for one of its own.
Expel(s, v, d, tabbed) ==
  LET c == ColumnOf(s, v)
  IN  IF c = 0 \/ Len(s[c].rows) <= 1 THEN s
      ELSE InsertAt(RemoveView(s, v), IF d > 0 THEN c + 1 ELSE c, NewColumn(v, tabbed))

\* Rows [first, last) rotated so that row middle comes first.
Rotated(rows, first, middle, last) ==
  SubSeq(rows, 1, first - 1) \o SubSeq(rows, middle, last - 1) \o SubSeq(rows, first, middle - 1)
    \o SubSeq(rows, last, Len(rows))

\* A tab steps out of its group; a window alone steps into a group it meets; other units trade places.
MoveWithinColumn(col, at, d) ==
  LET unit     == Unit(col.tabs, at)
      start    == unit.first
      end      == End(unit)
      edge     == IF d > 0 THEN end - 1 ELSE start
      neighbor == IF d > 0 THEN end ELSE start - 1
      first    == IF d > 0 THEN start ELSE Unit(col.tabs, neighbor).first
      middle   == IF d > 0 THEN end ELSE start
      last     == IF d > 0 THEN End(Unit(col.tabs, neighbor)) ELSE end
  IN  IF unit.count > 1
      THEN [rows |-> IF d > 0 THEN Rotated(col.rows, at, at + 1, end) ELSE Rotated(col.rows, start, at, at + 1),
            tabs |-> Leave(SelectRow(col.tabs, edge), edge)]
      ELSE IF neighbor \notin DOMAIN col.rows THEN col
      ELSE IF ~Grouped(col.tabs, at) /\ Grouped(col.tabs, neighbor)
      THEN [col EXCEPT !.tabs = SelectRow(Join(@, at, GroupIndex(@, neighbor)), at)]
      ELSE [rows |-> Rotated(col.rows, first, middle, last),
            tabs |-> UnitsSwapped(col.tabs, first, middle, last)]
MoveViewVertical(s, v, d) ==
  IF InStrip(s, v) THEN [s EXCEPT ![ColumnOf(s, v)] = MoveWithinColumn(@, RowIn(@, v), d)] ELSE s

SwapRows(col, a, b) ==
  [rows |-> [col.rows EXCEPT ![a] = col.rows[b], ![b] = col.rows[a]], tabs |-> RowsSwapped(col.tabs, a, b)]

MoveTab(s, v, d) ==
  LET c   == ColumnOf(s, v)
      row == RowOf(s, v)
  IN  IF IsTab(s, v) /\ Covers(GroupAt(s[c].tabs, row), row + d)
      THEN [s EXCEPT ![c] = SwapRows(@, row, row + d)] ELSE s

SwapViews(s, a, b) ==
  LET Swapped(v) == CASE v = a -> b [] v = b -> a [] OTHER -> v
  IN  IF a = b \/ ~InStrip(s, a) \/ ~InStrip(s, b) THEN s
      ELSE [c \in DOMAIN s |->
             [rows |-> [r \in DOMAIN s[c].rows |-> Swapped(s[c].rows[r])],
              tabs |-> IF c = ColumnOf(s, a) /\ c = ColumnOf(s, b)
                       THEN RowsSwapped(s[c].tabs, RowOf(s, a), RowOf(s, b)) ELSE s[c].tabs]]

MoveColumn(s, from, to) == InsertAt(RemoveAt(s, from), to, s[from])

\* The rows that stand alone around row become a group that shows it.
Regrouped(col, row) ==
  LET Alone(r)  == ~Grouped(col.tabs, r)
      first == CHOOSE f \in 1..row : /\ \A r \in f..row : Alone(r)
                                     /\ f = 1 \/ ~Alone(f - 1)
      last  == CHOOSE l \in row..Len(col.rows) : /\ \A r \in row..l : Alone(r)
                                                 /\ l = Len(col.rows) \/ ~Alone(l + 1)
  IN  [col EXCEPT !.tabs = Form(@, first, last + 1 - first, row)]
SetTabbed(s, v, tabbed) ==
  CASE ~InStrip(s, v) \/ IsTab(s, v) = tabbed -> s
    [] InStrip(s, v) /\ tabbed /\ ~IsTab(s, v) ->
         [s EXCEPT ![ColumnOf(s, v)] = Regrouped(@, RowIn(@, v))]
    [] IsTab(s, v) /\ ~tabbed ->
         [s EXCEPT ![ColumnOf(s, v)].tabs = Dissolve(@, RowOf(s, v))]

AdoptTabs(s, c, tabs) == [s EXCEPT ![c].tabs = tabs]

SelectTab(s, v) ==
  IF InStrip(s, v)
  THEN [s EXCEPT ![ColumnOf(s, v)].tabs = SelectRow(@, RowOf(s, v))] ELSE s

=============================================================================
