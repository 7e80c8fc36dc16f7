----------------------------- MODULE ColumnTabs -----------------------------
(***************************************************************************)
(* ColumnTabs: the tab groups of one column of a tiling layout.            *)
(*                                                                         *)
(* A group is a run of the column's rows of which one shows.  Membership is *)
(* by position, so every change of the rows is reported to the groups.      *)
(* Rows and groups are counted from 1, and End is the row after the last,   *)
(* as in the code.  Whether a group draws its bar is left out.              *)
(***************************************************************************)
EXTENDS Integers, Sequences, FiniteSetsExt, SequencesExt

TabGroup == [first : Nat, count : Nat, active : Nat]

End(g)         == g.first + g.count
Covers(g, row) == g.first <= row /\ row < End(g)

Grouped(tabs, row)    == \E i \in DOMAIN tabs : Covers(tabs[i], row)
GroupIndex(tabs, row) == CHOOSE i \in DOMAIN tabs : Covers(tabs[i], row)
GroupAt(tabs, row)    == tabs[GroupIndex(tabs, row)]

\* The unit that holds row: its group, or the row alone.
Unit(tabs, row)      == IF Grouped(tabs, row) THEN GroupAt(tabs, row)
                        ELSE [first |-> row, count |-> 1, active |-> row]
HiddenRow(tabs, row) == Unit(tabs, row).active # row

NoGroup == 0

\* A row strictly inside a group joins it; one at an end joins only the group `into`.
Joins(g, row, into) == IF into THEN g.first <= row /\ row <= End(g)
                       ELSE g.first < row /\ row < End(g)
AfterInsertion(g, row, into) ==
  CASE Joins(g, row, into) ->
         [g EXCEPT !.count = @ + 1, !.active = IF row <= @ THEN @ + 1 ELSE @]
    [] ~Joins(g, row, into) /\ row <= g.first -> [g EXCEPT !.first = @ + 1, !.active = @ + 1]
    [] OTHER -> g
RowInserted(tabs, row, into) ==
  [i \in DOMAIN tabs |-> AfterInsertion(tabs[i], row, into = i)]

\* Mutant: rows above the active one are taken for rows below it.
ErasureBelow(g, row) ==
  CASE Covers(g, row) ->
         [g EXCEPT !.count = @ - 1, !.active = IF row = @ /\ @ > g.first THEN @ - 1 ELSE @]
    [] row < g.first -> [g EXCEPT !.first = @ - 1, !.active = @ - 1]
    [] OTHER -> g
\* Erasing the active row shows its predecessor.
AfterErasure(g, row) ==
  CASE Covers(g, row) ->
         [g EXCEPT !.count = @ - 1,
                   !.active = IF row < @ \/ (row = @ /\ @ > g.first) THEN @ - 1 ELSE @]
    [] row < g.first -> [g EXCEPT !.first = @ - 1, !.active = @ - 1]
    [] OTHER -> g
\* A group that loses its last row is gone; no other can be empty.
RowErased(tabs, row) ==
  LET left == [i \in DOMAIN tabs |-> AfterErasure(tabs[i], row)]
      gone == {i \in DOMAIN left : left[i].count = 0}
  IN  IF gone = {} THEN left ELSE RemoveAt(left, CHOOSE i \in gone : TRUE)

\* Mutant: what shows stays in its place.
SwapInPlace(g, a, b) == g
\* Within a group the active row stays with its window; across units it stays in its place.
AfterSwap(g, a, b) ==
  IF Covers(g, a) /\ Covers(g, b) /\ g.active \in {a, b}
  THEN [g EXCEPT !.active = a + b - @] ELSE g
RowsSwapped(tabs, a, b) == [i \in DOMAIN tabs |-> AfterSwap(tabs[i], a, b)]

Shifted(g, by) == [g EXCEPT !.first = @ + by, !.active = @ + by]
AfterUnitSwap(g, first, middle, last) ==
  CASE first <= g.first /\ g.first < middle -> Shifted(g, last - middle)
    [] middle <= g.first /\ g.first < last  -> Shifted(g, first - middle)
    [] OTHER -> g
\* The units at rows [first, middle) and [middle, last) trade places.  Either is one group at most,
\* so it takes one exchange of neighbours to have the groups in row order again.
UnitsSwapped(tabs, first, middle, last) ==
  LET moved == [i \in DOMAIN tabs |-> AfterUnitSwap(tabs[i], first, middle, last)]
      Late(i) == {i, i + 1} \subseteq DOMAIN moved /\ moved[i + 1].first < moved[i].first
  IN  [i \in DOMAIN moved |-> IF Late(i) THEN moved[i + 1]
                              ELSE IF Late(i - 1) THEN moved[i - 1] ELSE moved[i]]

\* Every caller forms a group of rows that stand alone.
Form(tabs, first, count, active) ==
  LET later == {i \in DOMAIN tabs : tabs[i].first > first}
  IN  InsertAt(tabs, IF later = {} THEN Len(tabs) + 1 ELSE Min(later),
               [first |-> first, count |-> count, active |-> active])

Dissolve(tabs, row) == IF Grouped(tabs, row) THEN RemoveAt(tabs, GroupIndex(tabs, row)) ELSE tabs

SelectRow(tabs, row) ==
  [i \in DOMAIN tabs |-> IF Covers(tabs[i], row) THEN [tabs[i] EXCEPT !.active = row] ELSE tabs[i]]

\* Takes row, an end of a group of several, out of the group to stand beside it.
Leave(tabs, row) ==
  LET Left(g) ==
        LET first == IF row = g.first THEN g.first + 1 ELSE g.first
            last  == IF row = g.first THEN End(g) - 1 ELSE End(g) - 2
        IN  [first |-> first, count |-> g.count - 1,
             active |-> IF g.active < first THEN first
                        ELSE IF g.active > last THEN last ELSE g.active]
  IN  [i \in DOMAIN tabs |-> IF Covers(tabs[i], row) THEN Left(tabs[i]) ELSE tabs[i]]

\* Takes row, alone just before or after group into, into that group.
Join(tabs, row, into) ==
  LET g == tabs[into]
  IN  [tabs EXCEPT ![into] = [g EXCEPT !.first = IF row + 1 = @ THEN row ELSE @, !.count = @ + 1]]

\* The groups are runs of the column's rows, in order, apart, each showing a row of its own.
Sound(tabs, rows) ==
  /\ \A i \in DOMAIN tabs :
       /\ tabs[i].first >= 1 /\ tabs[i].count >= 1 /\ End(tabs[i]) <= rows + 1
       /\ Covers(tabs[i], tabs[i].active)
  /\ \A i, j \in DOMAIN tabs : i < j => End(tabs[i]) <= tabs[j].first

=============================================================================
