---------------------------- MODULE StripProofs -----------------------------
(***************************************************************************)
(* What the operations of ColumnTabs and of Strip do to a column and to a  *)
(* strip of any length: the tab groups of a column stay disjoint, in order *)
(* and within its rows, a window stands in one row of one column, and no   *)
(* column that is left is empty.                                           *)
(*                                                                         *)
(* The rows of a column shift under its groups with every insertion,       *)
(* erasure and swap.  Sound says what must hold of the groups; Within and  *)
(* Above are its parts for one group and for two.  Whole is a column with  *)
(* sound groups and no window twice, Loose a strip of such columns that    *)
(* share no window, Fits one without an empty column, and Reshapes what an *)
(* operation that takes in no window leaves.                               *)
(***************************************************************************)
EXTENDS Strip, FiniteSetTheorems, SequenceTheorems, WellFoundedInduction, TLAPS

\* A set of naturals that is not empty has a least element.
LEMMA Least ==
  ASSUME NEW T \in SUBSET Nat, T # {}
  PROVE  \E n \in T : \A m \in T : n <= m
<1> DEFINE R == {ss \in Nat \X Nat : ss[1] < ss[2]}
<1>1. IsWellFoundedOn(R, Nat)
  BY NatLessThanWellFounded DEF OpToRel
<1> HIDE DEF R
<1>2. PICK n \in T : \A m \in T : ~(<<m, n>> \in R)
  BY <1>1, WFMin, Zenon
<1>3. \A m \in T : ~(m < n)
  BY <1>2 DEF R
<1> QED BY <1>3

\* Induction over an interval: a set that has 0, and with each number below n the next one.
LEMMA Upto ==
  ASSUME NEW n \in Nat, NEW P, 0 \in P, \A k \in 0..(n - 1) : k \in P => k + 1 \in P
  PROVE  \A k \in 0..n : k \in P
<1> DEFINE T == {k \in 0..n : k \notin P}
<1> SUFFICES ASSUME T # {} PROVE FALSE
  OBVIOUS
<1>1. PICK k \in T : \A m \in T : k <= m
  <2>1. T \in SUBSET Nat
    OBVIOUS
  <2> QED BY <2>1, Least
<1>2. k - 1 \in 0..n /\ k - 1 \notin T
  BY <1>1
<1>3. k - 1 \in P
  BY <1>2
<1> QED BY <1>1, <1>3

\* The least of a set of naturals.
LEMMA MinIs ==
  ASSUME NEW T \in SUBSET Nat, T # {}
  PROVE  Min(T) \in T /\ \A m \in T : Min(T) <= m
BY Least DEF Min

\* A sequence without its i-th element.
LEMMA RemoveAtIs ==
  ASSUME NEW S, NEW q \in Seq(S), NEW i \in 1..Len(q)
  PROVE  /\ RemoveAt(q, i) \in Seq(S) /\ Len(RemoveAt(q, i)) = Len(q) - 1
         /\ \A k \in 1..(Len(q) - 1) : RemoveAt(q, i)[k] = IF k < i THEN q[k] ELSE q[k + 1]
<1> DEFINE a == SubSeq(q, 1, i - 1)  b == SubSeq(q, i + 1, Len(q))
<1>1. /\ a \in Seq(S) /\ Len(a) = i - 1 /\ \A k \in 1..(i - 1) : a[k] = q[k]
  OBVIOUS
<1>2. /\ b \in Seq(S) /\ Len(b) = Len(q) - i /\ \A k \in 1..(Len(q) - i) : b[k] = q[i + k]
  OBVIOUS
<1>3. RemoveAt(q, i) = a \o b
  BY DEF RemoveAt
<1> HIDE DEF a, b
<1>4. /\ a \o b \in Seq(S) /\ Len(a \o b) = Len(q) - 1
      /\ \A k \in 1..(Len(q) - 1) : (a \o b)[k] = IF k <= i - 1 THEN a[k] ELSE b[k - (i - 1)]
  <2>1. Len(a) \in Nat /\ Len(b) \in Nat /\ Len(a) + Len(b) = Len(q) - 1
    BY <1>1, <1>2
  <2>2. /\ a \o b \in Seq(S) /\ Len(a \o b) = Len(a) + Len(b)
        /\ \A k \in 1..(Len(a) + Len(b)) : (a \o b)[k] = IF k <= Len(a) THEN a[k] ELSE b[k - Len(a)]
    BY <1>1, <1>2, ConcatProperties
  <2> QED BY <1>1, <1>2, <2>1, <2>2
<1>5. ASSUME NEW k \in 1..(Len(q) - 1) PROVE (a \o b)[k] = IF k < i THEN q[k] ELSE q[k + 1]
  BY <1>1, <1>2, <1>4
<1> QED BY <1>3, <1>4, <1>5

\* A sequence with one element more.
LEMMA InsertAtIs ==
  ASSUME NEW S, NEW q \in Seq(S), NEW i \in 1..(Len(q) + 1), NEW e \in S
  PROVE  /\ InsertAt(q, i, e) \in Seq(S) /\ Len(InsertAt(q, i, e)) = Len(q) + 1
         /\ \A k \in 1..(Len(q) + 1) :
              InsertAt(q, i, e)[k] = IF k < i THEN q[k] ELSE IF k = i THEN e ELSE q[k - 1]
<1> DEFINE a == SubSeq(q, 1, i - 1)  b == SubSeq(q, i, Len(q))
<1>1. /\ a \in Seq(S) /\ Len(a) = i - 1 /\ \A k \in 1..(i - 1) : a[k] = q[k]
  OBVIOUS
<1>2. /\ b \in Seq(S) /\ Len(b) = Len(q) - i + 1 /\ \A k \in 1..(Len(q) - i + 1) : b[k] = q[i + k - 1]
  OBVIOUS
<1>3. InsertAt(q, i, e) = (a \o <<e>>) \o b
  BY DEF InsertAt
<1> HIDE DEF a, b
<1>4. /\ a \o <<e>> \in Seq(S) /\ Len(a \o <<e>>) = i
      /\ \A k \in 1..i : (a \o <<e>>)[k] = IF k < i THEN q[k] ELSE e
  BY <1>1
<1> DEFINE c == a \o <<e>>
<1> HIDE DEF c
<1>5. c \in Seq(S) /\ Len(c) = i /\ \A k \in 1..i : c[k] = IF k < i THEN q[k] ELSE e
  BY <1>4 DEF c
<1>6. /\ c \o b \in Seq(S) /\ Len(c \o b) = Len(q) + 1
      /\ \A k \in 1..(Len(q) + 1) : (c \o b)[k] = IF k <= i THEN c[k] ELSE b[k - i]
  BY <1>2, <1>5, ConcatProperties
<1>7. ASSUME NEW k \in 1..(Len(q) + 1)
      PROVE  (c \o b)[k] = IF k < i THEN q[k] ELSE IF k = i THEN e ELSE q[k - 1]
  BY <1>2, <1>5, <1>6
<1> QED BY <1>3, <1>6, <1>7 DEF c

-----------------------------------------------------------------------------

\* The groups of a column of that many rows; one of them; and one above another.
Groups(tabs, rows) == tabs \in Seq(TabGroup) /\ Sound(tabs, rows)
Within(g, rows) == /\ g \in TabGroup /\ g.first >= 1 /\ g.first + g.count <= rows + 1
                   /\ g.first <= g.active /\ g.active < g.first + g.count
Above(g, h)     == g.first + g.count <= h.first

\* What is known of the groups of a column.
LEMMA GroupsAre ==
  ASSUME NEW rows, NEW tabs, Groups(tabs, rows)
  PROVE  /\ tabs \in Seq(TabGroup) /\ Len(tabs) \in Nat /\ DOMAIN tabs = 1..Len(tabs)
         /\ \A i \in DOMAIN tabs : tabs[i] \in TabGroup /\ Within(tabs[i], rows)
         /\ \A i, j \in DOMAIN tabs : i < j => Above(tabs[i], tabs[j])
BY DEF Groups, Sound, Within, Above, End, Covers

\* And what makes groups sound.
LEMMA AreGroups ==
  ASSUME NEW rows, NEW tabs \in Seq(TabGroup),
         \A i \in DOMAIN tabs : Within(tabs[i], rows),
         \A i, j \in DOMAIN tabs : i < j => Above(tabs[i], tabs[j])
  PROVE  Groups(tabs, rows)
<1>1. \A g \in TabGroup : Within(g, rows) => g.first >= 1 /\ g.count >= 1 /\ End(g) <= rows + 1 /\ Covers(g, g.active)
  BY DEF Within, End, Covers, TabGroup
<1>2. \A i \in DOMAIN tabs : tabs[i] \in TabGroup
  OBVIOUS
<1> QED BY <1>1, <1>2 DEF Groups, Sound, Above, End

\* Groups changed one by one.
LEMMA EachIsGroup ==
  ASSUME NEW tabs \in Seq(TabGroup), NEW rows, NEW u, u = [i \in DOMAIN tabs |-> u[i]],
         \A i \in DOMAIN tabs : u[i] \in TabGroup /\ Within(u[i], rows),
         \A i, j \in DOMAIN tabs : i < j => Above(u[i], u[j])
  PROVE  Groups(u, rows)
<1>1. DOMAIN u = 1..Len(tabs) /\ Len(tabs) \in Nat /\ DOMAIN u = DOMAIN tabs
  OBVIOUS
<1>2. u \in Seq(TabGroup)
  BY <1>1
<1> QED BY <1>1, <1>2, AreGroups

\* A group from its parts.
LEMMA GroupIs ==
  ASSUME NEW f \in Nat, NEW c \in Nat, NEW a \in Nat, NEW h,
         h = [first |-> f, count |-> c, active |-> a]
  PROVE  h \in TabGroup /\ h.first = f /\ h.count = c /\ h.active = a
BY DEF TabGroup

\* A row inserted inside a group, or at its edge to join it, grows it; one before it shifts it.
LEMMA AfterInsertionIs ==
  ASSUME NEW g \in TabGroup, NEW row \in Nat, NEW b \in BOOLEAN, g.first >= 1
  PROVE  LET h == AfterInsertion(g, row, b) IN
         /\ h \in TabGroup
         /\ \/ /\ g.first <= row /\ row <= g.first + g.count
               /\ b \/ (g.first < row /\ row < g.first + g.count)
               /\ h.first = g.first /\ h.count = g.count + 1
               /\ h.active = IF row <= g.active THEN g.active + 1 ELSE g.active
            \/ /\ row <= g.first /\ (b => row < g.first)
               /\ h.first = g.first + 1 /\ h.count = g.count /\ h.active = g.active + 1
            \/ /\ row >= g.first + g.count /\ (b => row > g.first + g.count)
               /\ h = g
<1> DEFINE h == AfterInsertion(g, row, b)
<1>0. g.first \in Nat /\ g.count \in Nat /\ g.active \in Nat
  BY DEF TabGroup
<1>1. Joins(g, row, b) <=> IF b THEN g.first <= row /\ row <= g.first + g.count
                                ELSE g.first < row /\ row < g.first + g.count
  BY DEF Joins, End
<1>2. CASE Joins(g, row, b)
  <2>1. h = [g EXCEPT !.count = @ + 1, !.active = IF row <= @ THEN @ + 1 ELSE @]
    BY <1>2 DEF AfterInsertion
  <2> DEFINE a == IF row <= g.active THEN g.active + 1 ELSE g.active
  <2>0. a \in Nat /\ g.count + 1 \in Nat
    BY <1>0
  <2>4. h = [first |-> g.first, count |-> g.count + 1, active |-> a]
    <3> HIDE DEF h
    <3> QED BY <2>1 DEF TabGroup
  <2>2. /\ h \in TabGroup /\ h.first = g.first /\ h.count = g.count + 1
        /\ h.active = a
    <3> HIDE DEF h, a
    <3> QED BY <1>0, <2>0, <2>4, GroupIs
  <2>3. /\ g.first <= row /\ row <= g.first + g.count
        /\ b \/ (g.first < row /\ row < g.first + g.count)
    BY <1>0, <1>1, <1>2
  <2> HIDE DEF h
  <2> QED BY <2>2, <2>3 DEF h
<1>3. CASE ~Joins(g, row, b) /\ row <= g.first
  <2>1. h = [g EXCEPT !.first = @ + 1, !.active = @ + 1]
    BY <1>3 DEF AfterInsertion
  <2>0. g.first + 1 \in Nat /\ g.active + 1 \in Nat
    BY <1>0
  <2>4. h = [first |-> g.first + 1, count |-> g.count, active |-> g.active + 1]
    <3> HIDE DEF h
    <3> QED BY <2>1 DEF TabGroup
  <2>2. h \in TabGroup /\ h.first = g.first + 1 /\ h.count = g.count /\ h.active = g.active + 1
    <3> HIDE DEF h
    <3> QED BY <1>0, <2>0, <2>4, GroupIs
  <2>3. row <= g.first /\ (b => row < g.first)
    BY <1>0, <1>1, <1>3
  <2> HIDE DEF h
  <2> QED BY <2>2, <2>3 DEF h
<1>4. CASE ~Joins(g, row, b) /\ ~(row <= g.first)
  <2>1. h = g
    BY <1>4 DEF AfterInsertion
  <2>2. row >= g.first + g.count /\ (b => row > g.first + g.count)
    BY <1>0, <1>1, <1>4
  <2> HIDE DEF h
  <2> QED BY <2>1, <2>2 DEF h
<1> QED BY <1>2, <1>3, <1>4

\* The group still has its active row and stays within the rows.
LEMMA InsertionKeeps ==
  ASSUME NEW rows \in Nat, NEW row \in Nat, NEW g \in TabGroup, Within(g, rows), row <= rows + 1,
         NEW b \in BOOLEAN
  PROVE  LET h == AfterInsertion(g, row, b) IN h \in TabGroup /\ Within(h, rows + 1)
<1>1. g.first \in Nat /\ g.count \in Nat /\ g.active \in Nat /\ g.first >= 1
  BY DEF TabGroup, Within
<1> DEFINE h == AfterInsertion(g, row, b)
<1>2. h \in TabGroup /\ h.first \in Nat /\ h.count \in Nat /\ h.active \in Nat
  BY <1>1, AfterInsertionIs DEF TabGroup
<1>3. \/ /\ h.first = g.first /\ h.count = g.count + 1
         /\ h.active = IF row <= g.active THEN g.active + 1 ELSE g.active
      \/ /\ h.first = g.first + 1 /\ h.count = g.count /\ h.active = g.active + 1
      \/ /\ h.first = g.first /\ h.count = g.count /\ h.active = g.active
  BY <1>1, AfterInsertionIs
<1> HIDE DEF h
<1>4. Within(h, rows + 1)
  BY <1>1, <1>2, <1>3 DEF Within
<1> QED BY <1>2, <1>4 DEF h

\* Two groups stay apart, as a row joins one of them at most.
LEMMA InsertionKeepsOrder ==
  ASSUME NEW row \in Nat, NEW g \in TabGroup, NEW i \in TabGroup, g.first >= 1, i.first >= 1, i.count >= 1, g.count >= 1,
         Above(g, i), NEW b \in BOOLEAN, NEW c \in BOOLEAN, ~(b /\ c)
  PROVE  Above(AfterInsertion(g, row, b), AfterInsertion(i, row, c))
<1>1. /\ g.first \in Nat /\ g.count \in Nat /\ i.first \in Nat /\ i.count \in Nat
  BY DEF TabGroup
<1> DEFINE h == AfterInsertion(g, row, b)  k == AfterInsertion(i, row, c)
<1>2. \/ /\ row <= g.first + g.count /\ h.first = g.first /\ h.count = g.count + 1 /\ (~b => row < g.first + g.count)
      \/ /\ row <= g.first /\ h.first = g.first + 1 /\ h.count = g.count
      \/ /\ row >= g.first + g.count /\ h.first = g.first /\ h.count = g.count
  BY AfterInsertionIs
<1>3. \/ /\ row >= i.first /\ k.first = i.first /\ (~c => row > i.first)
      \/ /\ row <= i.first /\ k.first = i.first + 1
      \/ /\ row >= i.first + i.count /\ k.first = i.first
  BY AfterInsertionIs
<1> HIDE DEF h, k
<1>4. Above(h, k)
  BY <1>1, <1>2, <1>3 DEF Above
<1> QED BY <1>4 DEF h, k

\* rowInserted: a column of one row more, whatever group the row is meant to join.
LEMMA RowInsertedIs ==
  ASSUME NEW rows \in Nat, NEW tabs, Groups(tabs, rows), NEW row \in 1..(rows + 1), NEW into
  PROVE  Groups(RowInserted(tabs, row, into), rows + 1)
<1> DEFINE u == RowInserted(tabs, row, into)
<1>1. tabs \in Seq(TabGroup) /\ row \in Nat /\ row <= rows + 1
  BY DEF Groups
<1>2. u = [i \in DOMAIN tabs |-> u[i]] /\ \A i \in DOMAIN tabs : u[i] = AfterInsertion(tabs[i], row, into = i)
  BY DEF RowInserted
<1> HIDE DEF u
<1>3. ASSUME NEW i \in DOMAIN tabs PROVE u[i] \in TabGroup /\ Within(u[i], rows + 1)
  <2>1. tabs[i] \in TabGroup /\ Within(tabs[i], rows) /\ (into = i) \in BOOLEAN
    BY GroupsAre
  <2>2. \A b \in BOOLEAN : LET h == AfterInsertion(tabs[i], row, b) IN h \in TabGroup /\ Within(h, rows + 1)
    BY <1>1, <2>1, InsertionKeeps
  <2> QED BY <1>2, <2>1, <2>2, Zenon
<1>4. ASSUME NEW i \in DOMAIN tabs, NEW j \in DOMAIN tabs, i < j PROVE Above(u[i], u[j])
  <2>1. /\ tabs[i] \in TabGroup /\ tabs[i].first >= 1 /\ tabs[i].count >= 1
        /\ tabs[j] \in TabGroup /\ tabs[j].first >= 1 /\ tabs[j].count >= 1
        /\ Above(tabs[i], tabs[j])
    BY <1>4, GroupsAre DEF Within, TabGroup
  <2>2. (into = i) \in BOOLEAN /\ (into = j) \in BOOLEAN /\ ~(into = i /\ into = j)
    BY <1>4, GroupsAre
  <2>3. \A b, c \in BOOLEAN : ~(b /\ c) =>
          Above(AfterInsertion(tabs[i], row, b), AfterInsertion(tabs[j], row, c))
    BY <1>1, <2>1, InsertionKeepsOrder
  <2> QED BY <1>2, <2>2, <2>3, Zenon
<1> QED BY <1>1, <1>2, <1>3, <1>4, EachIsGroup, Zenon DEF u

\* A row erased in a group shrinks it and moves its active row up; one before it shifts it.
LEMMA AfterErasureIs ==
  ASSUME NEW rows \in Nat, NEW g \in TabGroup, Within(g, rows), NEW row \in Nat
  PROVE  LET h == AfterErasure(g, row) IN
         /\ h \in TabGroup
         /\ \/ /\ g.first <= row /\ row < g.first + g.count
               /\ h.first = g.first /\ h.count = g.count - 1
               /\ h.active = IF row < g.active \/ (row = g.active /\ g.active > g.first)
                             THEN g.active - 1 ELSE g.active
            \/ /\ row < g.first
               /\ h.first = g.first - 1 /\ h.count = g.count /\ h.active = g.active - 1
            \/ /\ row >= g.first + g.count
               /\ h.first = g.first /\ h.count = g.count /\ h.active = g.active
<1> DEFINE h == AfterErasure(g, row)
<1>0. /\ g.first \in Nat /\ g.count \in Nat /\ g.active \in Nat
      /\ g.first >= 1 /\ g.first <= g.active /\ g.active < g.first + g.count
  BY DEF TabGroup, Within
<1>1. Covers(g, row) <=> g.first <= row /\ row < g.first + g.count
  BY DEF Covers, End
<1>2. CASE Covers(g, row)
  <2> DEFINE a == IF row < g.active \/ (row = g.active /\ g.active > g.first) THEN g.active - 1 ELSE g.active
  <2>1. h = [g EXCEPT !.count = @ - 1,
                      !.active = IF row < @ \/ (row = @ /\ @ > g.first) THEN @ - 1 ELSE @]
    <3>1. ~(row < g.first)
      BY <1>0, <1>1, <1>2
    <3> QED BY <1>2, <3>1, Zenon DEF AfterErasure
  <2>2. a \in Nat /\ g.count - 1 \in Nat
    BY <1>0
  <2>3. h = [first |-> g.first, count |-> g.count - 1, active |-> a]
    <3> HIDE DEF h
    <3> QED BY <2>1 DEF TabGroup
  <2>4. h \in TabGroup /\ h.first = g.first /\ h.count = g.count - 1 /\ h.active = a
    <3> HIDE DEF h, a
    <3> QED BY <1>0, <2>2, <2>3, GroupIs
  <2> HIDE DEF h
  <2> QED BY <1>1, <1>2, <2>4 DEF h
<1>3. CASE ~Covers(g, row) /\ row < g.first
  <2>1. h = [g EXCEPT !.first = @ - 1, !.active = @ - 1]
    BY <1>3 DEF AfterErasure
  <2>2. g.first - 1 \in Nat /\ g.active - 1 \in Nat
    BY <1>0
  <2>3. h = [first |-> g.first - 1, count |-> g.count, active |-> g.active - 1]
    <3> HIDE DEF h
    <3> QED BY <2>1 DEF TabGroup
  <2>4. h \in TabGroup /\ h.first = g.first - 1 /\ h.count = g.count /\ h.active = g.active - 1
    <3> HIDE DEF h
    <3> QED BY <1>0, <2>2, <2>3, GroupIs
  <2> HIDE DEF h
  <2> QED BY <1>3, <2>4 DEF h
<1>4. CASE ~Covers(g, row) /\ ~(row < g.first)
  <2>1. h = g
    BY <1>4 DEF AfterErasure
  <2>2. row >= g.first + g.count
    BY <1>0, <1>1, <1>4
  <2> HIDE DEF h
  <2> QED BY <2>1, <2>2 DEF h
<1> QED BY <1>2, <1>3, <1>4

\* A group that keeps a row keeps an active one; only a group of the erased row alone is gone.
LEMMA ErasureKeeps ==
  ASSUME NEW rows \in Nat, NEW row \in 1..rows, NEW g \in TabGroup, Within(g, rows)
  PROVE  LET h == AfterErasure(g, row) IN
         /\ h \in TabGroup
         /\ h.count # 0 => Within(h, rows - 1)
         /\ h.count = 0 => row = g.first
<1> DEFINE h == AfterErasure(g, row)
<1>1. /\ g.first \in Nat /\ g.count \in Nat /\ g.active \in Nat /\ row \in Nat /\ row <= rows /\ row >= 1
      /\ g.first >= 1 /\ g.first <= g.active /\ g.active < g.first + g.count /\ g.first + g.count <= rows + 1
  BY DEF TabGroup, Within
<1>2. h \in TabGroup /\ h.first \in Nat /\ h.count \in Nat /\ h.active \in Nat
  BY <1>1, AfterErasureIs DEF TabGroup
<1>3. \/ /\ g.first <= row /\ row < g.first + g.count
         /\ h.first = g.first /\ h.count = g.count - 1
         /\ h.active = IF row < g.active \/ (row = g.active /\ g.active > g.first) THEN g.active - 1 ELSE g.active
      \/ /\ row < g.first /\ h.first = g.first - 1 /\ h.count = g.count /\ h.active = g.active - 1
      \/ /\ row >= g.first + g.count /\ h.first = g.first /\ h.count = g.count /\ h.active = g.active
  BY <1>1, AfterErasureIs
<1> HIDE DEF h
<1>4. h.count # 0 => Within(h, rows - 1)
  BY <1>1, <1>2, <1>3 DEF Within
<1>5. h.count = 0 => row = g.first
  BY <1>1, <1>2, <1>3
<1> QED BY <1>2, <1>4, <1>5 DEF h

\* Two groups stay apart.
LEMMA ErasureKeepsOrder ==
  ASSUME NEW rows \in Nat, NEW row \in Nat, NEW g \in TabGroup, NEW i \in TabGroup,
         Within(g, rows), Within(i, rows), Above(g, i)
  PROVE  Above(AfterErasure(g, row), AfterErasure(i, row))
<1>1. /\ g.first \in Nat /\ g.count \in Nat /\ i.first \in Nat /\ i.count \in Nat
  BY DEF TabGroup
<1> DEFINE h == AfterErasure(g, row)  k == AfterErasure(i, row)
<1>2. \/ /\ g.first <= row /\ row < g.first + g.count /\ h.first = g.first /\ h.count = g.count - 1
      \/ /\ row < g.first /\ h.first = g.first - 1 /\ h.count = g.count
      \/ /\ row >= g.first + g.count /\ h.first = g.first /\ h.count = g.count
  BY AfterErasureIs
<1>3. \/ /\ i.first <= row /\ k.first = i.first
      \/ /\ row < i.first /\ k.first = i.first - 1
      \/ /\ row >= i.first + i.count /\ k.first = i.first
  BY AfterErasureIs
<1> HIDE DEF h, k
<1>4. Above(h, k)
  BY <1>1, <1>2, <1>3 DEF Above
<1> QED BY <1>4 DEF h, k

\* One group less.
LEMMA OneLess ==
  ASSUME NEW rows, NEW u \in Seq(TabGroup), NEW i \in DOMAIN u,
         \A k \in DOMAIN u \ {i} : Within(u[k], rows),
         \A k, l \in DOMAIN u : k < l => Above(u[k], u[l])
  PROVE  Groups(RemoveAt(u, i), rows)
<1> DEFINE r == RemoveAt(u, i)
<1>1. DOMAIN u = 1..Len(u) /\ Len(u) \in Nat /\ i \in 1..Len(u)
  OBVIOUS
<1>2. /\ r \in Seq(TabGroup) /\ Len(r) = Len(u) - 1
      /\ \A k \in 1..(Len(u) - 1) : r[k] = IF k < i THEN u[k] ELSE u[k + 1]
  BY <1>1, RemoveAtIs
<1>3. DOMAIN r = 1..(Len(u) - 1)
  BY <1>1, <1>2
<1> HIDE DEF r
<1>4. \A k \in DOMAIN r : Within(r[k], rows)
  BY <1>1, <1>2, <1>3
<1>5. ASSUME NEW k \in DOMAIN r, NEW l \in DOMAIN r, k < l PROVE Above(r[k], r[l])
  <2> DEFINE a == IF k < i THEN k ELSE k + 1  b == IF l < i THEN l ELSE l + 1
  <2>1. a \in DOMAIN u /\ b \in DOMAIN u /\ a < b
    BY <1>1, <1>3, <1>5
  <2>2. r[k] = u[a] /\ r[l] = u[b]
    BY <1>2, <1>3
  <2> QED BY <2>1, <2>2
<1> QED BY <1>2, <1>4, <1>5, AreGroups DEF r

\* rowErased, with the group that has become empty left out.
LEMMA RowErasedIs ==
  ASSUME NEW rows \in Nat, NEW tabs, Groups(tabs, rows), NEW row \in 1..rows
  PROVE  Groups(RowErased(tabs, row), rows - 1)
<1> DEFINE u == [i \in DOMAIN tabs |-> AfterErasure(tabs[i], row)]
           gone == {i \in DOMAIN u : u[i].count = 0}
<1>1. RowErased(tabs, row) = IF gone = {} THEN u ELSE RemoveAt(u, CHOOSE i \in gone : TRUE)
  BY DEF RowErased
<1>2. tabs \in Seq(TabGroup) /\ row \in Nat
  BY DEF Groups
<1>3. u = [i \in DOMAIN tabs |-> u[i]] /\ DOMAIN u = DOMAIN tabs
      /\ \A i \in DOMAIN tabs : u[i] = AfterErasure(tabs[i], row)
  OBVIOUS
<1> HIDE DEF u
<1>4. \A i \in DOMAIN tabs : /\ tabs[i] \in TabGroup /\ Within(tabs[i], rows)
                             /\ u[i] \in TabGroup
                             /\ u[i].count # 0 => Within(u[i], rows - 1)
                             /\ u[i].count = 0 => row = tabs[i].first
  BY <1>2, <1>3, GroupsAre, ErasureKeeps
<1>5. \A i, j \in DOMAIN tabs : i < j => Above(u[i], u[j])
  BY <1>2, <1>3, <1>4, GroupsAre, ErasureKeepsOrder
<1>6. CASE gone = {}
  <2>1. \A i \in DOMAIN tabs : u[i] \in TabGroup /\ Within(u[i], rows - 1)
    BY <1>3, <1>4, <1>6
  <2>2. Groups(u, rows - 1)
    BY <1>2, <1>3, <1>5, <2>1, EachIsGroup, Zenon
  <2> QED BY <1>1, <1>6, <2>2
<1>7. CASE gone # {}
  <2> DEFINE i == CHOOSE i \in gone : TRUE
  <2>1. i \in DOMAIN tabs /\ u[i].count = 0
    BY <1>3, <1>7
  <2>2. RowErased(tabs, row) = RemoveAt(u, i)
    BY <1>1, <1>7
  <2> HIDE DEF i, gone
  <2>3. \A k \in DOMAIN tabs : u[k].count = 0 => k = i
    <3> SUFFICES ASSUME NEW k \in DOMAIN tabs, u[k].count = 0, k # i PROVE FALSE
      OBVIOUS
    <3>1. tabs[k].first = tabs[i].first
      BY <1>4, <2>1
    <3>2. Above(tabs[k], tabs[i]) \/ Above(tabs[i], tabs[k])
      BY <2>1, GroupsAre
    <3>3. /\ tabs[k].first \in Nat /\ tabs[k].count \in Nat /\ tabs[k].count >= 1
          /\ tabs[i].first \in Nat /\ tabs[i].count \in Nat /\ tabs[i].count >= 1
      BY <1>4, <2>1 DEF Within, TabGroup
    <3> QED BY <3>1, <3>2, <3>3 DEF Above
  <2>4. \A k \in DOMAIN u \ {i} : Within(u[k], rows - 1)
    BY <1>3, <1>4, <2>3
  <2>5. u \in Seq(TabGroup)
    <3>1. DOMAIN tabs = 1..Len(tabs) /\ Len(tabs) \in Nat
      BY <1>2
    <3> QED BY <1>3, <1>4, <3>1
  <2>6. Groups(RemoveAt(u, i), rows - 1)
    BY <1>3, <1>5, <2>1, <2>4, <2>5, OneLess
  <2> QED BY <2>2, <2>6
<1> QED BY <1>6, <1>7

-----------------------------------------------------------------------------

\* The group that holds a row.
LEMMA GroupOf ==
  ASSUME NEW tabs, NEW row, Grouped(tabs, row)
  PROVE  GroupIndex(tabs, row) \in DOMAIN tabs /\ Covers(GroupAt(tabs, row), row)
BY DEF Grouped, GroupIndex, GroupAt

\* Groups do not overlap, so a row is in one at most.
LEMMA OnlyGroup ==
  ASSUME NEW rows, NEW tabs, Groups(tabs, rows), NEW row \in Nat,
         NEW i \in DOMAIN tabs, NEW j \in DOMAIN tabs, Covers(tabs[i], row), Covers(tabs[j], row)
  PROVE  i = j
<1>1. /\ tabs[i].first \in Nat /\ tabs[i].count \in Nat
      /\ tabs[j].first \in Nat /\ tabs[j].count \in Nat
  BY GroupsAre DEF TabGroup
<1>2. i # j => Above(tabs[i], tabs[j]) \/ Above(tabs[j], tabs[i])
  BY GroupsAre
<1> QED BY <1>1, <1>2 DEF Above, Covers, End

\* The unit that holds a row.
LEMMA UnitIs ==
  ASSUME NEW rows \in Nat, NEW tabs, Groups(tabs, rows), NEW row \in 1..rows
  PROVE  LET u == Unit(tabs, row)
         IN  u \in TabGroup /\ Within(u, rows) /\ u.first <= row /\ row < u.first + u.count
<1>1. CASE Grouped(tabs, row)
  <2>1. Unit(tabs, row) = tabs[GroupIndex(tabs, row)]
    BY <1>1 DEF Unit, GroupAt
  <2>2. GroupIndex(tabs, row) \in DOMAIN tabs /\ Covers(tabs[GroupIndex(tabs, row)], row)
    BY <1>1, GroupOf DEF GroupAt
  <2>3. tabs[GroupIndex(tabs, row)] \in TabGroup /\ Within(tabs[GroupIndex(tabs, row)], rows)
    BY <2>2, GroupsAre
  <2> QED BY <2>1, <2>2, <2>3 DEF Covers, End
<1>2. CASE ~Grouped(tabs, row)
  <2>1. Unit(tabs, row) = [first |-> row, count |-> 1, active |-> row]
    BY <1>2 DEF Unit
  <2> DEFINE u == Unit(tabs, row)
  <2> HIDE DEF u
  <2>2. u \in TabGroup /\ u.first = row /\ u.count = 1 /\ u.active = row
    BY <2>1, GroupIs DEF u
  <2>3. Within(u, rows) /\ u.first <= row /\ row < u.first + u.count
    BY <2>2 DEF Within
  <2> QED BY <2>2, <2>3 DEF u
<1> QED BY <1>1, <1>2

\* rowsSwapped moves no group, only which of its rows is active.
LEMMA RowsSwappedIs ==
  ASSUME NEW rows \in Nat, NEW tabs, Groups(tabs, rows), NEW a \in Nat, NEW b \in Nat
  PROVE  Groups(RowsSwapped(tabs, a, b), rows)
<1> DEFINE u == RowsSwapped(tabs, a, b)
<1>1. tabs \in Seq(TabGroup)
  BY DEF Groups
<1>2. u = [i \in DOMAIN tabs |-> u[i]] /\ \A i \in DOMAIN tabs : u[i] = AfterSwap(tabs[i], a, b)
  BY DEF RowsSwapped
<1> HIDE DEF u
<1>3. ASSUME NEW g \in TabGroup, Within(g, rows)
      PROVE  LET h == AfterSwap(g, a, b)
             IN  h \in TabGroup /\ Within(h, rows) /\ h.first = g.first /\ h.count = g.count
  <2> DEFINE h == AfterSwap(g, a, b)
  <2>1. /\ g.first \in Nat /\ g.count \in Nat /\ g.active \in Nat /\ g.first >= 1
        /\ g.first + g.count <= rows + 1 /\ g.first <= g.active /\ g.active < g.first + g.count
    BY <1>3 DEF TabGroup, Within
  <2>2. CASE Covers(g, a) /\ Covers(g, b) /\ g.active \in {a, b}
    <3>1. h = [g EXCEPT !.active = a + b - @]
      BY <2>2 DEF AfterSwap
    <3>2. /\ a + b - g.active \in Nat /\ g.first <= a + b - g.active
          /\ a + b - g.active < g.first + g.count
      BY <2>1, <2>2 DEF Covers, End
    <3>3. h = [first |-> g.first, count |-> g.count, active |-> a + b - g.active]
      <4> HIDE DEF h
      <4> QED BY <3>1 DEF TabGroup
    <3> HIDE DEF h
    <3>4. h \in TabGroup /\ h.first = g.first /\ h.count = g.count /\ h.active = a + b - g.active
      BY <2>1, <3>2, <3>3, GroupIs
    <3>5. Within(h, rows)
      BY <2>1, <3>2, <3>4 DEF Within
    <3> QED BY <3>4, <3>5 DEF h
  <2>3. CASE ~(Covers(g, a) /\ Covers(g, b) /\ g.active \in {a, b})
    <3>1. h = g
      BY <2>3 DEF AfterSwap
    <3> QED BY <1>3, <3>1
  <2> QED BY <2>2, <2>3
<1>4. \A i \in DOMAIN tabs : /\ u[i] \in TabGroup /\ Within(u[i], rows)
                             /\ u[i].first = tabs[i].first /\ u[i].count = tabs[i].count
  BY <1>2, <1>3, GroupsAre
<1>5. \A i, j \in DOMAIN tabs : i < j => Above(u[i], u[j])
  BY <1>4, GroupsAre DEF Above
<1> QED BY <1>1, <1>2, <1>4, <1>5, EachIsGroup, Zenon DEF u

\* select changes the active row and nothing else.
LEMMA SelectIs ==
  ASSUME NEW rows \in Nat, NEW tabs, Groups(tabs, rows), NEW row \in Nat
  PROVE  /\ Groups(SelectRow(tabs, row), rows) /\ DOMAIN SelectRow(tabs, row) = DOMAIN tabs
         /\ \A i \in DOMAIN tabs : /\ SelectRow(tabs, row)[i].first = tabs[i].first
                                   /\ SelectRow(tabs, row)[i].count = tabs[i].count
<1> DEFINE u == SelectRow(tabs, row)
           After(g) == IF Covers(g, row) THEN [g EXCEPT !.active = row] ELSE g
<1>1. tabs \in Seq(TabGroup)
  BY DEF Groups
<1>2. u = [i \in DOMAIN tabs |-> u[i]] /\ \A i \in DOMAIN tabs : u[i] = After(tabs[i])
  BY DEF SelectRow
<1> HIDE DEF u
<1>3. ASSUME NEW g \in TabGroup, Within(g, rows)
      PROVE  LET h == After(g)
             IN  h \in TabGroup /\ Within(h, rows) /\ h.first = g.first /\ h.count = g.count
  <2> DEFINE h == After(g)
  <2>1. /\ g.first \in Nat /\ g.count \in Nat /\ g.active \in Nat /\ g.first >= 1
        /\ g.first + g.count <= rows + 1 /\ g.first <= g.active /\ g.active < g.first + g.count
    BY <1>3 DEF TabGroup, Within
  <2>2. CASE Covers(g, row)
    <3>1. h = [g EXCEPT !.active = row]
      BY <2>2
    <3>3. h = [first |-> g.first, count |-> g.count, active |-> row]
      <4> HIDE DEF h
      <4> QED BY <3>1 DEF TabGroup
    <3> HIDE DEF h
    <3>4. h \in TabGroup /\ h.first = g.first /\ h.count = g.count /\ h.active = row
      BY <2>1, <3>3, GroupIs
    <3>5. Within(h, rows)
      BY <2>1, <2>2, <3>4 DEF Within, Covers, End
    <3> QED BY <3>4, <3>5 DEF h
  <2>3. CASE ~Covers(g, row)
    <3>1. h = g
      BY <2>3
    <3> QED BY <1>3, <3>1
  <2> QED BY <2>2, <2>3
<1> HIDE DEF After
<1>4. \A i \in DOMAIN tabs : /\ u[i] \in TabGroup /\ Within(u[i], rows)
                             /\ u[i].first = tabs[i].first /\ u[i].count = tabs[i].count
  BY <1>2, <1>3, GroupsAre
<1>5. \A i, j \in DOMAIN tabs : i < j => Above(u[i], u[j])
  BY <1>4, GroupsAre DEF Above
<1>6. Groups(u, rows)
  BY <1>1, <1>2, <1>4, <1>5, EachIsGroup, Zenon
<1> QED BY <1>2, <1>4, <1>6 DEF u

\* dissolve takes a group away.
LEMMA DissolveIs ==
  ASSUME NEW rows \in Nat, NEW tabs, Groups(tabs, rows), NEW row
  PROVE  Groups(Dissolve(tabs, row), rows)
<1>1. CASE Grouped(tabs, row)
  <2>1. GroupIndex(tabs, row) \in DOMAIN tabs
    BY <1>1, GroupOf
  <2>2. Dissolve(tabs, row) = RemoveAt(tabs, GroupIndex(tabs, row))
    BY <1>1 DEF Dissolve
  <2> QED BY <2>1, <2>2, GroupsAre, OneLess
<1>2. CASE ~Grouped(tabs, row)
  BY <1>2 DEF Dissolve
<1> QED BY <1>1, <1>2

\* A new group among the others.
LEMMA OneMore ==
  ASSUME NEW rows, NEW tabs, Groups(tabs, rows), NEW i \in 1..(Len(tabs) + 1),
         NEW g \in TabGroup, Within(g, rows),
         \A k \in DOMAIN tabs : k < i => Above(tabs[k], g),
         \A k \in DOMAIN tabs : k >= i => Above(g, tabs[k])
  PROVE  Groups(InsertAt(tabs, i, g), rows)
<1> DEFINE r == InsertAt(tabs, i, g)
<1>1. /\ DOMAIN tabs = 1..Len(tabs) /\ Len(tabs) \in Nat /\ tabs \in Seq(TabGroup)
      /\ \A k \in DOMAIN tabs : Within(tabs[k], rows)
      /\ \A k, l \in DOMAIN tabs : k < l => Above(tabs[k], tabs[l])
  BY GroupsAre
<1>2. /\ r \in Seq(TabGroup) /\ Len(r) = Len(tabs) + 1
      /\ \A k \in 1..(Len(tabs) + 1) : r[k] = IF k < i THEN tabs[k] ELSE IF k = i THEN g ELSE tabs[k - 1]
  BY <1>1, InsertAtIs
<1>3. DOMAIN r = 1..(Len(tabs) + 1)
  BY <1>1, <1>2
<1> HIDE DEF r
<1>4. ASSUME NEW k \in DOMAIN r PROVE Within(r[k], rows)
  <2>1. CASE k = i
    BY <1>2, <1>3, <2>1
  <2>2. CASE k < i
    <3>1. k \in DOMAIN tabs /\ r[k] = tabs[k]
      BY <1>1, <1>2, <1>3, <2>2
    <3> QED BY <1>1, <3>1
  <2>3. CASE k > i
    <3>1. k - 1 \in DOMAIN tabs /\ r[k] = tabs[k - 1]
      BY <1>1, <1>2, <1>3, <2>3
    <3> QED BY <1>1, <3>1
  <2> QED BY <1>1, <1>3, <2>1, <2>2, <2>3
<1>5. ASSUME NEW k \in DOMAIN r, NEW l \in DOMAIN r, k < l PROVE Above(r[k], r[l])
  <2>1. CASE k = i
    <3>1. l - 1 \in DOMAIN tabs /\ r[l] = tabs[l - 1] /\ l - 1 >= i /\ r[k] = g
      BY <1>1, <1>2, <1>3, <1>5, <2>1
    <3> QED BY <3>1
  <2>2. CASE l = i
    <3>1. k \in DOMAIN tabs /\ r[k] = tabs[k] /\ r[l] = g /\ k < i
      BY <1>1, <1>2, <1>3, <1>5, <2>2
    <3> QED BY <3>1
  <2>3. CASE k # i /\ l # i
    <3> DEFINE a == IF k < i THEN k ELSE k - 1  b == IF l < i THEN l ELSE l - 1
    <3>1. a \in DOMAIN tabs /\ b \in DOMAIN tabs /\ a < b
      BY <1>1, <1>3, <1>5, <2>3
    <3>2. r[k] = tabs[a] /\ r[l] = tabs[b]
      BY <1>2, <1>3, <2>3
    <3> HIDE DEF a, b
    <3> QED BY <1>1, <3>1, <3>2
  <2> QED BY <2>1, <2>2, <2>3
<1> QED BY <1>2, <1>4, <1>5, AreGroups DEF r

\* form adds a group over rows that were in none.
LEMMA FormIs ==
  ASSUME NEW rows \in Nat, NEW tabs, Groups(tabs, rows),
         NEW first \in Nat, NEW count \in Nat, NEW active \in Nat,
         first >= 1, first + count <= rows + 1, first <= active, active < first + count,
         \A r \in first..(first + count - 1) : ~Grouped(tabs, r)
  PROVE  Groups(Form(tabs, first, count, active), rows)
<1> DEFINE g == [first |-> first, count |-> count, active |-> active]
           later == {i \in DOMAIN tabs : tabs[i].first > first}
           at == IF later = {} THEN Len(tabs) + 1 ELSE Min(later)
<1>1. Form(tabs, first, count, active) = InsertAt(tabs, at, g)
  BY DEF Form
<1>2. g \in TabGroup /\ g.first = first /\ g.count = count /\ g.active = active
  BY GroupIs
<1> HIDE DEF g
<1>3. Within(g, rows)
  BY <1>2 DEF Within
<1>4. /\ DOMAIN tabs = 1..Len(tabs) /\ Len(tabs) \in Nat
  BY GroupsAre
<1>5. /\ at \in 1..(Len(tabs) + 1)
      /\ \A k \in DOMAIN tabs : k < at => ~(tabs[k].first > first)
      /\ at \in DOMAIN tabs => tabs[at].first > first
  <2>1. CASE later = {}
    BY <1>4, <2>1
  <2>2. CASE later # {}
    <3>1. later \in SUBSET Nat
      BY <1>4
    <3>2. Min(later) \in later /\ \A m \in later : Min(later) <= m
      BY <2>2, <3>1, MinIs
    <3>3. at = Min(later)
      BY <2>2
    <3> HIDE DEF at
    <3>4. at \in DOMAIN tabs /\ tabs[at].first > first
      BY <3>2, <3>3
    <3>5. \A k \in DOMAIN tabs : tabs[k].first > first => at <= k
      BY <3>2, <3>3
    <3> HIDE DEF later
    <3> QED BY <1>4, <3>4, <3>5
  <2> QED BY <2>1, <2>2
<1> HIDE DEF later, at
<1>6. \A k \in DOMAIN tabs : /\ tabs[k].first \in Nat /\ tabs[k].count \in Nat /\ tabs[k].count >= 1
                             /\ Covers(tabs[k], tabs[k].first)
  BY GroupsAre DEF TabGroup, Within, Covers, End
<1>7. ASSUME NEW k \in DOMAIN tabs, k < at PROVE Above(tabs[k], g)
  <2>1. ~Covers(tabs[k], first)
    BY DEF Grouped
  <2> QED BY <1>2, <1>5, <1>6, <1>7, <2>1 DEF Covers, End, Above
<1>8. ASSUME NEW k \in DOMAIN tabs, k >= at PROVE Above(g, tabs[k])
  <2>1. at \in DOMAIN tabs
    BY <1>4, <1>5, <1>8
  <2>2. tabs[k].first > first
    <3>1. CASE k = at
      BY <1>5, <3>1
    <3>2. CASE k > at
      <4>1. Above(tabs[at], tabs[k])
        BY <2>1, <3>2, GroupsAre
      <4> QED BY <1>5, <1>6, <2>1, <4>1 DEF Above
    <3> QED BY <1>4, <1>5, <1>8, <3>1, <3>2
  <2>3. ~(tabs[k].first < first + count)
    <3> SUFFICES ASSUME tabs[k].first < first + count PROVE FALSE
      OBVIOUS
    <3>1. tabs[k].first \in first..(first + count - 1)
      BY <1>6, <2>2
    <3> QED BY <1>6, <3>1 DEF Grouped
  <2> QED BY <1>2, <1>6, <2>3 DEF Above
<1> QED BY <1>1, <1>2, <1>3, <1>5, <1>7, <1>8, OneMore

\* leave: the first or the last row of a group of several becomes a row of its own.
LEMMA LeaveIs ==
  ASSUME NEW rows \in Nat, NEW tabs, Groups(tabs, rows), NEW row \in Nat,
         \A i \in DOMAIN tabs : Covers(tabs[i], row) =>
           tabs[i].count > 1 /\ row \in {tabs[i].first, tabs[i].first + tabs[i].count - 1}
  PROVE  Groups(Leave(tabs, row), rows)
<1> DEFINE Left(g) == LET first == IF row = g.first THEN g.first + 1 ELSE g.first
                          last  == IF row = g.first THEN End(g) - 1 ELSE End(g) - 2
                      IN  [first |-> first, count |-> g.count - 1,
                           active |-> IF g.active < first THEN first
                                      ELSE IF g.active > last THEN last ELSE g.active]
           u == Leave(tabs, row)
<1>1. tabs \in Seq(TabGroup)
  BY DEF Groups
<1>2. /\ u = [i \in DOMAIN tabs |-> u[i]]
      /\ \A i \in DOMAIN tabs : u[i] = IF Covers(tabs[i], row) THEN Left(tabs[i]) ELSE tabs[i]
  BY DEF Leave
<1>3. ASSUME NEW g \in TabGroup, Within(g, rows), g.count > 1,
             row \in {g.first, g.first + g.count - 1}
      PROVE  LET h == Left(g)
             IN  /\ h \in TabGroup /\ Within(h, rows) /\ g.first <= h.first
                 /\ h.first + h.count <= g.first + g.count
  <2> DEFINE h == Left(g)
             first == IF row = g.first THEN g.first + 1 ELSE g.first
             last  == IF row = g.first THEN End(g) - 1 ELSE End(g) - 2
             active == IF g.active < first THEN first ELSE IF g.active > last THEN last ELSE g.active
  <2>1. /\ g.first \in Nat /\ g.count \in Nat /\ g.active \in Nat /\ g.first >= 1
        /\ g.first + g.count <= rows + 1 /\ g.first <= g.active /\ g.active < g.first + g.count
    BY <1>3 DEF TabGroup, Within
  <2>2. first \in Nat /\ active \in Nat /\ g.count - 1 \in Nat
    BY <1>3, <2>1 DEF End
  <2>3. /\ first >= 1 /\ first + (g.count - 1) <= rows + 1 /\ first <= active
        /\ active < first + (g.count - 1) /\ g.first <= first
        /\ first + (g.count - 1) <= g.first + g.count
    BY <1>3, <2>1 DEF End
  <2>4. h = [first |-> first, count |-> g.count - 1, active |-> active]
    OBVIOUS
  <2> HIDE DEF h, first, last, active
  <2>5. h \in TabGroup /\ h.first = first /\ h.count = g.count - 1 /\ h.active = active
    BY <2>2, <2>4, GroupIs
  <2>6. Within(h, rows) /\ g.first <= h.first /\ h.first + h.count <= g.first + g.count
    BY <2>3, <2>5 DEF Within
  <2> QED BY <2>5, <2>6 DEF h
<1> HIDE DEF Left, u
<1>4. \A i \in DOMAIN tabs : /\ u[i] \in TabGroup /\ Within(u[i], rows) /\ tabs[i].first <= u[i].first
                             /\ u[i].first + u[i].count <= tabs[i].first + tabs[i].count
  <2> SUFFICES ASSUME NEW i \in DOMAIN tabs
               PROVE  /\ u[i] \in TabGroup /\ Within(u[i], rows) /\ tabs[i].first <= u[i].first
                      /\ u[i].first + u[i].count <= tabs[i].first + tabs[i].count
    OBVIOUS
  <2>1. tabs[i] \in TabGroup /\ Within(tabs[i], rows) /\ tabs[i].first \in Nat /\ tabs[i].count \in Nat
    BY GroupsAre DEF TabGroup
  <2>2. CASE Covers(tabs[i], row)
    <3>1. u[i] = Left(tabs[i])
      BY <1>2, <2>2
    <3> QED BY <1>3, <2>1, <2>2, <3>1
  <2>3. CASE ~Covers(tabs[i], row)
    <3>1. u[i] = tabs[i]
      BY <1>2, <2>3
    <3> QED BY <2>1, <3>1
  <2> QED BY <2>2, <2>3
<1>5. ASSUME NEW i \in DOMAIN tabs, NEW j \in DOMAIN tabs, i < j PROVE Above(u[i], u[j])
  <2>1. Above(tabs[i], tabs[j])
    BY <1>5, GroupsAre
  <2>2. /\ tabs[i].first \in Nat /\ tabs[i].count \in Nat /\ tabs[j].first \in Nat
        /\ u[i].first \in Nat /\ u[i].count \in Nat /\ u[j].first \in Nat
    BY <1>4, GroupsAre DEF TabGroup
  <2> QED BY <1>4, <2>1, <2>2 DEF Above
<1> QED BY <1>1, <1>2, <1>4, <1>5, EachIsGroup, Zenon DEF u

\* join: a lone row beside a group becomes its first or last.
LEMMA JoinIs ==
  ASSUME NEW rows \in Nat, NEW tabs, Groups(tabs, rows), NEW row \in 1..rows, ~Grouped(tabs, row),
         NEW into \in DOMAIN tabs, row + 1 = tabs[into].first \/ row = tabs[into].first + tabs[into].count
  PROVE  Groups(Join(tabs, row, into), rows)
<1> DEFINE u == Join(tabs, row, into)
           g == tabs[into]
           h == [g EXCEPT !.first = IF row + 1 = @ THEN row ELSE @, !.count = @ + 1]
           first == IF row + 1 = g.first THEN row ELSE g.first
<1>0. DOMAIN tabs = 1..Len(tabs) /\ tabs \in Seq(TabGroup)
  BY GroupsAre
<1>1. u = [i \in DOMAIN tabs |-> u[i]] /\ \A i \in DOMAIN tabs : u[i] = IF i = into THEN h ELSE tabs[i]
  <2>1. u = [tabs EXCEPT ![into] = h]
    BY DEF Join
  <2>2. tabs = [i \in DOMAIN tabs |-> tabs[i]]
    BY <1>0
  <2> HIDE DEF u, h
  <2> QED BY <2>1, <2>2, Zenon
<1>2. /\ g \in TabGroup /\ g.first \in Nat /\ g.count \in Nat /\ g.active \in Nat /\ g.first >= 1
      /\ g.first + g.count <= rows + 1 /\ g.first <= g.active /\ g.active < g.first + g.count
      /\ g.count + 1 \in Nat
  BY GroupsAre DEF Within, TabGroup
<1>3. first \in Nat /\ (first = row \/ first = g.first)
  BY <1>2
<1>4. h = [first |-> first, count |-> g.count + 1, active |-> g.active]
  <2>1. h = [g EXCEPT !.first = first, !.count = @ + 1]
    BY Zenon
  <2> HIDE DEF h, g, first
  <2> QED BY <1>2, <2>1 DEF TabGroup
<1> HIDE DEF h
<1>5. h \in TabGroup /\ h.first = first /\ h.count = g.count + 1 /\ h.active = g.active
  <2> HIDE DEF first, g
  <2> QED BY <1>2, <1>3, <1>4, GroupIs
<1>6. Within(h, rows)
  BY <1>2, <1>5 DEF Within
<1> HIDE DEF u
<1>7. \A i \in DOMAIN tabs : u[i] \in TabGroup /\ Within(u[i], rows)
  BY <1>1, <1>5, <1>6, GroupsAre
<1>8. ASSUME NEW i \in DOMAIN tabs, NEW j \in DOMAIN tabs, i < j PROVE Above(u[i], u[j])
  <2>1. Above(tabs[i], tabs[j])
    BY <1>8, GroupsAre
  <2>2. \A k \in DOMAIN tabs : /\ tabs[k].first \in Nat /\ tabs[k].count \in Nat /\ tabs[k].count >= 1
                               /\ ~(tabs[k].first <= row /\ row < tabs[k].first + tabs[k].count)
    <3> SUFFICES ASSUME NEW k \in DOMAIN tabs
                 PROVE  /\ tabs[k].first \in Nat /\ tabs[k].count \in Nat /\ tabs[k].count >= 1
                        /\ ~(tabs[k].first <= row /\ row < tabs[k].first + tabs[k].count)
      OBVIOUS
    <3>1. tabs[k] \in TabGroup /\ Within(tabs[k], rows) /\ ~Covers(tabs[k], row)
      BY GroupsAre DEF Grouped
    <3> QED BY <3>1 DEF TabGroup, Within, Covers, End
  <2>3. CASE i = into
    <3>1. u[i] = h /\ u[j] = tabs[j] /\ tabs[i] = g
      BY <1>0, <1>1, <1>8, <2>3
    <3> QED BY <1>2, <1>5, <2>1, <2>2, <3>1 DEF Above
  <2>4. CASE j = into
    <3>1. u[j] = h /\ u[i] = tabs[i] /\ tabs[j] = g
      BY <1>0, <1>1, <1>8, <2>4
    <3> QED BY <1>2, <1>5, <2>1, <2>2, <3>1 DEF Above
  <2>5. CASE i # into /\ j # into
    BY <1>1, <2>1, <2>5
  <2> QED BY <2>3, <2>4, <2>5
<1> QED BY <1>0, <1>1, <1>7, <1>8, EachIsGroup, Zenon DEF u

\* No group of a sequence goes across row r, and at most one begins in [a, b).
Uncut(g, r) == g.first < r => g.first + g.count <= r
AtMostOne(tabs, a, b) ==
  \A i, j \in DOMAIN tabs :
    (a <= tabs[i].first /\ tabs[i].first < b /\ a <= tabs[j].first /\ tabs[j].first < b) => i = j
\* Where a group goes when the units at [a, b) and [b, c) trade places.
Goes(g, h, a, b, c) ==
  \/ g.first < a /\ g.first + g.count <= a /\ h.first = g.first
  \/ /\ a <= g.first /\ g.first < b /\ h.first = g.first + (c - b)
     /\ a + (c - b) <= h.first /\ h.first + h.count <= c
  \/ /\ b <= g.first /\ g.first < c /\ h.first = g.first + (a - b)
     /\ a <= h.first /\ h.first + h.count <= a + (c - b)
  \/ c <= g.first /\ h.first = g.first

\* When two stretches of rows trade places, a group that lies on one side of each cut goes with its
\* own.
LEMMA AfterUnitSwapIs ==
  ASSUME NEW rows \in Nat, NEW g \in TabGroup, Within(g, rows),
         NEW a \in Nat, NEW b \in Nat, NEW c \in Nat, a >= 1, a < b, b < c, c <= rows + 1,
         Uncut(g, a), Uncut(g, b), Uncut(g, c)
  PROVE  LET h == AfterUnitSwap(g, a, b, c)
         IN  h \in TabGroup /\ Within(h, rows) /\ h.count = g.count /\ Goes(g, h, a, b, c)
<1> DEFINE h == AfterUnitSwap(g, a, b, c)
<1>1. /\ g.first \in Nat /\ g.count \in Nat /\ g.active \in Nat /\ g.first >= 1
      /\ g.first + g.count <= rows + 1 /\ g.first <= g.active /\ g.active < g.first + g.count
  BY DEF TabGroup, Within
<1>2. ASSUME NEW by \in Int, h = Shifted(g, by), g.first + by >= 1, g.first + by + g.count <= rows + 1
      PROVE  /\ h \in TabGroup /\ Within(h, rows) /\ h.count = g.count /\ h.first = g.first + by
  <2>1. g.first + by \in Nat /\ g.active + by \in Nat
    BY <1>1, <1>2
  <2> HIDE DEF h
  <2>2. h = [first |-> g.first + by, count |-> g.count, active |-> g.active + by]
    BY <1>2 DEF Shifted, TabGroup
  <2>3. h \in TabGroup /\ h.first = g.first + by /\ h.count = g.count /\ h.active = g.active + by
    BY <1>1, <2>1, <2>2, GroupIs
  <2>4. Within(h, rows)
    BY <1>1, <1>2, <2>3 DEF Within
  <2> QED BY <2>3, <2>4
<1>3. CASE a <= g.first /\ g.first < b
  <2>1. h = Shifted(g, c - b)
    BY <1>1, <1>3 DEF AfterUnitSwap
  <2>2. g.first + g.count <= b /\ c - b \in Int /\ g.first + (c - b) >= 1 /\ g.first + (c - b) + g.count <= rows + 1
    BY <1>1, <1>3 DEF Uncut
  <2> HIDE DEF h
  <2>3. /\ h \in TabGroup /\ Within(h, rows) /\ h.count = g.count /\ h.first = g.first + (c - b)
    BY <1>2, <2>1, <2>2
  <2>4. Goes(g, h, a, b, c)
    BY <1>1, <1>3, <2>2, <2>3 DEF Goes
  <2> QED BY <2>3, <2>4 DEF h
<1>4. CASE b <= g.first /\ g.first < c
  <2>1. h = Shifted(g, a - b)
    BY <1>1, <1>4 DEF AfterUnitSwap
  <2>2. g.first + g.count <= c /\ a - b \in Int /\ g.first + (a - b) >= 1 /\ g.first + (a - b) + g.count <= rows + 1
    BY <1>1, <1>4 DEF Uncut
  <2> HIDE DEF h
  <2>3. /\ h \in TabGroup /\ Within(h, rows) /\ h.count = g.count /\ h.first = g.first + (a - b)
    BY <1>2, <2>1, <2>2
  <2>4. Goes(g, h, a, b, c)
    BY <1>1, <1>4, <2>2, <2>3 DEF Goes
  <2> QED BY <2>3, <2>4 DEF h
<1>5. CASE ~(a <= g.first /\ g.first < b) /\ ~(b <= g.first /\ g.first < c)
  <2>1. h = g
    BY <1>5 DEF AfterUnitSwap
  <2> HIDE DEF h
  <2>2. Goes(g, h, a, b, c)
    BY <1>1, <1>5, <2>1 DEF Goes, Uncut
  <2> QED BY <2>1, <2>2 DEF h
<1> QED BY <1>3, <1>4, <1>5

\* unitsSwapped: two neighbouring units trade places.
LEMMA UnitsSwappedIs ==
  ASSUME NEW rows \in Nat, NEW tabs, Groups(tabs, rows),
         NEW a \in Nat, NEW b \in Nat, NEW c \in Nat, a >= 1, a < b, b < c, c <= rows + 1,
         \A i \in DOMAIN tabs : Uncut(tabs[i], a) /\ Uncut(tabs[i], b) /\ Uncut(tabs[i], c),
         AtMostOne(tabs, a, b), AtMostOne(tabs, b, c)
  PROVE  Groups(UnitsSwapped(tabs, a, b, c), rows)
<1> DEFINE m == [i \in DOMAIN tabs |-> AfterUnitSwap(tabs[i], a, b, c)]
           Late(i) == {i, i + 1} \subseteq DOMAIN m /\ m[i + 1].first < m[i].first
           u == UnitsSwapped(tabs, a, b, c)
<1>0. DOMAIN tabs = 1..Len(tabs) /\ Len(tabs) \in Nat /\ tabs \in Seq(TabGroup)
  BY GroupsAre
<1>1. /\ u = [i \in DOMAIN tabs |-> u[i]]
      /\ \A i \in DOMAIN tabs : u[i] = IF Late(i) THEN m[i + 1] ELSE IF Late(i - 1) THEN m[i - 1] ELSE m[i]
  BY DEF UnitsSwapped
<1>2. DOMAIN m = DOMAIN tabs /\ \A i \in DOMAIN tabs : m[i] = AfterUnitSwap(tabs[i], a, b, c)
  OBVIOUS
<1> HIDE DEF m, u
<1>3. \A i \in DOMAIN tabs : /\ m[i] \in TabGroup /\ Within(m[i], rows) /\ m[i].count = tabs[i].count
                             /\ Goes(tabs[i], m[i], a, b, c)
  BY <1>2, GroupsAre, AfterUnitSwapIs
<1>4. \A i \in DOMAIN tabs : /\ tabs[i].first \in Nat /\ tabs[i].count \in Nat /\ tabs[i].count >= 1
                             /\ m[i].first \in Nat /\ m[i].count \in Nat
  BY <1>3, GroupsAre DEF TabGroup, Within
\* Unless they are the two that trade places, two groups stay in order.
<1>5. ASSUME NEW i \in DOMAIN tabs, NEW j \in DOMAIN tabs, i < j, ~Above(m[i], m[j])
      PROVE  /\ a <= tabs[i].first /\ tabs[i].first < b /\ b <= tabs[j].first /\ tabs[j].first < c
             /\ Above(m[j], m[i])
  <2>1. Above(tabs[i], tabs[j])
    BY <1>5, GroupsAre
  <2>2. Goes(tabs[i], m[i], a, b, c) /\ Goes(tabs[j], m[j], a, b, c)
    BY <1>3
  <2>3. tabs[i].first < tabs[j].first
    BY <1>4, <2>1 DEF Above
  <2>4. ~(a <= tabs[i].first /\ tabs[i].first < b /\ a <= tabs[j].first /\ tabs[j].first < b)
    BY <1>5, <1>0 DEF AtMostOne
  <2>5. ~(b <= tabs[i].first /\ tabs[i].first < c /\ b <= tabs[j].first /\ tabs[j].first < c)
    BY <1>5, <1>0 DEF AtMostOne
  <2>6. m[i].count = tabs[i].count
    BY <1>3
  <2>7. /\ a <= tabs[i].first /\ tabs[i].first < b /\ b <= tabs[j].first /\ tabs[j].first < c
    BY <1>4, <1>5, <2>1, <2>2, <2>3, <2>4, <2>5, <2>6 DEF Above, Goes
  <2>8. Above(m[j], m[i])
    BY <1>4, <2>2, <2>7 DEF Above, Goes
  <2> QED BY <2>7, <2>8
<1>6. CASE \A i, j \in DOMAIN tabs : i < j => Above(m[i], m[j])
  <2>1. ASSUME NEW i, Late(i) PROVE FALSE
    <3>1. i \in DOMAIN tabs /\ i + 1 \in DOMAIN tabs /\ m[i + 1].first < m[i].first
      BY <1>2, <2>1
    <3>2. Above(m[i], m[i + 1])
      BY <1>0, <1>6, <3>1
    <3> QED BY <1>4, <3>1, <3>2 DEF Above
  <2>2. \A i \in DOMAIN tabs : u[i] = m[i]
    BY <1>1, <2>1
  <2>3. \A i \in DOMAIN tabs : u[i] \in TabGroup /\ Within(u[i], rows)
    BY <1>3, <2>2
  <2>4. \A i, j \in DOMAIN tabs : i < j => Above(u[i], u[j])
    BY <1>6, <2>2
  <2> QED BY <1>0, <1>1, <2>3, <2>4, EachIsGroup, Zenon DEF u
<1>7. CASE \E i, j \in DOMAIN tabs : i < j /\ ~Above(m[i], m[j])
  <2>1. PICK i \in DOMAIN tabs, j \in DOMAIN tabs : i < j /\ ~Above(m[i], m[j])
    BY <1>7
  <2>2. /\ a <= tabs[i].first /\ tabs[i].first < b /\ b <= tabs[j].first /\ tabs[j].first < c
        /\ Above(m[j], m[i])
    BY <1>5, <2>1
  <2>3. \A k \in DOMAIN tabs : a <= tabs[k].first /\ tabs[k].first < b => k = i
    BY <2>2 DEF AtMostOne
  <2>4. \A k \in DOMAIN tabs : b <= tabs[k].first /\ tabs[k].first < c => k = j
    BY <2>2 DEF AtMostOne
  <2>5. j = i + 1
    <3> SUFFICES ASSUME j # i + 1 PROVE FALSE
      OBVIOUS
    <3>1. i + 1 \in DOMAIN tabs /\ i < i + 1 /\ i + 1 < j
      BY <1>0, <2>1
    <3>2. Above(tabs[i], tabs[i + 1]) /\ Above(tabs[i + 1], tabs[j])
      BY <3>1, <1>0, GroupsAre
    <3>3. a <= tabs[i + 1].first /\ tabs[i + 1].first < c
      BY <1>4, <2>2, <3>1, <3>2 DEF Above
    <3>4. i + 1 = i \/ i + 1 = j
      BY <1>4, <2>3, <2>4, <3>1, <3>3
    <3> QED BY <1>0, <3>1, <3>4
  <2>6. m[j].first < m[i].first
    BY <1>3, <1>4, <2>2 DEF Above
  <2>7. \A k : Late(k) <=> k = i
    <3>1. Late(i)
      BY <1>2, <2>1, <2>5, <2>6
    <3>2. ASSUME NEW k, Late(k) PROVE k = i
      <4>1. k \in DOMAIN tabs /\ k + 1 \in DOMAIN tabs /\ m[k + 1].first < m[k].first /\ k < k + 1
        BY <1>0, <1>2, <3>2
      <4>2. ~Above(m[k], m[k + 1])
        BY <1>4, <4>1 DEF Above
      <4>3. a <= tabs[k].first /\ tabs[k].first < b
        BY <1>5, <4>1, <4>2
      <4> QED BY <2>3, <4>1, <4>3
    <3> QED BY <3>1, <3>2
  <2> HIDE DEF Late
  <2>8. u[i] = m[j] /\ u[j] = m[i] /\ \A k \in DOMAIN tabs \ {i, j} : u[k] = m[k]
    <3>1. Late(i) /\ ~Late(j) /\ j - 1 = i
      BY <1>0, <2>1, <2>5, <2>7
    <3>2. \A k \in DOMAIN tabs \ {i, j} : ~Late(k) /\ ~Late(k - 1)
      BY <1>0, <2>1, <2>5, <2>7
    <3> QED BY <1>1, <2>1, <2>5, <3>1, <3>2
  <2>9. \A k \in DOMAIN tabs : u[k] \in TabGroup /\ Within(u[k], rows)
    BY <1>3, <2>1, <2>8
  <2>10. ASSUME NEW k \in DOMAIN tabs, NEW l \in DOMAIN tabs, k < l PROVE Above(u[k], u[l])
    <3>0. \A x, y \in DOMAIN tabs : x < y /\ ~(x = i /\ y = j) => Above(m[x], m[y])
      <4> SUFFICES ASSUME NEW x \in DOMAIN tabs, NEW y \in DOMAIN tabs, x < y, ~Above(m[x], m[y])
                   PROVE  x = i /\ y = j
        OBVIOUS
      <4> QED BY <1>5, <2>3, <2>4
    <3>1. CASE k = i /\ l = j
      BY <2>2, <2>8, <3>1
    <3>2. CASE k = i /\ l # j
      <4>1. u[l] = m[l] /\ u[k] = m[j] /\ j < l
        BY <1>0, <2>5, <2>8, <2>10, <3>2
      <4> QED BY <1>0, <2>1, <3>0, <4>1
    <3>3. CASE k = j
      <4>1. u[l] = m[l] /\ u[k] = m[i] /\ i < l /\ l # j
        BY <1>0, <2>1, <2>5, <2>8, <2>10, <3>3
      <4> QED BY <3>0, <4>1
    <3>4. CASE l = i
      <4>1. u[k] = m[k] /\ u[l] = m[j] /\ k < j /\ k # i
        BY <1>0, <2>1, <2>5, <2>8, <2>10, <3>4
      <4> QED BY <3>0, <4>1
    <3>5. CASE l = j /\ k # i
      <4>1. u[k] = m[k] /\ u[l] = m[i] /\ k < i
        BY <1>0, <2>1, <2>5, <2>8, <2>10, <3>5
      <4>2. i # j
        BY <1>0, <2>5
      <4> QED BY <1>0, <2>1, <3>0, <4>1, <4>2
    <3>6. CASE k \notin {i, j} /\ l \notin {i, j}
      BY <2>8, <2>10, <3>0, <3>6
    <3> QED BY <3>1, <3>2, <3>3, <3>4, <3>5, <3>6
  <2> QED BY <1>0, <1>1, <2>9, <2>10, EachIsGroup, Zenon DEF u
<1> QED BY <1>6, <1>7

-----------------------------------------------------------------------------
(* Columns *)

\* A column of windows of S; one that is whole; one that may stand in a strip.
Column(S)       == [rows : Seq(S), tabs : Seq(TabGroup)]
Apart(q)        == \A i, j \in DOMAIN q : q[i] = q[j] => i = j
Whole(S, col)   == col \in Column(S) /\ Groups(col.tabs, Len(col.rows)) /\ Apart(col.rows)
\* The columns of a strip share no window.
Disjoint(s)     == \A c, d \in DOMAIN s : c # d => ToSet(s[c].rows) \cap ToSet(s[d].rows) = {}
Loose(S, s)     == s \in Seq(Column(S)) /\ (\A c \in DOMAIN s : Whole(S, s[c])) /\ Disjoint(s)
Fits(S, s)      == Loose(S, s) /\ \A c \in DOMAIN s : s[c].rows # <<>>

\* A column from its parts.
LEMMA ColumnIs ==
  ASSUME NEW S, NEW rows \in Seq(S), NEW tabs \in Seq(TabGroup), NEW col, col = [rows |-> rows, tabs |-> tabs]
  PROVE  col \in Column(S) /\ col.rows = rows /\ col.tabs = tabs
BY DEF Column

\* What is known of a whole column.
LEMMA WholeIs ==
  ASSUME NEW S, NEW col, Whole(S, col)
  PROVE  /\ col \in Column(S) /\ col = [rows |-> col.rows, tabs |-> col.tabs]
         /\ col.rows \in Seq(S) /\ Len(col.rows) \in Nat /\ DOMAIN col.rows = 1..Len(col.rows)
         /\ ToSet(col.rows) = {col.rows[i] : i \in 1..Len(col.rows)} /\ ToSet(col.rows) \subseteq S
         /\ Groups(col.tabs, Len(col.rows)) /\ col.tabs \in Seq(TabGroup) /\ Apart(col.rows)
<1>1. col \in Column(S) /\ Groups(col.tabs, Len(col.rows)) /\ Apart(col.rows)
  BY DEF Whole
<1>2. col.rows \in Seq(S) /\ col.tabs \in Seq(TabGroup) /\ col = [rows |-> col.rows, tabs |-> col.tabs]
  BY <1>1 DEF Column
<1>3. Len(col.rows) \in Nat /\ DOMAIN col.rows = 1..Len(col.rows)
  BY <1>2
<1>4. ToSet(col.rows) = {col.rows[i] : i \in 1..Len(col.rows)}
  BY <1>3 DEF ToSet
<1>5. ToSet(col.rows) \subseteq S
  BY <1>2, <1>3, <1>4
<1> QED BY <1>1, <1>2, <1>3, <1>4, <1>5

\* And what makes one.
LEMMA IsWhole ==
  ASSUME NEW S, NEW rows \in Seq(S), NEW tabs, Groups(tabs, Len(rows)), Apart(rows)
  PROVE  Whole(S, [rows |-> rows, tabs |-> tabs])
<1>1. tabs \in Seq(TabGroup)
  BY DEF Groups
<1> DEFINE col == [rows |-> rows, tabs |-> tabs]
<1>2. col \in Column(S) /\ col.rows = rows /\ col.tabs = tabs
  BY <1>1, ColumnIs
<1> HIDE DEF col
<1>3. Whole(S, col)
  BY <1>2 DEF Whole
<1> QED BY <1>3 DEF col

\* The row of a window in a column.
LEMMA RowInIs ==
  ASSUME NEW S, NEW col, Whole(S, col), NEW v \in ToSet(col.rows)
  PROVE  RowIn(col, v) \in 1..Len(col.rows) /\ col.rows[RowIn(col, v)] = v
<1>1. \E r \in DOMAIN col.rows : col.rows[r] = v
  BY WholeIs
<1>2. RowIn(col, v) \in DOMAIN col.rows /\ col.rows[RowIn(col, v)] = v
  BY <1>1 DEF RowIn
<1> QED BY <1>2, WholeIs

-----------------------------------------------------------------------------

\* insertRow: the groups follow the rows.
LEMMA InsertRowIs ==
  ASSUME NEW S, NEW col, Whole(S, col), NEW row \in 1..(Len(col.rows) + 1), NEW v \in S,
         v \notin ToSet(col.rows), NEW into
  PROVE  LET k == InsertRow(col, row, v, into)
         IN  Whole(S, k) /\ ToSet(k.rows) = ToSet(col.rows) \cup {v} /\ Len(k.rows) = Len(col.rows) + 1
<1> DEFINE rows == InsertAt(col.rows, row, v)  n == Len(col.rows)  k == InsertRow(col, row, v, into)
<1>1. /\ n \in Nat /\ col.rows \in Seq(S) /\ Groups(col.tabs, n) /\ Apart(col.rows)
      /\ DOMAIN col.rows = 1..n /\ ToSet(col.rows) = {col.rows[i] : i \in 1..n}
  BY WholeIs
<1>2. /\ rows \in Seq(S) /\ Len(rows) = n + 1
      /\ \A i \in 1..(n + 1) : rows[i] = IF i < row THEN col.rows[i] ELSE IF i = row THEN v ELSE col.rows[i - 1]
  <2> DEFINE q == col.rows
  <2>1. q \in Seq(S) /\ row \in 1..(Len(q) + 1)
    BY <1>1
  <2> HIDE DEF q
  <2>2. /\ InsertAt(q, row, v) \in Seq(S) /\ Len(InsertAt(q, row, v)) = Len(q) + 1
        /\ \A i \in 1..(Len(q) + 1) : InsertAt(q, row, v)[i] =
             IF i < row THEN q[i] ELSE IF i = row THEN v ELSE q[i - 1]
    BY <2>1, InsertAtIs
  <2> QED BY <2>2 DEF q
<1>3. Groups(RowInserted(col.tabs, row, into), n + 1)
  BY <1>1, RowInsertedIs
<1>4. k = [rows |-> rows, tabs |-> RowInserted(col.tabs, row, into)]
  BY DEF InsertRow
<1>5. DOMAIN rows = 1..(n + 1)
  BY <1>1, <1>2
<1> HIDE DEF rows, k
<1>6. \A i \in 1..n : col.rows[i] # v
  BY <1>1
<1>7. Apart(rows)
  <2> SUFFICES ASSUME NEW i \in 1..(n + 1), NEW j \in 1..(n + 1), rows[i] = rows[j] PROVE i = j
    BY <1>5 DEF Apart
  <2>1. \A a, b \in 1..n : col.rows[a] = col.rows[b] => a = b
    BY <1>1 DEF Apart
  <2>2. n \in Nat /\ row \in 1..(n + 1)
    BY <1>1
  <2> HIDE DEF n
  <2> DEFINE a == IF i < row THEN i ELSE i - 1  b == IF j < row THEN j ELSE j - 1
  <2>3. /\ i # row => a \in 1..n /\ rows[i] = col.rows[a]
        /\ j # row => b \in 1..n /\ rows[j] = col.rows[b]
        /\ i = row => rows[i] = v
        /\ j = row => rows[j] = v
    BY <1>2, <2>2
  <2>4. i # row /\ j # row /\ a = b => i = j
    BY <2>2
  <2> HIDE DEF a, b
  <2> QED BY <1>6, <2>1, <2>3, <2>4
<1>8. ToSet(rows) = ToSet(col.rows) \cup {v}
  <2>1. ToSet(rows) = {rows[i] : i \in 1..(n + 1)}
    BY <1>5 DEF ToSet
  <2>2. ASSUME NEW i \in 1..(n + 1) PROVE rows[i] \in ToSet(col.rows) \cup {v}
    <3> DEFINE a == IF i < row THEN i ELSE i - 1
    <3>1. n \in Nat /\ row \in 1..(n + 1) /\ \A j \in 1..n : col.rows[j] \in ToSet(col.rows)
      BY <1>1
    <3> HIDE DEF n
    <3>2. i # row => a \in 1..n /\ rows[i] = col.rows[a]
      BY <1>2, <3>1
    <3>3. i = row => rows[i] = v
      BY <1>2, <3>1
    <3> HIDE DEF a, rows
    <3> QED BY <3>1, <3>2, <3>3
  <2>3. v = rows[row]
    BY <1>1, <1>2
  <2>4. ASSUME NEW i \in 1..n PROVE \E j \in 1..(n + 1) : col.rows[i] = rows[j]
    <3>1. CASE i < row
      BY <1>1, <1>2, <3>1
    <3>2. CASE i >= row
      <4>1. rows[i + 1] = col.rows[i] /\ i + 1 \in 1..(n + 1)
        BY <1>1, <1>2, <3>2
      <4> QED BY <4>1
    <3> QED BY <1>1, <3>1, <3>2
  <2> QED BY <1>1, <2>1, <2>2, <2>3, <2>4
<1>9. Whole(S, k) /\ k.rows = rows
  <2>1. Whole(S, [rows |-> rows, tabs |-> RowInserted(col.tabs, row, into)])
    BY <1>2, <1>3, <1>7, IsWhole
  <2> QED BY <1>4, <2>1
<1> QED BY <1>2, <1>8, <1>9 DEF k

\* eraseRow: the groups follow the rows.
LEMMA EraseRowIs ==
  ASSUME NEW S, NEW col, Whole(S, col), NEW row \in 1..Len(col.rows)
  PROVE  LET k == EraseRow(col, row)
         IN  /\ Whole(S, k) /\ ToSet(k.rows) = ToSet(col.rows) \ {col.rows[row]}
             /\ Len(k.rows) = Len(col.rows) - 1
<1> DEFINE rows == RemoveAt(col.rows, row)  n == Len(col.rows)  k == EraseRow(col, row)
<1>1. /\ n \in Nat /\ col.rows \in Seq(S) /\ Groups(col.tabs, n) /\ Apart(col.rows)
      /\ DOMAIN col.rows = 1..n /\ ToSet(col.rows) = {col.rows[i] : i \in 1..n}
  BY WholeIs
<1>2. /\ rows \in Seq(S) /\ Len(rows) = n - 1
      /\ \A i \in 1..(n - 1) : rows[i] = IF i < row THEN col.rows[i] ELSE col.rows[i + 1]
  BY <1>1, RemoveAtIs
<1>3. Groups(RowErased(col.tabs, row), n - 1)
  BY <1>1, RowErasedIs
<1>4. k = [rows |-> rows, tabs |-> RowErased(col.tabs, row)]
  BY DEF EraseRow
<1>5. DOMAIN rows = 1..(n - 1)
  BY <1>1, <1>2
<1> HIDE DEF rows, k
<1>6. \A a, b \in 1..n : col.rows[a] = col.rows[b] => a = b
  BY <1>1 DEF Apart
<1>7. Apart(rows)
  <2> SUFFICES ASSUME NEW i \in 1..(n - 1), NEW j \in 1..(n - 1), rows[i] = rows[j] PROVE i = j
    BY <1>5 DEF Apart
  <2>2. n \in Nat /\ row \in 1..n
    BY <1>1
  <2> HIDE DEF n
  <2> DEFINE a == IF i < row THEN i ELSE i + 1  b == IF j < row THEN j ELSE j + 1
  <2>3. a \in 1..n /\ rows[i] = col.rows[a] /\ b \in 1..n /\ rows[j] = col.rows[b]
    BY <1>2, <2>2
  <2>4. a = b => i = j
    BY <2>2
  <2> HIDE DEF a, b
  <2> QED BY <1>6, <2>3, <2>4
<1>8. ToSet(rows) = ToSet(col.rows) \ {col.rows[row]}
  <2>1. ToSet(rows) = {rows[i] : i \in 1..(n - 1)}
    BY <1>5 DEF ToSet
  <2>2. ASSUME NEW i \in 1..(n - 1) PROVE rows[i] \in ToSet(col.rows) /\ rows[i] # col.rows[row]
    BY <1>1, <1>2, <1>6
  <2>4. ASSUME NEW i \in 1..n, i # row PROVE \E j \in 1..(n - 1) : col.rows[i] = rows[j]
    <3>1. CASE i < row
      BY <1>1, <1>2, <3>1
    <3>2. CASE i > row
      <4>1. rows[i - 1] = col.rows[i] /\ i - 1 \in 1..(n - 1)
        BY <1>1, <1>2, <3>2
      <4> QED BY <4>1
    <3> QED BY <1>1, <2>4, <3>1, <3>2
  <2> QED BY <1>1, <2>1, <2>2, <2>4
<1>9. Whole(S, k) /\ k.rows = rows
  <2>1. Whole(S, [rows |-> rows, tabs |-> RowErased(col.tabs, row)])
    BY <1>1, <1>2, <1>3, <1>7, IsWhole
  <2> QED BY <1>4, <2>1
<1> QED BY <1>2, <1>8, <1>9 DEF k

\* A new column, which may open as a group of one.
LEMMA NewColumnIs ==
  ASSUME NEW S, NEW v \in S, NEW tabbed
  PROVE  LET k == NewColumn(v, tabbed) IN Whole(S, k) /\ k.rows = <<v>> /\ ToSet(k.rows) = {v} /\ k.rows # <<>>
<1> DEFINE k == NewColumn(v, tabbed)  tabs == IF tabbed THEN Form(<<>>, 1, 1, 1) ELSE <<>>
<1>1. Groups(<<>>, 1) /\ \A r \in 1..(1 + 1 - 1) : ~Grouped(<<>>, r)
  BY DEF Groups, Sound, Grouped
<1>2. Groups(Form(<<>>, 1, 1, 1), 1)
  BY <1>1, FormIs
<1>3. Groups(tabs, 1)
  <2>1. CASE tabbed
    BY <1>2, <2>1, Zenon
  <2>2. CASE ~tabbed
    BY <1>1, <2>2, Zenon
  <2> QED BY <2>1, <2>2
<1>4. <<v>> \in Seq(S) /\ Len(<<v>>) = 1 /\ Apart(<<v>>) /\ ToSet(<<v>>) = {v} /\ <<v>> # <<>>
  BY DEF Apart, ToSet
<1>5. k = [rows |-> <<v>>, tabs |-> tabs]
  BY DEF NewColumn
<1> HIDE DEF k, tabs
<1>6. Whole(S, [rows |-> <<v>>, tabs |-> tabs])
  BY <1>3, <1>4, IsWhole
<1> QED BY <1>4, <1>5, <1>6 DEF k

-----------------------------------------------------------------------------

\* The windows of a strip.
LEMMA MembersAre ==
  ASSUME NEW s, NEW v
  PROVE  v \in Members(s) <=> \E c \in DOMAIN s : v \in ToSet(s[c].rows)
BY DEF Members

\* What is known of a strip that may have empty columns.
LEMMA LooseIs ==
  ASSUME NEW S, NEW s, Loose(S, s)
  PROVE  /\ s \in Seq(Column(S)) /\ Len(s) \in Nat /\ DOMAIN s = 1..Len(s)
         /\ \A c \in DOMAIN s : Whole(S, s[c]) /\ ToSet(s[c].rows) \subseteq S
         /\ \A c, d \in DOMAIN s : c # d => ToSet(s[c].rows) \cap ToSet(s[d].rows) = {}
         /\ Members(s) \subseteq S
<1>1. /\ s \in Seq(Column(S)) /\ Len(s) \in Nat /\ DOMAIN s = 1..Len(s)
      /\ \A c \in DOMAIN s : Whole(S, s[c])
      /\ \A c, d \in DOMAIN s : c # d => ToSet(s[c].rows) \cap ToSet(s[d].rows) = {}
  <2>1. /\ s \in Seq(Column(S)) /\ (\A c \in DOMAIN s : Whole(S, s[c]))
        /\ \A c, d \in DOMAIN s : c # d => ToSet(s[c].rows) \cap ToSet(s[d].rows) = {}
    BY Zenon DEF Loose, Disjoint
  <2>2. Len(s) \in Nat /\ DOMAIN s = 1..Len(s)
    BY <2>1
  <2> QED BY <2>1, <2>2
<1>2. \A c \in DOMAIN s : ToSet(s[c].rows) \subseteq S
  BY <1>1, WholeIs
<1> QED BY <1>1, <1>2, MembersAre

\* And what makes one.
LEMMA IsLoose ==
  ASSUME NEW S, NEW s \in Seq(Column(S)), \A c \in DOMAIN s : Whole(S, s[c]),
         \A c, d \in DOMAIN s : c # d => ToSet(s[c].rows) \cap ToSet(s[d].rows) = {}
  PROVE  Loose(S, s)
BY Zenon DEF Loose, Disjoint

\* The column and the row of a window.
LEMMA ColumnOfIs ==
  ASSUME NEW S, NEW s, Loose(S, s), NEW v \in Members(s)
  PROVE  /\ ColumnOf(s, v) \in DOMAIN s /\ ColumnOf(s, v) \in 1..Len(s) /\ InStrip(s, v)
         /\ v \in ToSet(s[ColumnOf(s, v)].rows) /\ Whole(S, s[ColumnOf(s, v)])
         /\ RowOf(s, v) \in 1..Len(s[ColumnOf(s, v)].rows) /\ s[ColumnOf(s, v)].rows[RowOf(s, v)] = v
         /\ RowIn(s[ColumnOf(s, v)], v) = RowOf(s, v)
         /\ \A c \in DOMAIN s : v \in ToSet(s[c].rows) => c = ColumnOf(s, v)
<1>1. InStrip(s, v)
  BY DEF InStrip
<1>2. \E c \in DOMAIN s : v \in ToSet(s[c].rows)
  BY MembersAre
<1>3. ColumnOf(s, v) \in DOMAIN s /\ v \in ToSet(s[ColumnOf(s, v)].rows)
  BY <1>1, <1>2 DEF ColumnOf
<1>4. ColumnOf(s, v) \in 1..Len(s) /\ Whole(S, s[ColumnOf(s, v)])
  BY <1>3, LooseIs
<1>5. RowOf(s, v) \in 1..Len(s[ColumnOf(s, v)].rows) /\ s[ColumnOf(s, v)].rows[RowOf(s, v)] = v
  BY <1>3, <1>4, RowInIs DEF RowOf
<1>6. \A c \in DOMAIN s : v \in ToSet(s[c].rows) => c = ColumnOf(s, v)
  BY <1>3, LooseIs
<1> QED BY <1>1, <1>3, <1>4, <1>5, <1>6 DEF RowOf

\* A window outside has column 0.
LEMMA NotInStrip ==
  ASSUME NEW S, NEW s, Loose(S, s), NEW v
  PROVE  /\ InStrip(s, v) <=> v \in Members(s)
         /\ v \notin Members(s) <=> ColumnOf(s, v) = 0
<1>1. InStrip(s, v) <=> v \in Members(s)
  BY DEF InStrip
<1>2. v \in Members(s) => ColumnOf(s, v) \in 1..Len(s)
  BY ColumnOfIs
<1>3. v \notin Members(s) => ColumnOf(s, v) = 0
  BY <1>1 DEF ColumnOf
<1> QED BY <1>1, <1>2, <1>3

\* One column replaced.
LEMMA ReplacedIs ==
  ASSUME NEW S, NEW s, Loose(S, s), NEW c \in DOMAIN s, NEW col, Whole(S, col),
         \A d \in DOMAIN s \ {c} : ToSet(s[d].rows) \cap ToSet(col.rows) = {}
  PROVE  LET u == [s EXCEPT ![c] = col]
         IN  /\ Loose(S, u) /\ Len(u) = Len(s) /\ DOMAIN u = DOMAIN s
             /\ u[c] = col /\ \A d \in DOMAIN s \ {c} : u[d] = s[d]
             /\ Members(u) = (Members(s) \ ToSet(s[c].rows)) \cup ToSet(col.rows)
<1> DEFINE u == [s EXCEPT ![c] = col]
<1>1. /\ s \in Seq(Column(S)) /\ Len(s) \in Nat /\ DOMAIN s = 1..Len(s)
      /\ \A d \in DOMAIN s : Whole(S, s[d])
      /\ \A d, e \in DOMAIN s : d # e => ToSet(s[d].rows) \cap ToSet(s[e].rows) = {}
  BY LooseIs
<1>2. col \in Column(S)
  BY DEF Whole
<1>3. u \in Seq(Column(S)) /\ Len(u) = Len(s) /\ DOMAIN u = DOMAIN s
  BY <1>1, <1>2
<1>4. u[c] = col /\ \A d \in DOMAIN s \ {c} : u[d] = s[d]
  BY <1>1
<1> HIDE DEF u
<1>5. \A d \in DOMAIN u : Whole(S, u[d])
  BY <1>1, <1>3, <1>4
<1>6. \A d, e \in DOMAIN u : d # e => ToSet(u[d].rows) \cap ToSet(u[e].rows) = {}
  BY <1>1, <1>3, <1>4
<1>7. Loose(S, u)
  BY <1>3, <1>5, <1>6, IsLoose
<1>8. Members(u) = (Members(s) \ ToSet(s[c].rows)) \cup ToSet(col.rows)
  <2>1. ASSUME NEW v \in Members(u) PROVE v \in (Members(s) \ ToSet(s[c].rows)) \cup ToSet(col.rows)
    <3>1. PICK d \in DOMAIN u : v \in ToSet(u[d].rows)
      BY MembersAre
    <3>2. d # c => v \in ToSet(s[d].rows) /\ v \notin ToSet(s[c].rows)
      BY <1>1, <1>3, <1>4, <3>1
    <3> QED BY <1>3, <1>4, <3>1, <3>2, MembersAre
  <2>2. ASSUME NEW v \in (Members(s) \ ToSet(s[c].rows)) \cup ToSet(col.rows) PROVE v \in Members(u)
    <3>1. v \in ToSet(col.rows) => v \in ToSet(u[c].rows) /\ c \in DOMAIN u
      BY <1>3, <1>4
    <3>2. v \in Members(s) \ ToSet(s[c].rows) => \E d \in DOMAIN u : v \in ToSet(u[d].rows)
      BY <1>3, <1>4, MembersAre
    <3> QED BY <3>1, <3>2, MembersAre
  <2> QED BY <2>1, <2>2
<1> QED BY <1>3, <1>4, <1>7, <1>8 DEF u

\* One column more.
LEMMA ColumnInsertedIs ==
  ASSUME NEW S, NEW s, Loose(S, s), NEW c \in 1..(Len(s) + 1), NEW col, Whole(S, col),
         Members(s) \cap ToSet(col.rows) = {}
  PROVE  LET u == InsertAt(s, c, col)
         IN  /\ Loose(S, u) /\ Len(u) = Len(s) + 1 /\ DOMAIN u = 1..(Len(s) + 1)
             /\ \A d \in 1..(Len(s) + 1) : u[d] = IF d < c THEN s[d] ELSE IF d = c THEN col ELSE s[d - 1]
             /\ Members(u) = Members(s) \cup ToSet(col.rows)
<1> DEFINE u == InsertAt(s, c, col)  n == Len(s)
<1>1. /\ s \in Seq(Column(S)) /\ n \in Nat /\ DOMAIN s = 1..n
      /\ \A d \in DOMAIN s : Whole(S, s[d])
      /\ \A d, e \in DOMAIN s : d # e => ToSet(s[d].rows) \cap ToSet(s[e].rows) = {}
  BY LooseIs
<1>2. col \in Column(S)
  BY DEF Whole
<1>3. /\ u \in Seq(Column(S)) /\ Len(u) = n + 1
      /\ \A d \in 1..(n + 1) : u[d] = IF d < c THEN s[d] ELSE IF d = c THEN col ELSE s[d - 1]
  <2>1. s \in Seq(Column(S)) /\ c \in 1..(Len(s) + 1) /\ col \in Column(S)
    BY <1>1, <1>2
  <2>2. /\ InsertAt(s, c, col) \in Seq(Column(S)) /\ Len(InsertAt(s, c, col)) = Len(s) + 1
        /\ \A d \in 1..(Len(s) + 1) : InsertAt(s, c, col)[d] =
             IF d < c THEN s[d] ELSE IF d = c THEN col ELSE s[d - 1]
    BY <2>1, InsertAtIs
  <2> QED BY <2>2
<1>4. DOMAIN u = 1..(n + 1) /\ n \in Nat /\ c \in 1..(n + 1)
  BY <1>1, <1>3
<1> HIDE DEF u, n
<1>5. ASSUME NEW d \in DOMAIN u, d # c
      PROVE  LET a == IF d < c THEN d ELSE d - 1 IN a \in DOMAIN s /\ u[d] = s[a]
  BY <1>1, <1>3, <1>4, <1>5
<1>6. u[c] = col
  BY <1>3, <1>4
<1>7. \A d \in DOMAIN u : Whole(S, u[d])
  BY <1>1, <1>5, <1>6
<1>8. ASSUME NEW d \in DOMAIN u, d # c PROVE ToSet(u[d].rows) \cap ToSet(u[c].rows) = {}
  BY <1>5, <1>6, <1>8, MembersAre
<1>9. ASSUME NEW d \in DOMAIN u, NEW e \in DOMAIN u, d # e PROVE ToSet(u[d].rows) \cap ToSet(u[e].rows) = {}
  <2>1. CASE d # c /\ e # c
    <3> DEFINE a == IF d < c THEN d ELSE d - 1  b == IF e < c THEN e ELSE e - 1
    <3>1. a \in DOMAIN s /\ u[d] = s[a] /\ b \in DOMAIN s /\ u[e] = s[b]
      BY <1>5, <2>1
    <3>2. a # b
      BY <1>4, <1>9, <2>1
    <3> HIDE DEF a, b
    <3> QED BY <1>1, <3>1, <3>2
  <2> QED BY <1>8, <1>9, <2>1
<1>10. Loose(S, u)
  BY <1>3, <1>7, <1>9, IsLoose
<1>11. Members(u) = Members(s) \cup ToSet(col.rows)
  <2>1. ASSUME NEW v \in Members(u) PROVE v \in Members(s) \cup ToSet(col.rows)
    <3>1. PICK d \in DOMAIN u : v \in ToSet(u[d].rows)
      BY MembersAre
    <3> QED BY <1>5, <1>6, <3>1, MembersAre
  <2>2. ASSUME NEW v \in ToSet(col.rows) PROVE v \in Members(u)
    BY <1>4, <1>6, MembersAre
  <2>3. ASSUME NEW v \in Members(s) PROVE v \in Members(u)
    <3>1. PICK d \in DOMAIN s : v \in ToSet(s[d].rows)
      BY MembersAre
    <3> DEFINE e == IF d < c THEN d ELSE d + 1
    <3>2. e \in DOMAIN u /\ u[e] = s[d]
      BY <1>1, <1>3, <1>4
    <3> HIDE DEF e
    <3> QED BY <3>1, <3>2, MembersAre
  <2> QED BY <2>1, <2>2, <2>3
<1> QED BY <1>3, <1>4, <1>10, <1>11 DEF u, n

\* One column less.
LEMMA ColumnRemovedIs ==
  ASSUME NEW S, NEW s, Loose(S, s), NEW c \in DOMAIN s
  PROVE  LET u == RemoveAt(s, c)
         IN  /\ Loose(S, u) /\ Len(u) = Len(s) - 1 /\ DOMAIN u = 1..(Len(s) - 1)
             /\ \A d \in 1..(Len(s) - 1) : u[d] = IF d < c THEN s[d] ELSE s[d + 1]
             /\ Members(u) = Members(s) \ ToSet(s[c].rows)
<1> DEFINE u == RemoveAt(s, c)  n == Len(s)
<1>1. /\ s \in Seq(Column(S)) /\ n \in Nat /\ DOMAIN s = 1..n
      /\ \A d \in DOMAIN s : Whole(S, s[d])
      /\ \A d, e \in DOMAIN s : d # e => ToSet(s[d].rows) \cap ToSet(s[e].rows) = {}
  BY LooseIs
<1>2. c \in 1..Len(s)
  BY <1>1
<1>3. /\ u \in Seq(Column(S)) /\ Len(u) = n - 1
      /\ \A d \in 1..(n - 1) : u[d] = IF d < c THEN s[d] ELSE s[d + 1]
  BY <1>1, <1>2, RemoveAtIs
<1>4. DOMAIN u = 1..(n - 1) /\ n \in Nat /\ c \in 1..n
  BY <1>1, <1>2, <1>3
<1> HIDE DEF u, n
<1>5. ASSUME NEW d \in DOMAIN u
      PROVE  LET a == IF d < c THEN d ELSE d + 1 IN a \in DOMAIN s /\ a # c /\ u[d] = s[a]
  BY <1>1, <1>3, <1>4
<1>7. \A d \in DOMAIN u : Whole(S, u[d])
  BY <1>1, <1>5
<1>9. ASSUME NEW d \in DOMAIN u, NEW e \in DOMAIN u, d # e PROVE ToSet(u[d].rows) \cap ToSet(u[e].rows) = {}
  <2> DEFINE a == IF d < c THEN d ELSE d + 1  b == IF e < c THEN e ELSE e + 1
  <2>1. a \in DOMAIN s /\ u[d] = s[a] /\ b \in DOMAIN s /\ u[e] = s[b]
    BY <1>5
  <2>2. a # b
    BY <1>4, <1>9
  <2> HIDE DEF a, b
  <2> QED BY <1>1, <2>1, <2>2
<1>10. Loose(S, u)
  BY <1>3, <1>7, <1>9, IsLoose
<1>11. Members(u) = Members(s) \ ToSet(s[c].rows)
  <2>1. ASSUME NEW v \in Members(u) PROVE v \in Members(s) \ ToSet(s[c].rows)
    <3>1. PICK d \in DOMAIN u : v \in ToSet(u[d].rows)
      BY MembersAre
    <3>2. PICK a \in DOMAIN s : a # c /\ u[d] = s[a]
      BY <1>5
    <3> QED BY <1>1, <3>1, <3>2, MembersAre
  <2>3. ASSUME NEW v \in Members(s) \ ToSet(s[c].rows) PROVE v \in Members(u)
    <3>1. PICK d \in DOMAIN s : v \in ToSet(s[d].rows)
      BY MembersAre
    <3>3. d # c
      BY <3>1
    <3> DEFINE e == IF d < c THEN d ELSE d - 1
    <3>2. e \in DOMAIN u /\ u[e] = s[d]
      BY <1>1, <1>3, <1>4, <3>3
    <3> HIDE DEF e
    <3> QED BY <3>1, <3>2, MembersAre
  <2> QED BY <2>1, <2>3
<1> QED BY <1>3, <1>4, <1>10, <1>11 DEF u, n

-----------------------------------------------------------------------------

\* Rows that are the same windows in another order.
Reorders(p, q, n, f, b) ==
  /\ \A i \in 1..n : f[i] \in 1..n /\ p[i] = q[f[i]]
  /\ \A i \in 1..n : b[i] \in 1..n /\ f[b[i]] = i
  /\ \A i, j \in 1..n : f[i] = f[j] => i = j
\* A permutation of the rows keeps their windows, each once.
LEMMA Reordered ==
  ASSUME NEW S, NEW q \in Seq(S), Apart(q), NEW p \in Seq(S), Len(p) = Len(q),
         NEW f, NEW b, Reorders(p, q, Len(q), f, b)
  PROVE  Apart(p) /\ ToSet(p) = ToSet(q)
<1>1. DOMAIN p = 1..Len(q) /\ DOMAIN q = 1..Len(q)
  OBVIOUS
<1>2. Apart(p)
  BY <1>1 DEF Apart, Reorders
<1>3. ToSet(p) = ToSet(q)
  <2>1. ASSUME NEW i \in 1..Len(q) PROVE f[i] \in 1..Len(q) /\ p[i] = q[f[i]]
    BY Zenon DEF Reorders
  <2>2. ASSUME NEW i \in 1..Len(q) PROVE b[i] \in 1..Len(q) /\ p[b[i]] = q[i]
    <3>1. b[i] \in 1..Len(q) /\ f[b[i]] = i
      BY Zenon DEF Reorders
    <3> QED BY <2>1, <3>1
  <2>3. ToSet(p) = {p[i] : i \in 1..Len(q)} /\ ToSet(q) = {q[i] : i \in 1..Len(q)}
    BY <1>1 DEF ToSet
  <2> QED BY <2>1, <2>2, <2>3
<1> QED BY <1>2, <1>3

\* Where std::rotate leaves each element.
LEMMA RotatedIs ==
  ASSUME NEW S, NEW q \in Seq(S), NEW a \in Nat, NEW b \in Nat, NEW c \in Nat,
         1 <= a, a <= b, b <= c, c <= Len(q) + 1
  PROVE  /\ Rotated(q, a, b, c) \in Seq(S) /\ Len(Rotated(q, a, b, c)) = Len(q)
         /\ \A k \in 1..Len(q) : Rotated(q, a, b, c)[k] =
              IF k < a THEN q[k] ELSE IF k < a + (c - b) THEN q[k + (b - a)]
              ELSE IF k < c THEN q[k - (c - b)] ELSE q[k]
<1> DEFINE n == Len(q)
           x == SubSeq(q, 1, a - 1)  y == SubSeq(q, b, c - 1)  z == SubSeq(q, a, b - 1)  t == SubSeq(q, c, n)
<1>0. n \in Nat
  OBVIOUS
<1>1. x \in Seq(S) /\ Len(x) = a - 1 /\ \A k \in 1..(a - 1) : x[k] = q[k]
  OBVIOUS
<1>2. y \in Seq(S) /\ Len(y) = c - b /\ \A k \in 1..(c - b) : y[k] = q[b + k - 1]
  OBVIOUS
<1>3. z \in Seq(S) /\ Len(z) = b - a /\ \A k \in 1..(b - a) : z[k] = q[a + k - 1]
  OBVIOUS
<1>4. t \in Seq(S) /\ Len(t) = n + 1 - c /\ \A k \in 1..(n + 1 - c) : t[k] = q[c + k - 1]
  OBVIOUS
<1>5. Rotated(q, a, b, c) = ((x \o y) \o z) \o t
  BY DEF Rotated
<1> HIDE DEF x, y, z, t
<1> DEFINE xy == x \o y
<1>6. /\ xy \in Seq(S) /\ Len(xy) = a - 1 + (c - b)
      /\ \A k \in 1..(a - 1 + (c - b)) : xy[k] = IF k <= a - 1 THEN x[k] ELSE y[k - (a - 1)]
  <2>1. /\ xy \in Seq(S) /\ Len(xy) = Len(x) + Len(y)
        /\ \A k \in 1..(Len(x) + Len(y)) : xy[k] = IF k <= Len(x) THEN x[k] ELSE y[k - Len(x)]
    BY <1>1, <1>2, ConcatProperties
  <2> QED BY <1>1, <1>2, <2>1
<1> HIDE DEF xy
<1> DEFINE xyz == xy \o z
<1>7. /\ xyz \in Seq(S) /\ Len(xyz) = c - 1
      /\ \A k \in 1..(c - 1) : xyz[k] = IF k <= a - 1 + (c - b) THEN xy[k] ELSE z[k - (a - 1 + (c - b))]
  <2>1. /\ xyz \in Seq(S) /\ Len(xyz) = Len(xy) + Len(z)
        /\ \A k \in 1..(Len(xy) + Len(z)) : xyz[k] = IF k <= Len(xy) THEN xy[k] ELSE z[k - Len(xy)]
    BY <1>3, <1>6, ConcatProperties
  <2>2. Len(xy) + Len(z) = c - 1
    BY <1>3, <1>6
  <2> QED BY <1>6, <2>1, <2>2
<1> HIDE DEF xyz
<1> DEFINE r == xyz \o t
<1>8. /\ r \in Seq(S) /\ Len(r) = n
      /\ \A k \in 1..n : r[k] = IF k <= c - 1 THEN xyz[k] ELSE t[k - (c - 1)]
  <2>1. /\ r \in Seq(S) /\ Len(r) = Len(xyz) + Len(t)
        /\ \A k \in 1..(Len(xyz) + Len(t)) : r[k] = IF k <= Len(xyz) THEN xyz[k] ELSE t[k - Len(xyz)]
    BY <1>4, <1>7, ConcatProperties
  <2>2. Len(xyz) + Len(t) = n
    BY <1>0, <1>4, <1>7
  <2> QED BY <1>7, <2>1, <2>2
<1>9. Rotated(q, a, b, c) = r
  BY <1>5 DEF r, xy, xyz
<1> HIDE DEF r, n
<1>10. ASSUME NEW k \in 1..n
       PROVE  r[k] = IF k < a THEN q[k] ELSE IF k < a + (c - b) THEN q[k + (b - a)]
                     ELSE IF k < c THEN q[k - (c - b)] ELSE q[k]
  <2>1. CASE k < a
    BY <1>0, <1>1, <1>6, <1>7, <1>8, <2>1
  <2>2. CASE a <= k /\ k < a + (c - b)
    <3>1. r[k] = xyz[k] /\ xyz[k] = xy[k] /\ xy[k] = y[k - (a - 1)] /\ k - (a - 1) \in 1..(c - b)
      BY <1>0, <1>6, <1>7, <1>8, <2>2
    <3>2. y[k - (a - 1)] = q[b + (k - (a - 1)) - 1]
      BY <1>2, <3>1
    <3> QED BY <1>0, <2>2, <3>1, <3>2
  <2>3. CASE a + (c - b) <= k /\ k < c
    <3>1. r[k] = xyz[k] /\ xyz[k] = z[k - (a - 1 + (c - b))] /\ k - (a - 1 + (c - b)) \in 1..(b - a)
      BY <1>0, <1>7, <1>8, <2>3
    <3>2. z[k - (a - 1 + (c - b))] = q[a + (k - (a - 1 + (c - b))) - 1]
      BY <1>3, <3>1
    <3> QED BY <1>0, <2>3, <3>1, <3>2
  <2>4. CASE c <= k
    <3>1. r[k] = t[k - (c - 1)] /\ k - (c - 1) \in 1..(n + 1 - c)
      BY <1>0, <1>8, <2>4
    <3>2. t[k - (c - 1)] = q[c + (k - (c - 1)) - 1]
      BY <1>4, <3>1
    <3> QED BY <1>0, <2>4, <3>1, <3>2
  <2> QED BY <1>0, <2>1, <2>2, <2>3, <2>4
<1> QED BY <1>8, <1>9, <1>10 DEF n

\* rotateRows permutes the rows.
LEMMA RotationReorders ==
  ASSUME NEW S, NEW q \in Seq(S), Apart(q), NEW a \in Nat, NEW b \in Nat, NEW c \in Nat,
         1 <= a, a <= b, b <= c, c <= Len(q) + 1
  PROVE  LET p == Rotated(q, a, b, c)
         IN  p \in Seq(S) /\ Len(p) = Len(q) /\ Apart(p) /\ ToSet(p) = ToSet(q)
<1> DEFINE n == Len(q)  p == Rotated(q, a, b, c)
           F(k) == IF k < a THEN k ELSE IF k < a + (c - b) THEN k + (b - a) ELSE IF k < c THEN k - (c - b) ELSE k
           B(k) == IF k < a THEN k ELSE IF k < b THEN k + (c - b) ELSE IF k < c THEN k - (b - a) ELSE k
           f == [k \in 1..n |-> F(k)]  g == [k \in 1..n |-> B(k)]
<1>1. /\ p \in Seq(S) /\ Len(p) = n /\ n \in Nat
      /\ \A k \in 1..n : p[k] =
              IF k < a THEN q[k] ELSE IF k < a + (c - b) THEN q[k + (b - a)]
              ELSE IF k < c THEN q[k - (c - b)] ELSE q[k]
  BY RotatedIs
<1> HIDE DEF p
<1>2. c <= n + 1 /\ n \in Nat
  BY <1>1
<1>3. \A k \in 1..n : p[k] = q[F(k)]
  BY <1>1
<1> HIDE DEF n
<1>4. \A k \in 1..n : F(k) \in 1..n /\ B(k) \in 1..n /\ F(B(k)) = k
  BY <1>2
<1>5. \A i, j \in 1..n : F(i) = F(j) => i = j
  BY <1>2
<1> HIDE DEF F, B
<1>6. \A k \in 1..n : f[k] \in 1..n /\ p[k] = q[f[k]]
  BY <1>3, <1>4
<1>7. \A k \in 1..n : g[k] \in 1..n /\ f[g[k]] = k
  BY <1>4
<1>8. \A i, j \in 1..n : f[i] = f[j] => i = j
  BY <1>5
<1> HIDE DEF f, g
<1>9. Apart(p) /\ ToSet(p) = ToSet(q)
  <2>1. Reorders(p, q, n, f, g)
    BY <1>6, <1>7, <1>8, Zenon DEF Reorders
  <2>2. Reorders(p, q, Len(q), f, g) /\ p \in Seq(S) /\ Len(p) = Len(q)
    BY <1>1, <2>1 DEF n
  <2> QED BY <2>2, Reordered, Zenon
<1> QED BY <1>1, <1>9 DEF p, n

-----------------------------------------------------------------------------

\* One group at most starts in a stretch of rows.
LEMMA OneAtMost ==
  ASSUME NEW tabs, NEW a, NEW b, NEW k,
         \A i \in DOMAIN tabs : a <= tabs[i].first /\ tabs[i].first < b => i = k
  PROVE  AtMostOne(tabs, a, b)
<1> SUFFICES ASSUME NEW i \in DOMAIN tabs, NEW j \in DOMAIN tabs,
                    a <= tabs[i].first /\ tabs[i].first < b, a <= tabs[j].first /\ tabs[j].first < b
             PROVE  i = j
  BY DEF AtMostOne
<1>1. i = k
  OBVIOUS
<1>2. j = k
  OBVIOUS
<1> QED BY <1>1, <1>2

\* No group reaches across either end of a unit, and a unit holds one group at most.
LEMMA UnitEdges ==
  ASSUME NEW rows \in Nat, NEW tabs, Groups(tabs, rows), NEW row \in 1..rows
  PROVE  LET u == Unit(tabs, row)
         IN  /\ \A i \in DOMAIN tabs : Uncut(tabs[i], u.first) /\ Uncut(tabs[i], u.first + u.count)
             /\ AtMostOne(tabs, u.first, u.first + u.count)
             /\ Grouped(tabs, row) => u = tabs[GroupIndex(tabs, row)]
             /\ ~Grouped(tabs, row) => u.first = row /\ u.count = 1
<1> DEFINE u == Unit(tabs, row)
<1>1. u \in TabGroup /\ Within(u, rows) /\ u.first <= row /\ row < u.first + u.count
  BY UnitIs
<1>2. /\ u.first \in Nat /\ u.count \in Nat
      /\ \A i \in DOMAIN tabs : /\ tabs[i].first \in Nat /\ tabs[i].count \in Nat /\ tabs[i].count >= 1
  BY <1>1, GroupsAre DEF TabGroup, Within
<1>3. CASE Grouped(tabs, row)
  <2> DEFINE k == GroupIndex(tabs, row)
  <2>1. k \in DOMAIN tabs /\ u = tabs[k]
    BY <1>3, GroupOf DEF Unit, GroupAt
  <2> HIDE DEF u, k
  <2>2. \A i \in DOMAIN tabs : i # k => Above(tabs[i], u) \/ Above(u, tabs[i])
    BY <2>1, GroupsAre
  <2>3. \A i \in DOMAIN tabs : Uncut(tabs[i], u.first) /\ Uncut(tabs[i], u.first + u.count)
    <3> SUFFICES ASSUME NEW i \in DOMAIN tabs PROVE Uncut(tabs[i], u.first) /\ Uncut(tabs[i], u.first + u.count)
      OBVIOUS
    <3>1. i = k => tabs[i] = u
      BY <2>1
    <3>2. CASE i = k
      BY <1>2, <3>1, <3>2 DEF Uncut
    <3>3. CASE i # k
      BY <1>2, <2>2, <3>3 DEF Uncut, Above
    <3> QED BY <3>2, <3>3
  <2>4. \A i \in DOMAIN tabs : u.first <= tabs[i].first /\ tabs[i].first < u.first + u.count => i = k
    BY <1>2, <2>2 DEF Above
  <2>5. AtMostOne(tabs, u.first, u.first + u.count)
    BY <2>4, OneAtMost, Zenon
  <2> QED BY <1>3, <2>1, <2>3, <2>5 DEF u, k
<1>4. CASE ~Grouped(tabs, row)
  <2>1. u.first = row /\ u.count = 1
    BY <1>4 DEF Unit
  <2>2. \A i \in DOMAIN tabs : ~(tabs[i].first <= row /\ row < tabs[i].first + tabs[i].count)
    BY <1>4 DEF Grouped, Covers, End
  <2> HIDE DEF u
  <2>3. \A i \in DOMAIN tabs : Uncut(tabs[i], u.first) /\ Uncut(tabs[i], u.first + u.count)
    BY <1>2, <2>1, <2>2 DEF Uncut
  <2>4. \A i \in DOMAIN tabs : ~(u.first <= tabs[i].first /\ tabs[i].first < u.first + u.count)
    BY <1>2, <2>1, <2>2
  <2>5. AtMostOne(tabs, u.first, u.first + u.count)
    <3>1. \A i \in DOMAIN tabs : u.first <= tabs[i].first /\ tabs[i].first < u.first + u.count => i = 0
      BY <2>4
    <3> QED BY <3>1, OneAtMost, Zenon
  <2> QED BY <1>4, <2>1, <2>3, <2>5 DEF u
<1> QED BY <1>3, <1>4

\* The units beside a unit end where it begins and begin where it ends.
LEMMA Beside ==
  ASSUME NEW rows \in Nat, NEW tabs, Groups(tabs, rows), NEW row \in 1..rows, NEW other \in 1..rows
  PROVE  LET u == Unit(tabs, row)
             n == Unit(tabs, other)
         IN  /\ other = u.first + u.count => n.first = other
             /\ other = u.first - 1 => n.first + n.count = u.first
<1> DEFINE u == Unit(tabs, row)  n == Unit(tabs, other)
<1>1. u \in TabGroup /\ n \in TabGroup /\ n.first <= other /\ other < n.first + n.count
  BY UnitIs
<1>2. \A i \in DOMAIN tabs : Uncut(tabs[i], u.first) /\ Uncut(tabs[i], u.first + u.count)
  BY UnitEdges
<1>3. \/ \E i \in DOMAIN tabs : n = tabs[i]
      \/ n.first = other /\ n.count = 1
  BY UnitEdges, GroupOf
<1> HIDE DEF u, n
<1>4. u.first \in Nat /\ u.count \in Nat /\ n.first \in Nat /\ n.count \in Nat
  BY <1>1 DEF TabGroup
<1>5. \/ Uncut(n, u.first) /\ Uncut(n, u.first + u.count)
      \/ n.first = other /\ n.count = 1
  BY <1>2, <1>3
<1>6. other = u.first + u.count => n.first = other
  BY <1>1, <1>4, <1>5 DEF Uncut
<1>7. other = u.first - 1 => n.first + n.count = u.first
  BY <1>1, <1>4, <1>5 DEF Uncut
<1> QED BY <1>6, <1>7 DEF u, n

\* Two units that meet trade places.
LEMMA UnitsTrade ==
  ASSUME NEW rows \in Nat, NEW tabs, Groups(tabs, rows), NEW a \in 1..rows, NEW b \in 1..rows,
         b = Unit(tabs, a).first + Unit(tabs, a).count
  PROVE  /\ Groups(UnitsSwapped(tabs, Unit(tabs, a).first, b, Unit(tabs, b).first + Unit(tabs, b).count), rows)
         /\ 1 <= Unit(tabs, a).first /\ Unit(tabs, a).first <= b
         /\ b <= Unit(tabs, b).first + Unit(tabs, b).count
         /\ Unit(tabs, b).first + Unit(tabs, b).count <= rows + 1
         /\ Unit(tabs, a).first \in Nat /\ Unit(tabs, b).first + Unit(tabs, b).count \in Nat
<1> DEFINE u == Unit(tabs, a)  n == Unit(tabs, b)
<1>1. u \in TabGroup /\ n \in TabGroup /\ Within(u, rows) /\ Within(n, rows)
  BY UnitIs
<1>2. n.first = b
  BY Beside
<1>3. /\ \A i \in DOMAIN tabs : Uncut(tabs[i], u.first) /\ Uncut(tabs[i], u.first + u.count)
      /\ \A i \in DOMAIN tabs : Uncut(tabs[i], n.first + n.count)
      /\ AtMostOne(tabs, u.first, u.first + u.count) /\ AtMostOne(tabs, n.first, n.first + n.count)
  BY UnitEdges
<1>4. b = u.first + u.count
  OBVIOUS
<1> HIDE DEF u, n
<1>5. /\ u.first \in Nat /\ b \in Nat /\ n.first + n.count \in Nat
      /\ u.first >= 1 /\ u.first < b /\ b < n.first + n.count /\ n.first + n.count <= rows + 1
  BY <1>1, <1>2, <1>4 DEF TabGroup, Within
<1> DEFINE x == u.first  y == n.first + n.count
<1>6. /\ x \in Nat /\ b \in Nat /\ y \in Nat /\ x >= 1 /\ x < b /\ b < y /\ y <= rows + 1
      /\ \A i \in DOMAIN tabs : Uncut(tabs[i], x) /\ Uncut(tabs[i], b) /\ Uncut(tabs[i], y)
      /\ AtMostOne(tabs, x, b) /\ AtMostOne(tabs, b, y)
  BY <1>2, <1>3, <1>4, <1>5
<1> HIDE DEF x, y
<1>7. Groups(UnitsSwapped(tabs, x, b, y), rows)
  BY <1>6, UnitsSwappedIs
<1>8. x <= b /\ b <= y
  BY <1>6
<1> QED BY <1>6, <1>7, <1>8 DEF u, n, x, y

-----------------------------------------------------------------------------

\* A column with the same windows.
SameRows(S, col, k) == Whole(S, k) /\ ToSet(k.rows) = ToSet(col.rows) /\ Len(k.rows) = Len(col.rows)

\* A column with its rows permuted and sound groups.
LEMMA IsSameRows ==
  ASSUME NEW S, NEW col, Whole(S, col), NEW rows \in Seq(S), Apart(rows), ToSet(rows) = ToSet(col.rows),
         Len(rows) = Len(col.rows), NEW tabs, Groups(tabs, Len(col.rows))
  PROVE  SameRows(S, col, [rows |-> rows, tabs |-> tabs])
<1> DEFINE k == [rows |-> rows, tabs |-> tabs]
<1>1. Whole(S, k) /\ k.rows = rows
  BY IsWhole
<1> HIDE DEF k
<1>2. SameRows(S, col, k)
  BY <1>1 DEF SameRows
<1> QED BY <1>2 DEF k

\* A column with other groups.
LEMMA OtherTabs ==
  ASSUME NEW S, NEW col, Whole(S, col), NEW tabs, Groups(tabs, Len(col.rows))
  PROVE  /\ SameRows(S, col, [rows |-> col.rows, tabs |-> tabs])
         /\ [col EXCEPT !.tabs = tabs] = [rows |-> col.rows, tabs |-> tabs]
<1>1. col.rows \in Seq(S) /\ Apart(col.rows) /\ col \in Column(S)
  BY WholeIs
<1>2. [col EXCEPT !.tabs = tabs] = [rows |-> col.rows, tabs |-> tabs]
  BY <1>1 DEF Column
<1> QED BY <1>1, <1>2, IsSameRows

\* moveViewVertical within a column: the window leaves or joins a group, or its unit trades places
\* with the next.
LEMMA MovedWithin ==
  ASSUME NEW S, NEW col, Whole(S, col), NEW at \in 1..Len(col.rows), NEW d \in {-1, 1}
  PROVE  SameRows(S, col, MoveWithinColumn(col, at, d))
<1> DEFINE k == MoveWithinColumn(col, at, d)
           n == Len(col.rows)  tabs == col.tabs  rows == col.rows
           unit == Unit(tabs, at)
           start == unit.first  end == End(unit)
           edge == IF d > 0 THEN end - 1 ELSE start
           neighbor == IF d > 0 THEN end ELSE start - 1
           first == IF d > 0 THEN start ELSE Unit(tabs, neighbor).first
           middle == IF d > 0 THEN end ELSE start
           last == IF d > 0 THEN End(Unit(tabs, neighbor)) ELSE end
<1>0. /\ rows \in Seq(S) /\ n \in Nat /\ Groups(tabs, n) /\ Apart(rows)
      /\ DOMAIN rows = 1..n /\ col \in Column(S) /\ at \in 1..n /\ n = Len(rows)
  BY WholeIs
<1>k. k = IF unit.count > 1
          THEN [rows |-> IF d > 0 THEN Rotated(rows, at, at + 1, end) ELSE Rotated(rows, start, at, at + 1),
                tabs |-> Leave(SelectRow(tabs, edge), edge)]
          ELSE IF neighbor \notin DOMAIN rows THEN col
          ELSE IF ~Grouped(tabs, at) /\ Grouped(tabs, neighbor)
          THEN [col EXCEPT !.tabs = SelectRow(Join(tabs, at, GroupIndex(tabs, neighbor)), at)]
          ELSE [rows |-> Rotated(rows, first, middle, last),
                tabs |-> UnitsSwapped(tabs, first, middle, last)]
  BY DEF MoveWithinColumn
<1>u. unit \in TabGroup /\ Within(unit, n) /\ unit.first <= at /\ at < unit.first + unit.count
  BY <1>0, UnitIs
<1>e. end = start + unit.count
  BY DEF End
<1> HIDE DEF unit, n, tabs, rows, k, end
<1>1. /\ start \in Nat /\ unit.count \in Nat /\ start >= 1 /\ end <= n + 1 /\ start <= at /\ at < end
      /\ end = start + unit.count /\ n \in Nat /\ end \in Nat /\ at \in Nat
  BY <1>0, <1>u, <1>e DEF TabGroup, Within
<1>s. ASSUME NEW r \in Seq(S), Apart(r), ToSet(r) = ToSet(rows), Len(r) = n, NEW t, Groups(t, n)
      PROVE  SameRows(S, col, [rows |-> r, tabs |-> t])
  BY <1>s, IsSameRows DEF rows, n
<1>2. CASE unit.count > 1
  <2> DEFINE r == IF d > 0 THEN Rotated(rows, at, at + 1, end) ELSE Rotated(rows, start, at, at + 1)
             t == Leave(SelectRow(tabs, edge), edge)
  <2>1. k = [rows |-> r, tabs |-> t]
    BY <1>k, <1>2
  <2>2. r \in Seq(S) /\ Len(r) = n /\ Apart(r) /\ ToSet(r) = ToSet(rows)
    <3>1. /\ at + 1 \in Nat /\ 1 <= at /\ at <= at + 1 /\ at + 1 <= end /\ end <= Len(rows) + 1
          /\ 1 <= start /\ start <= at /\ at + 1 <= Len(rows) + 1
      BY <1>0, <1>1
    <3>2. LET p == Rotated(rows, at, at + 1, end)
          IN  p \in Seq(S) /\ Len(p) = Len(rows) /\ Apart(p) /\ ToSet(p) = ToSet(rows)
      BY <1>0, <1>1, <3>1, RotationReorders
    <3>3. LET p == Rotated(rows, start, at, at + 1)
          IN  p \in Seq(S) /\ Len(p) = Len(rows) /\ Apart(p) /\ ToSet(p) = ToSet(rows)
      BY <1>0, <1>1, <3>1, RotationReorders
    <3> QED BY <1>0, <3>2, <3>3
  <2>3. Groups(t, n)
    <3>1. edge \in Nat /\ start <= edge /\ edge < end
      BY <1>1
    <3> HIDE DEF edge
    <3> DEFINE sel == SelectRow(tabs, edge)
    <3>2. /\ Groups(sel, n) /\ DOMAIN sel = DOMAIN tabs
          /\ \A i \in DOMAIN tabs : sel[i].first = tabs[i].first /\ sel[i].count = tabs[i].count
      BY <1>0, <1>1, <3>1, SelectIs
    <3>3. Grouped(tabs, at)
      BY <1>2, <1>0, UnitEdges DEF unit
    <3>4. unit = tabs[GroupIndex(tabs, at)] /\ GroupIndex(tabs, at) \in DOMAIN tabs
      BY <1>0, <3>3, UnitEdges, GroupOf DEF unit
    <3> DEFINE g == GroupIndex(tabs, at)
    <3> HIDE DEF sel, g
    <3>5. Covers(tabs[g], edge)
      BY <1>1, <3>1, <3>4 DEF Covers, End, g
    <3>6. ASSUME NEW i \in DOMAIN sel, Covers(sel[i], edge)
          PROVE  sel[i].count > 1 /\ edge \in {sel[i].first, sel[i].first + sel[i].count - 1}
      <4>1. Covers(tabs[i], edge) /\ i \in DOMAIN tabs
        BY <3>2, <3>6 DEF Covers, End
      <4>2. i = g
        BY <1>0, <1>1, <3>1, <3>4, <3>5, <4>1, OnlyGroup DEF g
      <4>3. sel[i].first = unit.first /\ sel[i].count = unit.count
        BY <3>2, <3>4, <4>1, <4>2 DEF g
      <4> QED BY <1>1, <1>2, <4>3 DEF edge
    <3>7. Groups(Leave(sel, edge), n)
      BY <1>1, <3>1, <3>2, <3>6, LeaveIs
    <3> QED BY <3>7 DEF sel
  <2> HIDE DEF r, t
  <2> QED BY <1>s, <2>1, <2>2, <2>3 DEF k
<1>3. CASE ~(unit.count > 1) /\ neighbor \notin DOMAIN rows
  <2>1. k = col
    BY <1>k, <1>3
  <2> QED BY <2>1 DEF SameRows, k
<1>4. CASE ~(unit.count > 1) /\ neighbor \in DOMAIN rows /\ ~Grouped(tabs, at) /\ Grouped(tabs, neighbor)
  <2> DEFINE g == GroupIndex(tabs, neighbor)  t == SelectRow(Join(tabs, at, g), at)
  <2>1. k = [col EXCEPT !.tabs = t]
    BY <1>k, <1>4
  <2>2. g \in DOMAIN tabs /\ Covers(tabs[g], neighbor)
    BY <1>4, GroupOf DEF GroupAt
  <2>3. ~Covers(tabs[g], at)
    BY <1>4, <2>2 DEF Grouped
  <2> HIDE DEF g
  <2>4. start = at /\ end = at + 1
    <3>1. unit.first = at /\ unit.count = 1
      BY <1>0, <1>4, UnitEdges DEF unit
    <3> QED BY <1>1, <3>1
  <2>5. neighbor = at + 1 \/ neighbor = at - 1
    BY <2>4
  <2>6. at + 1 = tabs[g].first \/ at = tabs[g].first + tabs[g].count
    <3>1. tabs[g].first \in Nat /\ tabs[g].count \in Nat
      BY <1>0, <2>2, GroupsAre DEF TabGroup
    <3> QED BY <1>1, <2>2, <2>3, <2>5, <3>1 DEF Covers, End
  <2>7. Groups(Join(tabs, at, g), n)
    BY <1>0, <1>4, <2>2, <2>6, JoinIs
  <2>8. Groups(t, n)
    BY <1>1, <2>7, SelectIs
  <2> HIDE DEF t
  <2>9. SameRows(S, col, [rows |-> col.rows, tabs |-> t]) /\ [col EXCEPT !.tabs = t] = [rows |-> col.rows, tabs |-> t]
    BY <2>8, OtherTabs DEF n
  <2> QED BY <2>1, <2>9 DEF k
<1>5. CASE ~(unit.count > 1) /\ neighbor \in DOMAIN rows /\ ~(~Grouped(tabs, at) /\ Grouped(tabs, neighbor))
  <2>1. k = [rows |-> Rotated(rows, first, middle, last), tabs |-> UnitsSwapped(tabs, first, middle, last)]
    BY <1>k, <1>5
  <2>0. neighbor \in 1..n
    BY <1>0, <1>5
  <2>2. /\ Groups(UnitsSwapped(tabs, first, middle, last), n)
        /\ 1 <= first /\ first <= middle /\ middle <= last /\ last <= n + 1
        /\ first \in Nat /\ middle \in Nat /\ last \in Nat
    <3>1. CASE d > 0
      <4>1. neighbor = end /\ middle = end /\ first = start /\ last = Unit(tabs, end).first + Unit(tabs, end).count
        BY <3>1 DEF End
      <4>2. end \in 1..n /\ end = Unit(tabs, at).first + Unit(tabs, at).count
        BY <1>1, <2>0, <4>1 DEF unit
      <4>3. /\ Groups(UnitsSwapped(tabs, Unit(tabs, at).first, end, Unit(tabs, end).first + Unit(tabs, end).count), n)
            /\ 1 <= Unit(tabs, at).first /\ Unit(tabs, at).first <= end
            /\ end <= Unit(tabs, end).first + Unit(tabs, end).count
            /\ Unit(tabs, end).first + Unit(tabs, end).count <= n + 1
            /\ Unit(tabs, at).first \in Nat /\ Unit(tabs, end).first + Unit(tabs, end).count \in Nat
        BY <1>0, <4>2, UnitsTrade
      <4> QED BY <1>1, <4>1, <4>3 DEF unit
    <3>2. CASE ~(d > 0)
      <4> DEFINE m == start - 1
      <4>1. neighbor = m /\ middle = start /\ first = Unit(tabs, m).first /\ last = end
        BY <3>2
      <4>2. m \in 1..n /\ m = unit.first - 1
        BY <2>0, <4>1
      <4>3. Unit(tabs, m).first + Unit(tabs, m).count = start
        BY <1>0, <4>2, Beside DEF unit
      <4> HIDE DEF m
      <4>4. start \in 1..n
        BY <1>0, <1>1
      <4>5. Unit(tabs, start).first = start
        BY <1>0, <4>2, <4>3, <4>4, Beside
      <4>6. /\ Groups(UnitsSwapped(tabs, Unit(tabs, m).first, start, Unit(tabs, start).first + Unit(tabs, start).count), n)
            /\ 1 <= Unit(tabs, m).first /\ Unit(tabs, m).first <= start
            /\ start <= Unit(tabs, start).first + Unit(tabs, start).count
            /\ Unit(tabs, start).first + Unit(tabs, start).count <= n + 1
            /\ Unit(tabs, m).first \in Nat /\ Unit(tabs, start).first + Unit(tabs, start).count \in Nat
        BY <1>0, <4>2, <4>3, <4>4, UnitsTrade
      <4>7. Unit(tabs, start) = unit
        <5>1. unit.count = 1
          BY <1>1, <1>5
        <5>2. start = at
          BY <1>1, <5>1
        <5> QED BY <5>2 DEF unit
      <4> QED BY <1>1, <4>1, <4>6, <4>7
    <3> QED BY <3>1, <3>2
  <2> HIDE DEF first, middle, last
  <2>3. LET p == Rotated(rows, first, middle, last)
        IN  p \in Seq(S) /\ Len(p) = Len(rows) /\ Apart(p) /\ ToSet(p) = ToSet(rows)
    BY <1>0, <2>2, RotationReorders
  <2> QED BY <1>0, <1>s, <2>1, <2>2, <2>3 DEF k
<1> QED BY <1>2, <1>3, <1>4, <1>5 DEF k

\* swapRows: rows and active rows trade places.
LEMMA SwapRowsIs ==
  ASSUME NEW S, NEW col, Whole(S, col), NEW a \in 1..Len(col.rows), NEW b \in 1..Len(col.rows)
  PROVE  SameRows(S, col, SwapRows(col, a, b))
<1> DEFINE n == Len(col.rows)  q == col.rows  p == [q EXCEPT ![a] = q[b], ![b] = q[a]]
           F(k) == IF k = b THEN a ELSE IF k = a THEN b ELSE k
           f == [k \in 1..n |-> F(k)]  t == RowsSwapped(col.tabs, a, b)
<1>1. q \in Seq(S) /\ n \in Nat /\ Groups(col.tabs, n) /\ Apart(q) /\ DOMAIN q = 1..n /\ Len(q) = n
  BY WholeIs
<1>2. SwapRows(col, a, b) = [rows |-> p, tabs |-> t]
  BY DEF SwapRows
<1>3. a \in 1..n /\ b \in 1..n /\ a \in Nat /\ b \in Nat
  BY <1>1
<1>4. Groups(t, n)
  BY <1>1, <1>3, RowsSwappedIs
<1> HIDE DEF n, q, t
<1>5. p \in Seq(S) /\ Len(p) = n /\ \A k \in 1..n : p[k] = q[F(k)]
  BY <1>1, <1>3
<1>6. \A k \in 1..n : F(k) \in 1..n /\ F(F(k)) = k
  BY <1>3
<1>7. \A i, j \in 1..n : F(i) = F(j) => i = j
  BY <1>3
<1> HIDE DEF F, p
<1>8. Reorders(p, q, n, f, f)
  <2>1. \A k \in 1..n : f[k] = F(k)
    OBVIOUS
  <2> HIDE DEF f
  <2> QED BY <1>5, <1>6, <1>7, <2>1 DEF Reorders
<1> HIDE DEF f
<1>9. Apart(p) /\ ToSet(p) = ToSet(q)
  BY <1>1, <1>5, <1>8, Reordered
<1>10. SameRows(S, col, [rows |-> p, tabs |-> t])
  BY <1>4, <1>5, <1>9, IsSameRows DEF n, q
<1> QED BY <1>2, <1>10

\* The rows that stand alone around a row that does.
LEMMA AloneAround ==
  ASSUME NEW n \in Nat, NEW row \in 1..n, NEW tabs, ~Grouped(tabs, row)
  PROVE  /\ \E f \in 1..row : (\A r \in f..row : ~Grouped(tabs, r)) /\ (f = 1 \/ Grouped(tabs, f - 1))
         /\ \E l \in row..n : (\A r \in row..l : ~Grouped(tabs, r)) /\ (l = n \/ Grouped(tabs, l + 1))
<1>1. \E f \in 1..row : (\A r \in f..row : ~Grouped(tabs, r)) /\ (f = 1 \/ Grouped(tabs, f - 1))
  <2> DEFINE T == {f \in 1..row : \A r \in f..row : ~Grouped(tabs, r)}
  <2>1. row \in T /\ T \subseteq Nat
    OBVIOUS
  <2>2. PICK f \in T : \A m \in T : f <= m
    BY <2>1, Least
  <2>3. f \in 1..row /\ \A r \in f..row : ~Grouped(tabs, r)
    OBVIOUS
  <2>4. f = 1 \/ Grouped(tabs, f - 1)
    <3> SUFFICES ASSUME f # 1, ~Grouped(tabs, f - 1) PROVE FALSE
      OBVIOUS
    <3>1. f - 1 \in 1..row /\ \A r \in (f - 1)..row : r = f - 1 \/ r \in f..row
      BY <2>3
    <3>2. f - 1 \in T
      BY <2>3, <3>1
    <3> HIDE DEF T
    <3> QED BY <2>2, <2>3, <3>2
  <2> QED BY <2>3, <2>4
<1>2. \E l \in row..n : (\A r \in row..l : ~Grouped(tabs, r)) /\ (l = n \/ Grouped(tabs, l + 1))
  <2> DEFINE T == {k \in Nat : k <= n - row /\ \A r \in row..(n - k) : ~Grouped(tabs, r)}
  <2>1. n - row \in T /\ T \subseteq Nat
    OBVIOUS
  <2>2. PICK k \in T : \A m \in T : k <= m
    BY <2>1, Least
  <2>3. k \in Nat /\ k <= n - row /\ \A r \in row..(n - k) : ~Grouped(tabs, r)
    OBVIOUS
  <2>4. n - k = n \/ Grouped(tabs, n - k + 1)
    <3> SUFFICES ASSUME k # 0, ~Grouped(tabs, n - k + 1) PROVE FALSE
      BY <2>3
    <3>1. /\ k - 1 \in Nat /\ k - 1 <= n - row
          /\ \A r \in row..(n - (k - 1)) : r = n - k + 1 \/ r \in row..(n - k)
      BY <2>3
    <3>2. k - 1 \in T
      BY <2>3, <3>1
    <3> HIDE DEF T
    <3> QED BY <2>2, <2>3, <3>2
  <2>5. n - k \in row..n
    BY <2>3
  <2> QED BY <2>3, <2>4, <2>5
<1> QED BY <1>1, <1>2

\* setTabbed: the lone rows around the window become a group.
LEMMA RegroupedIs ==
  ASSUME NEW S, NEW col, Whole(S, col), NEW row \in 1..Len(col.rows), ~Grouped(col.tabs, row)
  PROVE  SameRows(S, col, Regrouped(col, row))
<1> DEFINE n == Len(col.rows)  tabs == col.tabs
           first == CHOOSE f \in 1..row : (\A r \in f..row : ~Grouped(tabs, r)) /\ (f = 1 \/ Grouped(tabs, f - 1))
           last == CHOOSE l \in row..n : (\A r \in row..l : ~Grouped(tabs, r)) /\ (l = n \/ Grouped(tabs, l + 1))
           t == Form(tabs, first, last + 1 - first, row)
<1>1. n \in Nat /\ Groups(tabs, n) /\ row \in 1..n /\ ~Grouped(tabs, row)
  BY WholeIs
<1>2. Regrouped(col, row) = [col EXCEPT !.tabs = t]
  <2>1. Regrouped(col, row) =
          LET Alone(r) == ~Grouped(col.tabs, r)
              fst == CHOOSE f \in 1..row : (\A r \in f..row : Alone(r)) /\ (f = 1 \/ ~Alone(f - 1))
              lst == CHOOSE l \in row..Len(col.rows) : (\A r \in row..l : Alone(r)) /\ (l = Len(col.rows) \/ ~Alone(l + 1))
          IN  [col EXCEPT !.tabs = Form(@, fst, lst + 1 - fst, row)]
    BY DEF Regrouped
  <2> QED BY <2>1
<1> HIDE DEF n, tabs
<1>3. /\ first \in 1..row /\ \A r \in first..row : ~Grouped(tabs, r)
      /\ last \in row..n /\ \A r \in row..last : ~Grouped(tabs, r)
  <2>1. /\ \E f \in 1..row : (\A r \in f..row : ~Grouped(tabs, r)) /\ (f = 1 \/ Grouped(tabs, f - 1))
        /\ \E l \in row..n : (\A r \in row..l : ~Grouped(tabs, r)) /\ (l = n \/ Grouped(tabs, l + 1))
    BY <1>1, AloneAround
  <2>2. first \in 1..row /\ (\A r \in first..row : ~Grouped(tabs, r)) /\ (first = 1 \/ Grouped(tabs, first - 1))
    BY <2>1
  <2>3. last \in row..n /\ (\A r \in row..last : ~Grouped(tabs, r)) /\ (last = n \/ Grouped(tabs, last + 1))
    BY <2>1
  <2> QED BY <2>2, <2>3
<1> HIDE DEF first, last
<1> DEFINE count == last + 1 - first
<1>4. /\ first \in Nat /\ count \in Nat /\ row \in Nat /\ first >= 1 /\ first + count <= n + 1
      /\ first <= row /\ row < first + count
      /\ \A r \in first..(first + count - 1) : r \in first..row \/ r \in row..last
  BY <1>1, <1>3
<1>5. \A r \in first..(first + count - 1) : ~Grouped(tabs, r)
  BY <1>3, <1>4
<1> HIDE DEF count
<1>6. Groups(Form(tabs, first, count, row), n)
  BY <1>1, <1>4, <1>5, FormIs
<1>7. Groups(t, n)
  BY <1>6 DEF count
<1> HIDE DEF t
<1>8. SameRows(S, col, [rows |-> col.rows, tabs |-> t]) /\ [col EXCEPT !.tabs = t] = [rows |-> col.rows, tabs |-> t]
  BY <1>7, OtherTabs DEF n
<1> QED BY <1>2, <1>8, Zenon

-----------------------------------------------------------------------------

\* What is known of a strip.
LEMMA FitsAre ==
  ASSUME NEW S, NEW s, Fits(S, s)
  PROVE  /\ Loose(S, s) /\ Len(s) \in Nat /\ DOMAIN s = 1..Len(s) /\ s \in Seq(Column(S))
         /\ \A c \in DOMAIN s : /\ Whole(S, s[c]) /\ s[c].rows # <<>> /\ s[c].rows \in Seq(S)
                                /\ Len(s[c].rows) \in Nat /\ Len(s[c].rows) >= 1
<1>1. Loose(S, s) /\ \A c \in DOMAIN s : s[c].rows # <<>>
  BY Zenon DEF Fits
<1>2. Len(s) \in Nat /\ DOMAIN s = 1..Len(s) /\ s \in Seq(Column(S)) /\ \A c \in DOMAIN s : Whole(S, s[c])
  BY <1>1, LooseIs
<1>3. ASSUME NEW q \in Seq(S), q # <<>> PROVE Len(q) \in Nat /\ Len(q) >= 1
  BY <1>3
<1>4. \A c \in DOMAIN s : s[c].rows \in Seq(S)
  BY <1>2, WholeIs
<1> QED BY <1>1, <1>2, <1>3, <1>4, Zenon

\* A column that has a window is not empty.
LEMMA NotEmpty ==
  ASSUME NEW S, NEW col, Whole(S, col)
  PROVE  /\ col.rows # <<>> <=> Len(col.rows) # 0
         /\ \A v \in ToSet(col.rows) : col.rows # <<>>
<1> DEFINE q == col.rows
<1>1. q \in Seq(S)
  BY WholeIs
<1> HIDE DEF q
<1>2. q # <<>> <=> Len(q) # 0
  BY <1>1
<1>3. \A v \in ToSet(q) : q # <<>>
  BY <1>1 DEF ToSet
<1> QED BY <1>2, <1>3 DEF q

\* u is s with col in the place of its column c.
Replaces(S, s, c, col, u) ==
  /\ Fits(S, u) /\ Len(u) = Len(s) /\ DOMAIN u = DOMAIN s
  /\ u[c] = col /\ \A d \in DOMAIN s \ {c} : u[d] = s[d]
  /\ Members(u) = (Members(s) \ ToSet(s[c].rows)) \cup ToSet(col.rows)

\* One column of a strip replaced by one of windows that no other column has.
LEMMA FitsReplaced ==
  ASSUME NEW S, NEW s, Fits(S, s), NEW c \in DOMAIN s, NEW col, Whole(S, col), col.rows # <<>>,
         \A d \in DOMAIN s \ {c} : ToSet(s[d].rows) \cap ToSet(col.rows) = {}
  PROVE  Replaces(S, s, c, col, [s EXCEPT ![c] = col])
<1> DEFINE u == [s EXCEPT ![c] = col]
<1>1. /\ Loose(S, s) /\ \A d \in DOMAIN s : s[d].rows # <<>>
  BY FitsAre
<1>2. /\ Loose(S, u) /\ Len(u) = Len(s) /\ DOMAIN u = DOMAIN s
      /\ u[c] = col /\ \A d \in DOMAIN s \ {c} : u[d] = s[d]
      /\ Members(u) = (Members(s) \ ToSet(s[c].rows)) \cup ToSet(col.rows)
  BY <1>1, ReplacedIs
<1> HIDE DEF u
<1>3. \A d \in DOMAIN u : u[d].rows # <<>>
  BY <1>1, <1>2
<1>4. Fits(S, u)
  BY <1>2, <1>3, Zenon DEF Fits
<1>5. Replaces(S, s, c, col, u)
  BY <1>2, <1>4 DEF Replaces
<1> QED BY <1>5 DEF u

\* One column replaced by one of the same windows.
LEMMA FitsReshaped ==
  ASSUME NEW S, NEW s, Fits(S, s), NEW c \in DOMAIN s, NEW col, SameRows(S, s[c], col)
  PROVE  LET u == [s EXCEPT ![c] = col]
         IN  Fits(S, u) /\ Members(u) = Members(s) /\ Len(u) = Len(s)
<1>1. /\ Whole(S, s[c]) /\ s[c].rows # <<>> /\ Len(s[c].rows) >= 1 /\ Len(s[c].rows) \in Nat
      /\ \A d, e \in DOMAIN s : d # e => ToSet(s[d].rows) \cap ToSet(s[e].rows) = {}
  BY FitsAre, LooseIs
<1>2. Whole(S, col) /\ ToSet(col.rows) = ToSet(s[c].rows) /\ Len(col.rows) = Len(s[c].rows)
  BY Zenon DEF SameRows
<1>3. col.rows # <<>>
  BY <1>1, <1>2, NotEmpty
<1>4. \A d \in DOMAIN s \ {c} : ToSet(s[d].rows) \cap ToSet(col.rows) = {}
  BY <1>1, <1>2
<1>5. ToSet(s[c].rows) \subseteq Members(s)
  BY MembersAre
<1> DEFINE u == [s EXCEPT ![c] = col]
<1>6. Fits(S, u) /\ Len(u) = Len(s) /\ Members(u) = (Members(s) \ ToSet(s[c].rows)) \cup ToSet(col.rows)
  <2>1. Whole(S, col) /\ col.rows # <<>>
    BY <1>2, <1>3
  <2>2. Replaces(S, s, c, col, u)
    BY <1>4, <2>1, FitsReplaced
  <2> HIDE DEF u
  <2> QED BY <2>2 DEF Replaces
<1> HIDE DEF u
<1>7. Members(u) = Members(s)
  BY <1>2, <1>5, <1>6
<1> QED BY <1>6, <1>7 DEF u

\* The column that has lost its last row goes.
LEMMA WithoutEmptyIs ==
  ASSUME NEW S, NEW s, Loose(S, s), \A c, d \in DOMAIN s : s[c].rows = <<>> /\ s[d].rows = <<>> => c = d
  PROVE  /\ Fits(S, WithoutEmpty(s)) /\ Members(WithoutEmpty(s)) = Members(s)
         /\ (\A c \in DOMAIN s : s[c].rows # <<>>) => WithoutEmpty(s) = s
<1> DEFINE empty == {c \in DOMAIN s : s[c].rows = <<>>}  e == CHOOSE c \in empty : TRUE
<1>1. WithoutEmpty(s) = IF empty = {} THEN s ELSE RemoveAt(s, e)
  BY DEF WithoutEmpty
<1>2. CASE empty = {}
  <2>1. WithoutEmpty(s) = s /\ \A c \in DOMAIN s : s[c].rows # <<>>
    BY <1>1, <1>2
  <2> QED BY <2>1, Zenon DEF Fits
<1>3. CASE empty # {}
  <2>1. e \in DOMAIN s /\ s[e].rows = <<>>
    BY <1>3
  <2>2. WithoutEmpty(s) = RemoveAt(s, e)
    BY <1>1, <1>3
  <2> HIDE DEF e, empty
  <2> DEFINE u == RemoveAt(s, e)
  <2>3. /\ Loose(S, u) /\ DOMAIN u = 1..(Len(s) - 1)
        /\ \A d \in 1..(Len(s) - 1) : u[d] = IF d < e THEN s[d] ELSE s[d + 1]
        /\ Members(u) = Members(s) \ ToSet(s[e].rows)
    BY <2>1, ColumnRemovedIs
  <2> HIDE DEF u
  <2>4. ToSet(s[e].rows) = {}
    BY <2>1 DEF ToSet
  <2>5. Len(s) \in Nat /\ DOMAIN s = 1..Len(s)
    BY LooseIs
  <2>6. \A d \in DOMAIN u : u[d].rows # <<>>
    <3> SUFFICES ASSUME NEW d \in DOMAIN u, u[d].rows = <<>> PROVE FALSE
      OBVIOUS
    <3> DEFINE a == IF d < e THEN d ELSE d + 1
    <3>1. a \in DOMAIN s /\ u[d] = s[a] /\ a # e
      BY <2>1, <2>3, <2>5
    <3> QED BY <2>1, <3>1
  <2>7. Fits(S, u)
    BY <2>3, <2>6, Zenon DEF Fits
  <2> QED BY <2>1, <2>2, <2>3, <2>4, <2>7 DEF u
<1> QED BY <1>2, <1>3

\* removeView takes out one window, and its column only when it was alone there.
LEMMA RemoveViewIs ==
  ASSUME NEW S, NEW s, Fits(S, s), NEW v
  PROVE  /\ Fits(S, RemoveView(s, v)) /\ Members(RemoveView(s, v)) = Members(s) \ {v}
         /\ v \in Members(s) /\ Len(s[ColumnOf(s, v)].rows) > 1 => Len(RemoveView(s, v)) = Len(s)
<1>1. Loose(S, s) /\ \A c \in DOMAIN s : s[c].rows # <<>>
  BY FitsAre
<1>2. CASE v \notin Members(s)
  <2>1. RemoveView(s, v) = s
    BY <1>2 DEF RemoveView, InStrip
  <2> QED BY <1>2, <2>1
<1>3. CASE v \in Members(s)
  <2> DEFINE c == ColumnOf(s, v)  col == s[c]  r == RowIn(col, v)  k == EraseRow(col, r)  u == [s EXCEPT ![c] = k]
  <2>1. /\ c \in DOMAIN s /\ Whole(S, col) /\ v \in ToSet(col.rows) /\ InStrip(s, v)
        /\ r \in 1..Len(col.rows) /\ col.rows[r] = v
    BY <1>1, <1>3, ColumnOfIs
  <2>2. RemoveView(s, v) = WithoutEmpty(u)
    BY <2>1 DEF RemoveView
  <2>3. Whole(S, k) /\ ToSet(k.rows) = ToSet(col.rows) \ {v} /\ Len(k.rows) = Len(col.rows) - 1
    BY <2>1, EraseRowIs
  <2>0. Len(col.rows) \in Nat
    BY <2>1, WholeIs
  <2>l. s[ColumnOf(s, v)] = col /\ s[c] = col
    OBVIOUS
  <2> HIDE DEF c, r, k, col
  <2>4. \A d, e \in DOMAIN s : d # e => ToSet(s[d].rows) \cap ToSet(s[e].rows) = {}
    BY <1>1, LooseIs
  <2>5. \A d \in DOMAIN s \ {c} : ToSet(s[d].rows) \cap ToSet(k.rows) = {}
    BY <2>1, <2>3, <2>4, <2>l
  <2>6. /\ Loose(S, u) /\ Len(u) = Len(s) /\ DOMAIN u = DOMAIN s
        /\ u[c] = k /\ \A d \in DOMAIN s \ {c} : u[d] = s[d]
        /\ Members(u) = (Members(s) \ ToSet(s[c].rows)) \cup ToSet(k.rows)
    <3>1. Loose(S, s) /\ c \in DOMAIN s /\ Whole(S, k)
      BY <1>1, <2>1, <2>3
    <3> QED BY <2>5, <3>1, ReplacedIs, Zenon
  <2> HIDE DEF u
  <2>7. Members(u) = Members(s) \ {v}
    <3>1. ToSet(col.rows) \subseteq Members(s)
      BY <2>1, <2>l, MembersAre
    <3> QED BY <2>1, <2>3, <2>6, <2>l, <3>1
  <2>8. \A d \in DOMAIN u : u[d].rows = <<>> => d = c
    BY <1>1, <2>6
  <2>9. \A d, e \in DOMAIN u : u[d].rows = <<>> /\ u[e].rows = <<>> => d = e
    BY <2>8
  <2>10. /\ Fits(S, WithoutEmpty(u)) /\ Members(WithoutEmpty(u)) = Members(u)
         /\ (\A d \in DOMAIN u : u[d].rows # <<>>) => WithoutEmpty(u) = u
    BY <2>6, <2>9, WithoutEmptyIs
  <2>11. ASSUME Len(col.rows) > 1 PROVE Len(WithoutEmpty(u)) = Len(s)
    <3>1. Len(k.rows) # 0
      <4>1. \A n \in Nat : n > 1 => n - 1 # 0
        OBVIOUS
      <4> QED BY <2>0, <2>3, <2>11, <4>1, Zenon
    <3>2. k.rows # <<>>
      BY <2>3, <3>1, NotEmpty
    <3>3. \A d \in DOMAIN u : u[d].rows # <<>>
      BY <2>6, <2>8, <3>2
    <3> QED BY <2>6, <2>10, <3>3
  <2>12. Len(s[ColumnOf(s, v)].rows) > 1 => Len(RemoveView(s, v)) = Len(s)
    BY <2>2, <2>11, <2>l
  <2> QED BY <2>2, <2>7, <2>10, <2>12
<1> QED BY <1>2, <1>3

\* insertView gives a window that is new a column of its own, wherever it is asked for.
LEMMA InsertViewIs ==
  ASSUME NEW S, NEW s, Fits(S, s), NEW v \in S, NEW c \in Int, NEW tabbed
  PROVE  LET u == InsertView(s, v, c, tabbed)
         IN  /\ Fits(S, u) /\ Members(u) = Members(s) \cup {v}
             /\ v \notin Members(s) => ColumnOf(u, v) \in DOMAIN u /\ u[ColumnOf(u, v)].rows = <<v>>
<1> DEFINE u == InsertView(s, v, c, tabbed)
<1>1. Loose(S, s) /\ Len(s) \in Nat /\ \A d \in DOMAIN s : s[d].rows # <<>>
  BY FitsAre
<1>2. CASE v \in Members(s)
  <2>1. u = s
    BY <1>2 DEF InsertView, InStrip
  <2> QED BY <1>2, <2>1
<1>3. CASE v \notin Members(s)
  <2> DEFINE at == Clamped(c, 1, Len(s) + 1)  col == NewColumn(v, tabbed)
  <2>1. u = InsertAt(s, at, col)
    BY <1>3 DEF InsertView, InStrip
  <2>2. at \in 1..(Len(s) + 1)
    BY <1>1 DEF Clamped
  <2>3. Whole(S, col) /\ col.rows = <<v>> /\ ToSet(col.rows) = {v} /\ col.rows # <<>>
    BY NewColumnIs
  <2> HIDE DEF at, col
  <2>4. Members(s) \cap ToSet(col.rows) = {}
    BY <1>3, <2>3
  <2> DEFINE k == InsertAt(s, at, col)
  <2>5. /\ Loose(S, k) /\ Len(k) = Len(s) + 1 /\ DOMAIN k = 1..(Len(s) + 1)
        /\ \A d \in 1..(Len(s) + 1) : k[d] = IF d < at THEN s[d] ELSE IF d = at THEN col ELSE s[d - 1]
        /\ Members(k) = Members(s) \cup ToSet(col.rows)
    BY <1>1, <2>2, <2>3, <2>4, ColumnInsertedIs
  <2> HIDE DEF k
  <2>6. \A d \in DOMAIN k : k[d].rows # <<>>
    <3>1. DOMAIN s = 1..Len(s)
      BY FitsAre
    <3> SUFFICES ASSUME NEW d \in 1..(Len(s) + 1) PROVE k[d].rows # <<>>
      BY <2>5
    <3>2. k[d] = IF d < at THEN s[d] ELSE IF d = at THEN col ELSE s[d - 1]
      BY <2>5
    <3>3. d < at => d \in DOMAIN s
      BY <1>1, <2>2, <3>1
    <3>4. ~(d < at) /\ d # at => d - 1 \in DOMAIN s
      BY <1>1, <2>2, <3>1
    <3> QED BY <1>1, <2>3, <3>2, <3>3, <3>4
  <2>7. Fits(S, k)
    BY <2>5, <2>6, Zenon DEF Fits
  <2>8. k[at] = col /\ at \in DOMAIN k
    BY <1>1, <2>2, <2>5
  <2>9. ColumnOf(k, v) = at
    <3>1. v \in Members(k) /\ v \in ToSet(k[at].rows)
      BY <2>3, <2>5, <2>8
    <3> QED BY <2>5, <2>8, <3>1, ColumnOfIs
  <2> QED BY <2>1, <2>3, <2>5, <2>7, <2>8, <2>9 DEF k
<1> QED BY <1>2, <1>3

\* v in row at of column c.
LEMMA RowFits ==
  ASSUME NEW S, NEW s, Fits(S, s), NEW v \in S, v \notin Members(s), NEW c \in DOMAIN s,
         NEW row \in 1..(Len(s[c].rows) + 1), NEW into
  PROVE  LET u == [s EXCEPT ![c] = InsertRow(s[c], row, v, into)]
         IN  /\ Fits(S, u) /\ Members(u) = Members(s) \cup {v}
             /\ DOMAIN u = DOMAIN s /\ Len(u[c].rows) = Len(s[c].rows) + 1
             /\ v \in ToSet(u[c].rows)
<1> DEFINE k == InsertRow(s[c], row, v, into)  u == [s EXCEPT ![c] = k]
<1>1. /\ Whole(S, s[c]) /\ Len(s[c].rows) \in Nat
      /\ \A d, e \in DOMAIN s : d # e => ToSet(s[d].rows) \cap ToSet(s[e].rows) = {}
  BY FitsAre, LooseIs
<1>2. \A d \in DOMAIN s : v \notin ToSet(s[d].rows) /\ ToSet(s[d].rows) \subseteq Members(s)
  BY MembersAre
<1>3. Whole(S, k) /\ ToSet(k.rows) = ToSet(s[c].rows) \cup {v} /\ Len(k.rows) = Len(s[c].rows) + 1
  <2>1. v \notin ToSet(s[c].rows)
    BY <1>2
  <2> DEFINE col == s[c]
  <2>2. Whole(S, col) /\ row \in 1..(Len(col.rows) + 1) /\ v \notin ToSet(col.rows)
    BY <1>1, <2>1
  <2> HIDE DEF col
  <2>3. LET x == InsertRow(col, row, v, into)
        IN  Whole(S, x) /\ ToSet(x.rows) = ToSet(col.rows) \cup {v} /\ Len(x.rows) = Len(col.rows) + 1
    BY <2>2, InsertRowIs
  <2> QED BY <2>3 DEF col
<1> HIDE DEF k
<1>4. k.rows # <<>>
  <2>1. v \in ToSet(k.rows)
    BY <1>3
  <2> QED BY <1>3, <2>1, NotEmpty
<1>5. \A d \in DOMAIN s \ {c} : ToSet(s[d].rows) \cap ToSet(k.rows) = {}
  BY <1>1, <1>2, <1>3
<1>6. /\ Fits(S, u) /\ Len(u) = Len(s) /\ DOMAIN u = DOMAIN s
      /\ u[c] = k /\ \A d \in DOMAIN s \ {c} : u[d] = s[d]
      /\ Members(u) = (Members(s) \ ToSet(s[c].rows)) \cup ToSet(k.rows)
  <2>1. Whole(S, k) /\ k.rows # <<>>
    BY <1>3, <1>4
  <2>2. Replaces(S, s, c, k, u)
    BY <1>5, <2>1, FitsReplaced
  <2> HIDE DEF u
  <2> QED BY <2>2 DEF Replaces
<1> HIDE DEF u
<1>7. Members(u) = Members(s) \cup {v}
  BY <1>2, <1>3, <1>6
<1> QED BY <1>3, <1>6, <1>7 DEF u, k

\* insertViewIntoColumn, which does nothing for a column that is gone.
LEMMA InsertViewIntoColumnIs ==
  ASSUME NEW S, NEW s, Fits(S, s), NEW v \in S, NEW c, NEW row \in Int
  PROVE  LET u == InsertViewIntoColumn(s, v, c, row)
         IN  /\ Fits(S, u) /\ Members(u) \subseteq Members(s) \cup {v} /\ Members(s) \subseteq Members(u)
             /\ v \notin Members(s) /\ c \in DOMAIN s =>
                  DOMAIN u = DOMAIN s /\ Len(u[c].rows) = Len(s[c].rows) + 1
<1> DEFINE u == InsertViewIntoColumn(s, v, c, row)
<1>1. CASE v \in Members(s) \/ c \notin DOMAIN s
  <2>1. u = s
    BY <1>1 DEF InsertViewIntoColumn, InStrip
  <2> QED BY <1>1, <2>1
<1>2. CASE v \notin Members(s) /\ c \in DOMAIN s
  <2> DEFINE at == Clamped(row, 1, Len(s[c].rows) + 1)
  <2>1. u = [s EXCEPT ![c] = InsertRow(s[c], at, v, NoGroup)]
    BY <1>2 DEF InsertViewIntoColumn, InStrip
  <2>2. at \in 1..(Len(s[c].rows) + 1)
    <3>1. Len(s[c].rows) \in Nat
      BY <1>2, FitsAre
    <3> QED BY <3>1 DEF Clamped
  <2> HIDE DEF at
  <2> DEFINE k == [s EXCEPT ![c] = InsertRow(s[c], at, v, NoGroup)]
  <2>3. /\ Fits(S, k) /\ Members(k) = Members(s) \cup {v}
        /\ DOMAIN k = DOMAIN s /\ Len(k[c].rows) = Len(s[c].rows) + 1
        /\ v \in ToSet(k[c].rows)
    BY <1>2, <2>2, RowFits
  <2> HIDE DEF k
  <2> QED BY <2>1, <2>3 DEF k
<1> QED BY <1>1, <1>2

\* insertTab, where canInsertTab allows it.
LEMMA InsertTabIs ==
  ASSUME NEW S, NEW s, Fits(S, s), NEW v \in S, NEW c, NEW row \in Int, NEW member,
         CanInsertTab(s, v, c, row, member)
  PROVE  Fits(S, InsertTab(s, v, c, row, member)) /\ Members(InsertTab(s, v, c, row, member)) = Members(s) \cup {v}
<1> DEFINE r == RowIn(s[c], member)  g == GroupAt(s[c].tabs, r)  into == GroupIndex(s[c].tabs, r)
<1>1. /\ v \notin Members(s) /\ c \in DOMAIN s /\ Grouped(s[c].tabs, r) /\ row >= g.first /\ row <= End(g)
  BY DEF CanInsertTab, InStrip
<1>2. Groups(s[c].tabs, Len(s[c].rows)) /\ Len(s[c].rows) \in Nat
  BY <1>1, FitsAre, WholeIs
<1>3. into \in DOMAIN s[c].tabs /\ g = s[c].tabs[into]
  BY <1>1, GroupOf DEF GroupAt
<1>4. InsertTab(s, v, c, row, member) = [s EXCEPT ![c] = InsertRow(s[c], row, v, into)]
  BY DEF InsertTab
<1> HIDE DEF into, g, r
<1>5. g \in TabGroup /\ Within(g, Len(s[c].rows))
  BY <1>2, <1>3, GroupsAre
<1>6. row \in 1..(Len(s[c].rows) + 1)
  BY <1>1, <1>2, <1>5 DEF Within, TabGroup, End
<1> DEFINE k == [s EXCEPT ![c] = InsertRow(s[c], row, v, into)]
<1>7. /\ Fits(S, k) /\ Members(k) = Members(s) \cup {v}
      /\ DOMAIN k = DOMAIN s /\ Len(k[c].rows) = Len(s[c].rows) + 1
      /\ v \in ToSet(k[c].rows)
  BY <1>1, <1>6, RowFits
<1> HIDE DEF k
<1> QED BY <1>4, <1>7 DEF k

\* A tab goes in beside the active tab of its group or after the last.
LEMMA NewTabRowIs ==
  ASSUME NEW rows \in Nat, NEW g \in TabGroup, Within(g, rows), NEW after \in BOOLEAN
  PROVE  NewTabRow(g, after) \in 1..(rows + 1)
<1>1. g.first \in Nat /\ g.count \in Nat /\ g.active \in Nat
  BY DEF TabGroup
<1>2. g.active + 1 \in 1..(rows + 1) /\ g.first + g.count \in 1..(rows + 1)
  BY <1>1 DEF Within
<1> QED BY <1>2 DEF NewTabRow, End

-----------------------------------------------------------------------------

\* A strip of the same windows or fewer.
Reshapes(S, s, u) == Fits(S, u) /\ Members(u) \subseteq Members(s)

\* Where a window joins the column col: below its rows, or in the group that holds row `at`.
LEMMA JoiningRow ==
  ASSUME NEW S, NEW col, Whole(S, col), NEW at \in 1..Len(col.rows), NEW after \in BOOLEAN, NEW row, NEW into,
         into = IF Grouped(col.tabs, at) THEN GroupIndex(col.tabs, at) ELSE NoGroup,
         row = IF into = NoGroup THEN at + 1 ELSE NewTabRow(col.tabs[into], after)
  PROVE  row \in 1..(Len(col.rows) + 1)
<1> DEFINE n == Len(col.rows)  tabs == col.tabs
<1>1. n \in Nat /\ Groups(tabs, n) /\ at \in 1..n
  BY WholeIs
<1>2. into = NoGroup => row = at + 1
  OBVIOUS
<1>3. into # NoGroup => row = NewTabRow(tabs[into], after) /\ Grouped(tabs, at) /\ into = GroupIndex(tabs, at)
  OBVIOUS
<1> HIDE DEF n, tabs
<1>4. CASE into = NoGroup
  BY <1>1, <1>2, <1>4 DEF n
<1>5. CASE into # NoGroup
  <2>1. into \in DOMAIN tabs
    BY <1>3, <1>5, GroupOf
  <2>2. tabs[into] \in TabGroup /\ Within(tabs[into], n)
    BY <1>1, <2>1, GroupsAre
  <2>3. NewTabRow(tabs[into], after) \in 1..(n + 1)
    BY <1>1, <2>2, NewTabRowIs
  <2> QED BY <1>3, <1>5, <2>3 DEF n
<1> QED BY <1>4, <1>5

\* consume: the window joins the column beside its own.
LEMMA ConsumeIs ==
  ASSUME NEW S, NEW s, Fits(S, s), NEW v, NEW d \in {-1, 1}, NEW after \in BOOLEAN
  PROVE  Reshapes(S, s, Consume(s, v, d, after))
<1> DEFINE c == ColumnOf(s, v)  e == c + d
           to == s[e]  last == Len(to.rows)
           into == IF Grouped(to.tabs, last) THEN GroupIndex(to.tabs, last) ELSE NoGroup
           row == IF into = NoGroup THEN last + 1 ELSE NewTabRow(to.tabs[into], after)
           x == EraseRow(s[c], RowIn(s[c], v))  y == InsertRow(to, row, v, into)
<1>0. Consume(s, v, d, after) =
        IF c = 0 \/ e \notin DOMAIN s THEN s ELSE WithoutEmpty([s EXCEPT ![c] = x, ![e] = y])
  BY DEF Consume
<1>1. CASE c = 0 \/ e \notin DOMAIN s
  BY <1>0, <1>1 DEF Reshapes
<1>2. CASE ~(c = 0 \/ e \notin DOMAIN s)
  <2>0. Loose(S, s) /\ \A k \in DOMAIN s : s[k].rows # <<>>
    BY FitsAre
  <2>1. v \in Members(s)
    BY <1>2, <2>0, NotInStrip
  <2>2. /\ c \in DOMAIN s /\ Whole(S, s[c]) /\ v \in ToSet(s[c].rows)
        /\ RowIn(s[c], v) \in 1..Len(s[c].rows) /\ s[c].rows[RowIn(s[c], v)] = v
        /\ \A k \in DOMAIN s : v \in ToSet(s[k].rows) => k = c
    BY <2>0, <2>1, ColumnOfIs
  <2>3. c # e /\ e \in DOMAIN s
    <3>1. c \in Int
      BY <2>0, <2>2, LooseIs
    <3> QED BY <1>2, <3>1
  <2>4. Whole(S, to) /\ Len(to.rows) \in Nat /\ Len(to.rows) >= 1
    BY <2>3, FitsAre
  <2>5. v \in S
    BY <2>0, <2>1, LooseIs
  <2>6. row \in 1..(Len(to.rows) + 1)
    <3>1. last \in 1..Len(to.rows)
      BY <2>4
    <3> QED BY <2>4, <3>1, JoiningRow
  <2>7. Whole(S, x) /\ ToSet(x.rows) = ToSet(s[c].rows) \ {v}
    <3> DEFINE col == s[c]  r == RowIn(col, v)
    <3>1. Whole(S, col) /\ r \in 1..Len(col.rows) /\ col.rows[r] = v
      BY <2>2
    <3>2. x = EraseRow(col, r)
      OBVIOUS
    <3> HIDE DEF col, r, x
    <3>3. Whole(S, x) /\ ToSet(x.rows) = ToSet(col.rows) \ {v}
      BY <3>1, <3>2, EraseRowIs
    <3> QED BY <3>3 DEF col
  <2>8. v \notin ToSet(to.rows)
    BY <2>2, <2>3
  <2> HIDE DEF c, x, row, into
  <2>9. Whole(S, y) /\ ToSet(y.rows) = ToSet(to.rows) \cup {v}
    <3> HIDE DEF to
    <3>1. LET k == InsertRow(to, row, v, into)
          IN  Whole(S, k) /\ ToSet(k.rows) = ToSet(to.rows) \cup {v} /\ Len(k.rows) = Len(to.rows) + 1
      BY <2>4, <2>5, <2>6, <2>8, InsertRowIs
    <3> QED BY <3>1
  <2>t. ToSet(to.rows) = ToSet(s[e].rows)
    OBVIOUS
  <2> HIDE DEF y, to, e
  <2>10. \A k, l \in DOMAIN s : k # l => ToSet(s[k].rows) \cap ToSet(s[l].rows) = {}
    BY <2>0, LooseIs
  <2> DEFINE p == [s EXCEPT ![c] = x]  q == [p EXCEPT ![e] = y]
  <2>11. \A k \in DOMAIN s \ {c} : ToSet(s[k].rows) \cap ToSet(x.rows) = {}
    BY <2>2, <2>7, <2>10
  <2>12. /\ Loose(S, p) /\ Len(p) = Len(s) /\ DOMAIN p = DOMAIN s
         /\ p[c] = x /\ \A k \in DOMAIN s \ {c} : p[k] = s[k]
         /\ Members(p) = (Members(s) \ ToSet(s[c].rows)) \cup ToSet(x.rows)
    <3>1. Whole(S, x) /\ c \in DOMAIN s /\ Loose(S, s)
      BY <2>0, <2>2, <2>7
    <3> QED BY <2>11, <3>1, ReplacedIs
  <2>13. WithoutEmpty([s EXCEPT ![c] = x, ![e] = y]) = WithoutEmpty(q)
    OBVIOUS
  <2> HIDE DEF p
  <2>14. \A k \in DOMAIN p \ {e} : ToSet(p[k].rows) \cap ToSet(y.rows) = {}
    <3> SUFFICES ASSUME NEW k \in DOMAIN p \ {e} PROVE ToSet(p[k].rows) \cap ToSet(y.rows) = {}
      OBVIOUS
    <3>1. v \notin ToSet(p[k].rows) /\ ToSet(p[k].rows) \subseteq ToSet(s[k].rows) /\ k \in DOMAIN s
      <4>1. CASE k = c
        BY <2>2, <2>7, <2>12, <4>1
      <4>2. CASE k # c
        BY <2>2, <2>12, <4>2
      <4> QED BY <4>1, <4>2
    <3>2. ToSet(s[k].rows) \cap ToSet(s[e].rows) = {}
      BY <2>3, <2>10, <3>1
    <3> QED BY <2>9, <2>t, <3>1, <3>2
  <2>15. /\ Loose(S, q) /\ Len(q) = Len(p) /\ DOMAIN q = DOMAIN p
         /\ q[e] = y /\ \A k \in DOMAIN p \ {e} : q[k] = p[k]
         /\ Members(q) = (Members(p) \ ToSet(p[e].rows)) \cup ToSet(y.rows)
    <3>1. Whole(S, y) /\ e \in DOMAIN p /\ Loose(S, p)
      BY <2>3, <2>9, <2>12
    <3> QED BY <2>14, <3>1, ReplacedIs
  <2> HIDE DEF q
  <2>16. Members(q) \subseteq Members(s)
    <3>1. ToSet(s[e].rows) \subseteq Members(s)
      BY <2>3, MembersAre
    <3>2. Members(p) \subseteq Members(s)
      BY <2>1, <2>2, <2>7, <2>12, MembersAre
    <3> QED BY <2>1, <2>9, <2>15, <2>t, <3>1, <3>2
  <2>17. \A k \in DOMAIN q : q[k].rows = <<>> => k = c
    <3> SUFFICES ASSUME NEW k \in DOMAIN q, k # c PROVE q[k].rows # <<>>
      OBVIOUS
    <3>1. CASE k = e
      <4>1. v \in ToSet(y.rows)
        BY <2>9
      <4>2. y.rows # <<>>
        BY <2>9, <4>1, NotEmpty
      <4> QED BY <2>15, <3>1, <4>2
    <3>2. CASE k # e
      <4>1. q[k] = s[k] /\ k \in DOMAIN s
        BY <2>12, <2>15, <3>2
      <4> QED BY <2>0, <4>1
    <3> QED BY <3>1, <3>2
  <2>18. \A k, l \in DOMAIN q : q[k].rows = <<>> /\ q[l].rows = <<>> => k = l
    BY <2>17
  <2>19. Fits(S, WithoutEmpty(q)) /\ Members(WithoutEmpty(q)) = Members(q)
    BY <2>15, <2>18, WithoutEmptyIs
  <2> QED BY <1>0, <1>2, <2>13, <2>16, <2>19 DEF Reshapes
<1> QED BY <1>1, <1>2

\* consumeFrom: a window of the column beside joins it.
LEMMA ConsumeFromIs ==
  ASSUME NEW S, NEW s, Fits(S, s), NEW v, NEW d \in {-1, 1}, NEW after \in BOOLEAN
  PROVE  Reshapes(S, s, ConsumeFrom(s, v, d, after))
<1> DEFINE c == ColumnOf(s, v)  e == c + d
           pulled == EntryTab(s[e])  taken == RemoveView(s, pulled)
           at == RowOf(taken, v)  tabs == TabsAt(taken, v)
           into == IF Grouped(tabs, at) THEN GroupIndex(tabs, at) ELSE NoGroup
           row == IF into = NoGroup THEN at + 1 ELSE NewTabRow(tabs[into], after)
           k == ColumnOf(taken, v)
<1>0. ConsumeFrom(s, v, d, after) =
        IF c = 0 \/ e \notin DOMAIN s THEN s ELSE [taken EXCEPT ![k] = InsertRow(taken[k], row, pulled, into)]
  BY DEF ConsumeFrom
<1>1. CASE c = 0 \/ e \notin DOMAIN s
  BY <1>0, <1>1 DEF Reshapes
<1>2. CASE ~(c = 0 \/ e \notin DOMAIN s)
  <2>0. Loose(S, s)
    BY FitsAre
  <2>1. v \in Members(s)
    BY <1>2, <2>0, NotInStrip
  <2>2. c \in DOMAIN s /\ v \in ToSet(s[c].rows) /\ \A j \in DOMAIN s : v \in ToSet(s[j].rows) => j = c
    BY <2>0, <2>1, ColumnOfIs
  <2>3. c # e /\ e \in DOMAIN s
    <3>1. c \in Int
      BY <2>0, <2>2, LooseIs
    <3> QED BY <1>2, <3>1
  <2>4. pulled \in ToSet(s[e].rows)
    <3> DEFINE col == s[e]  u == Unit(col.tabs, 1)  n == Len(col.rows)
    <3>1. Whole(S, col) /\ n \in Nat /\ n >= 1
      BY <2>3, FitsAre
    <3>2. pulled = col.rows[u.active]
      BY DEF EntryTab
    <3>3. Groups(col.tabs, n) /\ ToSet(col.rows) = {col.rows[i] : i \in 1..n}
      BY <3>1, WholeIs
    <3>l. ToSet(s[e].rows) = ToSet(col.rows)
      OBVIOUS
    <3> HIDE DEF col, n, pulled
    <3>4. u \in TabGroup /\ Within(u, n)
      <4>1. 1 \in 1..n
        BY <3>1
      <4> QED BY <3>1, <3>3, <4>1, UnitIs
    <3>5. u.active \in 1..n
      BY <3>1, <3>4 DEF Within, TabGroup
    <3> QED BY <3>2, <3>3, <3>5, <3>l
  <2>5. pulled # v /\ pulled \in Members(s) /\ pulled \in S
    BY <2>0, <2>2, <2>3, <2>4, MembersAre, LooseIs
  <2> HIDE DEF pulled
  <2>6. Fits(S, taken) /\ Members(taken) = Members(s) \ {pulled}
    BY RemoveViewIs
  <2> HIDE DEF taken
  <2>7. Loose(S, taken) /\ v \in Members(taken)
    BY <2>1, <2>5, <2>6, FitsAre
  <2>8. /\ k \in DOMAIN taken /\ Whole(S, taken[k]) /\ at \in 1..Len(taken[k].rows) /\ tabs = taken[k].tabs
    BY <2>7, ColumnOfIs DEF TabsAt
  <2> HIDE DEF k, at
  <2>9. row \in 1..(Len(taken[k].rows) + 1)
    <3> DEFINE col == taken[k]
    <3>1. Whole(S, col) /\ at \in 1..Len(col.rows) /\ tabs = col.tabs
      BY <2>8
    <3>2. /\ into = IF Grouped(tabs, at) THEN GroupIndex(tabs, at) ELSE NoGroup
          /\ row = IF into = NoGroup THEN at + 1 ELSE NewTabRow(tabs[into], after)
      OBVIOUS
    <3>l. Len(taken[k].rows) = Len(col.rows)
      OBVIOUS
    <3> HIDE DEF col, into, row, tabs
    <3>3. /\ into = IF Grouped(col.tabs, at) THEN GroupIndex(col.tabs, at) ELSE NoGroup
          /\ row = IF into = NoGroup THEN at + 1 ELSE NewTabRow(col.tabs[into], after)
      BY <3>1, <3>2
    <3>4. row \in 1..(Len(col.rows) + 1)
      BY <3>1, <3>3, JoiningRow
    <3> QED BY <3>4, <3>l
  <2> HIDE DEF row, into
  <2> DEFINE u == [taken EXCEPT ![k] = InsertRow(taken[k], row, pulled, into)]
  <2>10. /\ Fits(S, u) /\ Members(u) = Members(taken) \cup {pulled}
         /\ DOMAIN u = DOMAIN taken /\ Len(u[k].rows) = Len(taken[k].rows) + 1
         /\ pulled \in ToSet(u[k].rows)
    <3>1. pulled \notin Members(taken) /\ k \in DOMAIN taken
      BY <2>6, <2>8
    <3>2. pulled \in S /\ Fits(S, taken)
      BY <2>5, <2>6
    <3> QED BY <2>9, <3>1, <3>2, RowFits
  <2>11. ConsumeFrom(s, v, d, after) = u
    BY <1>0, <1>2
  <2> HIDE DEF u
  <2>12. Members(u) \subseteq Members(s)
    BY <2>5, <2>6, <2>10
  <2> QED BY <2>10, <2>11, <2>12 DEF Reshapes
<1> QED BY <1>1, <1>2

\* expel: the window gets a column of its own.
LEMMA ExpelIs ==
  ASSUME NEW S, NEW s, Fits(S, s), NEW v, NEW d, NEW tabbed
  PROVE  Reshapes(S, s, Expel(s, v, d, tabbed))
<1> DEFINE c == ColumnOf(s, v)  r == RemoveView(s, v)  at == IF d > 0 THEN c + 1 ELSE c  col == NewColumn(v, tabbed)
<1>0. Expel(s, v, d, tabbed) = IF c = 0 \/ Len(s[c].rows) <= 1 THEN s ELSE InsertAt(r, at, col)
  BY DEF Expel
<1>1. CASE c = 0 \/ Len(s[c].rows) <= 1
  BY <1>0, <1>1 DEF Reshapes
<1>2. CASE ~(c = 0 \/ Len(s[c].rows) <= 1)
  <2>0. Loose(S, s) /\ Len(s) \in Nat
    BY FitsAre
  <2>1. v \in Members(s)
    BY <1>2, <2>0, NotInStrip
  <2>2. c \in 1..Len(s) /\ c \in DOMAIN s
    BY <2>0, <2>1, ColumnOfIs
  <2>3. Len(s[c].rows) > 1
    <3>1. Len(s[c].rows) \in Nat
      BY <2>2, FitsAre
    <3> QED BY <1>2, <3>1
  <2>4. Fits(S, r) /\ Members(r) = Members(s) \ {v} /\ Len(r) = Len(s)
    BY <2>1, <2>3, RemoveViewIs
  <2>5. v \in S
    BY <2>0, <2>1, LooseIs
  <2>6. Whole(S, col) /\ ToSet(col.rows) = {v} /\ col.rows # <<>>
    BY <2>5, NewColumnIs
  <2> HIDE DEF r, c, col
  <2>7. at \in 1..(Len(r) + 1)
    BY <2>0, <2>2, <2>4
  <2> HIDE DEF at
  <2>8. Members(r) \cap ToSet(col.rows) = {} /\ Loose(S, r)
    BY <2>4, <2>6, FitsAre
  <2> DEFINE u == InsertAt(r, at, col)
  <2>9. /\ Loose(S, u) /\ Len(u) = Len(r) + 1 /\ DOMAIN u = 1..(Len(r) + 1)
        /\ \A i \in 1..(Len(r) + 1) : u[i] = IF i < at THEN r[i] ELSE IF i = at THEN col ELSE r[i - 1]
        /\ Members(u) = Members(r) \cup ToSet(col.rows)
    <3>1. Whole(S, col)
      BY <2>6
    <3> QED BY <2>7, <2>8, <3>1, ColumnInsertedIs
  <2>10. Expel(s, v, d, tabbed) = u
    BY <1>0, <1>2
  <2> HIDE DEF u
  <2>11. \A i \in DOMAIN u : u[i].rows # <<>>
    <3> SUFFICES ASSUME NEW i \in 1..(Len(r) + 1) PROVE u[i].rows # <<>>
      BY <2>9
    <3>1. DOMAIN r = 1..Len(r) /\ Len(r) \in Nat /\ \A j \in DOMAIN r : r[j].rows # <<>>
      BY <2>4, FitsAre
    <3>2. u[i] = IF i < at THEN r[i] ELSE IF i = at THEN col ELSE r[i - 1]
      BY <2>9
    <3>3. i < at => i \in DOMAIN r
      BY <2>7, <3>1
    <3>4. ~(i < at) /\ i # at => i - 1 \in DOMAIN r
      BY <2>7, <3>1
    <3> QED BY <2>6, <3>1, <3>2, <3>3, <3>4
  <2>12. Fits(S, u)
    BY <2>9, <2>11, Zenon DEF Fits
  <2>13. Members(u) \subseteq Members(s)
    BY <2>1, <2>4, <2>6, <2>9
  <2> QED BY <2>10, <2>12, <2>13 DEF Reshapes
<1> QED BY <1>1, <1>2

\* A change of one column that keeps its windows.
LEMMA ColumnReshaped ==
  ASSUME NEW S, NEW s, Fits(S, s), NEW c \in DOMAIN s, NEW col, SameRows(S, s[c], col)
  PROVE  Reshapes(S, s, [s EXCEPT ![c] = col])
<1> DEFINE u == [s EXCEPT ![c] = col]
<1>1. Fits(S, u) /\ Members(u) = Members(s) /\ Len(u) = Len(s)
  BY FitsReshaped
<1> HIDE DEF u
<1>2. Reshapes(S, s, u)
  BY <1>1 DEF Reshapes
<1> QED BY <1>2 DEF u

\* moveViewVertical, at either end of a column too.
LEMMA MoveViewVerticalIs ==
  ASSUME NEW S, NEW s, Fits(S, s), NEW v, NEW d \in {-1, 1}
  PROVE  Reshapes(S, s, MoveViewVertical(s, v, d))
<1> DEFINE c == ColumnOf(s, v)  col == MoveWithinColumn(s[c], RowIn(s[c], v), d)
<1>0. MoveViewVertical(s, v, d) = IF InStrip(s, v) THEN [s EXCEPT ![c] = col] ELSE s
  BY DEF MoveViewVertical
<1>1. CASE ~InStrip(s, v)
  BY <1>0, <1>1 DEF Reshapes
<1>2. CASE InStrip(s, v)
  <2>1. Loose(S, s) /\ v \in Members(s)
    BY <1>2, FitsAre DEF InStrip
  <2>2. c \in DOMAIN s /\ Whole(S, s[c]) /\ RowIn(s[c], v) \in 1..Len(s[c].rows)
    BY <2>1, ColumnOfIs
  <2>3. SameRows(S, s[c], col)
    BY <2>2, MovedWithin
  <2> HIDE DEF c, col
  <2>4. Reshapes(S, s, [s EXCEPT ![c] = col])
    BY <2>2, <2>3, ColumnReshaped
  <2> QED BY <1>0, <1>2, <2>4
<1> QED BY <1>1, <1>2

\* moveTab: a tab trades places with the next of its group.
LEMMA MoveTabIs ==
  ASSUME NEW S, NEW s, Fits(S, s), NEW v, NEW d \in {-1, 1}
  PROVE  Reshapes(S, s, MoveTab(s, v, d))
<1> DEFINE c == ColumnOf(s, v)  row == RowOf(s, v)  col == SwapRows(s[c], row, row + d)
           moves == IsTab(s, v) /\ Covers(GroupAt(s[c].tabs, row), row + d)
<1>0. MoveTab(s, v, d) = IF moves THEN [s EXCEPT ![c] = col] ELSE s
  BY DEF MoveTab
<1>1. CASE ~moves
  BY <1>0, <1>1 DEF Reshapes
<1>2. CASE moves
  <2>1. Loose(S, s) /\ v \in Members(s)
    BY <1>2, FitsAre DEF InStrip, IsTab
  <2>2. c \in DOMAIN s /\ Whole(S, s[c]) /\ row \in 1..Len(s[c].rows)
    BY <2>1, ColumnOfIs
  <2>3. row + d \in 1..Len(s[c].rows)
    <3> DEFINE tabs == s[c].tabs  n == Len(s[c].rows)  g == GroupIndex(tabs, row)
    <3>1. Groups(tabs, n) /\ n \in Nat
      BY <2>2, WholeIs
    <3>2. Grouped(tabs, row) /\ Covers(tabs[g], row + d)
      BY <1>2 DEF IsTab, GroupAt, TabsAt
    <3>3. g \in DOMAIN tabs
      BY <3>2, GroupOf
    <3> HIDE DEF tabs, n, g
    <3>4. tabs[g] \in TabGroup /\ Within(tabs[g], n)
      BY <3>1, <3>3, GroupsAre
    <3>5. row \in Int
      BY <2>2
    <3>6. row + d \in 1..n
      BY <3>1, <3>2, <3>4, <3>5 DEF Within, Covers, End, TabGroup
    <3> QED BY <3>6 DEF n
  <2>4. SameRows(S, s[c], col)
    BY <2>2, <2>3, SwapRowsIs
  <2> HIDE DEF c, col
  <2>5. Reshapes(S, s, [s EXCEPT ![c] = col])
    BY <2>2, <2>4, ColumnReshaped
  <2> QED BY <1>0, <1>2, <2>5
<1> QED BY <1>1, <1>2

\* New tab groups for one column.
LEMMA TabsReplaced ==
  ASSUME NEW S, NEW s, Fits(S, s), NEW c \in DOMAIN s, NEW tabs, Groups(tabs, Len(s[c].rows))
  PROVE  LET u == [s EXCEPT ![c].tabs = tabs] IN Reshapes(S, s, u) /\ Members(u) = Members(s)
<1> DEFINE col == s[c]  k == [rows |-> col.rows, tabs |-> tabs]
<1>1. Whole(S, col) /\ s \in Seq(Column(S)) /\ Groups(tabs, Len(col.rows))
  BY FitsAre
<1>2. [s EXCEPT ![c].tabs = tabs] = [s EXCEPT ![c] = [col EXCEPT !.tabs = tabs]]
  BY <1>1
<1>l. s[c] = col
  OBVIOUS
<1> HIDE DEF col
<1>3. SameRows(S, col, k) /\ [col EXCEPT !.tabs = tabs] = k
  BY <1>1, OtherTabs
<1> HIDE DEF k
<1>4. SameRows(S, s[c], k)
  BY <1>3, <1>l
<1>5. Reshapes(S, s, [s EXCEPT ![c] = k])
  BY <1>4, ColumnReshaped
<1>6. Members([s EXCEPT ![c] = k]) = Members(s)
  BY <1>4, FitsReshaped
<1> QED BY <1>2, <1>3, <1>5, <1>6

\* adoptTabs: a column takes up groups that fit its rows.
LEMMA AdoptTabsIs ==
  ASSUME NEW S, NEW s, Fits(S, s), NEW c \in DOMAIN s, NEW tabs, Groups(tabs, Len(s[c].rows))
  PROVE  Reshapes(S, s, AdoptTabs(s, c, tabs)) /\ Members(AdoptTabs(s, c, tabs)) = Members(s)
BY TabsReplaced DEF AdoptTabs

\* selectTab shows a tab.
LEMMA SelectTabIs ==
  ASSUME NEW S, NEW s, Fits(S, s), NEW v
  PROVE  Reshapes(S, s, SelectTab(s, v)) /\ Members(SelectTab(s, v)) = Members(s)
<1> DEFINE c == ColumnOf(s, v)  tabs == SelectRow(s[c].tabs, RowOf(s, v))
<1>0. SelectTab(s, v) = IF InStrip(s, v) THEN [s EXCEPT ![c].tabs = tabs] ELSE s
  BY DEF SelectTab
<1>1. CASE ~InStrip(s, v)
  BY <1>0, <1>1 DEF Reshapes
<1>2. CASE InStrip(s, v)
  <2>1. Loose(S, s) /\ v \in Members(s)
    BY <1>2, FitsAre DEF InStrip
  <2>2. c \in DOMAIN s /\ Whole(S, s[c]) /\ RowOf(s, v) \in 1..Len(s[c].rows)
    BY <2>1, ColumnOfIs
  <2>3. Groups(s[c].tabs, Len(s[c].rows)) /\ Len(s[c].rows) \in Nat /\ RowOf(s, v) \in Nat
    BY <2>2, WholeIs
  <2>4. Groups(tabs, Len(s[c].rows))
    BY <2>3, SelectIs
  <2> HIDE DEF c, tabs
  <2>5. /\ Reshapes(S, s, [s EXCEPT ![c].tabs = tabs])
        /\ Members([s EXCEPT ![c].tabs = tabs]) = Members(s)
    BY <2>2, <2>4, TabsReplaced
  <2> QED BY <1>0, <1>2, <2>5
<1> QED BY <1>1, <1>2

\* setTabbed, on and off.
LEMMA SetTabbedIs ==
  ASSUME NEW S, NEW s, Fits(S, s), NEW v, NEW tabbed \in BOOLEAN
  PROVE  Reshapes(S, s, SetTabbed(s, v, tabbed))
<1> DEFINE c == ColumnOf(s, v)  col == Regrouped(s[c], RowIn(s[c], v))  tabs == Dissolve(s[c].tabs, RowOf(s, v))
<1>0. IsTab(s, v) \in BOOLEAN /\ (IsTab(s, v) => InStrip(s, v))
  BY DEF IsTab
<1>1. CASE ~InStrip(s, v) \/ IsTab(s, v) = tabbed
  <2>1. SetTabbed(s, v, tabbed) = s
    BY <1>0, <1>1 DEF SetTabbed
  <2> QED BY <2>1 DEF Reshapes
<1>2. CASE InStrip(s, v) /\ tabbed /\ ~IsTab(s, v)
  <2>0. SetTabbed(s, v, tabbed) = [s EXCEPT ![c] = col]
    BY <1>0, <1>2 DEF SetTabbed
  <2>1. Loose(S, s) /\ v \in Members(s)
    BY <1>2, FitsAre DEF InStrip
  <2>2. c \in DOMAIN s /\ Whole(S, s[c]) /\ RowIn(s[c], v) \in 1..Len(s[c].rows) /\ RowIn(s[c], v) = RowOf(s, v)
    BY <2>1, ColumnOfIs
  <2>3. ~Grouped(s[c].tabs, RowIn(s[c], v))
    BY <1>2, <2>2 DEF IsTab, TabsAt
  <2>4. SameRows(S, s[c], col)
    BY <2>2, <2>3, RegroupedIs
  <2> HIDE DEF c, col
  <2>5. Reshapes(S, s, [s EXCEPT ![c] = col])
    BY <2>2, <2>4, ColumnReshaped
  <2> QED BY <2>0, <2>5
<1>3. CASE IsTab(s, v) /\ ~tabbed
  <2>0. SetTabbed(s, v, tabbed) = [s EXCEPT ![c].tabs = tabs]
    BY <1>0, <1>3 DEF SetTabbed
  <2>1. Loose(S, s) /\ v \in Members(s)
    BY <1>3, FitsAre DEF InStrip, IsTab
  <2>2. c \in DOMAIN s /\ Whole(S, s[c])
    BY <2>1, ColumnOfIs
  <2>3. Groups(s[c].tabs, Len(s[c].rows)) /\ Len(s[c].rows) \in Nat
    BY <2>2, WholeIs
  <2>4. Groups(tabs, Len(s[c].rows))
    BY <2>3, DissolveIs
  <2> HIDE DEF c, tabs
  <2>5. Reshapes(S, s, [s EXCEPT ![c].tabs = tabs])
    BY <2>2, <2>4, TabsReplaced
  <2> QED BY <2>0, <2>5
<1> QED BY <1>0, <1>1, <1>2, <1>3

\* moveColumn to any place of the strip.
LEMMA MoveColumnIs ==
  ASSUME NEW S, NEW s, Fits(S, s), NEW from \in DOMAIN s, NEW to \in DOMAIN s
  PROVE  Reshapes(S, s, MoveColumn(s, from, to))
<1> DEFINE r == RemoveAt(s, from)  col == s[from]  u == InsertAt(r, to, col)
<1>1. /\ Loose(S, s) /\ Len(s) \in Nat /\ DOMAIN s = 1..Len(s)
      /\ Whole(S, col) /\ \A i \in DOMAIN s : s[i].rows # <<>>
  BY FitsAre
<1>2. /\ Loose(S, r) /\ Len(r) = Len(s) - 1 /\ DOMAIN r = 1..(Len(s) - 1)
      /\ \A i \in 1..(Len(s) - 1) : r[i] = IF i < from THEN s[i] ELSE s[i + 1]
      /\ Members(r) = Members(s) \ ToSet(s[from].rows)
  BY <1>1, ColumnRemovedIs
<1>3. Members(r) \cap ToSet(col.rows) = {} /\ col.rows # <<>> /\ ToSet(col.rows) \subseteq Members(s)
  BY <1>1, <1>2, MembersAre
<1>4. to \in 1..(Len(r) + 1)
  BY <1>1, <1>2
<1>5. Members(r) \subseteq Members(s)
  BY <1>2
<1>6. \A i \in DOMAIN r : r[i].rows # <<>>
  <2> SUFFICES ASSUME NEW i \in 1..(Len(s) - 1) PROVE r[i].rows # <<>>
    BY <1>2
  <2>1. i \in DOMAIN s /\ i + 1 \in DOMAIN s
    BY <1>1
  <2> QED BY <1>1, <1>2, <2>1
<1>7. Len(r) \in Nat /\ DOMAIN r = 1..Len(r)
  BY <1>1, <1>2
<1> HIDE DEF r, col
<1>8. /\ Loose(S, u) /\ Len(u) = Len(r) + 1 /\ DOMAIN u = 1..(Len(r) + 1)
      /\ \A i \in 1..(Len(r) + 1) : u[i] = IF i < to THEN r[i] ELSE IF i = to THEN col ELSE r[i - 1]
      /\ Members(u) = Members(r) \cup ToSet(col.rows)
  <2>1. Loose(S, r) /\ Whole(S, col) /\ Members(r) \cap ToSet(col.rows) = {}
    BY <1>1, <1>2, <1>3
  <2> QED BY <1>4, <2>1, ColumnInsertedIs
<1>9. MoveColumn(s, from, to) = u
  BY DEF MoveColumn, r, col
<1> HIDE DEF u
<1>10. \A i \in DOMAIN u : u[i].rows # <<>>
  <2> SUFFICES ASSUME NEW i \in 1..(Len(r) + 1) PROVE u[i].rows # <<>>
    BY <1>8
  <2>2. u[i] = IF i < to THEN r[i] ELSE IF i = to THEN col ELSE r[i - 1]
    BY <1>8
  <2>3. i < to => i \in DOMAIN r
    BY <1>4, <1>7
  <2>4. ~(i < to) /\ i # to => i - 1 \in DOMAIN r
    BY <1>4, <1>7
  <2> QED BY <1>3, <1>6, <2>2, <2>3, <2>4
<1>11. Fits(S, u)
  BY <1>8, <1>10, Zenon DEF Fits
<1> QED BY <1>3, <1>5, <1>8, <1>9, <1>11 DEF Reshapes

\* The windows of a unit of v's column, v among them.
LEMMA UnitOfIs ==
  ASSUME NEW S, NEW s, Fits(S, s), NEW v \in Members(s)
  PROVE  /\ UnitOf(s, v) \in Seq(S) /\ Apart(UnitOf(s, v)) /\ v \in ToSet(UnitOf(s, v))
         /\ ToSet(UnitOf(s, v)) \subseteq Members(s)
<1> DEFINE c == ColumnOf(s, v)  q == s[c].rows  n == Len(q)  r == RowOf(s, v)  u == Unit(s[c].tabs, r)
           p == SubSeq(q, u.first, End(u) - 1)
<1>1. Loose(S, s)
  BY FitsAre
<1>2. c \in DOMAIN s /\ Whole(S, s[c]) /\ r \in 1..n /\ q[r] = v
  BY <1>1, ColumnOfIs
<1>3. q \in Seq(S) /\ n \in Nat /\ Apart(q) /\ Groups(s[c].tabs, n) /\ ToSet(q) = {q[i] : i \in 1..n} /\ DOMAIN q = 1..n
  BY <1>2, WholeIs
<1>4. u \in TabGroup /\ Within(u, n) /\ u.first <= r /\ r < u.first + u.count
  BY <1>2, <1>3, UnitIs
<1>5. UnitOf(s, v) = p
  BY Zenon DEF UnitOf, TabsAt
<1>6. ToSet(q) \subseteq Members(s)
  BY <1>2, MembersAre
<1> DEFINE a == u.first  b == End(u) - 1
<1>7. a \in Nat /\ b \in Nat /\ a >= 1 /\ a <= r /\ r <= b /\ b <= n
  BY <1>2, <1>3, <1>4 DEF TabGroup, Within, End
<1>p. p = SubSeq(q, a, b)
  OBVIOUS
<1>n. n = Len(q)
  OBVIOUS
<1> HIDE DEF c, q, n, r, u, p, a, b
<1>8. /\ p \in Seq(S) /\ Len(p) = b - a + 1 /\ DOMAIN p = 1..(b - a + 1)
      /\ \A i \in 1..(b - a + 1) : p[i] = q[a + i - 1] /\ a + i - 1 \in 1..n
  <2>1. q \in Seq(S) /\ a \in Nat /\ b \in Nat /\ a >= 1 /\ a <= b /\ b <= Len(q)
    BY <1>2, <1>3, <1>7, <1>n
  <2>2. SubSeq(q, a, b) \in Seq(S) /\ Len(SubSeq(q, a, b)) = b - a + 1
        /\ \A i \in 1..(b - a + 1) : SubSeq(q, a, b)[i] = q[a + i - 1]
    BY <2>1
  <2>3. DOMAIN SubSeq(q, a, b) = 1..(b - a + 1)
    BY <2>2
  <2>4. \A i \in 1..(b - a + 1) : a + i - 1 \in 1..n
    BY <1>3, <1>7
  <2> QED BY <2>2, <2>3, <2>4, <1>p
<1>9. Apart(p)
  <2> SUFFICES ASSUME NEW i \in 1..(b - a + 1), NEW j \in 1..(b - a + 1), p[i] = p[j] PROVE i = j
    BY <1>8 DEF Apart
  <2>1. a + i - 1 = a + j - 1
    BY <1>3, <1>8 DEF Apart
  <2> QED BY <1>7, <2>1
<1>10. v \in ToSet(p)
  <2>1. r - a + 1 \in 1..(b - a + 1) /\ a + (r - a + 1) - 1 = r
    BY <1>2, <1>7
  <2>2. p[r - a + 1] = v
    BY <1>2, <1>8, <2>1
  <2> QED BY <1>8, <2>1, <2>2 DEF ToSet
<1>11. ToSet(p) \subseteq ToSet(q)
  BY <1>3, <1>8 DEF ToSet
<1> QED BY <1>5, <1>6, <1>8, <1>9, <1>10, <1>11

\* swapViews: two windows trade places, of one group, one column or two.
LEMMA SwapViewsIs ==
  ASSUME NEW S, NEW s, Fits(S, s), NEW a, NEW b
  PROVE  Reshapes(S, s, SwapViews(s, a, b))
<1> DEFINE W(v) == CASE v = a -> b [] v = b -> a [] OTHER -> v
           T(c) == IF c = ColumnOf(s, a) /\ c = ColumnOf(s, b)
                   THEN RowsSwapped(s[c].tabs, RowOf(s, a), RowOf(s, b)) ELSE s[c].tabs
           R(c) == [r \in DOMAIN s[c].rows |-> W(s[c].rows[r])]
           u == [c \in DOMAIN s |-> [rows |-> R(c), tabs |-> T(c)]]
<1>0. SwapViews(s, a, b) = IF a = b \/ ~InStrip(s, a) \/ ~InStrip(s, b) THEN s ELSE u
  BY DEF SwapViews
<1>1. CASE a = b \/ ~InStrip(s, a) \/ ~InStrip(s, b)
  BY <1>0, <1>1 DEF Reshapes
<1>2. CASE ~(a = b \/ ~InStrip(s, a) \/ ~InStrip(s, b))
  <2>0. /\ Loose(S, s) /\ Len(s) \in Nat /\ DOMAIN s = 1..Len(s) /\ s \in Seq(Column(S))
        /\ \A c \in DOMAIN s : Whole(S, s[c]) /\ s[c].rows # <<>> /\ Len(s[c].rows) \in Nat /\ Len(s[c].rows) >= 1
    BY FitsAre
  <2>1. a \in Members(s) /\ b \in Members(s) /\ a \in S /\ b \in S
    BY <1>2, <2>0, LooseIs DEF InStrip
  <2>2. \A v : W(W(v)) = v
    OBVIOUS
  <2>3. (\A v \in S : W(v) \in S) /\ (\A v \in Members(s) : W(v) \in Members(s))
    BY <2>1
  <2> HIDE DEF W
  <2>4. ASSUME NEW c \in DOMAIN s
        PROVE  /\ R(c) \in Seq(S) /\ Len(R(c)) = Len(s[c].rows) /\ Apart(R(c))
               /\ ToSet(R(c)) = {W(v) : v \in ToSet(s[c].rows)}
    <3> DEFINE q == s[c].rows  n == Len(q)  p == R(c)
    <3>1. q \in Seq(S) /\ n \in Nat /\ Apart(q) /\ DOMAIN q = 1..n /\ ToSet(q) = {q[i] : i \in 1..n}
      BY <2>0, WholeIs
    <3>2. p = [r \in 1..n |-> W(q[r])]
      BY <3>1
    <3> HIDE DEF q, p
    <3>3. \A i \in 1..n : q[i] \in S /\ p[i] = W(q[i])
      BY <3>1, <3>2
    <3>4. p \in Seq(S) /\ Len(p) = n /\ DOMAIN p = 1..n
      <4>1. \A i \in 1..n : W(q[i]) \in S
        BY <2>3, <3>3
      <4> QED BY <3>1, <3>2, <4>1
    <3>5. Apart(p)
      <4> SUFFICES ASSUME NEW i \in 1..n, NEW j \in 1..n, p[i] = p[j] PROVE i = j
        BY <3>4 DEF Apart
      <4>1. W(q[i]) = W(q[j])
        BY <3>3
      <4>2. W(W(q[i])) = q[i] /\ W(W(q[j])) = q[j]
        BY <2>2
      <4>3. q[i] = q[j]
        BY <4>1, <4>2
      <4> QED BY <3>1, <4>3 DEF Apart
    <3>6. ToSet(p) = {W(v) : v \in ToSet(q)}
      <4>1. ToSet(p) = {p[i] : i \in 1..n}
        BY <3>4 DEF ToSet
      <4> QED BY <3>1, <3>3, <4>1
    <3> QED BY <3>4, <3>5, <3>6 DEF p, q
  <2> HIDE DEF R
  <2>5. ASSUME NEW c \in DOMAIN s PROVE Groups(T(c), Len(s[c].rows))
    <3>1. Groups(s[c].tabs, Len(s[c].rows)) /\ Len(s[c].rows) \in Nat
      BY <2>0, WholeIs
    <3>2. c = ColumnOf(s, a) => RowOf(s, a) \in 1..Len(s[c].rows)
      BY <2>0, <2>1, ColumnOfIs
    <3>3. c = ColumnOf(s, b) => RowOf(s, b) \in 1..Len(s[c].rows)
      BY <2>0, <2>1, ColumnOfIs
    <3>4. CASE c = ColumnOf(s, a) /\ c = ColumnOf(s, b)
      <4>1. RowOf(s, a) \in Nat /\ RowOf(s, b) \in Nat
        BY <3>1, <3>2, <3>3, <3>4
      <4>2. Groups(RowsSwapped(s[c].tabs, RowOf(s, a), RowOf(s, b)), Len(s[c].rows))
        BY <3>1, <4>1, RowsSwappedIs
      <4> QED BY <3>4, <4>2
    <3>5. CASE ~(c = ColumnOf(s, a) /\ c = ColumnOf(s, b))
      BY <3>1, <3>5
    <3> QED BY <3>4, <3>5
  <2> HIDE DEF T
  <2>6. ASSUME NEW c \in DOMAIN s
        PROVE  /\ u[c].rows = R(c) /\ Whole(S, u[c]) /\ u[c] \in Column(S) /\ u[c].rows # <<>>
    <3> DEFINE k == [rows |-> R(c), tabs |-> T(c)]
    <3>1. Groups(T(c), Len(R(c)))
      BY <2>4, <2>5
    <3>2. Whole(S, k)
      BY <2>4, <3>1, IsWhole
    <3>3. k.rows = R(c)
      OBVIOUS
    <3>4. u[c] = k
      OBVIOUS
    <3> HIDE DEF k, u
    <3>5. k.rows # <<>>
      <4>1. Len(k.rows) = Len(s[c].rows)
        BY <2>4, <3>3
      <4>2. Len(k.rows) # 0
        BY <2>0, <4>1
      <4> QED BY <3>2, <4>2, NotEmpty
    <3> QED BY <3>2, <3>3, <3>4, <3>5 DEF Whole
  <2>7. DOMAIN u = DOMAIN s /\ u = [c \in DOMAIN s |-> u[c]]
    OBVIOUS
  <2> HIDE DEF u
  <2>8. u \in Seq(Column(S))
    BY <2>0, <2>6, <2>7
  <2>9. \A c \in DOMAIN s : ToSet(u[c].rows) = {W(v) : v \in ToSet(s[c].rows)}
    BY <2>4, <2>6
  <2>10. ASSUME NEW c \in DOMAIN s, NEW d \in DOMAIN s, c # d PROVE ToSet(u[c].rows) \cap ToSet(u[d].rows) = {}
    <3> SUFFICES ASSUME NEW x \in ToSet(u[c].rows), x \in ToSet(u[d].rows) PROVE FALSE
      OBVIOUS
    <3>1. PICK v \in ToSet(s[c].rows) : x = W(v)
      BY <2>9
    <3>2. PICK w \in ToSet(s[d].rows) : x = W(w)
      BY <2>9
    <3>3. W(W(v)) = v /\ W(W(w)) = w
      BY <2>2
    <3>4. v = w
      BY <3>1, <3>2, <3>3
    <3> QED BY <2>0, <2>10, <3>4, LooseIs
  <2>11. Loose(S, u)
    BY <2>6, <2>7, <2>8, <2>10, IsLoose
  <2>12. Fits(S, u)
    <3>1. \A c \in DOMAIN u : u[c].rows # <<>>
      BY <2>6, <2>7
    <3> QED BY <2>11, <3>1, Zenon DEF Fits
  <2>13. Members(u) \subseteq Members(s)
    <3> SUFFICES ASSUME NEW x \in Members(u) PROVE x \in Members(s)
      OBVIOUS
    <3>1. PICK c \in DOMAIN s : x \in ToSet(u[c].rows)
      BY <2>7, MembersAre
    <3>2. PICK v \in ToSet(s[c].rows) : x = W(v)
      BY <2>9, <3>1
    <3>3. v \in Members(s)
      BY MembersAre
    <3> QED BY <2>3, <3>2, <3>3
  <2> QED BY <1>0, <1>2, <2>12, <2>13 DEF Reshapes
<1> QED BY <1>1, <1>2
=============================================================================
