---------------------------- MODULE TilingProofs ----------------------------
(***************************************************************************)
(* The tiles are in order for any numbers of windows and of workspaces.    *)
(*                                                                         *)
(* An operation of Tiling takes and gives a record t of all variables.     *)
(* Good says of one that its parts have their types, that every strip Fits,*)
(* and that the windows of a strip are mapped and of its workspace (Sits). *)
(* The lemmas show what each operation leaves: it Settles a state when no  *)
(* window is new in a strip, it TakesOut or Attaches a window, Moves it or *)
(* Recasts it.  Kept adds what a drag carries, and is the invariant: a     *)
(* group that a drag has lifted is of open windows with the dragged one    *)
(* among them, until it lands.                                             *)
(***************************************************************************)
EXTENDS Tiling, StripProofs

Fields == {"strip", "home", "kind", "focused", "hidden", "members", "unsettled", "grab"}
Kinds  == {"closed", "tiled", "floating"}
Strips == {s \in Seq(Column(Windows)) : Fits(Windows, s)}

Typed(t) ==
  /\ DOMAIN t = Fields
  /\ t.strip \in [Workspaces -> Strips]
  /\ t.home \in [Windows -> Workspaces] /\ t.kind \in [Windows -> Kinds]
  /\ t.focused \in [Workspaces -> Windows \cup {NoWindow}]
  /\ t.hidden \in SUBSET Windows
  /\ t.members \in [Workspaces -> SUBSET Windows]
  /\ t.unsettled \in SUBSET Workspaces
\* The windows of a strip are mapped and of that workspace.
Sits(t) ==
  \A w \in Workspaces : \A v \in Members(t.strip[w]) : t.home[v] = w /\ t.kind[v] # "closed"
Good(t) == Typed(t) /\ Sits(t)

\* What a step of the layout or of the focus leaves: no window is new in a strip.
Same(t, u)    == u.home = t.home /\ u.kind = t.kind /\ u.grab = t.grab
Settles(t, u) ==
  /\ Typed(u) /\ Same(t, u)
  /\ \A w \in Workspaces : Members(u.strip[w]) \subseteq Members(t.strip[w])

-----------------------------------------------------------------------------

\* Membership in Strips.
LEMMA StripsAre ==
  ASSUME NEW s
  PROVE  /\ s \in Strips <=> Fits(Windows, s)
         /\ s \in Strips => Members(s) \subseteq Windows
<1>1. Fits(Windows, s) => s \in Seq(Column(Windows)) /\ Members(s) \subseteq Windows
  BY FitsAre, LooseIs
<1> QED BY <1>1 DEF Strips

\* A step that settles keeps what is good.
LEMMA SettledIsGood ==
  ASSUME NEW t, Good(t), NEW u, Settles(t, u)
  PROVE  Good(u)
BY DEF Good, Settles, Same, Sits

\* Two such steps are one.
LEMMA SettlesAgain ==
  ASSUME NEW t, NEW u, Settles(t, u), NEW x, Settles(u, x)
  PROVE  Settles(t, x)
BY DEF Settles, Same

\* And so is none.
LEMMA SettlesItself ==
  ASSUME NEW t, Typed(t)
  PROVE  Settles(t, t)
BY DEF Settles, Same

\* One strip replaced.
LEMMA LaidIs ==
  ASSUME NEW t, Typed(t), NEW w \in Workspaces, NEW s \in Strips
  PROVE  LET u == Lay(t, w, s)
         IN  /\ Typed(u) /\ Same(t, u) /\ u.focused = t.focused /\ u.members = t.members
             /\ u.strip = [t.strip EXCEPT ![w] = s] /\ u.hidden = t.hidden /\ u.unsettled = t.unsettled
             /\ u.strip[w] = s /\ \A x \in Workspaces \ {w} : u.strip[x] = t.strip[x]
<1> DEFINE u == Lay(t, w, s)
<1>1. /\ DOMAIN u = Fields /\ Same(t, u) /\ u.focused = t.focused /\ u.members = t.members
      /\ u.strip = [t.strip EXCEPT ![w] = s] /\ u.hidden = t.hidden /\ u.unsettled = t.unsettled
  BY DEF Lay, Typed, Fields, Same
<1> HIDE DEF u
<1>2. u.strip \in [Workspaces -> Strips] /\ u.strip[w] = s /\ \A x \in Workspaces \ {w} : u.strip[x] = t.strip[x]
  BY <1>1 DEF Typed
<1>3. Typed(u)
  BY <1>1, <1>2 DEF Typed, Same
<1> QED BY <1>1, <1>2, <1>3 DEF u

\* The strip that was laid.
LEMMA LaidThere ==
  ASSUME NEW t, Typed(t), NEW w \in Workspaces, NEW s \in Strips
  PROVE  Lay(t, w, s).strip[w] = s
<1> DEFINE u == Lay(t, w, s)
<1>1. /\ Typed(u) /\ Same(t, u) /\ u.focused = t.focused /\ u.members = t.members
      /\ u.strip = [t.strip EXCEPT ![w] = s] /\ u.hidden = t.hidden /\ u.unsettled = t.unsettled
      /\ u.strip[w] = s /\ \A x \in Workspaces \ {w} : u.strip[x] = t.strip[x]
  BY LaidIs
<1> QED BY <1>1

\* A strip that is reshaped, or that takes up windows of its workspace.
LEMMA LaidSettles ==
  ASSUME NEW t, Typed(t), NEW w \in Workspaces, NEW s, Reshapes(Windows, t.strip[w], s)
  PROVE  Settles(t, Lay(t, w, s))
<1>1. s \in Strips /\ Members(s) \subseteq Members(t.strip[w])
  BY StripsAre DEF Reshapes
<1> DEFINE u == Lay(t, w, s)
<1>2. /\ Typed(u) /\ Same(t, u) /\ u.focused = t.focused /\ u.members = t.members
      /\ u.strip = [t.strip EXCEPT ![w] = s] /\ u.hidden = t.hidden /\ u.unsettled = t.unsettled
      /\ u.strip[w] = s /\ \A x \in Workspaces \ {w} : u.strip[x] = t.strip[x]
  BY <1>1, LaidIs
<1> HIDE DEF u
<1>3. \A x \in Workspaces : Members(u.strip[x]) \subseteq Members(t.strip[x])
  BY <1>1, <1>2
<1>4. Settles(t, u)
  BY <1>2, <1>3 DEF Settles
<1> QED BY <1>4 DEF u

\* A strip with new windows, mapped and of that workspace.
LEMMA LaidIsGood ==
  ASSUME NEW t, Good(t), NEW w \in Workspaces, NEW s \in Strips,
         \A v \in Members(s) : t.home[v] = w /\ t.kind[v] # "closed"
  PROVE  Good(Lay(t, w, s)) /\ Same(t, Lay(t, w, s))
<1> DEFINE u == Lay(t, w, s)
<1>0. Typed(t)
  BY DEF Good
<1>1. /\ Typed(u) /\ Same(t, u) /\ u.focused = t.focused /\ u.members = t.members
      /\ u.strip = [t.strip EXCEPT ![w] = s] /\ u.hidden = t.hidden /\ u.unsettled = t.unsettled
      /\ u.strip[w] = s /\ \A x \in Workspaces \ {w} : u.strip[x] = t.strip[x]
  BY <1>0, LaidIs
<1> HIDE DEF u
<1>2. Sits(u)
  BY <1>1 DEF Sits, Same, Good
<1> QED BY <1>1, <1>2 DEF Good, u

\* markArrange changes no strip.
LEMMA MarkedIs ==
  ASSUME NEW t, Typed(t), NEW w \in Workspaces
  PROVE  LET u == MarkArrange(t, w)
         IN  Typed(u) /\ Same(t, u) /\ u.strip = t.strip /\ u.focused = t.focused /\ u.hidden = t.hidden
             /\ u.members = t.members /\ Settles(t, u)
<1> DEFINE u == MarkArrange(t, w)
<1>1. /\ DOMAIN u = Fields /\ Same(t, u) /\ u.strip = t.strip /\ u.focused = t.focused
      /\ u.hidden = t.hidden /\ u.members = t.members /\ u.unsettled = t.unsettled \cup {w}
  BY DEF MarkArrange, Typed, Fields, Same
<1> HIDE DEF u
<1>2. Typed(u)
  BY <1>1 DEF Typed, Same
<1> QED BY <1>1, <1>2 DEF u, Settles

-----------------------------------------------------------------------------
(* The tab presenter *)

\* presentGroup hides and shows windows of one workspace.
LEMMA PresentedIs ==
  ASSUME NEW t, Typed(t), NEW w \in Workspaces, NEW S \in SUBSET Windows
  PROVE  LET u == PresentGroups(t, w, S)
         IN  Typed(u) /\ Same(t, u) /\ u.strip = t.strip /\ u.focused = t.focused /\ Settles(t, u)
<1> DEFINE u == PresentGroups(t, w, S)
           shown == (t.hidden \ S) \cup (HiddenTabs(t.strip[w]) \cap S)
<1>1. /\ DOMAIN u = Fields /\ Same(t, u) /\ u.strip = t.strip /\ u.focused = t.focused
      /\ u.hidden = shown /\ u.members = [t.members EXCEPT ![w] = @ \cup S] /\ u.unsettled = t.unsettled
  BY DEF PresentGroups, Typed, Fields, Same
<1>2. shown \in SUBSET Windows
  BY DEF Typed
<1> HIDE DEF u, shown
<1>3. Typed(u)
  BY <1>1, <1>2 DEF Typed, Same
<1> QED BY <1>1, <1>3 DEF u, Settles

\* The presenter lets go of windows.
LEMMA ClearedIs ==
  ASSUME NEW t, Typed(t), NEW w \in Workspaces, NEW S
  PROVE  LET u == [t EXCEPT !.members[w] = @ \ S, !.hidden = @ \ S]
         IN  Typed(u) /\ Same(t, u) /\ u.strip = t.strip /\ u.focused = t.focused /\ Settles(t, u)
<1> DEFINE u == [t EXCEPT !.members[w] = @ \ S, !.hidden = @ \ S]
<1>1. /\ DOMAIN u = Fields /\ Same(t, u) /\ u.strip = t.strip /\ u.focused = t.focused
      /\ u.hidden = t.hidden \ S /\ u.members = [t.members EXCEPT ![w] = @ \ S] /\ u.unsettled = t.unsettled
  BY DEF Typed, Fields, Same
<1> HIDE DEF u
<1>3. Typed(u)
  BY <1>1 DEF Typed, Same
<1> QED BY <1>1, <1>3 DEF u, Settles

\* Its windows are of the strip.
LEMMA TabsAre ==
  ASSUME NEW s \in Strips
  PROVE  Tabs(s) \in SUBSET Windows /\ HiddenTabs(s) \in SUBSET Windows
BY StripsAre DEF Tabs, HiddenTabs

\* sync may change the shown tab and hides the others.
LEMMA SyncIs ==
  ASSUME NEW t, Typed(t), NEW w \in Workspaces
  PROVE  Settles(t, Sync(t, w))
<1> DEFINE s == IF t.focused[w] = NoWindow THEN t.strip[w] ELSE SelectTab(t.strip[w], t.focused[w])
           l == Lay(t, w, s)
           e == [l EXCEPT !.members[w] = {}, !.hidden = @ \ t.members[w]]
<1>1. Fits(Windows, t.strip[w])
  BY StripsAre DEF Typed
<1>2. Reshapes(Windows, t.strip[w], s)
  <2>1. Reshapes(Windows, t.strip[w], t.strip[w])
    BY <1>1 DEF Reshapes
  <2>2. Reshapes(Windows, t.strip[w], SelectTab(t.strip[w], t.focused[w]))
    BY <1>1, SelectTabIs
  <2> QED BY <2>1, <2>2
<1>3. s \in Strips
  BY <1>2, StripsAre DEF Reshapes
<1>4. Sync(t, w) = PresentGroups(e, w, Tabs(s))
  BY DEF Sync
<1> HIDE DEF s
<1>5. Settles(t, l)
  BY <1>2, LaidSettles
<1>6. Typed(l)
  BY <1>5 DEF Settles
<1> HIDE DEF l
<1>7. Typed(e) /\ Settles(l, e)
  <2>1. /\ DOMAIN e = Fields /\ Same(l, e) /\ e.strip = l.strip /\ e.focused = l.focused
        /\ e.hidden = l.hidden \ t.members[w] /\ e.members = [l.members EXCEPT ![w] = {}] /\ e.unsettled = l.unsettled
    BY <1>6 DEF Typed, Fields, Same
  <2> HIDE DEF e
  <2>2. Typed(e)
    BY <1>6, <2>1 DEF Typed, Same
  <2> QED BY <2>1, <2>2 DEF Settles
<1> HIDE DEF e
<1>8. Settles(e, PresentGroups(e, w, Tabs(s)))
  <2>1. Tabs(s) \in SUBSET Windows
    BY <1>3, TabsAre
  <2> QED BY <1>7, <2>1, PresentedIs
<1>9. Settles(t, PresentGroups(e, w, Tabs(s)))
  <2>1. Settles(t, e)
    BY <1>5, <1>7, SettlesAgain
  <2> QED BY <1>8, <2>1, SettlesAgain
<1> QED BY <1>4, <1>9

\* arrange.
LEMMA ArrangeIs ==
  ASSUME NEW t, Typed(t), NEW w \in Workspaces
  PROVE  Settles(t, Arrange(t, w))
<1> DEFINE e == [t EXCEPT !.unsettled = @ \ {w}]
<1>1. Settles(t, e) /\ Typed(e)
  <2>1. /\ DOMAIN e = Fields /\ Same(t, e) /\ e.strip = t.strip /\ e.focused = t.focused
        /\ e.hidden = t.hidden /\ e.members = t.members /\ e.unsettled = t.unsettled \ {w}
    BY DEF Typed, Fields, Same
  <2> HIDE DEF e
  <2>2. Typed(e)
    BY <2>1 DEF Typed, Same
  <2> QED BY <2>1, <2>2 DEF Settles
<1>2. Arrange(t, w) = Sync(e, w)
  BY DEF Arrange
<1> HIDE DEF e
<1>3. Settles(e, Sync(e, w))
  BY <1>1, SyncIs
<1>4. Settles(t, Sync(e, w))
  BY <1>1, <1>3, SettlesAgain
<1> QED BY <1>2, <1>4

\* flushArrange.
LEMMA FlushArrangeIs ==
  ASSUME NEW t, Typed(t), NEW w \in Workspaces
  PROVE  Settles(t, FlushArrange(t, w))
<1>1. Settles(t, Arrange(t, w)) /\ Settles(t, t)
  BY ArrangeIs, SettlesItself
<1>2. CASE w \in t.unsettled
  BY <1>1, <1>2 DEF FlushArrange
<1>3. CASE w \notin t.unsettled
  BY <1>1, <1>3 DEF FlushArrange
<1> QED BY <1>2, <1>3

\* released.
LEMMA ReleasedIs ==
  ASSUME NEW t, Typed(t), NEW w \in Workspaces, NEW v
  PROVE  LET u == Released(t, w, v) IN Typed(u) /\ Same(t, u) /\ u.strip = t.strip /\ u.focused = t.focused
<1>1. CASE v \in t.members[w]
  <2> DEFINE u == [t EXCEPT !.members[w] = @ \ {v}, !.hidden = @ \ {v}]
  <2>1. Typed(u) /\ Same(t, u) /\ u.strip = t.strip /\ u.focused = t.focused
    BY ClearedIs
  <2>2. Released(t, w, v) = u
    BY <1>1 DEF Released
  <2> HIDE DEF u
  <2> QED BY <2>1, <2>2
<1>2. CASE v \notin t.members[w]
  BY <1>2 DEF Released, Same
<1> QED BY <1>1, <1>2

\* One focus replaced.
LEMMA FocusedIs ==
  ASSUME NEW t, Typed(t), NEW w \in Workspaces, NEW v \in Windows \cup {NoWindow}
  PROVE  LET u == [t EXCEPT !.focused[w] = v]
         IN  Typed(u) /\ Same(t, u) /\ u.strip = t.strip /\ Settles(t, u)
<1> DEFINE u == [t EXCEPT !.focused[w] = v]
<1>1. /\ DOMAIN u = Fields /\ Same(t, u) /\ u.strip = t.strip /\ u.focused = [t.focused EXCEPT ![w] = v]
      /\ u.hidden = t.hidden /\ u.members = t.members /\ u.unsettled = t.unsettled
  BY DEF Typed, Fields, Same
<1> HIDE DEF u
<1>3. Typed(u)
  BY <1>1 DEF Typed, Same
<1> QED BY <1>1, <1>3 DEF u, Settles

\* setFocusedView may change the shown tab.
LEMMA SetFocusedViewIs ==
  ASSUME NEW t, Typed(t), NEW w \in Workspaces, NEW v \in Windows \cup {NoWindow}
  PROVE  Settles(t, SetFocusedView(t, w, v))
<1> DEFINE f == [t EXCEPT !.focused[w] = v]
           s == SelectTab(t.strip[w], v)
           l == Lay(f, w, s)
           S == ToSet(UnitOf(s, v))
<1>1. Fits(Windows, t.strip[w])
  BY StripsAre DEF Typed
<1>2. Reshapes(Windows, t.strip[w], s)
  BY <1>1, SelectTabIs
<1>3. Typed(f) /\ f.strip = t.strip /\ Settles(t, f)
  BY FocusedIs
<1>4. SetFocusedView(t, w, v) = IF v # NoWindow /\ HiddenTab(t.strip[w], v) THEN PresentGroups(l, w, S) ELSE f
  BY DEF SetFocusedView
<1> HIDE DEF f, s
<1>5. Settles(f, l) /\ Typed(l)
  <2>1. Reshapes(Windows, f.strip[w], s)
    BY <1>2, <1>3
  <2>2. Settles(f, l)
    BY <1>3, <2>1, LaidSettles
  <2> QED BY <2>2 DEF Settles
<1> HIDE DEF l
<1>6. CASE v # NoWindow /\ HiddenTab(t.strip[w], v)
  <2>1. v \in Members(t.strip[w])
    BY <1>6 DEF HiddenTab, InStrip
  <2>2. v \in Members(s) /\ Fits(Windows, s)
    <3>1. Members(s) = Members(t.strip[w])
      BY <1>1, SelectTabIs DEF s
    <3> QED BY <1>2, <2>1, <3>1 DEF Reshapes
  <2>3. S \in SUBSET Windows
    <3>1. S \subseteq Members(s)
      BY <2>2, UnitOfIs
    <3>2. Members(s) \subseteq Windows
      BY <2>2, StripsAre
    <3> QED BY <3>1, <3>2
  <2>4. Settles(l, PresentGroups(l, w, S))
    BY <1>5, <2>3, PresentedIs
  <2>5. Settles(t, l)
    BY <1>3, <1>5, SettlesAgain
  <2>6. Settles(t, PresentGroups(l, w, S))
    BY <2>4, <2>5, SettlesAgain
  <2> QED BY <1>4, <1>6, <2>6
<1>7. CASE ~(v # NoWindow /\ HiddenTab(t.strip[w], v))
  BY <1>3, <1>4, <1>7
<1> QED BY <1>6, <1>7

\* It touches no other workspace.
LEMMA SetFocusedViewElsewhere ==
  ASSUME NEW t, Typed(t), NEW w \in Workspaces, NEW v \in Windows \cup {NoWindow}
  PROVE  \A x \in Workspaces \ {w} : SetFocusedView(t, w, v).strip[x] = t.strip[x]
<1> DEFINE f == [t EXCEPT !.focused[w] = v]
           s == SelectTab(t.strip[w], v)
           l == Lay(f, w, s)
           S == ToSet(UnitOf(s, v))
           p == PresentGroups(l, w, S)
<1>1. SetFocusedView(t, w, v) = IF v # NoWindow /\ HiddenTab(t.strip[w], v) THEN p ELSE f
  BY DEF SetFocusedView
<1>2. f.strip = t.strip /\ "strip" \in DOMAIN f
  BY DEF Typed, Fields
<1> HIDE DEF f, s, S
<1>3. l.strip = [f.strip EXCEPT ![w] = s] /\ "strip" \in DOMAIN l
  BY <1>2 DEF Lay
<1> HIDE DEF l
<1>4. p.strip = l.strip
  BY <1>3 DEF PresentGroups
<1> HIDE DEF p
<1> QED BY <1>1, <1>2, <1>3, <1>4 DEF Typed

\* focusView.
LEMMA FocusViewIs ==
  ASSUME NEW t, Typed(t), NEW v \in Windows
  PROVE  Settles(t, FocusTile(t, v))
<1>1. t.home[v] \in Workspaces /\ v \in Windows \cup {NoWindow}
  BY DEF Typed
<1> QED BY <1>1, SetFocusedViewIs DEF FocusTile

-----------------------------------------------------------------------------
(* Windows in and out of a workspace *)

\* The most recent of some windows, if any.
LEMMA MostRecentIs ==
  ASSUME NEW recent, NEW S
  PROVE  MostRecent(recent, S) \in S \cup {NoWindow}
<1> DEFINE I == {i \in 1..Len(recent) : recent[i] \in S}
<1>1. FirstOf(recent, S) = IF I # {} THEN Min(I) ELSE 0
  BY DEF FirstOf, SelectInSeq
<1>2. MostRecent(recent, S) = IF FirstOf(recent, S) = 0 THEN NoWindow ELSE recent[FirstOf(recent, S)]
  BY DEF MostRecent
<1>3. CASE I = {}
  BY <1>1, <1>2, <1>3
<1>4. CASE I # {}
  <2>1. I \in SUBSET Nat
    OBVIOUS
  <2>2. Min(I) \in I
    BY <1>4, <2>1, MinIs
  <2>3. recent[Min(I)] \in S
    BY <2>2
  <2> QED BY <1>1, <1>2, <1>4, <2>3
<1> QED BY <1>3, <1>4

\* The focus goes to a window or to none.
LEMMA FocusReplacementIs ==
  ASSUME NEW t, Typed(t), NEW v \in Windows, NEW recent
  PROVE  FocusReplacement(t, v, recent) \in Windows \cup {NoWindow}
<1> DEFINE s == t.strip[t.home[v]]
           c == ColumnOf(s, v)
           rows == s[c].rows
           r == RowOf(s, v)
           others == {u \in Windows \ {v} : IsMapped(t, u) /\ t.home[u] = t.home[v]}
           f == FocusReplacement(t, v, recent)
<1>1. f = CASE c = 0                      -> MostRecent(recent, others)
            [] c > 0 /\ r > 1             -> rows[r - 1]
            [] c > 0 /\ r = 1 /\ Len(rows) > 1 -> rows[2]
            [] c > 1 /\ Len(rows) = 1     -> MostRecent(recent, ToSet(s[c - 1].rows))
            [] c = 1 /\ Len(rows) = 1 /\ Len(s) > 1 -> MostRecent(recent, ToSet(s[2].rows))
            [] OTHER                      -> MostRecent(recent, others)
  BY DEF FocusReplacement
<1>2. Fits(Windows, s)
  BY StripsAre DEF Typed
<1>3. MostRecent(recent, others) \in Windows \cup {NoWindow}
  <2>1. others \subseteq Windows
    OBVIOUS
  <2> HIDE DEF others
  <2> QED BY <2>1, MostRecentIs
<1> HIDE DEF others, f, s
<1>4. CASE v \notin Members(s)
  <2>1. c = 0
    BY <1>2, <1>4, NotInStrip, FitsAre
  <2> HIDE DEF c, r, rows
  <2> QED BY <1>1, <1>3, <2>1 DEF f
<1>5. CASE v \in Members(s)
  <2>1. Loose(Windows, s)
    BY <1>2, FitsAre
  <2>2. c \in 1..Len(s) /\ r \in 1..Len(rows) /\ c \in DOMAIN s
    BY <1>5, <2>1, ColumnOfIs
  <2>3. /\ Len(s) \in Nat /\ DOMAIN s = 1..Len(s)
        /\ \A d \in DOMAIN s : /\ s[d].rows \in Seq(Windows) /\ ToSet(s[d].rows) \subseteq Windows
                               /\ Len(s[d].rows) \in Nat /\ DOMAIN s[d].rows = 1..Len(s[d].rows)
    BY <1>2, <2>1, FitsAre, LooseIs
  <2>4. \A d \in DOMAIN s : MostRecent(recent, ToSet(s[d].rows)) \in Windows \cup {NoWindow}
    BY <2>3, MostRecentIs
  <2>5. rows \in Seq(Windows) /\ Len(rows) \in Nat /\ DOMAIN rows = 1..Len(rows)
    BY <2>2, <2>3
  <2>6. \A k \in 1..Len(rows) : rows[k] \in Windows
    BY <2>5
  <2>7. c > 1 => c - 1 \in DOMAIN s
    BY <2>2, <2>3
  <2>8. Len(s) > 1 => 2 \in DOMAIN s
    BY <2>3
  <2>9. c \in Nat /\ c > 0 /\ r \in Nat /\ r >= 1 /\ (r > 1 => r - 1 \in 1..Len(rows)) /\ (Len(rows) > 1 => 2 \in 1..Len(rows))
    BY <2>2, <2>3, <2>5
  <2> HIDE DEF c, r, rows
  <2>10. \/ f = MostRecent(recent, others)
         \/ r > 1 /\ f = rows[r - 1]
         \/ Len(rows) > 1 /\ f = rows[2]
         \/ c > 1 /\ f = MostRecent(recent, ToSet(s[c - 1].rows))
         \/ Len(s) > 1 /\ f = MostRecent(recent, ToSet(s[2].rows))
    BY <1>1, <2>9
  <2> QED BY <1>3, <2>4, <2>6, <2>7, <2>8, <2>9, <2>10 DEF f
<1> QED BY <1>4, <1>5

\* v has left the strip of w, and nothing else has changed place.
TakesOut(t, u, w, v) ==
  /\ Settles(t, u) /\ Typed(u)
  /\ Members(u.strip[w]) = Members(t.strip[w]) \ {v}
  /\ \A x \in Workspaces \ {w} : u.strip[x] = t.strip[x]

\* detachFromLayout takes one window out of one strip.
LEMMA DetachFromLayoutIs ==
  ASSUME NEW t, Typed(t), NEW w \in Workspaces, NEW v
  PROVE  TakesOut(t, DetachFromLayout(t, w, v), w, v)
<1> DEFINE s == RemoveView(t.strip[w], v)
           l == Lay(t, w, s)
           u == DetachFromLayout(t, w, v)
<1>1. Fits(Windows, t.strip[w])
  BY StripsAre DEF Typed
<1>2. Fits(Windows, s) /\ Members(s) = Members(t.strip[w]) \ {v}
  BY <1>1, RemoveViewIs
<1>3. u = Released(l, w, v)
  BY DEF DetachFromLayout
<1>4. s \in Strips
  BY <1>2, StripsAre
<1> HIDE DEF s, u
<1>5. /\ Typed(l) /\ Same(t, l) /\ l.focused = t.focused /\ l.members = t.members
      /\ l.strip = [t.strip EXCEPT ![w] = s] /\ l.hidden = t.hidden /\ l.unsettled = t.unsettled
      /\ l.strip[w] = s /\ \A x \in Workspaces \ {w} : l.strip[x] = t.strip[x]
  BY <1>4, LaidIs
<1> HIDE DEF l
<1>6. Typed(Released(l, w, v)) /\ Same(l, Released(l, w, v)) /\ Released(l, w, v).strip = l.strip
      /\ Released(l, w, v).focused = l.focused
  BY <1>5, ReleasedIs
<1>7. Typed(u) /\ Same(t, u) /\ u.strip = l.strip
  BY <1>3, <1>5, <1>6 DEF Same
<1>8. \A x \in Workspaces : Members(u.strip[x]) \subseteq Members(t.strip[x])
  BY <1>2, <1>5, <1>7
<1>9. Settles(t, u)
  BY <1>7, <1>8 DEF Settles
<1>10. TakesOut(t, u, w, v)
  BY <1>2, <1>5, <1>7, <1>9 DEF TakesOut
<1> QED BY <1>10 DEF u

\* layoutDetach does the same.
LEMMA LayoutDetachIs ==
  ASSUME NEW t, Typed(t), NEW w \in Workspaces, NEW v
  PROVE  TakesOut(t, LayoutDetach(t, w, v), w, v)
<1> DEFINE d == DetachFromLayout(t, w, v)
           u == LayoutDetach(t, w, v)
<1>1. TakesOut(t, d, w, v)
  BY DetachFromLayoutIs
<1>2. u = MarkArrange(d, w)
  BY DEF LayoutDetach
<1> HIDE DEF d, u
<1>3. Typed(d) /\ Settles(t, d)
  BY <1>1 DEF TakesOut
<1>4. Settles(d, u) /\ Typed(u) /\ u.strip = d.strip
  BY <1>2, <1>3, MarkedIs
<1>5. Settles(t, u)
  BY <1>3, <1>4, SettlesAgain
<1>6. TakesOut(t, u, w, v)
  BY <1>1, <1>4, <1>5 DEF TakesOut
<1> QED BY <1>6 DEF u

\* Windows come into strips only where they belong.
Attaches(t, u) ==
  /\ Good(u) /\ Same(t, u)
  /\ \A w \in Workspaces : Members(t.strip[w]) \subseteq Members(u.strip[w])

\* Where a tile is put is a column, there or not.
LEMMA LayoutAttachIndexIs ==
  ASSUME NEW t, Typed(t), NEW w \in Workspaces, NEW v, NEW recent
  PROVE  LayoutAttachIndex(t, w, v, recent) \in Int
<1> DEFINE s == t.strip[w]
           near == IF t.focused[w] # NoWindow /\ InStrip(s, t.focused[w]) THEN t.focused[w]
                   ELSE MostRecent(recent, {u \in Members(s) \ {v} : t.kind[u] = "tiled"})
<1>1. LayoutAttachIndex(t, w, v, recent) = IF near = NoWindow THEN Len(s) + 1 ELSE ColumnOf(s, near) + 1
  BY DEF LayoutAttachIndex
<1>2. Fits(Windows, s)
  BY StripsAre DEF Typed
<1> HIDE DEF s, near
<1>3. Loose(Windows, s) /\ Len(s) \in Nat
  BY <1>2, FitsAre
<1>4. ColumnOf(s, near) \in Int
  <2>1. near \in Members(s) => ColumnOf(s, near) \in 1..Len(s)
    BY <1>3, ColumnOfIs
  <2>2. near \notin Members(s) => ColumnOf(s, near) = 0
    BY <1>3, NotInStrip
  <2> QED BY <1>3, <2>1, <2>2
<1> QED BY <1>1, <1>3, <1>4

\* layoutAttach puts a tile into the strip of its workspace, unless it is there.
LEMMA LayoutAttachIs ==
  ASSUME NEW t, Good(t), NEW v \in Windows, NEW how
  PROVE  Attaches(t, LayoutAttach(t, v, how))
<1> DEFINE w == t.home[v]
           i == LayoutAttachIndex(t, w, v, how.recent)
           s == InsertView(t.strip[w], v, i, how.tabbed)
           l == Lay(t, w, s)
<1>0. w \in Workspaces /\ Typed(t)
  BY DEF Good, Typed
<1>1. LayoutAttach(t, v, how) = IF t.kind[v] # "tiled" \/ InStrip(t.strip[w], v) THEN t ELSE MarkArrange(l, w)
  BY DEF LayoutAttach
<1>l. t.home[v] = w
  OBVIOUS
<1> HIDE DEF w
<1>2. CASE t.kind[v] # "tiled" \/ InStrip(t.strip[w], v)
  BY <1>1, <1>2 DEF Attaches, Same
<1>3. CASE ~(t.kind[v] # "tiled" \/ InStrip(t.strip[w], v))
  <2>1. Fits(Windows, t.strip[w])
    BY <1>0, StripsAre DEF Typed
  <2>2. i \in Int
    BY <1>0, LayoutAttachIndexIs
  <2> HIDE DEF i
  <2>3. Fits(Windows, s) /\ Members(s) = Members(t.strip[w]) \cup {v}
    BY <2>1, <2>2, InsertViewIs
  <2> HIDE DEF s
  <2>4. s \in Strips
    BY <2>3, StripsAre
  <2>5. \A x \in Members(s) : t.home[x] = w /\ t.kind[x] # "closed"
    <3>1. t.kind[v] # "closed"
      BY <1>3
    <3> QED BY <1>0, <1>l, <2>3, <3>1 DEF Good, Sits
  <2>6. Good(l) /\ Same(t, l)
    BY <1>0, <2>4, <2>5, LaidIsGood
  <2>7. /\ Typed(l) /\ Same(t, l) /\ l.focused = t.focused /\ l.members = t.members
        /\ l.strip = [t.strip EXCEPT ![w] = s] /\ l.hidden = t.hidden /\ l.unsettled = t.unsettled
        /\ l.strip[w] = s /\ \A x \in Workspaces \ {w} : l.strip[x] = t.strip[x]
    BY <1>0, <2>4, LaidIs
  <2> HIDE DEF l
  <2>8. \A x \in Workspaces : Members(t.strip[x]) \subseteq Members(l.strip[x])
    BY <2>3, <2>7
  <2> DEFINE m == MarkArrange(l, w)
  <2>9. Typed(m) /\ Same(l, m) /\ m.strip = l.strip /\ m.focused = l.focused /\ m.hidden = l.hidden
        /\ m.members = l.members /\ Settles(l, m)
    BY <1>0, <2>7, MarkedIs
  <2> HIDE DEF m
  <2>10. Good(m)
    BY <2>6, <2>9, SettledIsGood
  <2>11. Attaches(t, m)
    BY <2>6, <2>8, <2>9, <2>10 DEF Attaches, Same
  <2> QED BY <1>1, <1>3, <2>11 DEF m
<1> QED BY <1>2, <1>3

\* removeView of a workspace: the focus moves and the window leaves the strip.
LEMMA WorkspaceRemoveViewIs ==
  ASSUME NEW t, Typed(t), NEW w \in Workspaces, NEW v \in Windows, NEW recent
  PROVE  LET u == WorkspaceRemoveView(t, w, v, recent)
         IN  /\ Settles(t, u) /\ v \notin Members(u.strip[w])
             /\ \A x \in Workspaces \ {w} : u.strip[x] = t.strip[x]
<1> DEFINE next == FocusReplacement(t, v, recent)
           f == [t EXCEPT !.focused[w] = next]
           d == DetachFromLayout(f, w, v)
           e == DetachFromLayout(t, w, v)
           freed == IF t.focused[w] = v THEN SetFocusedView(d, w, next) ELSE e
           u == WorkspaceRemoveView(t, w, v, recent)
<1>1. u = MarkArrange(freed, w)
  BY DEF WorkspaceRemoveView
<1>2. next \in Windows \cup {NoWindow}
  BY FocusReplacementIs
<1> HIDE DEF next, u
<1> DEFINE Freed(z) == /\ Settles(t, z) /\ v \notin Members(z.strip[w])
                       /\ \A x \in Workspaces \ {w} : z.strip[x] = t.strip[x]
<1>3. Freed(e)
  <2>1. TakesOut(t, e, w, v)
    BY DetachFromLayoutIs
  <2> HIDE DEF e
  <2> QED BY <2>1 DEF TakesOut
<1>4. Typed(f) /\ f.strip = t.strip /\ Settles(t, f)
  BY <1>2, FocusedIs
<1> HIDE DEF f, e
<1>5. Freed(d) /\ Typed(d)
  <2>1. TakesOut(f, d, w, v)
    BY <1>4, DetachFromLayoutIs
  <2> HIDE DEF d
  <2>2. Settles(f, d)
    BY <2>1 DEF TakesOut
  <2>3. Settles(t, d)
    BY <1>4, <2>2, SettlesAgain
  <2> QED BY <1>4, <2>1, <2>3 DEF TakesOut
<1> HIDE DEF d
<1> DEFINE g == SetFocusedView(d, w, next)
<1>6. Freed(g)
  <2>1. Settles(d, g)
    BY <1>2, <1>5, SetFocusedViewIs
  <2>2. \A x \in Workspaces \ {w} : g.strip[x] = d.strip[x]
    BY <1>2, <1>5, SetFocusedViewElsewhere
  <2> HIDE DEF g
  <2>3. Settles(t, g)
    BY <1>5, <2>1, SettlesAgain
  <2>4. v \notin Members(g.strip[w])
    BY <1>5, <2>1 DEF Settles
  <2> QED BY <1>5, <2>2, <2>3, <2>4
<1> HIDE DEF g
<1>7. Freed(freed)
  <2>1. freed = g \/ freed = e
    BY DEF g
  <2> HIDE DEF freed, Freed
  <2> QED BY <1>3, <1>6, <2>1
<1> HIDE DEF freed
<1>8. Typed(freed)
  BY <1>7 DEF Settles
<1>9. Settles(freed, u) /\ u.strip = freed.strip
  BY <1>1, <1>8, MarkedIs
<1>10. Settles(t, u)
  BY <1>7, <1>9, SettlesAgain
<1> QED BY <1>7, <1>9, <1>10 DEF u

\* v is of workspace w now, and nothing else has changed but strips that v is in or was in.
Moves(t, u, v, w) ==
  /\ Good(u) /\ u.home = [t.home EXCEPT ![v] = w] /\ u.kind = t.kind /\ u.grab = t.grab

\* addView of a workspace, for a window that is in no strip.
LEMMA AddViewIs ==
  ASSUME NEW t, Good(t), NEW v \in Windows, \A x \in Workspaces : v \notin Members(t.strip[x]),
         NEW w \in Workspaces, NEW attach \in BOOLEAN, NEW how
  PROVE  LET u == AddView(t, w, v, attach, how) IN Moves(t, u, v, w) /\ (~attach => u.strip = t.strip)
<1> DEFINE here == [t EXCEPT !.home[v] = w]
           a == LayoutAttach(here, v, how)
           b == IF attach THEN a ELSE here
           u == AddView(t, w, v, attach, how)
<1>1. u = MarkArrange(b, w)
  BY DEF AddView
<1>2. /\ Good(here) /\ here.home = [t.home EXCEPT ![v] = w] /\ here.kind = t.kind /\ here.grab = t.grab
      /\ here.strip = t.strip
  <2>1. /\ DOMAIN here = Fields /\ here.home = [t.home EXCEPT ![v] = w] /\ here.kind = t.kind /\ here.grab = t.grab
        /\ here.strip = t.strip /\ here.focused = t.focused /\ here.hidden = t.hidden
        /\ here.members = t.members /\ here.unsettled = t.unsettled
    BY DEF Good, Typed, Fields
  <2> HIDE DEF here
  <2>2. Typed(here)
    BY <2>1 DEF Good, Typed
  <2>3. Sits(here)
    BY <2>1 DEF Good, Typed, Sits
  <2> QED BY <2>1, <2>2, <2>3 DEF Good
<1> HIDE DEF here
<1>3. Attaches(here, a)
  BY <1>2, LayoutAttachIs
<1> HIDE DEF a, u
<1>4. Good(b) /\ Same(here, b) /\ (~attach => b = here)
  <2>1. CASE attach
    BY <1>3, <2>1 DEF Attaches
  <2>2. CASE ~attach
    BY <1>2, <2>2 DEF Same
  <2> QED BY <2>1, <2>2
<1> HIDE DEF b
<1>5. Settles(b, u) /\ u.strip = b.strip /\ Same(b, u)
  <2>1. Typed(b)
    BY <1>4 DEF Good
  <2> QED BY <1>1, <2>1, MarkedIs
<1>6. Good(u)
  BY <1>4, <1>5, SettledIsGood
<1>7. Moves(t, u, v, w)
  BY <1>2, <1>4, <1>5, <1>6 DEF Moves, Same
<1>8. ~attach => u.strip = t.strip
  BY <1>2, <1>4, <1>5
<1> QED BY <1>7, <1>8 DEF u

\* moveToWorkspace: in no strip between the two, in the new one when it attaches.
LEMMA MoveToWorkspaceIs ==
  ASSUME NEW t, Good(t), NEW v \in Windows, NEW w \in Workspaces, NEW attach \in BOOLEAN, NEW how
  PROVE  LET u == MoveToWorkspace(t, v, w, attach, how)
         IN  Moves(t, u, v, w) /\ (~attach => u.strip[w] = t.strip[w])
<1> DEFINE r == WorkspaceRemoveView(t, t.home[v], v, how.recent)
           a == AddView(r, w, v, attach, how)
           u == MoveToWorkspace(t, v, w, attach, how)
<1>1. u = IF t.home[v] = w THEN t ELSE a
  BY DEF MoveToWorkspace
<1>2. Typed(t) /\ t.home[v] \in Workspaces
  BY DEF Good, Typed
<1>3. /\ Settles(t, r) /\ v \notin Members(r.strip[t.home[v]])
      /\ \A x \in Workspaces \ {t.home[v]} : r.strip[x] = t.strip[x]
  BY <1>2, WorkspaceRemoveViewIs
<1> HIDE DEF u, r
<1>4. CASE t.home[v] = w
  <2>1. t.home = [t.home EXCEPT ![v] = w]
    BY <1>2, <1>4 DEF Typed
  <2> QED BY <1>1, <1>4, <2>1 DEF Moves, u
<1>5. CASE t.home[v] # w
  <2>1. Good(r) /\ Same(t, r)
    BY <1>3, SettledIsGood DEF Settles
  <2>2. \A x \in Workspaces : v \notin Members(r.strip[x])
    <3> SUFFICES ASSUME NEW x \in Workspaces, v \in Members(r.strip[x]) PROVE FALSE
      OBVIOUS
    <3>1. r.home[v] = x
      BY <2>1 DEF Good, Sits
    <3>2. t.home[v] = x
      BY <2>1, <3>1 DEF Same
    <3> QED BY <1>3, <3>2
  <2>3. Moves(r, a, v, w) /\ (~attach => a.strip = r.strip)
    BY <2>1, <2>2, AddViewIs
  <2> HIDE DEF a
  <2>4. Moves(t, a, v, w)
    BY <2>1, <2>3 DEF Moves, Same
  <2>5. ~attach => a.strip[w] = t.strip[w]
    BY <1>3, <1>5, <2>3
  <2> QED BY <1>1, <1>5, <2>4, <2>5 DEF u
<1> QED BY <1>4, <1>5

\* What a window is changes, and it stays open.
Recasts(t, u) ==
  /\ Good(u) /\ u.home = t.home /\ u.grab = t.grab
  /\ \A x \in Windows : u.kind[x] = "closed" <=> t.kind[x] = "closed"

\* Another kind.
LEMMA KindIs ==
  ASSUME NEW t, Typed(t), NEW v \in Windows, NEW k \in Kinds
  PROVE  LET u == [t EXCEPT !.kind[v] = k]
         IN  /\ Typed(u) /\ u.home = t.home /\ u.grab = t.grab /\ u.strip = t.strip /\ u.focused = t.focused
             /\ u.kind = [t.kind EXCEPT ![v] = k]
<1> DEFINE u == [t EXCEPT !.kind[v] = k]
<1>1. /\ DOMAIN u = Fields /\ u.home = t.home /\ u.kind = [t.kind EXCEPT ![v] = k] /\ u.grab = t.grab
      /\ u.strip = t.strip /\ u.focused = t.focused /\ u.hidden = t.hidden
      /\ u.members = t.members /\ u.unsettled = t.unsettled
  BY DEF Typed, Fields
<1> HIDE DEF u
<1>2. Typed(u)
  BY <1>1 DEF Typed
<1> QED BY <1>1, <1>2 DEF u

\* A mapped window that tiles or floats from now on.
LEMMA RecastIs ==
  ASSUME NEW t, Good(t), NEW v \in Windows, t.kind[v] # "closed", NEW k \in Kinds \ {"closed"}
  PROVE  Recasts(t, [t EXCEPT !.kind[v] = k])
<1> DEFINE u == [t EXCEPT !.kind[v] = k]
<1>1. /\ Typed(u) /\ u.home = t.home /\ u.grab = t.grab /\ u.strip = t.strip /\ u.focused = t.focused
      /\ u.kind = [t.kind EXCEPT ![v] = k]
  BY KindIs DEF Good
<1> HIDE DEF u
<1>2. \A x \in Windows : u.kind[x] = "closed" <=> t.kind[x] = "closed"
  BY <1>1 DEF Good, Typed
<1>3. Sits(u)
  <2>1. \A w \in Workspaces : Members(t.strip[w]) \subseteq Windows
    BY StripsAre DEF Good, Typed
  <2> QED BY <1>1, <1>2, <2>1 DEF Good, Sits
<1> QED BY <1>1, <1>2, <1>3 DEF Recasts, Good, u

\* setFloating opens and closes no window.
LEMMA SetFloatingIs ==
  ASSUME NEW t, Good(t), NEW v \in Windows, t.kind[v] # "closed",
         NEW floating \in BOOLEAN, NEW attach \in BOOLEAN, NEW how
  PROVE  Recasts(t, SetFloating(t, v, floating, attach, how))
<1> DEFINE w == t.home[v]
           flushed == IF InStrip(t.strip[w], v) THEN FlushArrange(t, w) ELSE t
           d == LayoutDetach(flushed, w, v)
           out == [d EXCEPT !.kind[v] = "floating"]
           tiled == [t EXCEPT !.kind[v] = "tiled"]
           in == LayoutAttach(tiled, v, how)
           u == SetFloating(t, v, floating, attach, how)
<1>0. Typed(t) /\ w \in Workspaces /\ t.kind[v] \in {"tiled", "floating"}
  BY DEF Good, Typed, Kinds
<1>1. u = CASE (t.kind[v] = "floating") = floating -> t
            [] t.kind[v] = "tiled" /\ floating -> out
            [] t.kind[v] = "floating" /\ ~floating -> IF attach THEN in ELSE tiled
  BY DEF SetFloating
<1>2. u \in {t, out, in, tiled}
  <2> HIDE DEF u, in, out, tiled
  <2>1. CASE (t.kind[v] = "floating") = floating
    BY <1>1, <2>1
  <2>2. CASE (t.kind[v] = "floating") # floating
    <3>1. t.kind[v] = "tiled" => floating
      BY <2>2
    <3>2. t.kind[v] = "floating" => ~floating
      BY <2>2
    <3> QED BY <1>0, <1>1, <2>2, <3>1, <3>2
  <2> QED BY <2>1, <2>2
<1> HIDE DEF u, w
<1>3. Recasts(t, t)
  BY DEF Recasts
<1>4. Recasts(t, tiled)
  <2>1. "tiled" \in Kinds \ {"closed"}
    BY DEF Kinds
  <2> QED BY <2>1, RecastIs
<1> HIDE DEF tiled
<1>5. Recasts(t, in)
  <2>1. Attaches(tiled, in)
    BY <1>4, LayoutAttachIs DEF Recasts
  <2> HIDE DEF in
  <2> QED BY <1>4, <2>1 DEF Attaches, Recasts, Same
<1> HIDE DEF in
<1>6. Recasts(t, out)
  <2>1. Settles(t, flushed)
    <3>1. Settles(t, FlushArrange(t, w)) /\ Settles(t, t)
      BY <1>0, FlushArrangeIs, SettlesItself
    <3> QED BY <3>1
  <2> HIDE DEF flushed
  <2>2. TakesOut(flushed, d, w, v)
    BY <1>0, <2>1, LayoutDetachIs DEF Settles
  <2> HIDE DEF d
  <2>3. Settles(t, d)
    BY <2>1, <2>2, SettlesAgain DEF TakesOut
  <2>4. Good(d) /\ d.kind = t.kind /\ d.home = t.home /\ d.grab = t.grab
    BY <2>3, SettledIsGood DEF Settles, Same
  <2>5. Recasts(d, out)
    <3>1. "floating" \in Kinds \ {"closed"} /\ d.kind[v] # "closed"
      BY <2>4 DEF Kinds
    <3> QED BY <2>4, <3>1, RecastIs
  <2> HIDE DEF out
  <2> QED BY <2>4, <2>5 DEF Recasts
<1> HIDE DEF out
<1>7. Recasts(t, u)
  BY <1>2, <1>3, <1>4, <1>5, <1>6
<1> QED BY <1>7 DEF u

-----------------------------------------------------------------------------
(* Tab groups carried by a drag *)

GrabFields == {"view", "pending", "source", "aimed", "lifted", "column", "row"}
\* A lifted group is of windows that are open, each once, with the dragged one among them.
Carries(t) ==
  /\ DOMAIN t.grab = GrabFields
  /\ t.grab.view \in Windows \cup {NoWindow}
  /\ t.grab.lifted \in Seq(Windows) /\ Apart(t.grab.lifted)
  /\ t.grab.column \in Nat /\ t.grab.row \in Nat
  /\ \A v \in ToSet(t.grab.lifted) \ {t.grab.view} : t.kind[v] # "closed"
  /\ t.grab.lifted # <<>> => t.grab.view \in ToSet(t.grab.lifted)

\* Windows shown or hidden.
LEMMA HiddenIs ==
  ASSUME NEW t, Typed(t), NEW H \in SUBSET Windows
  PROVE  LET u == [t EXCEPT !.hidden = H]
         IN  Typed(u) /\ Same(t, u) /\ u.strip = t.strip /\ u.focused = t.focused /\ Settles(t, u)
<1> DEFINE u == [t EXCEPT !.hidden = H]
<1>1. /\ DOMAIN u = Fields /\ Same(t, u) /\ u.strip = t.strip /\ u.focused = t.focused
      /\ u.hidden = H /\ u.members = t.members /\ u.unsettled = t.unsettled
  BY DEF Typed, Fields, Same
<1> HIDE DEF u
<1>3. Typed(u)
  BY <1>1 DEF Typed, Same
<1> QED BY <1>1, <1>3 DEF u, Settles

\* A window that is no longer hidden.
LEMMA ShownIs ==
  ASSUME NEW t, Good(t), NEW v
  PROVE  LET u == [t EXCEPT !.hidden = @ \ {v}] IN Good(u) /\ Same(t, u) /\ u.strip = t.strip
<1> DEFINE H == t.hidden \ {v}  u == [t EXCEPT !.hidden = H]
<1>1. Typed(t) /\ H \in SUBSET Windows
  BY DEF Good, Typed
<1> HIDE DEF H
<1>2. Typed(u) /\ Same(t, u) /\ u.strip = t.strip /\ u.focused = t.focused /\ Settles(t, u)
  BY <1>1, HiddenIs
<1> HIDE DEF u
<1>3. Good(u)
  BY <1>2, SettledIsGood
<1> QED BY <1>2, <1>3 DEF u, H

\* One tab of a lifted group leaves its strip, hidden.
LEMMA LiftStep ==
  ASSUME NEW t, Typed(t), NEW w \in Workspaces, NEW v \in Windows
  PROVE  LET u == [LayoutDetach(t, w, v) EXCEPT !.hidden = @ \cup {v}]
         IN  Settles(t, u) /\ Members(u.strip[w]) = Members(t.strip[w]) \ {v}
<1> DEFINE d == LayoutDetach(t, w, v)
<1>1. TakesOut(t, d, w, v)
  BY LayoutDetachIs
<1> HIDE DEF d
<1> DEFINE H == d.hidden \cup {v}  u == [d EXCEPT !.hidden = H]
<1>2. Typed(d) /\ Settles(t, d) /\ H \in SUBSET Windows
  BY <1>1 DEF TakesOut, Typed
<1> HIDE DEF H
<1>3. Typed(u) /\ Same(d, u) /\ u.strip = d.strip /\ u.focused = d.focused /\ Settles(d, u)
  BY <1>2, HiddenIs
<1> HIDE DEF u
<1>4. Settles(t, u)
  BY <1>2, <1>3, SettlesAgain
<1>5. Members(u.strip[w]) = Members(t.strip[w]) \ {v}
  BY <1>1, <1>3 DEF TakesOut
<1> QED BY <1>4, <1>5 DEF u, H, d

\* A drag takes the rest of the group out, and notes all of it.
LEMMA LiftTabGroupIs ==
  ASSUME NEW t, Good(t), Carries(t), NEW w \in Workspaces, NEW v \in Windows, t.grab.view = v
  PROVE  LET u == LiftTabGroup(t, w, v)
         IN  Good(u) /\ Carries(u) /\ u.home = t.home /\ u.kind = t.kind /\ u.grab.view = v
<1> DEFINE tabs == UnitOf(t.strip[w], v)
           Lift(acc, u) == IF u = v THEN acc ELSE [LayoutDetach(acc, w, u) EXCEPT !.hidden = @ \cup {u}]
           N == Len(tabs)
           Lifts(g, n) == g = [k \in 0..n |-> IF k = 0 THEN t ELSE Lift(g[k - 1], tabs[k])]
           lift == CHOOSE g : Lifts(g, N)
           out == lift[N]
           c == ColumnOf(out.strip[w], v)
           r == IF Len(out.strip[w][c].rows) > 1 THEN RowOf(out.strip[w], v) ELSE 0
           u == LiftTabGroup(t, w, v)
<1>1. u = IF ~IsTab(t.strip[w], v) THEN t
          ELSE [out EXCEPT !.grab.lifted = tabs, !.grab.column = c, !.grab.row = r]
  BY DEF LiftTabGroup
<1> HIDE DEF u
<1>2. CASE ~IsTab(t.strip[w], v)
  BY <1>1, <1>2 DEF u
<1>3. CASE IsTab(t.strip[w], v)
  <2>1. Fits(Windows, t.strip[w]) /\ v \in Members(t.strip[w]) /\ Typed(t)
    BY <1>3, StripsAre DEF Good, Typed, IsTab, InStrip
  <2>2. /\ tabs \in Seq(Windows) /\ Apart(tabs) /\ v \in ToSet(tabs)
        /\ ToSet(tabs) \subseteq Members(t.strip[w])
    BY <2>1, UnitOfIs
  <2>3. N \in Nat /\ \A k \in 1..N : tabs[k] \in Windows
    BY <2>2
  <2> HIDE DEF tabs, Lift, N, c, r
  <2>4. \E g : Lifts(g, N)
    <3> DEFINE P == {n \in Nat : \E g : Lifts(g, n)}
    <3>1. 0 \in P
      <4>1. Lifts([k \in 0..0 |-> t], 0)
        OBVIOUS
      <4> QED BY <4>1
    <3>2. ASSUME NEW n \in 0..(N - 1), n \in P PROVE n + 1 \in P
      <4>1. PICK g : Lifts(g, n)
        BY <3>2
      <4> DEFINE h == [k \in 0..(n + 1) |-> IF k = n + 1 THEN Lift(g[n], tabs[n + 1]) ELSE g[k]]
      <4>2. \A k \in 0..(n + 1) : h[k] = IF k = 0 THEN t ELSE Lift(h[k - 1], tabs[k])
        BY <2>3, <4>1
      <4>3. Lifts(h, n + 1)
        BY <2>3, <4>2
      <4>4. n + 1 \in Nat
        BY <2>3
      <4> HIDE DEF Lifts, h
      <4> QED BY <4>3, <4>4
    <3> HIDE DEF P
    <3>3. N \in P
      BY <2>3, <3>1, <3>2, Upto
    <3> QED BY <3>3 DEF P
  <2>5. Lifts(lift, N)
    BY <2>4
  <2> HIDE DEF lift
  <2>6. lift[0] = t /\ \A k \in 1..N : lift[k] = Lift(lift[k - 1], tabs[k])
    BY <2>3, <2>5
  <2> DEFINE Is(x) == Settles(t, x) /\ v \in Members(x.strip[w])
             Q == {n \in 0..N : Is(lift[n])}
  <2>7. 0 \in Q
    <3>1. Is(t)
      BY <2>1, SettlesItself
    <3> QED BY <2>3, <2>6, <3>1
  <2>8. ASSUME NEW n \in 0..(N - 1), n \in Q PROVE n + 1 \in Q
    <3>1. n + 1 \in 1..N /\ n + 1 \in 0..N /\ (n + 1) - 1 = n
      BY <2>3
    <3> DEFINE x == lift[n]  y == lift[n + 1]  z == tabs[n + 1]
               m == [LayoutDetach(x, w, z) EXCEPT !.hidden = @ \cup {z}]
    <3>2. y = Lift(x, z) /\ z \in Windows /\ Is(x)
      BY <2>3, <2>6, <2>8, <3>1
    <3>3. y = IF z = v THEN x ELSE m
      BY <3>2 DEF Lift
    <3>4. Typed(x) /\ Settles(t, x) /\ v \in Members(x.strip[w])
      BY <3>2 DEF Settles
    <3> HIDE DEF x, y, z
    <3>5. Settles(x, m) /\ Members(m.strip[w]) = Members(x.strip[w]) \ {z}
      BY <3>2, <3>4, LiftStep
    <3> HIDE DEF m
    <3>6. Settles(t, m)
      BY <3>4, <3>5, SettlesAgain
    <3>7. Is(y)
      BY <3>2, <3>3, <3>4, <3>5, <3>6
    <3> HIDE DEF Is
    <3> QED BY <3>1, <3>7 DEF y
  <2> HIDE DEF Q
  <2>9. N \in Q
    BY <2>3, <2>7, <2>8, Upto
  <2>10. Settles(t, out) /\ v \in Members(out.strip[w])
    BY <2>9 DEF Q
  <2> HIDE DEF out
  <2>11. c \in Nat /\ r \in Nat
    <3>1. Fits(Windows, out.strip[w])
      BY <2>10, StripsAre DEF Settles, Typed
    <3>2. Loose(Windows, out.strip[w]) /\ Len(out.strip[w]) \in Nat
      BY <3>1, FitsAre
    <3>3. /\ c \in 1..Len(out.strip[w]) /\ RowOf(out.strip[w], v) \in 1..Len(out.strip[w][c].rows)
          /\ Whole(Windows, out.strip[w][c])
      BY <2>10, <3>2, ColumnOfIs DEF c
    <3>4. Len(out.strip[w][c].rows) \in Nat
      BY <3>3, WholeIs
    <3> QED BY <3>2, <3>3, <3>4 DEF r
  <2> DEFINE e == [out EXCEPT !.grab.lifted = tabs, !.grab.column = c, !.grab.row = r]
  <2>12. /\ DOMAIN e = Fields /\ e.home = out.home /\ e.kind = out.kind /\ e.strip = out.strip /\ e.focused = out.focused
         /\ e.hidden = out.hidden /\ e.members = out.members /\ e.unsettled = out.unsettled
    BY <2>10 DEF Settles, Typed, Fields
  <2>13. /\ DOMAIN e.grab = GrabFields /\ e.grab.view = v
         /\ e.grab.lifted = tabs /\ e.grab.column = c /\ e.grab.row = r
    <3>1. out.grab = t.grab /\ DOMAIN t.grab = GrabFields /\ DOMAIN out = Fields
      BY <2>10 DEF Settles, Same, Carries, Typed
    <3>2. e.grab = [[[out.grab EXCEPT !.lifted = tabs] EXCEPT !.column = c] EXCEPT !.row = r]
      BY <3>1 DEF Fields, GrabFields
    <3> HIDE DEF e
    <3> QED BY <3>1, <3>2 DEF GrabFields
  <2> HIDE DEF e
  <2>14. Good(e)
    <3>1. Good(out)
      BY <2>10, SettledIsGood
    <3>2. Typed(e)
      BY <2>12, <3>1 DEF Good, Typed
    <3> QED BY <2>12, <3>1, <3>2 DEF Good, Sits
  <2>15. e.home = t.home /\ e.kind = t.kind
    BY <2>10, <2>12 DEF Settles, Same
  <2>16. Carries(e)
    <3>1. \A x \in ToSet(tabs) : e.kind[x] # "closed"
      BY <2>2, <2>15 DEF Good, Sits
    <3> QED BY <2>2, <2>11, <2>13, <3>1 DEF Carries
  <2> QED BY <1>1, <1>3, <2>13, <2>14, <2>15, <2>16 DEF e, u
<1> QED BY <1>2, <1>3

\* The window a group is rebuilt around becomes a group of one.
LEMMA AsGroupIs ==
  ASSUME NEW s, Fits(Windows, s), NEW v \in Members(s)
  PROVE  Fits(Windows, AsGroup(s, v)) /\ Members(AsGroup(s, v)) = Members(s)
<1> DEFINE c == ColumnOf(s, v)  r == RowOf(s, v)  tabs == Form(s[c].tabs, r, 1, r)
<1>1. AsGroup(s, v) = IF IsTab(s, v) THEN s ELSE AdoptTabs(s, c, tabs)
  BY DEF AsGroup, TabsAt
<1>2. CASE IsTab(s, v)
  BY <1>1, <1>2
<1>3. CASE ~IsTab(s, v)
  <2>1. Loose(Windows, s)
    BY FitsAre
  <2>2. c \in DOMAIN s /\ Whole(Windows, s[c]) /\ r \in 1..Len(s[c].rows) /\ InStrip(s, v)
    BY <2>1, ColumnOfIs
  <2>3. ~Grouped(s[c].tabs, r)
    BY <1>3, <2>2 DEF IsTab, TabsAt
  <2>4. Groups(s[c].tabs, Len(s[c].rows)) /\ Len(s[c].rows) \in Nat
    BY <2>2, WholeIs
  <2>5. r \in Nat /\ 1 \in Nat /\ r >= 1 /\ r + 1 <= Len(s[c].rows) + 1 /\ r <= r /\ r < r + 1
    BY <2>2, <2>4
  <2>6. \A x \in r..(r + 1 - 1) : ~Grouped(s[c].tabs, x)
    BY <2>3, <2>5
  <2> HIDE DEF c, r
  <2>7. Groups(tabs, Len(s[c].rows))
    BY <2>4, <2>5, <2>6, FormIs
  <2> HIDE DEF tabs
  <2>8. Reshapes(Windows, s, AdoptTabs(s, c, tabs)) /\ Members(AdoptTabs(s, c, tabs)) = Members(s)
    BY <2>2, <2>7, AdoptTabsIs
  <2> QED BY <1>1, <1>3, <2>8 DEF Reshapes
<1> QED BY <1>2, <1>3

\* A strip that takes up a window where it belongs.
LEMMA LaidAttaches ==
  ASSUME NEW t, Good(t), NEW w \in Workspaces, NEW s, Fits(Windows, s), Members(t.strip[w]) \subseteq Members(s),
         \A v \in Members(s) : t.home[v] = w /\ t.kind[v] # "closed"
  PROVE  Attaches(t, Lay(t, w, s)) /\ Members(Lay(t, w, s).strip[w]) = Members(s)
<1> DEFINE l == Lay(t, w, s)
<1>1. s \in Strips /\ Typed(t)
  BY StripsAre DEF Good
<1>2. Good(l) /\ Same(t, l)
  BY <1>1, LaidIsGood
<1>3. /\ Typed(l) /\ Same(t, l) /\ l.focused = t.focused /\ l.members = t.members
      /\ l.strip = [t.strip EXCEPT ![w] = s] /\ l.hidden = t.hidden /\ l.unsettled = t.unsettled
      /\ l.strip[w] = s /\ \A x \in Workspaces \ {w} : l.strip[x] = t.strip[x]
  BY <1>1, LaidIs
<1> HIDE DEF l
<1>4. \A x \in Workspaces : Members(t.strip[x]) \subseteq Members(l.strip[x])
  BY <1>3
<1>5. Attaches(t, l)
  BY <1>2, <1>4 DEF Attaches
<1> QED BY <1>3, <1>5 DEF l

\* A window rejoins the group, or is attached like any other.
LEMMA JoinTabGroupIs ==
  ASSUME NEW t, Good(t), NEW u \in Windows, NEW v \in Windows, t.home[u] = t.home[v], t.kind[u] # "closed",
         v \in Members(t.strip[t.home[v]]), NEW c, NEW offset \in Int, NEW how
  PROVE  Attaches(t, JoinTabGroup(t, u, v, c, offset, how))
<1> DEFINE w == t.home[v]
           row == RowOf(t.strip[w], v) + offset
           s == InsertTab(t.strip[w], u, c, row, v)
           sh == [t EXCEPT !.hidden = @ \ {u}]
           a == LayoutAttach(sh, u, how)
           j == JoinTabGroup(t, u, v, c, offset, how)
<1>1. j = IF CanInsertTab(t.strip[w], u, c, row, v) THEN Lay(t, w, s) ELSE a
  BY DEF JoinTabGroup
<1>2. w \in Workspaces /\ t.home[u] = w /\ Fits(Windows, t.strip[w]) /\ v \in Members(t.strip[w])
  BY StripsAre DEF Good, Typed
<1>3. row \in Int
  <2>1. Loose(Windows, t.strip[w])
    BY <1>2, FitsAre
  <2>2. RowOf(t.strip[w], v) \in 1..Len(t.strip[w][ColumnOf(t.strip[w], v)].rows)
    BY <1>2, <2>1, ColumnOfIs
  <2> QED BY <2>2
<1> HIDE DEF j, w, row
<1>4. CASE CanInsertTab(t.strip[w], u, c, row, v)
  <2>1. Fits(Windows, s) /\ Members(s) = Members(t.strip[w]) \cup {u}
    BY <1>2, <1>3, <1>4, InsertTabIs
  <2> HIDE DEF s
  <2>2. \A x \in Members(s) : t.home[x] = w /\ t.kind[x] # "closed"
    BY <1>2, <2>1 DEF Good, Sits
  <2>3. Members(t.strip[w]) \subseteq Members(s)
    BY <2>1
  <2>4. Attaches(t, Lay(t, w, s))
    BY <1>2, <2>1, <2>2, <2>3, LaidAttaches
  <2> QED BY <1>1, <1>4, <2>4 DEF j
<1>5. CASE ~CanInsertTab(t.strip[w], u, c, row, v)
  <2>1. Good(sh) /\ Same(t, sh) /\ sh.strip = t.strip
    BY ShownIs
  <2> HIDE DEF sh
  <2>2. Attaches(sh, a)
    BY <2>1, LayoutAttachIs
  <2> HIDE DEF a
  <2>3. Attaches(t, a)
    BY <2>1, <2>2 DEF Attaches, Same
  <2> QED BY <1>1, <1>5, <2>3 DEF j
<1> QED BY <1>4, <1>5

\* The group lands around v.
LEMMA RebuildTabGroupIs ==
  ASSUME NEW t, Good(t), NEW v \in Windows, v \in Members(t.strip[t.home[v]]),
         NEW tabs \in Seq(Windows), v \in ToSet(tabs), \A u \in ToSet(tabs) : t.kind[u] # "closed", NEW how
  PROVE  LET x == RebuildTabGroup(t, v, tabs, how) IN Good(x) /\ x.kind = t.kind /\ x.grab = t.grab
<1> DEFINE w == t.home[v]
           c == ColumnOf(t.strip[w], v)
           at(u) == CHOOSE k \in DOMAIN tabs : tabs[k] = u
           start == Lay(t, w, AsGroup(t.strip[w], v))
           Rejoin(acc, u) ==
             IF u = v THEN acc
             ELSE JoinTabGroup(MoveToWorkspace(acc, u, w, FALSE, how), u, v, c, RowFrom(at(u), at(v)), how)
           N == Len(tabs)
           Rejoins(g, n) == g = [k \in 0..n |-> IF k = 0 THEN start ELSE Rejoin(g[k - 1], tabs[k])]
           rejoin == CHOOSE g : Rejoins(g, N)
           x == RebuildTabGroup(t, v, tabs, how)
<1>1. x = MarkArrange(rejoin[N], w)
  BY DEF RebuildTabGroup
<1>2. /\ N \in Nat /\ DOMAIN tabs = 1..N /\ \A k \in 1..N : tabs[k] \in Windows /\ tabs[k] \in ToSet(tabs)
  BY DEF ToSet
<1>3. \A u \in ToSet(tabs) : at(u) \in Nat
  <2>1. \A u \in ToSet(tabs) : \E k \in DOMAIN tabs : tabs[k] = u
    BY DEF ToSet
  <2>2. \A u \in ToSet(tabs) : at(u) \in DOMAIN tabs
    BY <2>1
  <2> QED BY <1>2, <2>2
<1>4. w \in Workspaces /\ v \in Members(t.strip[w]) /\ t.home[v] = w
  BY DEF Good, Typed
<1> HIDE DEF x, w, c, at, N, Rejoin
<1>5. Attaches(t, start) /\ Members(start.strip[w]) = Members(t.strip[w])
  <2> DEFINE s == AsGroup(t.strip[w], v)
  <2>1. Fits(Windows, t.strip[w])
    BY <1>4, StripsAre DEF Good, Typed
  <2>2. Fits(Windows, s) /\ Members(s) = Members(t.strip[w])
    BY <1>4, <2>1, AsGroupIs
  <2> HIDE DEF s
  <2>3. \A y \in Members(s) : t.home[y] = w /\ t.kind[y] # "closed"
    BY <1>4, <2>2 DEF Good, Sits
  <2>4. Members(t.strip[w]) \subseteq Members(s)
    BY <2>2
  <2>5. Attaches(t, Lay(t, w, s)) /\ Members(Lay(t, w, s).strip[w]) = Members(s)
    BY <1>4, <2>2, <2>3, <2>4, LaidAttaches
  <2> QED BY <2>2, <2>5 DEF s
<1> HIDE DEF start
<1>6. \E g : Rejoins(g, N)
  <2> DEFINE P == {n \in Nat : \E g : Rejoins(g, n)}
  <2>1. 0 \in P
    <3>1. Rejoins([k \in 0..0 |-> start], 0)
      OBVIOUS
    <3> QED BY <3>1
  <2>2. ASSUME NEW n \in 0..(N - 1), n \in P PROVE n + 1 \in P
    <3>1. PICK g : Rejoins(g, n)
      BY <2>2
    <3> DEFINE h == [k \in 0..(n + 1) |-> IF k = n + 1 THEN Rejoin(g[n], tabs[n + 1]) ELSE g[k]]
    <3>2. \A k \in 0..(n + 1) : h[k] = IF k = 0 THEN start ELSE Rejoin(h[k - 1], tabs[k])
      BY <1>2, <3>1
    <3>3. Rejoins(h, n + 1)
      BY <1>2, <3>2
    <3>4. n + 1 \in Nat
      BY <1>2
    <3> HIDE DEF Rejoins, h
    <3> QED BY <3>3, <3>4
  <2> HIDE DEF P
  <2>3. N \in P
    BY <1>2, <2>1, <2>2, Upto
  <2> QED BY <2>3 DEF P
<1>7. Rejoins(rejoin, N)
  BY <1>6
<1> HIDE DEF rejoin
<1>8. rejoin[0] = start /\ \A k \in 1..N : rejoin[k] = Rejoin(rejoin[k - 1], tabs[k])
  BY <1>2, <1>7
<1> DEFINE Is(y) == Good(y) /\ y.kind = t.kind /\ y.grab = t.grab /\ y.home[v] = w /\ v \in Members(y.strip[w])
           Q == {n \in 0..N : Is(rejoin[n])}
<1>9. 0 \in Q
  <2>1. Is(start)
    BY <1>4, <1>5 DEF Attaches, Same
  <2> QED BY <1>2, <1>8, <2>1
<1>10. ASSUME NEW n \in 0..(N - 1), n \in Q PROVE n + 1 \in Q
  <2>1. n + 1 \in 1..N /\ n + 1 \in 0..N /\ (n + 1) - 1 = n
    BY <1>2
  <2> DEFINE y == rejoin[n]  z == rejoin[n + 1]  u == tabs[n + 1]
             m == MoveToWorkspace(y, u, w, FALSE, how)
             o == RowFrom(at(u), at(v))
             j == JoinTabGroup(m, u, v, c, o, how)
  <2>2. z = Rejoin(y, u) /\ u \in Windows /\ u \in ToSet(tabs) /\ Is(y)
    BY <1>2, <1>8, <1>10, <2>1
  <2>3. z = IF u = v THEN y ELSE j
    BY <2>2 DEF Rejoin
  <2> HIDE DEF y, z, u
  <2>4. CASE u = v
    <3>1. Is(z)
      BY <2>2, <2>3, <2>4
    <3> HIDE DEF Is
    <3> QED BY <2>1, <3>1 DEF z
  <2>5. CASE u # v
    <3>1. Good(y) /\ y.kind = t.kind /\ y.grab = t.grab /\ y.home[v] = w /\ v \in Members(y.strip[w])
      BY <2>2
    <3>2. \A b \in BOOLEAN : LET mm == MoveToWorkspace(y, u, w, b, how)
                             IN  Moves(y, mm, u, w) /\ (~b => mm.strip[w] = y.strip[w])
      BY <1>4, <2>2, <3>1, MoveToWorkspaceIs
    <3>3. Moves(y, m, u, w) /\ m.strip[w] = y.strip[w]
      BY <3>2, Zenon
    <3> HIDE DEF m
    <3>4. Good(m) /\ m.home = [y.home EXCEPT ![u] = w] /\ m.kind = t.kind /\ m.grab = t.grab
      BY <3>1, <3>3 DEF Moves
    <3>5. m.home[u] = w /\ m.home[v] = w
      BY <2>2, <2>5, <3>1, <3>4 DEF Good, Typed
    <3>6. m.kind[u] # "closed" /\ v \in Members(m.strip[m.home[v]]) /\ m.home[u] = m.home[v]
      BY <2>2, <3>1, <3>3, <3>4, <3>5
    <3>7. o \in Int
      <4>1. at(u) \in Nat /\ at(v) \in Nat
        BY <1>3, <2>2
      <4> QED BY <4>1 DEF RowFrom
    <3> HIDE DEF o
    <3>8. Attaches(m, j)
      BY <2>2, <3>4, <3>6, <3>7, JoinTabGroupIs
    <3> HIDE DEF j
    <3>9. Is(z)
      BY <1>4, <2>3, <2>5, <3>1, <3>3, <3>4, <3>5, <3>8 DEF Attaches, Same
    <3> HIDE DEF Is
    <3> QED BY <2>1, <3>9 DEF z
  <2> QED BY <2>4, <2>5
<1> HIDE DEF Q
<1>11. N \in Q
  BY <1>2, <1>9, <1>10, Upto
<1>12. Is(rejoin[N])
  BY <1>11 DEF Q
<1>13. Settles(rejoin[N], x) /\ Same(rejoin[N], x)
  <2> DEFINE y == rejoin[N]
  <2>1. Typed(y)
    BY <1>12 DEF Good
  <2>2. x = MarkArrange(y, w)
    BY <1>1
  <2> HIDE DEF y
  <2>3. Settles(y, x) /\ Same(y, x)
    BY <1>4, <2>1, <2>2, MarkedIs
  <2> QED BY <2>3 DEF y
<1>14. Good(x)
  BY <1>12, <1>13, SettledIsGood
<1> QED BY <1>12, <1>13, <1>14 DEF Same, x

\* returnTabGroup: the window is back in a strip, even when its column is gone.
LEMMA ReturnTabGroupIs ==
  ASSUME NEW t, Good(t), Carries(t), NEW v \in Windows, t.kind[v] # "closed", NEW how
  PROVE  LET u == ReturnTabGroup(t, v, how)
         IN  Good(u) /\ Same(t, u) /\ v \in Members(u.strip[u.home[v]])
<1> DEFINE w == t.home[v]
           again == IF t.grab.row = 0 THEN t.strip[w]
                    ELSE InsertViewIntoColumn(t.strip[w], v, t.grab.column, t.grab.row)
           s == InsertView(again, v, t.grab.column, how.tabbed)
           sh == [t EXCEPT !.hidden = @ \ {v}]
           l == Lay(sh, w, s)
           u == ReturnTabGroup(t, v, how)
<1>1. u = l
  BY DEF ReturnTabGroup
<1>2. Fits(Windows, t.strip[w]) /\ t.grab.column \in Int /\ t.grab.row \in Int /\ w \in Workspaces /\ t.home[v] = w
  BY StripsAre DEF Good, Typed, Carries
<1>3. Good(sh) /\ Same(t, sh) /\ sh.strip = t.strip
  BY ShownIs
<1> HIDE DEF sh, u
<1>4. Fits(Windows, again) /\ Members(t.strip[w]) \subseteq Members(again) /\ Members(again) \subseteq Members(t.strip[w]) \cup {v}
  <2> DEFINE i == InsertViewIntoColumn(t.strip[w], v, t.grab.column, t.grab.row)
  <2>1. Fits(Windows, i) /\ Members(i) \subseteq Members(t.strip[w]) \cup {v} /\ Members(t.strip[w]) \subseteq Members(i)
    BY <1>2, InsertViewIntoColumnIs
  <2> HIDE DEF i
  <2> QED BY <1>2, <2>1 DEF i
<1> HIDE DEF again
<1>5. Fits(Windows, s) /\ Members(s) = Members(again) \cup {v}
  BY <1>2, <1>4, InsertViewIs
<1> HIDE DEF s, w
<1>6. \A x \in Members(s) : sh.home[x] = w /\ sh.kind[x] # "closed"
  BY <1>2, <1>3, <1>4, <1>5 DEF Good, Sits, Same
<1>7. Members(sh.strip[w]) \subseteq Members(s)
  BY <1>3, <1>4, <1>5
<1>8. Attaches(sh, l) /\ Members(l.strip[w]) = Members(s)
  BY <1>2, <1>3, <1>5, <1>6, <1>7, LaidAttaches
<1> HIDE DEF l
<1>9. Good(l) /\ Same(t, l) /\ l.home[v] = w
  BY <1>2, <1>3, <1>8 DEF Attaches, Same
<1>10. v \in Members(l.strip[l.home[v]])
  BY <1>5, <1>8, <1>9
<1> QED BY <1>1, <1>9, <1>10 DEF u

\* landTabGroup, whether the dragged window tiles, floats or has unmapped.
LEMMA LandTabGroupIs ==
  ASSUME NEW t, Good(t), Carries(t), t.grab.lifted # <<>>, NEW how
  PROVE  LET u == LandTabGroup(t, how) IN Good(u) /\ u.kind = t.kind
<1> DEFINE v == t.grab.view
           lifted == t.grab.lifted
           dragged == CHOOSE k \in DOMAIN lifted : lifted[k] = v
           joins == Placed(t, v) \/ t.kind[v] = "tiled"
           tabs == IF joins THEN lifted ELSE RemoveAt(lifted, dragged)
           shown == IF joins THEN v ELSE tabs[Clamped(dragged - 1, 1, Len(tabs))]
           back == ReturnTabGroup(t, shown, how)
           landed == IF Placed(t, v) THEN t ELSE back
           u == LandTabGroup(t, how)
<1>1. u = IF tabs = <<>> THEN t ELSE RebuildTabGroup(landed, shown, tabs, how)
  BY DEF LandTabGroup
<1> HIDE DEF u
<1>2. /\ lifted \in Seq(Windows) /\ Apart(lifted) /\ v \in ToSet(lifted)
      /\ \A x \in ToSet(lifted) \ {v} : t.kind[x] # "closed"
  BY DEF Carries
<1>3. Len(lifted) \in Nat /\ DOMAIN lifted = 1..Len(lifted) /\ v \in Windows
  BY <1>2 DEF ToSet
<1>4. dragged \in 1..Len(lifted) /\ lifted[dragged] = v
  <2>1. \E k \in DOMAIN lifted : lifted[k] = v
    BY <1>2 DEF ToSet
  <2> QED BY <1>3, <2>1
<1> HIDE DEF dragged
<1>5. Placed(t, v) => v \in Members(t.strip[t.home[v]]) /\ t.kind[v] # "closed"
  BY <1>3 DEF Placed, InStrip, Good, Typed, Sits
<1> DEFINE Fine(q, x) == /\ q \in Seq(Windows) /\ x \in Windows /\ x \in ToSet(q)
                         /\ \A y \in ToSet(q) : t.kind[y] # "closed"
<1> DEFINE Ready(q, x) == Fine(q, x) /\ (Placed(t, v) => x \in Members(t.strip[t.home[x]]))
<1>6. tabs = <<>> \/ Ready(tabs, shown)
  <2>1. CASE joins
    <3>1. t.kind[v] # "closed"
      BY <1>5, <2>1
    <3>2. tabs = lifted /\ shown = v
      BY <2>1
    <3> HIDE DEF tabs, shown, lifted, v
    <3>3. Fine(tabs, shown)
      BY <1>2, <1>3, <3>1, <3>2
    <3> HIDE DEF Fine
    <3> QED BY <1>5, <3>2, <3>3
  <2>2. CASE ~joins /\ tabs # <<>>
    <3>1. tabs = RemoveAt(lifted, dragged) /\ shown = tabs[Clamped(dragged - 1, 1, Len(tabs))] /\ ~Placed(t, v)
      BY <2>2
    <3>2. tabs # <<>>
      BY <2>2
    <3> HIDE DEF tabs, shown, joins, lifted
    <3>3. /\ RemoveAt(lifted, dragged) \in Seq(Windows) /\ Len(RemoveAt(lifted, dragged)) = Len(lifted) - 1
          /\ \A k \in 1..(Len(lifted) - 1) : RemoveAt(lifted, dragged)[k] =
               IF k < dragged THEN lifted[k] ELSE lifted[k + 1]
      BY <1>2, <1>4, RemoveAtIs
    <3>4. /\ tabs \in Seq(Windows) /\ Len(tabs) = Len(lifted) - 1
          /\ \A k \in 1..(Len(lifted) - 1) : tabs[k] = IF k < dragged THEN lifted[k] ELSE lifted[k + 1]
      BY <3>1, <3>3
    <3>5. \A k \in 1..Len(tabs) : tabs[k] \in ToSet(lifted) \ {v}
      <4> SUFFICES ASSUME NEW k \in 1..Len(tabs) PROVE tabs[k] \in ToSet(lifted) \ {v}
        OBVIOUS
      <4> DEFINE i == IF k < dragged THEN k ELSE k + 1
      <4>1. tabs[k] = lifted[i] /\ i \in 1..Len(lifted) /\ i # dragged
        BY <1>3, <1>4, <3>4
      <4> HIDE DEF i
      <4>2. lifted[i] # v
        BY <1>2, <1>3, <1>4, <4>1 DEF Apart
      <4> QED BY <1>3, <4>1, <4>2 DEF ToSet
    <3>6. Len(tabs) \in Nat /\ Len(tabs) >= 1 /\ DOMAIN tabs = 1..Len(tabs)
      BY <3>2, <3>4
    <3>7. Clamped(dragged - 1, 1, Len(tabs)) \in 1..Len(tabs)
      BY <1>4, <3>6, <1>3 DEF Clamped
    <3>8. ToSet(tabs) \subseteq ToSet(lifted) \ {v} /\ shown \in ToSet(tabs) /\ shown \in Windows
      <4>1. ToSet(tabs) = {tabs[k] : k \in 1..Len(tabs)}
        BY <3>6 DEF ToSet
      <4>2. shown \in ToSet(tabs)
        BY <3>1, <3>7, <4>1
      <4>3. ToSet(tabs) \subseteq Windows
        BY <3>4, <3>6, <4>1
      <4> QED BY <3>5, <4>1, <4>2, <4>3
    <3> HIDE DEF v
    <3>9. Fine(tabs, shown)
      BY <1>2, <3>4, <3>8
    <3> HIDE DEF Fine
    <3> QED BY <3>1, <3>9
  <2> QED BY <2>1, <2>2
<1> HIDE DEF tabs, shown, joins, lifted
<1>7. CASE tabs = <<>>
  BY <1>1, <1>7 DEF u
<1>8. CASE tabs # <<>>
  <2>1. Ready(tabs, shown)
    BY <1>6, <1>8
  <2>2. /\ tabs \in Seq(Windows) /\ shown \in Windows /\ shown \in ToSet(tabs)
        /\ (\A y \in ToSet(tabs) : t.kind[y] # "closed") /\ t.kind[shown] # "closed"
        /\ (Placed(t, v) => shown \in Members(t.strip[t.home[shown]]))
    BY <2>1
  <2> HIDE DEF v, Fine, Ready
  <2>3. Good(back) /\ Same(t, back) /\ shown \in Members(back.strip[back.home[shown]])
    BY <2>2, ReturnTabGroupIs
  <2> HIDE DEF back
  <2>4. Good(landed) /\ Same(t, landed) /\ shown \in Members(landed.strip[landed.home[shown]])
    BY <2>2, <2>3 DEF Same
  <2> HIDE DEF landed
  <2>5. \A y \in ToSet(tabs) : landed.kind[y] # "closed"
    BY <2>2, <2>4 DEF Same
  <2> DEFINE z == RebuildTabGroup(landed, shown, tabs, how)
  <2>6. Good(z) /\ z.kind = landed.kind /\ z.grab = landed.grab
    BY <2>2, <2>4, <2>5, RebuildTabGroupIs
  <2> HIDE DEF z
  <2>7. u = z
    BY <1>1, <1>8 DEF z
  <2>8. Good(u) /\ u.kind = t.kind
    BY <2>4, <2>6, <2>7 DEF Same
  <2> QED BY <2>8 DEF u
<1> QED BY <1>7, <1>8

\* Another drag, or none.
LEMMA GrabIs ==
  ASSUME NEW t, Good(t), NEW g
  PROVE  LET u == [t EXCEPT !.grab = g]
         IN  Good(u) /\ u.home = t.home /\ u.kind = t.kind /\ u.strip = t.strip /\ u.grab = g
<1> DEFINE u == [t EXCEPT !.grab = g]
<1>1. /\ DOMAIN u = Fields /\ u.home = t.home /\ u.kind = t.kind /\ u.grab = g
      /\ u.strip = t.strip /\ u.focused = t.focused /\ u.hidden = t.hidden
      /\ u.members = t.members /\ u.unsettled = t.unsettled
  BY DEF Good, Typed, Fields
<1> HIDE DEF u
<1>2. Typed(u)
  BY <1>1 DEF Good, Typed
<1>3. Sits(u)
  BY <1>1 DEF Good, Sits
<1> QED BY <1>1, <1>2, <1>3 DEF u, Good

\* resetMode ends the drag with the group landed.
LEMMA ResetModeIs ==
  ASSUME NEW t, Good(t), Carries(t), NEW how
  PROVE  LET u == ResetMode(t, how) IN Good(u) /\ u.kind = t.kind /\ u.grab = NoGrab
<1> DEFINE d == LandTabGroup(t, how)
           landed == IF t.grab.lifted # <<>> THEN d ELSE t
           u == [landed EXCEPT !.grab = NoGrab]
<1>1. ResetMode(t, how) = u
  BY DEF ResetMode
<1>2. Good(landed) /\ landed.kind = t.kind
  <2>1. CASE t.grab.lifted # <<>>
    <3>1. Good(d) /\ d.kind = t.kind
      BY <2>1, LandTabGroupIs
    <3> HIDE DEF d
    <3> QED BY <2>1, <3>1
  <2>2. CASE t.grab.lifted = <<>>
    BY <2>2
  <2> QED BY <2>1, <2>2
<1> HIDE DEF landed
<1>3. Good(u) /\ u.home = landed.home /\ u.kind = landed.kind /\ u.strip = landed.strip /\ u.grab = NoGrab
  BY <1>2, GrabIs
<1> HIDE DEF u
<1> QED BY <1>1, <1>2, <1>3

\* beginDrag: what is carried are open windows with the dragged one among them.
LEMMA BeginDragIs ==
  ASSUME NEW t, Good(t), Carries(t), t.grab.view \in Windows, t.kind[t.grab.view] # "closed",
         t.grab.source \in Workspaces, NEW carry \in BOOLEAN
  PROVE  LET u == BeginDrag(t, carry)
         IN  /\ Good(u) /\ Carries(u) /\ u.kind = t.kind /\ u.home = t.home
             /\ u.grab.view = t.grab.view /\ u.grab.pending = FALSE
<1> DEFINE v == t.grab.view
           w == t.grab.source
           l == LiftTabGroup(t, w, v)
           lifted == IF carry THEN l ELSE t
           d == LayoutDetach(lifted, w, v)
           u == [d EXCEPT !.grab.pending = FALSE, !.grab.source = Nowhere]
<1>1. BeginDrag(t, carry) = u
  BY DEF BeginDrag
<1>2. v \in Windows /\ w \in Workspaces /\ t.grab.view = v
  OBVIOUS
<1> HIDE DEF v, w
<1>3. Good(l) /\ Carries(l) /\ l.home = t.home /\ l.kind = t.kind /\ l.grab.view = v
  BY <1>2, LiftTabGroupIs
<1> HIDE DEF l
<1>4. Good(lifted) /\ Carries(lifted) /\ lifted.home = t.home /\ lifted.kind = t.kind /\ lifted.grab.view = v
  BY <1>2, <1>3
<1> HIDE DEF lifted
<1>5. TakesOut(lifted, d, w, v)
  BY <1>2, <1>4, LayoutDetachIs DEF Good
<1> HIDE DEF d
<1>6. Good(d) /\ Same(lifted, d)
  BY <1>4, <1>5, SettledIsGood DEF TakesOut, Settles
<1>7. /\ DOMAIN u = Fields /\ u.home = d.home /\ u.kind = d.kind /\ u.strip = d.strip /\ u.focused = d.focused
      /\ u.hidden = d.hidden /\ u.members = d.members /\ u.unsettled = d.unsettled
  BY <1>6 DEF Good, Typed, Fields
<1>8. /\ DOMAIN u.grab = GrabFields /\ u.grab.view = v /\ u.grab.lifted = d.grab.lifted
      /\ u.grab.column = d.grab.column /\ u.grab.row = d.grab.row /\ u.grab.pending = FALSE
  <2>1. d.grab = lifted.grab /\ DOMAIN d.grab = GrabFields /\ DOMAIN d = Fields /\ d.grab.view = v
    BY <1>4, <1>6 DEF Same, Carries, Good, Typed
  <2>2. u.grab = [[d.grab EXCEPT !.pending = FALSE] EXCEPT !.source = Nowhere]
    BY <2>1 DEF Fields, GrabFields
  <2> HIDE DEF u
  <2> QED BY <2>1, <2>2 DEF GrabFields
<1> HIDE DEF u
<1>9. Good(u)
  <2>1. Typed(u)
    BY <1>6, <1>7 DEF Good, Typed
  <2>2. Sits(u)
    BY <1>6, <1>7 DEF Good, Sits
  <2> QED BY <2>1, <2>2 DEF Good
<1>10. Carries(d) /\ d.grab.view = v
  BY <1>4, <1>6 DEF Carries, Same
<1>11. Carries(u)
  BY <1>2, <1>7, <1>8, <1>10 DEF Carries
<1>12. u.kind = t.kind /\ u.home = t.home
  BY <1>4, <1>6, <1>7 DEF Same
<1> QED BY <1>1, <1>2, <1>8, <1>9, <1>11, <1>12

-----------------------------------------------------------------------------
(* A drop *)

\* Where a drop can be has a column and a row.
LEMMA DropTargetsAre ==
  ASSUME NEW s, Fits(Windows, s), NEW drop \in DropTargets(s)
  PROVE  drop.column \in Int /\ drop.row \in Int
<1> DEFINE Boundaries(col) == {r \in 1..(Len(col.rows) + 1) : Unit(col.tabs, r).first = r}
           Slots(v) == LET g == GroupAt(TabsAt(s, v), RowOf(s, v)) IN g.first..End(g)
           A == {Drop(c, 0, NoWindow) : c \in 1..(Len(s) + 1)}
           B == UNION {{Drop(c, r, NoWindow) : r \in Boundaries(s[c])} : c \in DOMAIN s}
           C == UNION {{Drop(ColumnOf(s, v), r, v) : r \in Slots(v)} : v \in Tabs(s) \ HiddenTabs(s)}
<1>1. drop \in A \cup B \cup C
  <2>1. DropTargets(s) = A \cup B \cup C
    BY Zenon DEF DropTargets
  <2> QED BY <2>1, Zenon
<1>2. Loose(Windows, s) /\ Len(s) \in Nat /\ DOMAIN s = 1..Len(s)
  BY FitsAre
<1>3. \A c, r, v : Drop(c, r, v).column = c /\ Drop(c, r, v).row = r
  BY DEF Drop
<1>4. CASE drop \in A
  <2>1. PICK c \in 1..(Len(s) + 1) : drop = Drop(c, 0, NoWindow)
    BY <1>4
  <2> QED BY <1>2, <1>3, <2>1
<1>5. CASE drop \in B
  <2>1. PICK c \in DOMAIN s : drop \in {Drop(c, r, NoWindow) : r \in Boundaries(s[c])}
    BY <1>5
  <2>2. PICK r \in Boundaries(s[c]) : drop = Drop(c, r, NoWindow)
    BY <2>1
  <2>3. r \in 1..(Len(s[c].rows) + 1)
    BY <2>2
  <2>4. c \in Int /\ r \in Int
    BY <1>2, <2>1, <2>3
  <2> QED BY <1>3, <2>2, <2>4
<1>6. CASE drop \in C
  <2>1. PICK v \in Tabs(s) \ HiddenTabs(s) : drop \in {Drop(ColumnOf(s, v), r, v) : r \in Slots(v)}
    BY <1>6
  <2>2. PICK r \in Slots(v) : drop = Drop(ColumnOf(s, v), r, v)
    BY <2>1
  <2>3. v \in Members(s)
    BY <2>1 DEF Tabs
  <2>4. ColumnOf(s, v) \in Int
    BY <1>2, <2>3, ColumnOfIs
  <2>5. r \in Int
    BY <2>2
  <2> QED BY <1>3, <2>2, <2>4, <2>5
<1> HIDE DEF A, B, C
<1> QED BY <1>1, <1>4, <1>5, <1>6

\* A drop names a column and a row, there or not.
LEMMA StaleTargetsAre ==
  ASSUME NEW s, Fits(Windows, s), NEW n, NEW drop \in StaleTargets(s, n)
  PROVE  drop.column \in Int /\ drop.row \in Int
<1>1. CASE drop \in DropTargets(s)
  BY <1>1, DropTargetsAre
<1>2. CASE drop \in {Drop(c, r, NoWindow) : c \in 1..n, r \in 1..(n + 1)}
  <2>1. PICK c \in 1..n, r \in 1..(n + 1) : drop = Drop(c, r, NoWindow)
    BY <1>2
  <2>2. c \in Int /\ r \in Int
    BY <2>1
  <2> QED BY <2>1, <2>2 DEF Drop
<1> QED BY <1>1, <1>2 DEF StaleTargets

\* Wherever it lands, the window is the only new one.
LEMMA LandedIs ==
  ASSUME NEW s, Fits(Windows, s), NEW v \in Windows, NEW drop, drop.column \in Int, drop.row \in Int, NEW tabbed
  PROVE  LET u == Landed(s, v, drop, tabbed) IN Fits(Windows, u) /\ Members(u) \subseteq Members(s) \cup {v}
<1> DEFINE a == InsertView(s, v, drop.column, tabbed)
           b == InsertTab(s, v, drop.column, drop.row, drop.tab)
           c == InsertViewIntoColumn(s, v, drop.column, drop.row)
           u == Landed(s, v, drop, tabbed)
<1>1. u = CASE drop.row = 0 -> a
            [] drop.row # 0 /\ CanInsertTab(s, v, drop.column, drop.row, drop.tab) -> b
            [] OTHER -> c
  BY DEF Landed
<1>2. Fits(Windows, a) /\ Members(a) = Members(s) \cup {v}
  BY InsertViewIs
<1>3. CanInsertTab(s, v, drop.column, drop.row, drop.tab) => Fits(Windows, b) /\ Members(b) = Members(s) \cup {v}
  BY InsertTabIs
<1>4. Fits(Windows, c) /\ Members(c) \subseteq Members(s) \cup {v}
  BY InsertViewIntoColumnIs
<1> HIDE DEF a, b, c, u
<1>5. u \in {a, c} \/ (u = b /\ CanInsertTab(s, v, drop.column, drop.row, drop.tab))
  BY <1>1
<1> QED BY <1>2, <1>3, <1>4, <1>5 DEF u

\* applyDrop up to where the window lands.
LEMMA LiftedIs ==
  ASSUME NEW t, Good(t), NEW v \in Windows, NEW w \in Workspaces, NEW how
  PROVE  Moves(t, Lifted(t, v, w, how), v, w)
<1> DEFINE m == MoveToWorkspace(t, v, w, FALSE, how)
           s == RemoveView(t.strip[w], v)
           l == Lay(t, w, s)
<1>1. Lifted(t, v, w, how) = IF t.home[v] # w THEN m ELSE l
  BY DEF Lifted
<1>2. Moves(t, m, v, w)
  <2>1. \A b \in BOOLEAN : LET mm == MoveToWorkspace(t, v, w, b, how)
                           IN  Moves(t, mm, v, w) /\ (~b => mm.strip[w] = t.strip[w])
    BY MoveToWorkspaceIs
  <2> QED BY <2>1, Zenon
<1> HIDE DEF m
<1>3. t.home[v] = w => Moves(t, l, v, w)
  <2>1. Fits(Windows, t.strip[w])
    BY StripsAre DEF Good, Typed
  <2>2. Fits(Windows, s) /\ Members(s) = Members(t.strip[w]) \ {v}
    BY <2>1, RemoveViewIs
  <2> HIDE DEF s
  <2>3. s \in Strips /\ \A x \in Members(s) : t.home[x] = w /\ t.kind[x] # "closed"
    BY <2>2, StripsAre DEF Good, Sits
  <2>4. Good(l) /\ Same(t, l)
    BY <2>3, LaidIsGood
  <2> HIDE DEF l
  <2>5. t.home[v] = w => t.home = [t.home EXCEPT ![v] = w]
    BY DEF Good, Typed
  <2> QED BY <2>4, <2>5 DEF Moves, Same
<1> QED BY <1>1, <1>2, <1>3

\* And from there on, for a drop on the strip as it is or as it was.
LEMMA LandingsAre ==
  ASSUME NEW t, Good(t), NEW v \in Windows, t.kind[v] # "closed", NEW w \in Workspaces, t.home[v] = w,
         NEW tabbed, NEW s \in Landings(t, v, w, tabbed)
  PROVE  Good(Lay(t, w, s)) /\ Same(t, Lay(t, w, s))
<1> DEFINE n == Cardinality(Open \ {v})
           D == IF t.grab.aimed THEN DropTargets(t.strip[w]) ELSE StaleTargets(t.strip[w], n)
<1>1. Fits(Windows, t.strip[w])
  BY StripsAre DEF Good, Typed
<1>2. PICK drop \in D : s = Landed(t.strip[w], v, drop, tabbed)
  BY DEF Landings
<1> HIDE DEF n
<1>3. drop \in DropTargets(t.strip[w]) \/ drop \in StaleTargets(t.strip[w], n)
  BY <1>2
<1>4. drop.column \in Int /\ drop.row \in Int
  BY <1>1, <1>3, DropTargetsAre, StaleTargetsAre
<1>5. Fits(Windows, s) /\ Members(s) \subseteq Members(t.strip[w]) \cup {v}
  <2> DEFINE u == Landed(t.strip[w], v, drop, tabbed)
  <2>1. Fits(Windows, u) /\ Members(u) \subseteq Members(t.strip[w]) \cup {v}
    BY <1>1, <1>4, LandedIs
  <2> QED BY <1>2, <2>1
<1>6. s \in Strips /\ \A x \in Members(s) : t.home[x] = w /\ t.kind[x] # "closed"
  BY <1>5, StripsAre DEF Good, Sits
<1> QED BY <1>6, LaidIsGood

-----------------------------------------------------------------------------
(* The state that every step keeps *)

\* The dragged window is open; one that is pressed has a workspace it comes from.
Grabbed(t) ==
  /\ t.grab.view # NoWindow => t.kind[t.grab.view] # "closed"
  /\ t.grab.pending => /\ t.grab.view \in Windows /\ t.kind[t.grab.view] # "closed"
                       /\ t.grab.source \in Workspaces
Kept(t) == Good(t) /\ Carries(t) /\ Grabbed(t)

\* What keeps the drag and closes no window.
LEMMA StaysKept ==
  ASSUME NEW t, Kept(t), NEW u, Good(u), u.grab = t.grab,
         \A v \in Windows : t.kind[v] # "closed" => u.kind[v] # "closed"
  PROVE  Kept(u)
<1>1. t.grab.view # NoWindow => t.grab.view \in Windows
  BY DEF Kept, Carries
<1>2. Grabbed(u)
  BY <1>1 DEF Kept, Grabbed
<1>3. Carries(u)
  <2>1. \A v \in ToSet(t.grab.lifted) : v \in Windows
    BY DEF Kept, Carries, ToSet
  <2> QED BY <2>1 DEF Kept, Carries
<1> QED BY <1>2, <1>3 DEF Kept

\* A step of the layout or of the focus.
LEMMA SettledIsKept ==
  ASSUME NEW t, Kept(t), NEW u, Settles(t, u)
  PROVE  Kept(u)
<1>1. Good(u) /\ u.grab = t.grab /\ u.kind = t.kind
  BY SettledIsGood DEF Kept, Settles, Same
<1> QED BY <1>1, StaysKept

\* A step that changes no kind.
LEMMA AttachedIsKept ==
  ASSUME NEW t, Kept(t), NEW u, Good(u), u.grab = t.grab, u.kind = t.kind
  PROVE  Kept(u)
BY StaysKept

\* No drag.
LEMMA UndraggedIsKept ==
  ASSUME NEW u, Good(u), u.grab = NoGrab
  PROVE  Kept(u)
<1>1. /\ DOMAIN u.grab = GrabFields /\ u.grab.view = NoWindow /\ u.grab.pending = FALSE
      /\ u.grab.lifted = <<>> /\ u.grab.column = 0 /\ u.grab.row = 0
  BY DEF NoGrab, GrabFields
<1>2. <<>> \in Seq(Windows) /\ Apart(<<>>) /\ ToSet(<<>>) = {}
  BY DEF Apart, ToSet
<1>3. Carries(u)
  BY <1>1, <1>2 DEF Carries
<1>4. Grabbed(u)
  BY <1>1 DEF Grabbed
<1> QED BY <1>3, <1>4 DEF Kept

\* A drop that is computed or left behind.
LEMMA AimedIsKept ==
  ASSUME NEW t, Kept(t), NEW b
  PROVE  Kept([t EXCEPT !.grab.aimed = b])
<1> DEFINE u == [t EXCEPT !.grab.aimed = b]
<1>1. /\ DOMAIN u = Fields /\ u.home = t.home /\ u.kind = t.kind /\ u.strip = t.strip /\ u.focused = t.focused
      /\ u.hidden = t.hidden /\ u.members = t.members /\ u.unsettled = t.unsettled
  BY DEF Kept, Good, Typed, Fields
<1>2. /\ DOMAIN u.grab = GrabFields /\ u.grab.view = t.grab.view /\ u.grab.lifted = t.grab.lifted
      /\ u.grab.column = t.grab.column /\ u.grab.row = t.grab.row
      /\ u.grab.pending = t.grab.pending /\ u.grab.source = t.grab.source
  <2>1. DOMAIN t.grab = GrabFields /\ DOMAIN t = Fields
    BY DEF Kept, Good, Carries, Typed
  <2>2. u.grab = [t.grab EXCEPT !.aimed = b]
    BY <2>1 DEF Fields, GrabFields
  <2> HIDE DEF u
  <2> QED BY <2>1, <2>2 DEF GrabFields
<1> HIDE DEF u
<1>3. Good(u)
  <2>1. Typed(u)
    BY <1>1 DEF Kept, Good, Typed
  <2>2. Sits(u)
    BY <1>1 DEF Kept, Good, Sits
  <2> QED BY <2>1, <2>2 DEF Good
<1>4. Carries(u)
  BY <1>1, <1>2 DEF Kept, Carries
<1>5. Grabbed(u)
  BY <1>1, <1>2 DEF Kept, Grabbed
<1> QED BY <1>3, <1>4, <1>5 DEF Kept, u

\* Kept depends on the variables alone.
LEMMA SameRecord ==
  ASSUME NEW t, Kept(t), NEW x, DOMAIN x = Fields,
         x.strip = t.strip, x.home = t.home, x.kind = t.kind, x.focused = t.focused,
         x.hidden = t.hidden, x.members = t.members, x.unsettled = t.unsettled, x.grab = t.grab
  PROVE  Kept(x)
<1>1. Typed(x)
  BY DEF Kept, Good, Typed
<1>2. Sits(x)
  BY DEF Kept, Good, Sits
<1>3. Carries(x)
  BY DEF Kept, Carries
<1>4. Grabbed(x)
  BY DEF Kept, Grabbed
<1> QED BY <1>1, <1>2, <1>3, <1>4 DEF Kept, Good

-----------------------------------------------------------------------------
(* What the actions make of the state *)

\* handleMap.
LEMMA OpenedIs ==
  ASSUME Kept(TilingNow), NEW v \in Windows, kind[v] = "closed", NEW w \in Workspaces,
         NEW tiled \in BOOLEAN, NEW focus \in BOOLEAN, NEW how
  PROVE  Kept(Opened(v, w, tiled, focus, how))
<1> DEFINE t == TilingNow
           k == IF tiled THEN "tiled" ELSE "floating"
           o == [t EXCEPT !.kind[v] = k, !.home[v] = w]
           a == AddView(o, w, v, TRUE, how)
           f == FocusTile(a, v)
<1>1. Opened(v, w, tiled, focus, how) = IF focus THEN f ELSE a
  BY DEF Opened
<1>2. t.kind[v] = "closed" /\ Kept(t)
  BY DEF TilingNow
<1> HIDE DEF t
<1>3. \A x \in Workspaces : v \notin Members(t.strip[x])
  BY <1>2 DEF Kept, Good, Sits
<1>4. k \in Kinds \ {"closed"}
  BY DEF Kinds
<1> HIDE DEF k
<1>5. /\ DOMAIN o = Fields /\ o.home = [t.home EXCEPT ![v] = w] /\ o.kind = [t.kind EXCEPT ![v] = k]
      /\ o.strip = t.strip /\ o.focused = t.focused /\ o.grab = t.grab
      /\ o.hidden = t.hidden /\ o.members = t.members /\ o.unsettled = t.unsettled
  BY <1>2 DEF Kept, Good, Typed, Fields
<1> HIDE DEF o
<1>6. Good(o)
  <2>1. Typed(o)
    BY <1>2, <1>4, <1>5 DEF Kept, Good, Typed
  <2>2. \A x \in Workspaces : Members(t.strip[x]) \subseteq Windows
    BY <1>2, StripsAre DEF Kept, Good, Typed
  <2>3. Sits(o)
    BY <1>2, <1>3, <1>5, <2>2 DEF Kept, Good, Typed, Sits
  <2> QED BY <2>1, <2>3 DEF Good
<1>7. \A x \in Workspaces : v \notin Members(o.strip[x])
  BY <1>3, <1>5
<1>8. Moves(o, a, v, w)
  <2>1. \A b \in BOOLEAN : LET z == AddView(o, w, v, b, how) IN Moves(o, z, v, w) /\ (~b => z.strip = o.strip)
    BY <1>6, <1>7, AddViewIs
  <2> QED BY <2>1, Zenon
<1> HIDE DEF a
<1>9. Kept(a)
  <2>1. \A x \in Windows : t.kind[x] # "closed" => a.kind[x] # "closed"
    BY <1>2, <1>4, <1>5, <1>8 DEF Moves, Kept, Good, Typed
  <2>2. Good(a) /\ a.grab = t.grab
    BY <1>5, <1>8 DEF Moves
  <2> QED BY <1>2, <2>1, <2>2, StaysKept
<1>10. Kept(f)
  <2>1. Settles(a, f)
    BY <1>9, FocusViewIs DEF Kept, Good
  <2> HIDE DEF f
  <2> QED BY <1>9, <2>1, SettledIsKept
<1> HIDE DEF f
<1> QED BY <1>1, <1>9, <1>10

\* A lifted group without a window that has closed.
LEMMA RemoveFirstIs ==
  ASSUME NEW S, NEW q \in Seq(S), Apart(q), NEW v
  PROVE  /\ RemoveFirst(q, v) \in Seq(S) /\ Apart(RemoveFirst(q, v))
         /\ ToSet(RemoveFirst(q, v)) = ToSet(q) \ {v}
<1> DEFINE I == {i \in 1..Len(q) : q[i] = v}  at == SelectInSeq(q, LAMBDA e : e = v)  p == RemoveAt(q, at)
<1>1. Len(q) \in Nat /\ DOMAIN q = 1..Len(q) /\ ToSet(q) = {q[i] : i \in 1..Len(q)}
  BY DEF ToSet
<1>2. RemoveFirst(q, v) = IF I # {} THEN p ELSE q
  BY <1>1 DEF RemoveFirst
<1>3. CASE I = {}
  <2>1. v \notin ToSet(q)
    BY <1>1, <1>3
  <2> QED BY <1>2, <1>3, <2>1
<1>4. CASE I # {}
  <2>1. at \in 1..Len(q) /\ q[at] = v
    <3>1. at = Min(I)
      BY <1>4 DEF SelectInSeq
    <3>2. I \in SUBSET Nat
      OBVIOUS
    <3>3. Min(I) \in I
      BY <1>4, <3>2, MinIs
    <3> QED BY <3>1, <3>3
  <2> HIDE DEF at
  <2>2. /\ p \in Seq(S) /\ Len(p) = Len(q) - 1
        /\ \A k \in 1..(Len(q) - 1) : p[k] = IF k < at THEN q[k] ELSE q[k + 1]
    BY <2>1, RemoveAtIs
  <2> HIDE DEF p, I
  <2>3. DOMAIN p = 1..(Len(q) - 1)
    BY <2>2
  <2>4. \A a, b \in 1..Len(q) : q[a] = q[b] => a = b
    BY <1>1 DEF Apart
  <2>5. Apart(p)
    <3> SUFFICES ASSUME NEW i \in 1..(Len(q) - 1), NEW j \in 1..(Len(q) - 1), p[i] = p[j] PROVE i = j
      BY <2>3 DEF Apart
    <3> DEFINE a == IF i < at THEN i ELSE i + 1  b == IF j < at THEN j ELSE j + 1
    <3>1. a \in 1..Len(q) /\ p[i] = q[a] /\ b \in 1..Len(q) /\ p[j] = q[b]
      BY <1>1, <2>1, <2>2
    <3>2. a = b => i = j
      BY <1>1, <2>1
    <3> HIDE DEF a, b
    <3> QED BY <2>4, <3>1, <3>2
  <2>6. ToSet(p) = ToSet(q) \ {v}
    <3>1. ToSet(p) = {p[i] : i \in 1..(Len(q) - 1)}
      BY <2>3 DEF ToSet
    <3>2. ASSUME NEW i \in 1..(Len(q) - 1) PROVE p[i] \in ToSet(q) /\ p[i] # v
      BY <1>1, <2>1, <2>2, <2>4
    <3>3. ASSUME NEW i \in 1..Len(q), i # at PROVE \E j \in 1..(Len(q) - 1) : q[i] = p[j]
      <4>1. CASE i < at
        BY <1>1, <2>1, <2>2, <4>1
      <4>2. CASE i > at
        <5>1. p[i - 1] = q[i] /\ i - 1 \in 1..(Len(q) - 1)
          BY <1>1, <2>1, <2>2, <4>2
        <5> QED BY <5>1
      <4> QED BY <1>1, <2>1, <3>3, <4>1, <4>2
    <3> QED BY <1>1, <2>1, <3>1, <3>2, <3>3
  <2> QED BY <1>2, <1>4, <2>2, <2>5, <2>6
<1> QED BY <1>3, <1>4

\* handleUnmap, of a dragged window or a carried one too.
LEMMA UnmappedIs ==
  ASSUME Kept(TilingNow), NEW v \in Windows, NEW how
  PROVE  Kept(Unmapped(v, how))
<1> DEFINE t == TilingNow
           w == home[v]
           next == FocusReplacement(t, v, how.recent)
           s == SetFocusedView(t, w, next)
           focus == IF focused[w] = v THEN s ELSE t
           e == [focus EXCEPT !.kind[v] = "closed"]
           gone == LayoutDetach(e, w, v)
           less == [gone EXCEPT !.grab.lifted = RemoveFirst(@, v)]
           forgot == IF grab.view = v THEN gone ELSE less
           reset == ResetMode(forgot, how)
           u == [reset EXCEPT !.hidden = @ \ {v}]
<1>1. Unmapped(v, how) = u
  BY DEF Unmapped
<1>2. t.home[v] = w /\ t.grab = grab /\ Kept(t)
  BY DEF TilingNow
<1> HIDE DEF t
<1>3. Good(t) /\ Typed(t) /\ Carries(t) /\ w \in Workspaces
  BY <1>2 DEF Kept, Good, Typed
<1> HIDE DEF w, u
<1>4. next \in Windows \cup {NoWindow}
  BY <1>3, FocusReplacementIs
<1> HIDE DEF next
<1>5. Settles(t, focus)
  <2>1. Settles(t, s)
    BY <1>3, <1>4, SetFocusedViewIs
  <2>2. Settles(t, t)
    BY <1>3, SettlesItself
  <2> HIDE DEF s
  <2> QED BY <2>1, <2>2
<1> HIDE DEF focus
<1>6. Good(focus) /\ Same(t, focus)
  BY <1>3, <1>5, SettledIsGood DEF Settles
<1>7. /\ Typed(e) /\ e.home = focus.home /\ e.grab = focus.grab /\ e.strip = focus.strip /\ e.focused = focus.focused
      /\ e.kind = [focus.kind EXCEPT ![v] = "closed"]
  <2>1. "closed" \in Kinds /\ Typed(focus)
    BY <1>6 DEF Kinds, Good
  <2> QED BY <2>1, KindIs
<1> HIDE DEF e
<1>8. TakesOut(e, gone, w, v)
  BY <1>3, <1>7, LayoutDetachIs
<1> HIDE DEF gone
<1>9. Typed(gone) /\ Same(e, gone)
  BY <1>8 DEF TakesOut, Settles
<1>10. Good(gone)
  <2> SUFFICES ASSUME NEW y \in Workspaces, NEW x \in Members(gone.strip[y])
               PROVE  gone.home[x] = y /\ gone.kind[x] # "closed"
    BY <1>9 DEF Good, Sits
  <2>1. x \in Members(focus.strip[y])
    BY <1>7, <1>8 DEF TakesOut, Settles
  <2>2. focus.home[x] = y /\ focus.kind[x] # "closed"
    BY <1>6, <2>1 DEF Good, Sits
  <2>3. x \in Windows
    BY <1>6, <2>1, StripsAre DEF Good, Typed
  <2>4. x # v
    <3> SUFFICES ASSUME x = v PROVE FALSE
      OBVIOUS
    <3>1. y = w
      BY <1>2, <1>6, <2>2 DEF Same
    <3> QED BY <1>8, <3>1 DEF TakesOut
  <2>5. e.kind[x] = focus.kind[x]
    BY <1>6, <1>7, <2>3, <2>4 DEF Good, Typed
  <2> QED BY <1>7, <1>9, <2>2, <2>5 DEF Same
<1>11. gone.grab = t.grab /\ \A x \in Windows \ {v} : t.kind[x] # "closed" => gone.kind[x] # "closed"
  <2>1. \A x \in Windows \ {v} : gone.kind[x] = t.kind[x]
    BY <1>3, <1>6, <1>7, <1>9 DEF Same, Good, Typed
  <2> QED BY <1>6, <1>7, <1>9, <2>1 DEF Same
<1>12. \A x \in ToSet(t.grab.lifted) : x \in Windows
  BY <1>3 DEF Carries, ToSet
<1>13. Good(forgot) /\ Carries(forgot)
  <2>1. CASE grab.view = v
    <3>1. forgot = gone
      BY <2>1
    <3>2. Carries(gone)
      BY <1>2, <1>3, <1>11, <1>12, <2>1 DEF Carries
    <3> QED BY <1>10, <3>1, <3>2
  <2>2. CASE grab.view # v
    <3> DEFINE q == t.grab.lifted  p == RemoveFirst(q, v)
    <3>1. forgot = less
      BY <2>2
    <3>2. q \in Seq(Windows) /\ Apart(q)
      BY <1>3 DEF Carries
    <3>3. p \in Seq(Windows) /\ Apart(p) /\ ToSet(p) = ToSet(q) \ {v}
      BY <3>2, RemoveFirstIs
    <3>4. /\ DOMAIN less = Fields /\ less.home = gone.home /\ less.kind = gone.kind /\ less.strip = gone.strip
          /\ less.focused = gone.focused /\ less.hidden = gone.hidden /\ less.members = gone.members
          /\ less.unsettled = gone.unsettled
      BY <1>9 DEF Typed, Fields
    <3>5. /\ DOMAIN less.grab = GrabFields /\ less.grab.view = t.grab.view /\ less.grab.lifted = p
          /\ less.grab.column = t.grab.column /\ less.grab.row = t.grab.row
      <4>1. DOMAIN gone.grab = GrabFields /\ DOMAIN gone = Fields /\ gone.grab = t.grab
        BY <1>3, <1>9, <1>11 DEF Carries, Typed
      <4>2. less.grab = [gone.grab EXCEPT !.lifted = p]
        BY <4>1 DEF Fields, GrabFields
      <4> HIDE DEF less, p
      <4> QED BY <4>1, <4>2 DEF GrabFields
    <3> HIDE DEF less, p
    <3>6. Good(less)
      <4>1. Typed(less)
        BY <1>9, <3>4 DEF Typed
      <4>2. Sits(less)
        BY <1>10, <3>4 DEF Good, Sits
      <4> QED BY <4>1, <4>2 DEF Good
    <3>7. Carries(less)
      <4>1. \A x \in ToSet(p) \ {t.grab.view} : less.kind[x] # "closed"
        BY <1>3, <1>11, <1>12, <3>3, <3>4 DEF Carries
      <4>2. p # <<>> => t.grab.view \in ToSet(p)
        <5>1. p # <<>> => q # <<>>
          <6> SUFFICES ASSUME p # <<>>, q = <<>> PROVE FALSE
            OBVIOUS
          <6>1. ToSet(q) = {}
            BY DEF ToSet
          <6>2. p[1] \in ToSet(p)
            BY <3>3 DEF ToSet
          <6> QED BY <3>3, <6>1, <6>2
        <5> QED BY <1>2, <1>3, <2>2, <3>3, <5>1 DEF Carries
      <4> QED BY <1>3, <3>3, <3>5, <4>1, <4>2 DEF Carries
    <3> QED BY <3>1, <3>6, <3>7
  <2> QED BY <2>1, <2>2
<1> HIDE DEF forgot
<1>14. Good(reset) /\ reset.grab = NoGrab
  BY <1>13, ResetModeIs
<1> HIDE DEF reset
<1>15. Good(u) /\ Same(reset, u) /\ u.strip = reset.strip
  BY <1>14, ShownIs DEF u
<1>16. Kept(u)
  BY <1>14, <1>15, UndraggedIsKept DEF Same
<1> QED BY <1>1, <1>16

\* The focused window's column goes to another workspace with its groups.
LEMMA ColumnMovedIs ==
  ASSUME Kept(TilingNow), NEW w \in Workspaces, NEW u \in Workspaces, w # u,
         InStrip(strip[w], focused[w]), NEW how
  PROVE  Kept(ColumnMoved(w, u, how))
<1> DEFINE t == TilingNow
           v == focused[w]
           column == strip[w][ColumnOf(strip[w], v)]
           q == column.rows
           first == column.rows[1]
           near == IF focused[u] = NoWindow THEN 0 ELSE ColumnOf(strip[u], focused[u])
           index == IF near > 0 THEN near + 1 ELSE Len(strip[u]) + 1
           moved == MoveToWorkspace(t, first, u, FALSE, how)
           sown == InsertView(moved.strip[u], first, index, how.tabbed)
           start == Lay(moved, u, sown)
           c == ColumnOf(start.strip[u], first)
           Follow(acc, x) ==
             LET here == MoveToWorkspace(acc, x, u, FALSE, how)
             IN  Lay(here, u, InsertViewIntoColumn(here.strip[u], x, c, RowIn(column, x)))
           N == Len(column.rows)
           Follows(g, n) == g = [k \in 1..n |-> IF k = 1 THEN start ELSE Follow(g[k - 1], column.rows[k])]
           follow == CHOOSE g : Follows(g, N)
           all == follow[N]
           done == AdoptTabs(all.strip[u], c, column.tabs)
           l == Lay(all, u, done)
           m == MarkArrange(l, u)
           z == FocusTile(m, v)
<1>1. ColumnMoved(w, u, how) = z
  BY DEF ColumnMoved
<1>2. t.strip = strip /\ t.home = home /\ t.kind = kind /\ t.grab = grab /\ t.focused = focused /\ Kept(t)
  BY DEF TilingNow
<1> HIDE DEF t, z
<1>3. Good(t) /\ Typed(t) /\ Fits(Windows, strip[w]) /\ Fits(Windows, strip[u]) /\ v \in Members(strip[w]) /\ v \in Windows
  <2>1. Good(t) /\ Typed(t) /\ strip[w] \in Strips /\ strip[u] \in Strips
    BY <1>2 DEF Kept, Good, Typed
  <2>2. v \in Members(strip[w])
    BY DEF InStrip
  <2> QED BY <2>1, <2>2, StripsAre
<1>4. Whole(Windows, column) /\ v \in ToSet(column.rows) /\ ToSet(column.rows) \subseteq Members(strip[w])
  <2>1. Loose(Windows, strip[w])
    BY <1>3, FitsAre
  <2>2. ColumnOf(strip[w], v) \in DOMAIN strip[w] /\ v \in ToSet(column.rows) /\ Whole(Windows, column)
    BY <1>3, <2>1, ColumnOfIs
  <2> HIDE DEF v
  <2> QED BY <2>2, MembersAre
<1>5. near \in Int /\ Len(strip[u]) \in Nat
  <2>1. Loose(Windows, strip[u]) /\ Len(strip[u]) \in Nat
    BY <1>3, FitsAre
  <2>2. ColumnOf(strip[u], focused[u]) = 0 \/ ColumnOf(strip[u], focused[u]) \in 1..Len(strip[u])
    BY <2>1, ColumnOfIs, NotInStrip
  <2> QED BY <2>1, <2>2
<1> HIDE DEF near
<1>6. index \in Int
  BY <1>5
<1> HIDE DEF index, v
<1> HIDE DEF column
<1>7. /\ N \in Nat /\ N >= 1 /\ q \in Seq(Windows) /\ DOMAIN q = 1..N
      /\ ToSet(q) = {q[i] : i \in 1..N} /\ Apart(q)
      /\ Groups(column.tabs, N)
  <2>1. /\ column.rows \in Seq(Windows) /\ Len(column.rows) \in Nat /\ DOMAIN column.rows = 1..Len(column.rows)
        /\ ToSet(column.rows) = {column.rows[i] : i \in 1..Len(column.rows)}
        /\ Groups(column.tabs, Len(column.rows)) /\ Apart(column.rows)
    BY <1>4, WholeIs
  <2>2. Len(column.rows) # 0
    BY <1>4, <2>1
  <2> QED BY <2>1, <2>2
<1>8. \A k \in 1..N : /\ q[k] \in Windows /\ q[k] \in Members(strip[w]) /\ home[q[k]] = w
                        /\ RowIn(column, q[k]) \in Int
  <2>1. \A k \in 1..N : q[k] \in Windows /\ q[k] \in ToSet(q) /\ q[k] \in Members(strip[w])
    BY <1>4, <1>7
  <2>2. \A x \in ToSet(column.rows) : RowIn(column, x) \in 1..Len(column.rows)
    BY <1>4, RowInIs
  <2>3. \A x \in Members(strip[w]) : home[x] = w
    BY <1>2, <1>3 DEF Good, Sits
  <2>4. \A k \in 1..N : RowIn(column, q[k]) \in 1..N
    BY <2>1, <2>2
  <2> QED BY <2>1, <2>3, <2>4
<1>9. first = q[1] /\ first \in Windows /\ first \in Members(strip[w]) /\ home[first] = w
  BY <1>7, <1>8
<1> HIDE DEF q, N, first
<1> DEFINE Is(y, n) == /\ Good(y) /\ y.kind = kind /\ y.grab = grab
                       /\ c \in DOMAIN y.strip[u] /\ Len(y.strip[u][c].rows) = n
                       /\ \A k \in 1..N : k > n => y.home[q[k]] = w
<1>10. Is(start, 1)
  <2>1. Moves(t, moved, first, u) /\ moved.strip[u] = strip[u]
    <3>1. \A b \in BOOLEAN : LET mm == MoveToWorkspace(t, first, u, b, how)
                             IN  Moves(t, mm, first, u) /\ (~b => mm.strip[u] = t.strip[u])
      BY <1>3, <1>9, MoveToWorkspaceIs
    <3>2. Moves(t, moved, first, u) /\ moved.strip[u] = t.strip[u]
      BY <3>1, Zenon
    <3> QED BY <1>2, <3>2
  <2> HIDE DEF moved
  <2>2. first \notin Members(strip[u])
    BY <1>2, <1>3, <1>9 DEF Good, Sits
  <2>3. /\ Fits(Windows, sown) /\ Members(sown) = Members(strip[u]) \cup {first}
        /\ ColumnOf(sown, first) \in DOMAIN sown /\ sown[ColumnOf(sown, first)].rows = <<first>>
    <3> DEFINE s == strip[u]  tabbed == how.tabbed  y == InsertView(s, first, index, tabbed)
    <3>2. sown = y
      BY <2>1
    <3>3. Fits(Windows, s) /\ first \in Windows /\ index \in Int
      BY <1>3, <1>6, <1>9
    <3> HIDE DEF s, tabbed, sown
    <3>4. /\ Fits(Windows, y) /\ Members(y) = Members(s) \cup {first}
          /\ first \notin Members(s) => ColumnOf(y, first) \in DOMAIN y /\ y[ColumnOf(y, first)].rows = <<first>>
      BY <3>3, InsertViewIs
    <3>1. /\ Fits(Windows, y) /\ Members(y) = Members(strip[u]) \cup {first}
          /\ first \notin Members(strip[u]) => ColumnOf(y, first) \in DOMAIN y /\ y[ColumnOf(y, first)].rows = <<first>>
      BY <3>4 DEF s
    <3> HIDE DEF y, sown
    <3> QED BY <2>2, <3>1, <3>2
  <2> HIDE DEF sown
  <2>4. Good(moved) /\ moved.home = [home EXCEPT ![first] = u] /\ moved.kind = kind /\ moved.grab = grab
    BY <1>2, <2>1 DEF Moves
  <2>5. \A x \in Members(sown) : moved.home[x] = u /\ moved.kind[x] # "closed"
    <3>1. kind[first] # "closed"
      <4> QED BY <1>2, <1>3, <1>9 DEF Good, Sits
    <3>2. moved.home[first] = u
      BY <1>2, <1>3, <1>9, <2>4 DEF Typed
    <3> QED BY <2>1, <2>3, <2>4, <3>1, <3>2 DEF Good, Sits
  <2>6. Members(moved.strip[u]) \subseteq Members(sown)
    BY <2>1, <2>3
  <2>7. Good(start) /\ Same(moved, start)
    BY <2>3, <2>4, <2>5, <2>6, LaidAttaches DEF Attaches
  <2>8. start.strip[u] = sown
    <3>1. Typed(moved) /\ sown \in Strips
      BY <2>3, <2>4, StripsAre DEF Good
    <3> QED BY <3>1, LaidThere
  <2> HIDE DEF start
  <2>9. c \in DOMAIN start.strip[u] /\ Len(start.strip[u][c].rows) = 1
    BY <2>3, <2>8
  <2>10. \A k \in 1..N : k > 1 => start.home[q[k]] = w
    <3>1. \A k \in 1..N : k > 1 => q[k] # first
      BY <1>7, <1>9 DEF Apart
    <3>2. \A k \in 1..N : k > 1 => moved.home[q[k]] = home[q[k]]
      BY <1>2, <1>3, <1>8, <2>4, <3>1 DEF Typed
    <3> QED BY <1>8, <2>7, <3>2 DEF Same
  <2> HIDE DEF c
  <2> QED BY <2>4, <2>7, <2>9, <2>10 DEF Same
<1> HIDE DEF start, moved, sown, c, Follow, all
<1>11. \E g : Follows(g, N)
  <2> DEFINE P == {n \in Nat : \E g : Follows(g, n + 1)}
  <2>1. 0 \in P
    <3>1. Follows([k \in 1..(0 + 1) |-> start], 0 + 1)
      OBVIOUS
    <3> HIDE DEF Follows
    <3> QED BY <3>1
  <2>2. ASSUME NEW n \in 0..((N - 1) - 1), n \in P PROVE n + 1 \in P
    <3>1. PICK g : Follows(g, n + 1)
      BY <2>2
    <3> DEFINE h == [k \in 1..(n + 1 + 1) |-> IF k = n + 1 + 1 THEN Follow(g[n + 1], column.rows[n + 1 + 1]) ELSE g[k]]
    <3>2. \A k \in 1..(n + 1 + 1) : h[k] = IF k = 1 THEN start ELSE Follow(h[k - 1], column.rows[k])
      BY <1>7, <3>1
    <3>3. Follows(h, n + 1 + 1)
      BY <1>7, <3>2
    <3>4. n + 1 \in Nat
      BY <1>7
    <3> HIDE DEF Follows, h
    <3> QED BY <3>3, <3>4
  <2> HIDE DEF P
  <2>3. N - 1 \in P
    <3>1. N - 1 \in Nat
      BY <1>7
    <3>2. \A k \in 0..(N - 1) : k \in P
      BY <2>1, <2>2, <3>1, Upto
    <3> QED BY <3>1, <3>2
  <2>4. PICK g : Follows(g, (N - 1) + 1)
    BY <2>3 DEF P
  <2>5. (N - 1) + 1 = N
    BY <1>7
  <2> HIDE DEF Follows
  <2> QED BY <2>4, <2>5
<1>12. Follows(follow, N)
  BY <1>11
<1> HIDE DEF follow
<1>13. follow[1] = start /\ \A k \in 1..N : k > 1 => follow[k] = Follow(follow[k - 1], q[k])
  BY <1>7, <1>12 DEF q
<1> HIDE DEF Follows
<1> DEFINE Q == {n \in 0..(N - 1) : Is(follow[n + 1], n + 1)}
<1>14. 0 \in Q
  <2>1. Is(follow[0 + 1], 0 + 1)
    BY <1>10, <1>13
  <2> HIDE DEF Is
  <2> QED BY <1>7, <2>1
<1>15. ASSUME NEW n \in 0..((N - 1) - 1), n \in Q PROVE n + 1 \in Q
  <2> DEFINE k == n + 2  y == follow[n + 1]  f == follow[k]  x == q[k]
             here == MoveToWorkspace(y, x, u, FALSE, how)
             s == InsertViewIntoColumn(here.strip[u], x, c, RowIn(column, x))
  <2>1. k \in 1..N /\ k > 1 /\ k - 1 = n + 1 /\ n + 1 \in 0..(N - 1) /\ (n + 1) + 1 = k /\ k > n + 1
    BY <1>7
  <2>2. Is(y, n + 1)
    BY <1>15
  <2>3. f = Lay(here, u, s)
    BY <1>13, <2>1 DEF Follow
  <2>4. x \in Windows /\ RowIn(column, x) \in Int /\ x \in Members(strip[w])
    BY <1>8, <2>1
  <2>5. /\ Good(y) /\ y.kind = kind /\ y.grab = grab /\ c \in DOMAIN y.strip[u]
        /\ Len(y.strip[u][c].rows) = n + 1 /\ y.home[x] = w
    BY <2>1, <2>2
  <2>6. \A i \in 1..N : i > k => y.home[q[i]] = w /\ q[i] # x /\ q[i] \in Windows
    <3> SUFFICES ASSUME NEW i \in 1..N, i > k PROVE y.home[q[i]] = w /\ q[i] # x /\ q[i] \in Windows
      OBVIOUS
    <3>1. i > n + 1 /\ i # k
      BY <1>7, <2>1
    <3>2. y.home[q[i]] = w
      BY <2>2, <3>1
    <3>3. q[i] # q[k]
      BY <1>7, <2>1, <3>1 DEF Apart
    <3> QED BY <1>8, <3>2, <3>3
  <2> HIDE DEF y, f, x, k
  <2>7. Moves(y, here, x, u) /\ here.strip[u] = y.strip[u]
    <3>1. \A b \in BOOLEAN : LET mm == MoveToWorkspace(y, x, u, b, how)
                             IN  Moves(y, mm, x, u) /\ (~b => mm.strip[u] = y.strip[u])
      BY <2>4, <2>5, MoveToWorkspaceIs
    <3> QED BY <3>1, Zenon
  <2> HIDE DEF here
  <2>8. x \notin Members(y.strip[u])
    BY <2>5 DEF Good, Sits
  <2>9. Fits(Windows, y.strip[u])
    BY <2>5, StripsAre DEF Good, Typed
  <2>10. /\ Fits(Windows, s) /\ Members(s) \subseteq Members(y.strip[u]) \cup {x} /\ Members(y.strip[u]) \subseteq Members(s)
         /\ DOMAIN s = DOMAIN y.strip[u] /\ Len(s[c].rows) = Len(y.strip[u][c].rows) + 1
    <3> DEFINE i == InsertViewIntoColumn(y.strip[u], x, c, RowIn(column, x))
    <3>1. /\ Fits(Windows, i) /\ Members(i) \subseteq Members(y.strip[u]) \cup {x} /\ Members(y.strip[u]) \subseteq Members(i)
          /\ x \notin Members(y.strip[u]) /\ c \in DOMAIN y.strip[u] =>
               DOMAIN i = DOMAIN y.strip[u] /\ Len(i[c].rows) = Len(y.strip[u][c].rows) + 1
      BY <2>4, <2>9, InsertViewIntoColumnIs
    <3>2. s = i
      BY <2>7
    <3> HIDE DEF s, i
    <3> QED BY <2>5, <2>8, <3>1, <3>2
  <2> HIDE DEF s
  <2>11. Good(here) /\ here.home = [y.home EXCEPT ![x] = u] /\ here.kind = kind /\ here.grab = grab
    BY <2>5, <2>7 DEF Moves
  <2>12. \A a \in Members(s) : here.home[a] = u /\ here.kind[a] # "closed"
    <3>1. kind[x] # "closed"
      <4> QED BY <1>2, <1>3, <2>4 DEF Good, Sits
    <3>2. here.home[x] = u
      BY <2>4, <2>5, <2>11 DEF Good, Typed
    <3> QED BY <2>7, <2>10, <2>11, <3>1, <3>2 DEF Good, Sits
  <2>13. Members(here.strip[u]) \subseteq Members(s)
    BY <2>7, <2>10
  <2>14. Good(f) /\ Same(here, f)
    BY <2>3, <2>10, <2>11, <2>12, <2>13, LaidAttaches DEF Attaches
  <2>15. f.strip[u] = s
    <3>1. Typed(here) /\ s \in Strips
      BY <2>10, <2>11, StripsAre DEF Good
    <3> QED BY <2>3, <3>1, LaidThere
  <2>16. \A i \in 1..N : i > k => f.home[q[i]] = w
    <3>1. \A i \in 1..N : i > k => here.home[q[i]] = y.home[q[i]]
      BY <2>5, <2>6, <2>11 DEF Good, Typed
    <3> QED BY <2>6, <2>14, <3>1 DEF Same
  <2>17. Len(f.strip[u][c].rows) = k
    <3>1. Len(s[c].rows) = (n + 1) + 1
      BY <2>5, <2>10
    <3> QED BY <2>1, <2>15, <3>1
  <2>18. Is(f, k)
    BY <2>5, <2>10, <2>11, <2>14, <2>15, <2>16, <2>17 DEF Same
  <2> HIDE DEF Is
  <2>19. Is(follow[(n + 1) + 1], (n + 1) + 1)
    BY <2>1, <2>18 DEF f
  <2> QED BY <2>1, <2>19
<1> HIDE DEF Q
<1>16. N - 1 \in Q
  <2>1. N - 1 \in Nat
    BY <1>7
  <2>2. \A k \in 0..(N - 1) : k \in Q
    BY <1>14, <1>15, <2>1, Upto
  <2> QED BY <2>1, <2>2
<1>17. Is(all, N)
  <2>1. Is(follow[(N - 1) + 1], (N - 1) + 1)
    BY <1>16 DEF Q
  <2>2. (N - 1) + 1 = N
    BY <1>7
  <2> HIDE DEF Is
  <2> QED BY <2>1, <2>2 DEF all
<1>18. Kept(all) /\ Good(all) /\ Typed(all)
  <2>1. Good(all) /\ all.grab = t.grab /\ all.kind = t.kind
    BY <1>2, <1>17
  <2> QED BY <1>2, <2>1, AttachedIsKept DEF Good
<1>19. Settles(all, l)
  <2>1. Fits(Windows, all.strip[u])
    BY <1>18, StripsAre DEF Typed
  <2>2. c \in DOMAIN all.strip[u] /\ Groups(column.tabs, Len(all.strip[u][c].rows))
    BY <1>7, <1>17
  <2>3. Reshapes(Windows, all.strip[u], done)
    BY <2>1, <2>2, AdoptTabsIs
  <2> HIDE DEF done
  <2> QED BY <1>18, <2>3, LaidSettles
<1> HIDE DEF l, Is
<1>20. Settles(l, m)
  BY <1>19, MarkedIs DEF Settles
<1> HIDE DEF m
<1>21. Settles(m, z)
  BY <1>3, <1>20, FocusViewIs DEF Settles, z
<1>22. Settles(all, z)
  <2>1. Settles(all, m)
    BY <1>19, <1>20, SettlesAgain
  <2> QED BY <1>21, <2>1, SettlesAgain
<1>23. Kept(z)
  BY <1>18, <1>22, SettledIsKept
<1> QED BY <1>1, <1>23


-----------------------------------------------------------------------------
(* Steps *)

\* A step that keeps the state: it becomes one that is kept.
LEMMA BecomesKept ==
  ASSUME NEW t, Kept(t), TilingBecomes(t)
  PROVE  Kept(TilingNow)'
<1> DEFINE x == TilingNow'
<1>1. /\ DOMAIN x = Fields /\ x.strip = t.strip /\ x.home = t.home /\ x.kind = t.kind /\ x.focused = t.focused
      /\ x.hidden = t.hidden /\ x.members = t.members /\ x.unsettled = t.unsettled /\ x.grab = t.grab
  BY DEF TilingBecomes, TilingNow, Fields
<1> HIDE DEF x
<1>2. Kept(x)
  BY <1>1, SameRecord
<1> QED BY <1>2 DEF x

\* The same for any other step.
LEMMA ChangesKept ==
  ASSUME NEW t, Kept(t), Changes(t)
  PROVE  Kept(TilingNow)'
<1>1. \E b : TilingBecomes([t EXCEPT !.grab.aimed = b])
  BY Zenon DEF Changes
<1>2. PICK b : TilingBecomes([t EXCEPT !.grab.aimed = b])
  BY <1>1
<1>3. Kept([t EXCEPT !.grab.aimed = b])
  BY AimedIsKept
<1> QED BY <1>2, <1>3, BecomesKept

\* And for one that depends on circumstances.
LEMMA ChangesToOneKept ==
  ASSUME NEW T, \A t \in T : Kept(t), ChangesToOneOf(T)
  PROVE  Kept(TilingNow)'
<1>1. PICK t \in T : Changes(t)
  BY DEF ChangesToOneOf
<1> QED BY <1>1, ChangesKept

\* A window takes the focus.
LEMMA FocusKeeps ==
  ASSUME Kept(TilingNow), NEW v \in Windows, FocusOn(v)
  PROVE  Kept(TilingNow)'
<1> DEFINE t == TilingNow  u == FocusTile(t, v)
<1>1. Kept(t) /\ Typed(t) /\ Changes(u)
  BY DEF Kept, Good, FocusOn
<1> HIDE DEF t
<1>2. Kept(u)
  BY <1>1, FocusViewIs, SettledIsKept
<1> HIDE DEF u
<1> QED BY <1>1, <1>2, ChangesKept

\* A window unmaps.
LEMMA CloseWindowKeeps ==
  ASSUME Kept(TilingNow), NEW v \in Windows, CloseWindow(v)
  PROVE  Kept(TilingNow)'
<1>1. \A how : Kept(Unmapped(v, how))
  BY UnmappedIs
<1> DEFINE T == {Unmapped(v, how) : how \in Circumstances(Open \ {v})}
<1>2. \A t \in T : Kept(t)
  BY <1>1
<1>3. ChangesToOneOf(T)
  BY DEF CloseWindow
<1> HIDE DEF T
<1> QED BY <1>2, <1>3, ChangesToOneKept

\* A window maps.
LEMMA OpenWindowKeeps ==
  ASSUME Kept(TilingNow), NEW v \in Windows, NEW w \in Workspaces, NEW tiled \in BOOLEAN, NEW focus \in BOOLEAN,
         OpenWindow(v, w, tiled, focus)
  PROVE  Kept(TilingNow)'
<1>1. \A how : Kept(Opened(v, w, tiled, focus, how))
  BY OpenedIs DEF OpenWindow
<1> DEFINE T == {Opened(v, w, tiled, focus, how) : how \in Circumstances(Open)}
<1>2. \A t \in T : Kept(t)
  BY <1>1
<1>3. ChangesToOneOf(T)
  BY DEF OpenWindow
<1> HIDE DEF T
<1> QED BY <1>2, <1>3, ChangesToOneKept

\* A press on a window.
LEMMA BeginMoveKeeps ==
  ASSUME Kept(TilingNow), NEW v \in Windows, BeginMove(v)
  PROVE  Kept(TilingNow)'
<1> DEFINE t == TilingNow  f == FocusTile(t, v)
           g == IF kind[v] = "tiled" THEN [NoGrab EXCEPT !.view = v, !.pending = TRUE, !.source = home[v]]
                ELSE [NoGrab EXCEPT !.view = v, !.aimed = TRUE]
           u == [f EXCEPT !.grab = g]
<1>1. Kept(t) /\ Typed(t) /\ t.kind[v] # "closed" /\ t.home[v] \in Workspaces /\ t.home = home
  BY DEF Kept, Good, Typed, BeginMove, TilingNow
<1>2. TilingBecomes(u)
  BY DEF BeginMove
<1> HIDE DEF t
<1>3. Settles(t, f)
  BY <1>1, FocusViewIs
<1> HIDE DEF f
<1>4. Good(f) /\ f.kind = t.kind
  BY <1>1, <1>3, SettledIsGood DEF Kept, Settles, Same
<1>5. /\ DOMAIN g = GrabFields /\ g.view = v /\ g.lifted = <<>> /\ g.column = 0 /\ g.row = 0
      /\ g.pending => g.source = home[v]
  BY DEF NoGrab, GrabFields
<1> HIDE DEF g
<1>6. Good(u) /\ u.home = f.home /\ u.kind = f.kind /\ u.strip = f.strip /\ u.grab = g
  BY <1>4, GrabIs
<1> HIDE DEF u
<1>7. Carries(u)
  <2>1. <<>> \in Seq(Windows) /\ Apart(<<>>) /\ ToSet(<<>>) = {}
    BY DEF Apart, ToSet
  <2>2. u.grab.view \in Windows /\ u.grab.lifted = <<>> /\ u.grab.column \in Nat /\ u.grab.row \in Nat
        /\ DOMAIN u.grab = GrabFields
    BY <1>5, <1>6
  <2> QED BY <2>1, <2>2 DEF Carries
<1>8. Grabbed(u)
  BY <1>1, <1>4, <1>5, <1>6 DEF Grabbed
<1>9. Kept(u)
  BY <1>6, <1>7, <1>8 DEF Kept
<1> QED BY <1>2, <1>9, BecomesKept

\* toggleFloating.
LEMMA ToggleFloatingKeeps ==
  ASSUME Kept(TilingNow), NEW v \in Windows, ToggleFloating(v)
  PROVE  Kept(TilingNow)'
<1> DEFINE t == TilingNow
           T == {SetFloating(t, v, kind[v] = "tiled", TRUE, how) : how \in Circumstances(Open \ {v})}
<1>1. Kept(t) /\ Good(t) /\ t.kind[v] # "closed"
  BY DEF Kept, ToggleFloating, TilingNow
<1>2. ChangesToOneOf(T)
  BY DEF ToggleFloating
<1> HIDE DEF t
<1>3. \A how : \A b, c \in BOOLEAN : Recasts(t, SetFloating(t, v, b, c, how))
  BY <1>1, SetFloatingIs
<1>4. \A how : Recasts(t, SetFloating(t, v, kind[v] = "tiled", TRUE, how))
  BY <1>3, Zenon
<1>5. \A u : Recasts(t, u) => Kept(u)
  BY <1>1, StaysKept DEF Recasts
<1>6. \A u \in T : Kept(u)
  BY <1>4, <1>5, Zenon
<1> HIDE DEF T
<1> QED BY <1>2, <1>6, ChangesToOneKept

\* moveViewToWorkspace.
LEMMA MoveViewToWorkspaceKeeps ==
  ASSUME Kept(TilingNow), NEW v \in Windows, NEW w \in Workspaces, NEW follow \in BOOLEAN,
         MoveViewToWorkspace(v, w, follow)
  PROVE  Kept(TilingNow)'
<1> DEFINE t == TilingNow
           T == {MoveToWorkspace(t, v, w, TRUE, how) : how \in Circumstances(Open \ {v})}
           F == {FocusTile(u, v) : u \in T}
<1>1. Kept(t) /\ Good(t)
  BY DEF Kept
<1>2. ChangesToOneOf(IF follow THEN F ELSE T)
  BY DEF MoveViewToWorkspace
<1> HIDE DEF t
<1>3. \A how : \A b \in BOOLEAN : LET mm == MoveToWorkspace(t, v, w, b, how)
                                  IN  Moves(t, mm, v, w) /\ (~b => mm.strip[w] = t.strip[w])
  BY <1>1, MoveToWorkspaceIs
<1>4. \A how : Moves(t, MoveToWorkspace(t, v, w, TRUE, how), v, w)
  BY <1>3, Zenon
<1>5. \A u : Moves(t, u, v, w) => Kept(u)
  BY <1>1, AttachedIsKept DEF Moves
<1>6. \A u \in T : Kept(u)
  BY <1>4, <1>5, Zenon
<1> HIDE DEF T
<1>7. \A u : Kept(u) => Kept(FocusTile(u, v))
  <2> SUFFICES ASSUME NEW u, Kept(u) PROVE Kept(FocusTile(u, v))
    OBVIOUS
  <2>1. Typed(u)
    BY DEF Kept, Good
  <2> QED BY <2>1, FocusViewIs, SettledIsKept
<1>8. \A u \in F : Kept(u)
  BY <1>6, <1>7
<1> HIDE DEF F
<1>9. \A u \in (IF follow THEN F ELSE T) : Kept(u)
  BY <1>6, <1>8
<1> QED BY <1>2, <1>9, ChangesToOneKept


-----------------------------------------------------------------------------
(* Steps of a strip *)

\* An operation that reshapes a strip that was kept.
LEMMA ReshapedKeeps ==
  ASSUME NEW t, Kept(t), NEW w \in Workspaces, NEW s, Reshapes(Windows, t.strip[w], s),
         IF s = t.strip[w] THEN Changes(t) ELSE Changes(MarkArrange(Lay(t, w, s), w))
  PROVE  Kept(TilingNow)'
<1> DEFINE l == Lay(t, w, s)  u == MarkArrange(l, w)
<1>1. CASE s = t.strip[w]
  BY <1>1, ChangesKept
<1>2. CASE s # t.strip[w]
  <2>1. Settles(t, l)
    BY LaidSettles DEF Kept, Good
  <2>2. Changes(u)
    BY <1>2
  <2> HIDE DEF l
  <2>3. Kept(l) /\ Typed(l)
    BY <2>1, SettledIsKept DEF Settles
  <2>4. Settles(l, u)
    BY <2>3, MarkedIs
  <2> HIDE DEF u
  <2>5. Kept(u)
    BY <2>3, <2>4, SettledIsKept
  <2> QED BY <2>2, <2>5, ChangesKept
<1> QED BY <1>1, <1>2

\* The strip an operation finds, as it is and once arranged.
LEMMA StripNow ==
  ASSUME Kept(TilingNow), NEW w \in Workspaces
  PROVE  Fits(Windows, TilingNow.strip[w])
BY StripsAre DEF Kept, Good, Typed

\* The same when what is pending is arranged first.
LEMMA FlushedNow ==
  ASSUME Kept(TilingNow), NEW w \in Workspaces
  PROVE  LET t == FlushArrange(TilingNow, w) IN Kept(t) /\ Fits(Windows, t.strip[w])
<1> DEFINE now == TilingNow  t == FlushArrange(now, w)
<1>1. Kept(now) /\ Typed(now)
  BY DEF Kept, Good
<1> HIDE DEF now
<1>2. Kept(t)
  BY <1>1, FlushArrangeIs, SettledIsKept
<1> HIDE DEF t
<1>3. Fits(Windows, t.strip[w])
  BY <1>2, StripsAre DEF Kept, Good, Typed
<1> QED BY <1>2, <1>3 DEF t, now

\* consume.
LEMMA ConsumeFocusedKeeps ==
  ASSUME Kept(TilingNow), NEW w \in Workspaces, NEW d \in {-1, 1}, NEW after \in BOOLEAN, ConsumeFocused(w, d, after)
  PROVE  Kept(TilingNow)'
<1>1. Reshape(w, TRUE, LAMBDA s : Consume(s, focused[w], d, after))
  BY DEF ConsumeFocused
<1> DEFINE t == FlushArrange(TilingNow, w)  x == t.strip[w]  y == Consume(x, focused[w], d, after)
<1>2. IF y = t.strip[w] THEN Changes(t) ELSE Changes(MarkArrange(Lay(t, w, y), w))
  BY <1>1 DEF Reshape
<1>3. Kept(t) /\ Fits(Windows, x)
  BY FlushedNow
<1> HIDE DEF t
<1>4. Fits(Windows, t.strip[w])
  BY <1>3
<1>5. Reshapes(Windows, t.strip[w], y)
  BY <1>4, ConsumeIs
<1> HIDE DEF y
<1> QED BY <1>2, <1>3, <1>5, ReshapedKeeps

\* consumeFrom.
LEMMA ConsumeFromFocusedKeeps ==
  ASSUME Kept(TilingNow), NEW w \in Workspaces, NEW d \in {-1, 1}, NEW after \in BOOLEAN, ConsumeFromFocused(w, d, after)
  PROVE  Kept(TilingNow)'
<1>1. Reshape(w, FALSE, LAMBDA s : ConsumeFrom(s, focused[w], d, after))
  BY DEF ConsumeFromFocused
<1> DEFINE t == TilingNow  x == t.strip[w]  y == ConsumeFrom(x, focused[w], d, after)
<1>2. IF y = t.strip[w] THEN Changes(t) ELSE Changes(MarkArrange(Lay(t, w, y), w))
  BY <1>1 DEF Reshape
<1>3. Kept(t) /\ Fits(Windows, x)
  BY StripNow
<1> HIDE DEF t
<1>4. Fits(Windows, t.strip[w])
  BY <1>3
<1>5. Reshapes(Windows, t.strip[w], y)
  BY <1>4, ConsumeFromIs
<1> HIDE DEF y
<1> QED BY <1>2, <1>3, <1>5, ReshapedKeeps

\* expel.
LEMMA ExpelFocusedKeeps ==
  ASSUME Kept(TilingNow), NEW w \in Workspaces, NEW d \in {-1, 1}, NEW tabbed, ExpelFocused(w, d, tabbed)
  PROVE  Kept(TilingNow)'
<1>1. Reshape(w, FALSE, LAMBDA s : Expel(s, focused[w], d, tabbed))
  BY DEF ExpelFocused
<1> DEFINE t == TilingNow  x == t.strip[w]  y == Expel(x, focused[w], d, tabbed)
<1>2. IF y = t.strip[w] THEN Changes(t) ELSE Changes(MarkArrange(Lay(t, w, y), w))
  BY <1>1 DEF Reshape
<1>3. Kept(t) /\ Fits(Windows, x)
  BY StripNow
<1> HIDE DEF t
<1>4. Fits(Windows, t.strip[w])
  BY <1>3
<1>5. Reshapes(Windows, t.strip[w], y)
  BY <1>4, ExpelIs
<1> HIDE DEF y
<1> QED BY <1>2, <1>3, <1>5, ReshapedKeeps

\* moveViewVertical.
LEMMA MoveWithinLaneKeeps ==
  ASSUME Kept(TilingNow), NEW w \in Workspaces, NEW d \in {-1, 1}, MoveWithinLane(w, d)
  PROVE  Kept(TilingNow)'
<1>1. Reshape(w, TRUE, LAMBDA s : MoveViewVertical(s, focused[w], d))
  BY DEF MoveWithinLane
<1> DEFINE t == FlushArrange(TilingNow, w)  x == t.strip[w]  y == MoveViewVertical(x, focused[w], d)
<1>2. IF y = t.strip[w] THEN Changes(t) ELSE Changes(MarkArrange(Lay(t, w, y), w))
  BY <1>1 DEF Reshape
<1>3. Kept(t) /\ Fits(Windows, x)
  BY FlushedNow
<1> HIDE DEF t
<1>4. Fits(Windows, t.strip[w])
  BY <1>3
<1>5. Reshapes(Windows, t.strip[w], y)
  BY <1>4, MoveViewVerticalIs
<1> HIDE DEF y
<1> QED BY <1>2, <1>3, <1>5, ReshapedKeeps

\* moveTab.
LEMMA MoveFocusedTabKeeps ==
  ASSUME Kept(TilingNow), NEW w \in Workspaces, NEW d \in {-1, 1}, MoveFocusedTab(w, d)
  PROVE  Kept(TilingNow)'
<1>1. Reshape(w, FALSE, LAMBDA s : MoveTab(s, focused[w], d))
  BY DEF MoveFocusedTab
<1> DEFINE t == TilingNow  x == t.strip[w]  y == MoveTab(x, focused[w], d)
<1>2. IF y = t.strip[w] THEN Changes(t) ELSE Changes(MarkArrange(Lay(t, w, y), w))
  BY <1>1 DEF Reshape
<1>3. Kept(t) /\ Fits(Windows, x)
  BY StripNow
<1> HIDE DEF t
<1>4. Fits(Windows, t.strip[w])
  BY <1>3
<1>5. Reshapes(Windows, t.strip[w], y)
  BY <1>4, MoveTabIs
<1> HIDE DEF y
<1> QED BY <1>2, <1>3, <1>5, ReshapedKeeps

\* setTabbed.
LEMMA SetFocusedColumnTabbedKeeps ==
  ASSUME Kept(TilingNow), NEW w \in Workspaces, NEW tabbed \in BOOLEAN, SetFocusedColumnTabbed(w, tabbed)
  PROVE  Kept(TilingNow)'
<1>1. Reshape(w, FALSE, LAMBDA s : SetTabbed(s, focused[w], tabbed))
  BY DEF SetFocusedColumnTabbed
<1> DEFINE t == TilingNow  x == t.strip[w]  y == SetTabbed(x, focused[w], tabbed)
<1>2. IF y = t.strip[w] THEN Changes(t) ELSE Changes(MarkArrange(Lay(t, w, y), w))
  BY <1>1 DEF Reshape
<1>3. Kept(t) /\ Fits(Windows, x)
  BY StripNow
<1> HIDE DEF t
<1>4. Fits(Windows, t.strip[w])
  BY <1>3
<1>5. Reshapes(Windows, t.strip[w], y)
  BY <1>4, SetTabbedIs
<1> HIDE DEF y
<1> QED BY <1>2, <1>3, <1>5, ReshapedKeeps

\* swapFocusedInDirection, with any window that shows.
LEMMA SwapFocusedInDirectionKeeps ==
  ASSUME Kept(TilingNow), NEW w \in Workspaces, NEW v, SwapFocusedInDirection(w, v)
  PROVE  Kept(TilingNow)'
<1>1. Reshape(w, TRUE, LAMBDA x0 : SwapViews(x0, focused[w], v))
  BY DEF SwapFocusedInDirection
<1> DEFINE t == FlushArrange(TilingNow, w)  x == t.strip[w]  y == SwapViews(x, focused[w], v)
<1>2. IF y = t.strip[w] THEN Changes(t) ELSE Changes(MarkArrange(Lay(t, w, y), w))
  BY <1>1 DEF Reshape
<1>3. Kept(t) /\ Fits(Windows, x)
  BY FlushedNow
<1> HIDE DEF t
<1>4. Fits(Windows, t.strip[w])
  BY <1>3
<1>5. Reshapes(Windows, t.strip[w], y)
  BY <1>4, SwapViewsIs
<1> HIDE DEF y
<1> QED BY <1>2, <1>3, <1>5, ReshapedKeeps

\* swapFocusedInCycle.
LEMMA SwapFocusedInCycleKeeps ==
  ASSUME Kept(TilingNow), NEW w \in Workspaces, NEW d, SwapFocusedInCycle(w, d)
  PROVE  Kept(TilingNow)'
<1> DEFINE Ring(s) == FoldLeft(LAMBDA rows, col : rows \o col.rows, <<>>, s)
           at(s) == CHOOSE k \in DOMAIN Ring(s) : Ring(s)[k] = focused[w]
           Peer(s) == Ring(s)[((at(s) - 1 + d) % Len(Ring(s))) + 1]
<1>1. Reshape(w, FALSE, LAMBDA s : SwapViews(s, focused[w], Peer(s)))
  BY DEF SwapFocusedInCycle
<1> DEFINE t == TilingNow  x == t.strip[w]  y == SwapViews(x, focused[w], Peer(x))
<1>2. IF y = t.strip[w] THEN Changes(t) ELSE Changes(MarkArrange(Lay(t, w, y), w))
  BY <1>1 DEF Reshape
<1>3. Kept(t) /\ Fits(Windows, x)
  BY StripNow
<1> HIDE DEF t
<1>4. Fits(Windows, t.strip[w])
  BY <1>3
<1>5. Reshapes(Windows, t.strip[w], y)
  BY <1>4, SwapViewsIs
<1> HIDE DEF y
<1> QED BY <1>2, <1>3, <1>5, ReshapedKeeps

\* moveColumn, between places the strip has.
LEMMA MoveFocusedColumnKeeps ==
  ASSUME Kept(TilingNow), NEW w \in Workspaces, NEW to, MoveFocusedColumn(w, to)
  PROVE  Kept(TilingNow)'
<1>1. Reshape(w, FALSE, LAMBDA s : MoveColumn(s, ColumnOf(s, focused[w]), to))
  BY DEF MoveFocusedColumn
<1> DEFINE t == TilingNow  x == t.strip[w]  from == ColumnOf(x, focused[w])  y == MoveColumn(x, from, to)
<1>2. IF y = t.strip[w] THEN Changes(t) ELSE Changes(MarkArrange(Lay(t, w, y), w))
  BY <1>1 DEF Reshape
<1>3. Kept(t) /\ Fits(Windows, x)
  BY StripNow
<1>4. from \in DOMAIN x /\ to \in DOMAIN x
  <2>1. x = strip[w] /\ to \in DOMAIN strip[w] /\ focused[w] \in Members(strip[w])
    BY DEF MoveFocusedColumn, Tile, InStrip, TilingNow
  <2>2. Loose(Windows, x) /\ focused[w] \in Members(x)
    BY <1>3, <2>1, FitsAre
  <2>3. from \in DOMAIN x
    BY <2>2, ColumnOfIs
  <2> QED BY <2>1, <2>3
<1> HIDE DEF t, from
<1>5. Reshapes(Windows, x, y)
  BY <1>3, <1>4, MoveColumnIs
<1> HIDE DEF y
<1> QED BY <1>2, <1>3, <1>5, ReshapedKeeps

\* A frame arranges.
LEMMA ArrangePendingKeeps ==
  ASSUME Kept(TilingNow), NEW w \in Workspaces, ArrangePending(w)
  PROVE  Kept(TilingNow)'
<1> DEFINE t == TilingNow  u == Arrange(t, w)
<1>1. Kept(t) /\ Typed(t) /\ Changes(u)
  BY DEF Kept, Good, ArrangePending
<1> HIDE DEF t
<1>2. Kept(u)
  BY <1>1, ArrangeIs, SettledIsKept
<1> HIDE DEF u
<1> QED BY <1>1, <1>2, ChangesKept

\* moveFocusedColumnToWorkspace.
LEMMA MoveFocusedColumnToWorkspaceKeeps ==
  ASSUME Kept(TilingNow), NEW w \in Workspaces, NEW u \in Workspaces, MoveFocusedColumnToWorkspace(w, u)
  PROVE  Kept(TilingNow)'
<1> DEFINE T == {ColumnMoved(w, u, how) : how \in Circumstances(Open)}
<1>1. w # u /\ InStrip(strip[w], focused[w]) /\ ChangesToOneOf(T)
  BY DEF MoveFocusedColumnToWorkspace
<1>2. \A how : Kept(ColumnMoved(w, u, how))
  BY <1>1, ColumnMovedIs
<1>3. \A t \in T : Kept(t)
  BY <1>2
<1> HIDE DEF T
<1> QED BY <1>1, <1>3, ChangesToOneKept


-----------------------------------------------------------------------------
(* Steps of a drag *)

\* A window takes the focus.
LEMMA FocusedIsKept ==
  ASSUME NEW t, Kept(t), NEW v \in Windows
  PROVE  Kept(FocusTile(t, v))
<1>1. Typed(t)
  BY DEF Kept, Good
<1> QED BY <1>1, FocusViewIs, SettledIsKept

\* What is kept, with the same windows open.
KeptOpen(t, u) == Kept(u) /\ \A x \in Windows : u.kind[x] = "closed" <=> t.kind[x] = "closed"

\* The dragged window tiles or floats from now on.
LEMMA RecastIsKept ==
  ASSUME NEW t, Kept(t), NEW v \in Windows, t.kind[v] # "closed", NEW floating \in BOOLEAN, NEW how
  PROVE  KeptOpen(t, SetFloating(t, v, floating, FALSE, how))
<1> DEFINE u == SetFloating(t, v, floating, FALSE, how)
<1>1. Good(t)
  BY DEF Kept
<1>2. \A b \in BOOLEAN : Recasts(t, SetFloating(t, v, floating, b, how))
  BY <1>1, SetFloatingIs
<1>3. Recasts(t, u)
  BY <1>2, Zenon
<1> HIDE DEF u
<1>4. Good(u) /\ u.grab = t.grab /\ \A x \in Windows : u.kind[x] = "closed" <=> t.kind[x] = "closed"
  BY <1>3 DEF Recasts
<1>5. Kept(u)
  BY <1>4, StaysKept
<1> QED BY <1>4, <1>5 DEF u, KeptOpen

\* The drag ends.
LEMMA ResetIsKept ==
  ASSUME NEW t, Kept(t), NEW how
  PROVE  Kept(ResetMode(t, how))
<1> DEFINE u == ResetMode(t, how)
<1>1. Good(t) /\ Carries(t)
  BY DEF Kept
<1>2. Good(u) /\ u.kind = t.kind /\ u.grab = NoGrab
  BY <1>1, ResetModeIs
<1> HIDE DEF u
<1>3. Kept(u)
  BY <1>2, UndraggedIsKept
<1> QED BY <1>3 DEF u

\* The drag is given up.
LEMMA AbandonMoveKeeps ==
  ASSUME Kept(TilingNow), AbandonMove
  PROVE  Kept(TilingNow)'
<1> DEFINE T == {ResetMode(TilingNow, how) : how \in Circumstances(Open)}
<1>1. ChangesToOneOf(T)
  BY DEF AbandonMove
<1>2. \A how : Kept(ResetMode(TilingNow, how))
  BY ResetIsKept
<1>3. \A t \in T : Kept(t)
  BY <1>2
<1> HIDE DEF T
<1> QED BY <1>1, <1>3, ChangesToOneKept

\* The drop is computed again.
LEMMA UpdateDropTargetKeeps ==
  ASSUME Kept(TilingNow), UpdateDropTarget
  PROVE  Kept(TilingNow)'
<1> DEFINE t == TilingNow  u == [t EXCEPT !.grab.aimed = TRUE]
<1>1. TilingBecomes(u)
  BY DEF UpdateDropTarget
<1> HIDE DEF t
<1>2. \A b : Kept([t EXCEPT !.grab.aimed = b])
  BY AimedIsKept DEF t
<1>3. Kept(u)
  BY <1>2, Zenon
<1> HIDE DEF u
<1> QED BY <1>1, <1>3, BecomesKept

\* The drag starts.
LEMMA StartDragKeeps ==
  ASSUME Kept(TilingNow), NEW carry \in BOOLEAN, StartDrag(carry)
  PROVE  Kept(TilingNow)'
<1> DEFINE t == TilingNow  d == BeginDrag(t, carry)  u == [d EXCEPT !.grab.aimed = TRUE]
<1>1. TilingBecomes(u) /\ t.grab.pending /\ Kept(t)
  BY DEF StartDrag, TilingNow
<1> HIDE DEF t
<1>2. /\ Good(t) /\ Carries(t) /\ t.grab.view \in Windows /\ t.kind[t.grab.view] # "closed"
      /\ t.grab.source \in Workspaces
  BY <1>1 DEF Kept, Grabbed
<1>3. /\ Good(d) /\ Carries(d) /\ d.kind = t.kind /\ d.home = t.home
      /\ d.grab.view = t.grab.view /\ d.grab.pending = FALSE
  BY <1>2, BeginDragIs
<1> HIDE DEF d
<1>4. Grabbed(d)
  BY <1>2, <1>3 DEF Grabbed
<1>5. Kept(d)
  BY <1>3, <1>4 DEF Kept
<1>6. \A b : Kept([d EXCEPT !.grab.aimed = b])
  BY <1>5, AimedIsKept
<1>7. Kept(u)
  BY <1>6, Zenon
<1> HIDE DEF u
<1> QED BY <1>1, <1>7, BecomesKept

\* The dragged window lands as a tile, its group with it.
LEMMA TiledIsKept ==
  ASSUME Kept(TilingNow), Dragging, NEW w \in Workspaces, NEW how, NEW z \in Tiled(w, how)
  PROVE  Kept(z)
<1> DEFINE t == TilingNow  v == grab.view
           r == SetFloating(t, v, FALSE, FALSE, how)
           up == Lifted(r, v, w, how)
<1>1. Kept(t) /\ v \in Windows /\ t.kind[v] # "closed"
  <2>1. t.grab = grab /\ Kept(t) /\ v # NoWindow
    BY DEF Dragging, TilingNow
  <2> HIDE DEF t
  <2> QED BY <2>1 DEF Kept, Carries, Grabbed
<1>2. PICK s \in Landings(up, v, w, how.tabbed) :
        z = ResetMode(FocusTile(MarkArrange(Lay(up, w, s), w), v), how)
  BY DEF Tiled
<1> HIDE DEF t, v
<1>3. Kept(r) /\ \A x \in Windows : r.kind[x] = "closed" <=> t.kind[x] = "closed"
  <2>1. \A b \in BOOLEAN : KeptOpen(t, SetFloating(t, v, b, FALSE, how))
    BY <1>1, RecastIsKept
  <2>2. KeptOpen(t, r)
    BY <2>1, Zenon
  <2> QED BY <2>2 DEF KeptOpen
<1> HIDE DEF r
<1>4. Moves(r, up, v, w)
  BY <1>1, <1>3, LiftedIs DEF Kept
<1> DEFINE tabbed == how.tabbed
<1>5. s \in Landings(up, v, w, tabbed)
  BY <1>2
<1> HIDE DEF up, tabbed
<1>6. Good(up) /\ up.kind = r.kind /\ up.grab = r.grab /\ up.home[v] = w
  <2>1. v \in DOMAIN r.home
    BY <1>1, <1>3 DEF Kept, Good, Typed
  <2> QED BY <1>4, <2>1 DEF Moves
<1>7. Kept(up) /\ up.kind[v] # "closed"
  BY <1>1, <1>3, <1>6, AttachedIsKept
<1> DEFINE l == Lay(up, w, s)  m == MarkArrange(l, w)  f == FocusTile(m, v)
<1>8. Good(l) /\ Same(up, l)
  BY <1>1, <1>5, <1>6, <1>7, LandingsAre
<1>9. z = ResetMode(f, how)
  BY <1>2
<1> HIDE DEF l
<1>10. Kept(l) /\ Typed(l)
  BY <1>7, <1>8, AttachedIsKept DEF Same, Good
<1>11. Settles(l, m)
  BY <1>10, MarkedIs
<1> HIDE DEF m
<1>12. Kept(m)
  BY <1>10, <1>11, SettledIsKept
<1>13. Kept(f)
  BY <1>1, <1>12, FocusedIsKept
<1> HIDE DEF f
<1> QED BY <1>9, <1>13, ResetIsKept

\* It lands as a float.
LEMMA FloatedIsKept ==
  ASSUME Kept(TilingNow), Dragging, NEW w \in Workspaces, NEW how
  PROVE  Kept(Floated(w, how))
<1> DEFINE t == TilingNow  v == grab.view
           r == SetFloating(t, v, TRUE, FALSE, how)
           m == MoveToWorkspace(r, v, w, TRUE, how)
           d == ResetMode(m, how)
<1>1. Kept(t) /\ v \in Windows /\ t.kind[v] # "closed"
  <2>1. t.grab = grab /\ Kept(t) /\ v # NoWindow
    BY DEF Dragging, TilingNow
  <2> HIDE DEF t
  <2> QED BY <2>1 DEF Kept, Carries, Grabbed
<1>2. Floated(w, how) = FocusTile(d, v)
  BY DEF Floated
<1> HIDE DEF t, v
<1>3. Kept(r)
  <2>1. \A b \in BOOLEAN : KeptOpen(t, SetFloating(t, v, b, FALSE, how))
    BY <1>1, RecastIsKept
  <2>2. KeptOpen(t, r)
    BY <2>1, Zenon
  <2> QED BY <2>2 DEF KeptOpen
<1> HIDE DEF r
<1>4. Moves(r, m, v, w)
  <2>1. \A b \in BOOLEAN : LET u == MoveToWorkspace(r, v, w, b, how)
                           IN  Moves(r, u, v, w) /\ (~b => u.strip[w] = r.strip[w])
    BY <1>1, <1>3, MoveToWorkspaceIs DEF Kept
  <2> QED BY <2>1, Zenon
<1> HIDE DEF m
<1>5. Kept(m)
  BY <1>3, <1>4, AttachedIsKept DEF Moves
<1>6. Kept(d)
  BY <1>5, ResetIsKept
<1> HIDE DEF d
<1>7. Kept(FocusTile(d, v))
  BY <1>1, <1>6, FocusedIsKept
<1> QED BY <1>2, <1>7

\* The button is released.
LEMMA FinishMoveKeeps ==
  ASSUME Kept(TilingNow), NEW w \in Workspaces, FinishMove(w)
  PROVE  Kept(TilingNow)'
<1> DEFINE S == Circumstances(Open)
           F == {Floated(w, how) : how \in S}
           T == UNION {Tiled(w, how) : how \in S}
<1>1. Dragging /\ ChangesToOneOf(F \cup T)
  BY DEF FinishMove
<1>2. \A z \in F : Kept(z)
  BY <1>1, FloatedIsKept
<1>3. \A how : \A z \in Tiled(w, how) : Kept(z)
  BY <1>1, TiledIsKept
<1>4. \A z \in T : Kept(z)
  <2> SUFFICES ASSUME NEW z \in T PROVE Kept(z)
    OBVIOUS
  <2>1. PICK how \in S : z \in Tiled(w, how)
    OBVIOUS
  <2> QED BY <1>3, <2>1
<1> HIDE DEF F, T
<1>5. \A z \in F \cup T : Kept(z)
  BY <1>2, <1>4
<1> QED BY <1>1, <1>5, ChangesToOneKept


-----------------------------------------------------------------------------
(* The invariant *)

\* A workspace without tiles.
LEMMA EmptyFits ==
  ASSUME NEW S
  PROVE  Fits(S, <<>>) /\ Members(<<>>) = {}
<1>1. DOMAIN <<>> = {} /\ <<>> \in Seq(Column(S))
  OBVIOUS
<1>2. Fits(S, <<>>)
  BY <1>1 DEF Fits, Loose, Disjoint
<1>3. Members(<<>>) = {}
  BY <1>1 DEF Members
<1> QED BY <1>2, <1>3

\* At first nothing is open.
LEMMA InitKept ==
  ASSUME TilingInit
  PROVE  Kept(TilingNow)
<1> DEFINE t == TilingNow
<1>1. /\ t.strip = strip /\ t.home = home /\ t.kind = kind /\ t.focused = focused /\ t.grab = grab
      /\ t.hidden = hidden /\ t.members = members /\ t.unsettled = unsettled /\ DOMAIN t = Fields
  BY DEF TilingNow, Fields
<1> HIDE DEF t
<1>2. <<>> \in Strips /\ Members(<<>>) = {}
  BY EmptyFits, StripsAre
<1>3. Typed(t)
  BY <1>1, <1>2 DEF TilingInit, Typed, Kinds
<1>4. Sits(t)
  BY <1>1, <1>2 DEF TilingInit, Sits
<1>5. Kept(t)
  BY <1>1, <1>3, <1>4, UndraggedIsKept DEF Good, TilingInit
<1> QED BY <1>5 DEF t

\* Every action keeps it.
LEMMA NextKept ==
  ASSUME Kept(TilingNow), [TilingNext]_tilingVars
  PROVE  Kept(TilingNow)'
<1>1. ASSUME NEW v \in Windows, TileStep(v) PROVE Kept(TilingNow)'
  <2>1. CASE FocusOn(v)
    BY <2>1, FocusKeeps
  <2>2. CASE BeginMove(v)
    BY <2>2, BeginMoveKeeps
  <2>3. CASE CloseWindow(v)
    BY <2>3, CloseWindowKeeps
  <2>4. CASE ToggleFloating(v)
    BY <2>4, ToggleFloatingKeeps
  <2>5. ASSUME NEW w \in Workspaces, NEW follow \in BOOLEAN, MoveViewToWorkspace(v, w, follow)
        PROVE  Kept(TilingNow)'
    BY <2>5, MoveViewToWorkspaceKeeps
  <2>6. ASSUME NEW w \in Workspaces, NEW tiled \in BOOLEAN, NEW focus \in BOOLEAN, OpenWindow(v, w, tiled, focus)
        PROVE  Kept(TilingNow)'
    BY <2>6, OpenWindowKeeps
  <2> QED BY <1>1, <2>1, <2>2, <2>3, <2>4, <2>5, <2>6 DEF TileStep
<1>2. ASSUME NEW w \in Workspaces, StripStep(w) PROVE Kept(TilingNow)'
  <2>1. CASE ArrangePending(w)
    BY <2>1, ArrangePendingKeeps
  <2>2. ASSUME NEW v \in Windows, SwapFocusedInDirection(w, v) PROVE Kept(TilingNow)'
    BY <2>2, SwapFocusedInDirectionKeeps
  <2>3. ASSUME NEW to \in 1..Cardinality(Windows), MoveFocusedColumn(w, to) PROVE Kept(TilingNow)'
    BY <2>3, MoveFocusedColumnKeeps
  <2>4. ASSUME NEW tabbed \in BOOLEAN, SetFocusedColumnTabbed(w, tabbed) PROVE Kept(TilingNow)'
    BY <2>4, SetFocusedColumnTabbedKeeps
  <2>5. ASSUME NEW d \in {-1, 1}, SwapFocusedInCycle(w, d) PROVE Kept(TilingNow)'
    BY <2>5, SwapFocusedInCycleKeeps
  <2>6. ASSUME NEW d \in {-1, 1}, MoveWithinLane(w, d) PROVE Kept(TilingNow)'
    BY <2>6, MoveWithinLaneKeeps
  <2>7. ASSUME NEW d \in {-1, 1}, MoveFocusedTab(w, d) PROVE Kept(TilingNow)'
    BY <2>7, MoveFocusedTabKeeps
  <2>8. ASSUME NEW d \in {-1, 1}, NEW after \in BOOLEAN, ConsumeFocused(w, d, after) PROVE Kept(TilingNow)'
    BY <2>8, ConsumeFocusedKeeps
  <2>9. ASSUME NEW d \in {-1, 1}, NEW after \in BOOLEAN, ConsumeFromFocused(w, d, after) PROVE Kept(TilingNow)'
    BY <2>9, ConsumeFromFocusedKeeps
  <2>10. ASSUME NEW d \in {-1, 1}, NEW tabbed \in OpensTabbed, ExpelFocused(w, d, tabbed) PROVE Kept(TilingNow)'
    BY <2>10, ExpelFocusedKeeps
  <2>11. ASSUME NEW u \in Workspaces, MoveFocusedColumnToWorkspace(w, u) PROVE Kept(TilingNow)'
    BY <2>11, MoveFocusedColumnToWorkspaceKeeps
  <2> QED
    BY <1>2, <2>1, <2>2, <2>3, <2>4, <2>5, <2>6, <2>7, <2>8, <2>9, <2>10, <2>11 DEF StripStep
<1>3. ASSUME DragStep PROVE Kept(TilingNow)'
  <2>1. CASE UpdateDropTarget
    BY <2>1, UpdateDropTargetKeeps
  <2>2. CASE AbandonMove
    BY <2>2, AbandonMoveKeeps
  <2>3. ASSUME NEW carry \in BOOLEAN, StartDrag(carry) PROVE Kept(TilingNow)'
    BY <2>3, StartDragKeeps
  <2>4. ASSUME NEW w \in Workspaces, FinishMove(w) PROVE Kept(TilingNow)'
    BY <2>4, FinishMoveKeeps
  <2> QED BY <1>3, <2>1, <2>2, <2>3, <2>4 DEF DragStep
<1>4. CASE UNCHANGED tilingVars
  <2>1. TilingNow' = TilingNow
    BY <1>4 DEF tilingVars, TilingNow
  <2> QED BY <2>1
<1> QED BY <1>1, <1>2, <1>3, <1>4 DEF TilingNext

\* Where a row stands is where it is looked up, and no other column of any workspace has its window.
LEMMA KeptIsTyped ==
  ASSUME Kept(TilingNow)
  PROVE  TilingTypeOK
<1> DEFINE t == TilingNow
<1>1. /\ t.strip = strip /\ t.home = home /\ t.kind = kind /\ t.focused = focused /\ t.grab = grab
      /\ t.hidden = hidden /\ t.members = members /\ t.unsettled = unsettled /\ Kept(t)
  BY DEF TilingNow
<1> HIDE DEF t
<1>2. \A w \in Workspaces : Fits(Windows, strip[w]) /\ \A v \in Members(strip[w]) : home[v] = w
  BY <1>1, StripsAre DEF Kept, Good, Typed, Sits
<1>3. ASSUME NEW w \in Workspaces, NEW c \in DOMAIN strip[w]
      PROVE  /\ strip[w][c].rows \in Seq(Windows) \ {<<>>}
             /\ Sound(strip[w][c].tabs, Len(strip[w][c].rows))
             /\ \A r \in DOMAIN strip[w][c].rows : LET v == strip[w][c].rows[r] IN
                  /\ RowIn(strip[w][c], v) = r
                  /\ \A u \in Workspaces : \A d \in DOMAIN strip[u] :
                       v \in ToSet(strip[u][d].rows) => u = w /\ d = c
  <2> DEFINE col == strip[w][c]
  <2>1. Fits(Windows, strip[w])
    BY <1>2
  <2>2. Whole(Windows, col) /\ col.rows # <<>> /\ col.rows \in Seq(Windows) /\ Loose(Windows, strip[w])
    BY <2>1, FitsAre
  <2>3. ToSet(col.rows) \subseteq Members(strip[w])
    BY MembersAre
  <2> HIDE DEF col
  <2>4. Sound(col.tabs, Len(col.rows)) /\ Apart(col.rows)
    BY <2>2 DEF Whole, Groups
  <2>5. ASSUME NEW r \in DOMAIN col.rows
        PROVE  /\ RowIn(col, col.rows[r]) = r
               /\ \A u \in Workspaces : \A d \in DOMAIN strip[u] :
                    col.rows[r] \in ToSet(strip[u][d].rows) => u = w /\ d = c
    <3> DEFINE v == col.rows[r]
    <3>1. v \in ToSet(col.rows)
      BY <2>5 DEF ToSet
    <3>2. RowIn(col, v) \in 1..Len(col.rows) /\ col.rows[RowIn(col, v)] = v
      BY <2>2, <3>1, RowInIs
    <3>3. DOMAIN col.rows = 1..Len(col.rows)
      BY <2>2
    <3>4. RowIn(col, v) = r
      BY <2>4, <3>2, <3>3 DEF Apart
    <3> HIDE DEF v
    <3>5. ASSUME NEW u \in Workspaces, NEW d \in DOMAIN strip[u], v \in ToSet(strip[u][d].rows)
          PROVE  u = w /\ d = c
      <4>1. v \in Members(strip[u]) /\ v \in Members(strip[w])
        BY <2>3, <3>1, <3>5, MembersAre
      <4>2. u = w
        BY <1>2, <4>1
      <4>3. d = ColumnOf(strip[w], v) /\ c = ColumnOf(strip[w], v)
        BY <2>2, <3>1, <3>5, <4>1, <4>2, ColumnOfIs DEF col
      <4> QED BY <4>2, <4>3
    <3> QED BY <3>4, <3>5 DEF v
  <2> QED BY <2>2, <2>4, <2>5 DEF col
<1>4. grab.lifted \in Seq(Windows) /\ grab.view \in Windows \cup {NoWindow}
  BY <1>1 DEF Kept, Carries
<1>5. /\ home \in [Windows -> Workspaces] /\ kind \in [Windows -> {"closed", "tiled", "floating"}]
      /\ focused \in [Workspaces -> Windows \cup {NoWindow}]
      /\ hidden \subseteq Windows /\ unsettled \subseteq Workspaces
      /\ members \in [Workspaces -> SUBSET Windows]
  BY <1>1 DEF Kept, Good, Typed, Kinds
<1> QED BY <1>3, <1>4, <1>5 DEF TilingTypeOK

\* Whatever is opened, moved, regrouped or dragged, in any order, the strips, the groups in their
\* columns and the drag stay sound: every window of a strip is open and belongs to that workspace,
\* and a lifted group is of open windows with the dragged one among them (Kept).
THEOREM TilingInvariance == TilingSpec => []Kept(TilingNow)
<1>1. TilingInit => Kept(TilingNow)
  BY InitKept
<1>2. Kept(TilingNow) /\ [TilingNext]_tilingVars => Kept(TilingNow)'
  BY NextKept
<1> QED BY <1>1, <1>2, PTL DEF TilingSpec

\* A window has one place at most, in one row of one column of one workspace; no column is empty
\* and the tab groups of each are disjoint, in order and within its rows, whatever erasures,
\* insertions, swaps and regroupings shift them.
THEOREM TilingTyped == TilingSpec => []TilingTypeOK
<1>1. Kept(TilingNow) => TilingTypeOK
  BY KeptIsTyped
<1> QED BY <1>1, TilingInvariance, PTL

=============================================================================
