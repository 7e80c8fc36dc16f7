-------------------------- MODULE ScratchpadProofs --------------------------
(***************************************************************************)
(* The invariant of the scratchpads, what every operator of Scratchpad that*)
(* reads or rewrites the whole state keeps of it, and that every step of   *)
(* every handler keeps it: what the pads show and point at is in order for *)
(* any number of windows, pads and outputs.                                *)
(***************************************************************************)
EXTENDS Scratchpad, FiniteSetTheorems, WellFoundedInduction, TLAPS

Fields == {"pads", "members", "noted", "focus", "shown", "place", "owner", "lit", "restoring"}

Typed(s) ==
  /\ DOMAIN s = Fields
  /\ s.pads \in [Pads -> PadRecords \cup {Nobody}]
  /\ s.members \in Seq(Entries)
  /\ s.noted \in Windows \cup {Nobody} /\ s.focus \in Windows \cup {Nobody}
  /\ s.shown \in SUBSET Windows
  /\ s.place \in [Windows -> Places \cup {Nobody, Unmapped}]
  /\ s.owner \in [Windows -> Windows \cup {Nobody}]
  /\ s.lit \in SUBSET Screens /\ s.restoring \in BOOLEAN
\* An entry is the only one of its window, and its pad is defined.
Distinct(s) ==
  \A i \in DOMAIN s.members :
    /\ s.members[i].pad \in Defined(s)
    /\ \A j \in DOMAIN s.members : s.members[i].view = s.members[j].view => i = j
Sound(s) == Typed(s) /\ Distinct(s)

\* No windows are dialogs of each other in a circle.
Rooted(s) == \A S \in SUBSET Windows : S # {} => \E u \in S : s.owner[u] \notin S
\* Windows in pads are on no workspace, windows on screen are mapped, and so are dialogs and parents.
Linked(s) ==
  /\ Rooted(s)
  /\ \A v \in Windows :
       /\ InPad(s, v) => s.place[v] = Nobody
       /\ v \in s.shown => s.place[v] # Unmapped
       /\ s.owner[v] # Nobody => s.place[v] # Unmapped /\ s.place[s.owner[v]] # Unmapped
Noted(s) == s.noted # Nobody => InPad(s, s.noted)
OnePerOutput(s) ==
  \A p, q \in Defined(s) : /\ s.pads[p].visible /\ s.pads[q].visible
                           /\ s.pads[p].output = s.pads[q].output /\ s.pads[p].output # Nobody
                           => p = q
Seen(s, p) == \A v \in MembersOf(s, p) : v \in s.shown <=> Presents(s, p, v)
Pointed(s, p) ==
  /\ {s.pads[p].last, s.pads[p].solo} \subseteq MembersOf(s, p) \cup {Nobody}
  /\ s.pads[p].solo # Nobody \/ s.pads[p].active => s.pads[p].visible
\* Windows and pads are on outputs that are on; once all is restored each is on one.
Housed(s) ==
  /\ \A v \in Windows : s.place[v] \in Places => s.place[v].on \in s.lit
  /\ \A p \in Defined(s) : s.pads[p].output \in s.lit \cup {Nobody}
  /\ ~s.restoring /\ s.lit # {} =>
       /\ \A v \in Windows : s.place[v] = Nobody => InPad(s, v)
       /\ \A p \in Defined(s) : MembersOf(s, p) # {} => s.pads[p].output # Nobody

PadsKept(s) ==
  /\ Sound(s) /\ Linked(s) /\ Noted(s) /\ OnePerOutput(s) /\ Housed(s)
  /\ \A p \in Defined(s) : Seen(s, p) /\ Pointed(s, p)
Inv == PadsKept(PadsNow) /\ overviewOpen \in BOOLEAN

-----------------------------------------------------------------------------
(* Induction over an interval *)

\* A set of naturals that is not empty has a least element.
LEMMA Least ==
  ASSUME NEW T \in SUBSET Nat, T # {}
  PROVE  \E n \in T : \A m \in T : n <= m
<1> DEFINE R == {ss \in Nat \X Nat : ss[1] < ss[2]}
<1>1. IsWellFoundedOn(R, Nat)
  BY NatLessThanWellFounded DEF OpToRel
<1> HIDE DEF R
<1>2. PICK n \in T : \A m \in T : ~(<<m, n>> \in R)
  BY <1>1, WFMin, Zenon
<1>3. \A m \in T : ~(m < n)
  BY <1>2 DEF R
<1> QED BY <1>3

\* Induction over an interval: a set that has 0, and with each number below n the next one.
LEMMA Upto ==
  ASSUME NEW n \in Nat, NEW P, 0 \in P, \A k \in 0..(n - 1) : k \in P => k + 1 \in P
  PROVE  \A k \in 0..n : k \in P
<1> DEFINE T == {k \in 0..n : k \notin P}
<1> SUFFICES ASSUME T # {} PROVE FALSE
  OBVIOUS
<1>1. PICK k \in T : \A m \in T : k <= m
  <2>1. T \in SUBSET Nat
    OBVIOUS
  <2> QED BY <2>1, Least
<1>2. k - 1 \in 0..n /\ k - 1 \notin T
  BY <1>1
<1>3. k - 1 \in P
  BY <1>2
<1> QED BY <1>1, <1>3

-----------------------------------------------------------------------------
(* Entries *)

\* What follows from an entry being the only one of its window.
LEMMA EntryFacts ==
  ASSUME NEW s, Sound(s)
  PROVE  /\ \A i \in DOMAIN s.members : s.members[i] \in Entries
         /\ \A p : MembersOf(s, p) \subseteq Windows
         /\ \A p : MembersOf(s, p) # {} => p \in Defined(s)
         /\ \A v : InPad(s, v) => /\ v \in MembersOf(s, PadOf(s, v)) /\ PadOf(s, v) \in Defined(s)
                                  /\ EntryOf(s, v) \in Entries /\ v \in Windows
                                  /\ EntryOf(s, v).pad = PadOf(s, v)
         /\ \A p, v : v \in MembersOf(s, p) => InPad(s, v) /\ PadOf(s, v) = p
<1>1. \A i \in DOMAIN s.members : s.members[i] \in Entries
  BY DEF Sound, Typed
<1>2. \A p : MembersOf(s, p) \subseteq Windows
  BY <1>1 DEF MembersOf, EntriesOf, Entries
<1>3. \A p : MembersOf(s, p) # {} => p \in Defined(s)
  BY DEF Sound, Distinct, MembersOf, EntriesOf
<1>4. ASSUME NEW v, InPad(s, v)
      PROVE  /\ v \in MembersOf(s, PadOf(s, v)) /\ PadOf(s, v) \in Defined(s)
             /\ EntryOf(s, v) \in Entries /\ v \in Windows /\ EntryOf(s, v).pad = PadOf(s, v)
  <2> DEFINE i == CHOOSE i \in DOMAIN s.members : s.members[i].view = v
  <2>1. i \in DOMAIN s.members /\ s.members[i].view = v
    BY <1>4 DEF InPad
  <2>2. EntryOf(s, v) = s.members[i] /\ PadOf(s, v) = s.members[i].pad
    BY DEF EntryOf, PadOf
  <2> HIDE DEF i
  <2> QED BY <1>1, <2>1, <2>2 DEF MembersOf, EntriesOf, Entries, Sound, Distinct
<1>5. ASSUME NEW p, NEW v, v \in MembersOf(s, p) PROVE InPad(s, v) /\ PadOf(s, v) = p
  <2>1. PICK j \in DOMAIN s.members : s.members[j].view = v /\ s.members[j].pad = p
    BY <1>5 DEF MembersOf, EntriesOf
  <2> DEFINE i == CHOOSE i \in DOMAIN s.members : s.members[i].view = v
  <2>2. i \in DOMAIN s.members /\ s.members[i].view = v
    BY <2>1
  <2>3. PadOf(s, v) = s.members[i].pad
    BY DEF EntryOf, PadOf
  <2> HIDE DEF i
  <2>4. i = j
    BY <2>1, <2>2 DEF Sound, Distinct
  <2> QED BY <2>1, <2>3, <2>4 DEF InPad
<1> QED BY <1>1, <1>2, <1>3, <1>4, <1>5

-----------------------------------------------------------------------------
(* Entries are added and removed *)

EntriesIn(m) == {m[i] : i \in DOMAIN m}
Apart(m) == \A i, j \in DOMAIN m : m[i].view = m[j].view => i = j

\* Removing windows from the entries keeps every other entry, each once.
LEMMA WithoutIs ==
  ASSUME NEW m \in Seq(Entries), Apart(m), NEW gone
  PROVE  LET t == Without(m, gone)
         IN  /\ t \in Seq(Entries) /\ Apart(t)
             /\ EntriesIn(t) = {e \in EntriesIn(m) : e.view \notin gone}
<1> DEFINE Grown(x, e) == IF e.view \in gone THEN x ELSE Append(x, e)
           Keeps(g, n) == g = [k \in 0..n |-> IF k = 0 THEN <<>> ELSE Grown(g[k - 1], m[k])]
           N == Len(m)
           keep == CHOOSE g : Keeps(g, N)
<1>0. N \in Nat /\ DOMAIN m = 1..N /\ \A i \in 1..N : m[i] \in Entries
  OBVIOUS
<1>1. Without(m, gone) = keep[N]
  BY DEF Without
<1> HIDE DEF Grown, N
<1>2. \E g : Keeps(g, N)
  <2> DEFINE P == {n \in Nat : \E g : Keeps(g, n)}
  <2>1. 0 \in P
    <3>1. Keeps([k \in 0..0 |-> <<>>], 0)
      OBVIOUS
    <3> QED BY <3>1
  <2>2. ASSUME NEW n \in 0..(N - 1), n \in P PROVE n + 1 \in P
    <3>1. PICK g : Keeps(g, n)
      BY <2>2
    <3> DEFINE h == [k \in 0..(n + 1) |-> IF k = n + 1 THEN Grown(g[n], m[n + 1]) ELSE g[k]]
    <3>2. \A k \in 0..(n + 1) : h[k] = IF k = 0 THEN <<>> ELSE Grown(h[k - 1], m[k])
      BY <1>0, <3>1
    <3>3. Keeps(h, n + 1)
      BY <1>0, <3>2
    <3>4. n + 1 \in Nat
      BY <1>0
    <3> HIDE DEF Keeps, h
    <3> QED BY <3>3, <3>4
  <2> HIDE DEF P
  <2>3. N \in P
    BY <1>0, <2>1, <2>2, Upto
  <2> QED BY <2>3 DEF P
<1>3. Keeps(keep, N)
  BY <1>2
<1> HIDE DEF keep
<1>4. keep[0] = <<>> /\ \A k \in 1..N : keep[k] = Grown(keep[k - 1], m[k])
  BY <1>0, <1>3
<1> DEFINE Is(n) == /\ keep[n] \in Seq(Entries) /\ Apart(keep[n])
                    /\ EntriesIn(keep[n]) = {e \in {m[i] : i \in 1..n} : e.view \notin gone}
           Q == {n \in 0..N : Is(n)}
<1>5. 0 \in Q
  <2>1. EntriesIn(<<>>) = {} /\ Apart(<<>>) /\ <<>> \in Seq(Entries)
    BY DEF EntriesIn, Apart
  <2>2. {m[i] : i \in 1..0} = {}
    OBVIOUS
  <2>3. {e \in {m[i] : i \in 1..0} : e.view \notin gone} = {}
    BY <2>2
  <2>4. Is(0)
    BY <1>4, <2>1, <2>3
  <2> HIDE DEF Is
  <2> QED BY <1>0, <2>4
<1>6. ASSUME NEW n \in 0..(N - 1), n \in Q PROVE n + 1 \in Q
  <2>0. n + 1 \in 1..N /\ Is(n) /\ m[n + 1] \in Entries /\ n + 1 \in 0..N
    BY <1>0, <1>6
  <2> HIDE DEF Is, Q
  <2> DEFINE x == keep[n]  y == keep[n + 1]  e == m[n + 1]
  <2>1. y = Grown(x, e)
    BY <1>4, <2>0
  <2>2. {m[i] : i \in 1..(n + 1)} = {m[i] : i \in 1..n} \cup {e}
    BY <1>0, <2>0
  <2>3. CASE e.view \in gone
    <3>1. y = x
      BY <2>1, <2>3 DEF Grown
    <3> QED BY <2>0, <2>2, <2>3, <3>1 DEF Is, Q
  <2>4. CASE e.view \notin gone
    <3>1. y = Append(x, e) /\ x \in Seq(Entries) /\ Apart(x)
      BY <2>0, <2>1, <2>4 DEF Grown, Is
    <3>2. EntriesIn(x) = {d \in {m[i] : i \in 1..n} : d.view \notin gone}
      BY <2>0 DEF Is
    <3>3. /\ y \in Seq(Entries) /\ DOMAIN y = 1..(Len(x) + 1) /\ y[Len(x) + 1] = e
          /\ DOMAIN x = 1..Len(x) /\ Len(x) \in Nat /\ \A i \in 1..Len(x) : y[i] = x[i]
      BY <2>0, <3>1
    <3>4. EntriesIn(y) = EntriesIn(x) \cup {e}
      <4> HIDE DEF x, y, e
      <4> QED BY <3>3 DEF EntriesIn
    <3>5. \A i \in DOMAIN x : x[i].view # e.view
      <4> SUFFICES ASSUME NEW i \in DOMAIN x, x[i].view = e.view PROVE FALSE
        OBVIOUS
      <4>1. x[i] \in EntriesIn(x)
        BY DEF EntriesIn
      <4>2. PICK j \in 1..n : x[i] = m[j]
        BY <3>2, <4>1
      <4> QED BY <1>0, <2>0, <4>2 DEF Apart
    <3>6. Apart(y)
      BY <3>1, <3>3, <3>5 DEF Apart
    <3> QED BY <2>0, <2>2, <2>4, <3>2, <3>3, <3>4, <3>6 DEF Is, Q
  <2> QED BY <2>3, <2>4
<1> HIDE DEF Q
<1>7. N \in Q
  BY <1>0, <1>5, <1>6, Upto
<1>8. Is(N)
  BY <1>7 DEF Q
<1> QED BY <1>0, <1>1, <1>8 DEF EntriesIn

\* The window a dialog rides with in a pad is a member of that pad.
LEMMA MemberForIs ==
  ASSUME NEW s, Sound(s), NEW p, NEW v \in MembersOf(s, p)
  PROVE  MemberFor(s, v, p) \in MembersOf(s, p)
<1> DEFINE Up(u) == IF RidesWithParent(s, u, p) THEN s.owner[u] ELSE u
           Climbs(g, n) == g = [k \in 0..n |-> IF k = 0 THEN v ELSE Up(g[k - 1])]
           climb == CHOOSE g : Climbs(g, Depth)
<1>0. Depth \in Nat
  BY FinitenessAssumption, FS_CardinalityType DEF Depth
<1>1. MemberFor(s, v, p) = climb[Depth]
  BY DEF MemberFor
<1>2. \A u \in MembersOf(s, p) : Up(u) \in MembersOf(s, p)
  BY EntryFacts DEF RidesWithParent
<1> HIDE DEF Up
<1>3. \E g : Climbs(g, Depth)
  <2> DEFINE P == {n \in Nat : \E g : Climbs(g, n)}
  <2>1. 0 \in P
    <3>1. Climbs([k \in 0..0 |-> v], 0)
      OBVIOUS
    <3> QED BY <3>1
  <2>2. ASSUME NEW n \in 0..(Depth - 1), n \in P PROVE n + 1 \in P
    <3>1. PICK g : Climbs(g, n)
      BY <2>2
    <3> DEFINE h == [k \in 0..(n + 1) |-> IF k = n + 1 THEN Up(g[n]) ELSE g[k]]
    <3>2. \A k \in 0..(n + 1) : h[k] = IF k = 0 THEN v ELSE Up(h[k - 1])
      BY <1>0, <3>1
    <3>3. Climbs(h, n + 1)
      BY <1>0, <3>2
    <3>4. n + 1 \in Nat
      BY <1>0
    <3> HIDE DEF Climbs, h
    <3> QED BY <3>3, <3>4
  <2> HIDE DEF P
  <2>3. Depth \in P
    BY <1>0, <2>1, <2>2, Upto
  <2> QED BY <2>3 DEF P
<1>4. Climbs(climb, Depth)
  BY <1>3
<1> HIDE DEF climb
<1>5. climb[0] = v /\ \A k \in 1..Depth : climb[k] = Up(climb[k - 1])
  BY <1>0, <1>4
<1> DEFINE Q == {n \in 0..Depth : climb[n] \in MembersOf(s, p)}
<1>6. 0 \in Q
  BY <1>0, <1>5
<1>7. ASSUME NEW n \in 0..(Depth - 1), n \in Q PROVE n + 1 \in Q
  BY <1>0, <1>2, <1>5, <1>7
<1> HIDE DEF Q
<1>8. Depth \in Q
  BY <1>0, <1>6, <1>7, Upto
<1> QED BY <1>1, <1>8 DEF Q

\* A window counts as one of its own ancestors.
LEMMA Itself ==
  ASSUME NEW s, NEW v \in Windows
  PROVE  v \in Ancestors(s, v)
BY DEF Ancestors

\* Pads are finitely many, so any of them can be gone through one after another.
LEMMA OrderIs ==
  ASSUME NEW S, S \subseteq Pads
  PROVE  LET q == SetToSeq(S)
         IN  Len(q) \in Nat /\ DOMAIN q = 1..Len(q) /\ {q[i] : i \in 1..Len(q)} = S
<1> DEFINE n == Cardinality(S)
<1>1. IsFiniteSet(S) /\ n \in Nat
  BY FinitenessAssumption, FS_Subset, FS_CardinalityType
<1>2. PICK f \in Bijection(1..n, S) : TRUE
  BY <1>1, FS_CardinalityType DEF ExistsBijection
<1>3. f \in [1..n -> S] /\ IsInjective(f)
  BY <1>2 DEF Bijection, Injection, IsInjective
<1>4. SetToSeq(S) \in [1..n -> S] /\ IsInjective(SetToSeq(S))
  BY <1>3 DEF SetToSeq
<1>5. SetToSeq(S) \in Injection(1..n, S)
  BY <1>4 DEF Injection, IsInjective
<1>6. Cardinality(1..n) = n
  BY <1>1, FS_Interval
<1>7. SetToSeq(S) \in Surjection(1..n, S)
  BY <1>1, <1>5, <1>6, FS_Injection
<1>8. Len(SetToSeq(S)) = n
  BY <1>1, <1>4
<1> QED BY <1>1, <1>4, <1>7, <1>8 DEF Surjection

-----------------------------------------------------------------------------
(* Pads show and hide *)

\* Who is in which pad depends on the entries alone.
LEMMA SameEntries ==
  ASSUME NEW s, NEW t, t.members = s.members
  PROVE  /\ \A p : MembersOf(t, p) = MembersOf(s, p)
         /\ \A v : InPad(t, v) = InPad(s, v) /\ PadOf(t, v) = PadOf(s, v)
BY DEF MembersOf, EntriesOf, InPad, PadOf, EntryOf

\* What a pad presents depends on its record and on whose dialogs the windows are.
LEMMA PresentsFrame ==
  ASSUME NEW s, NEW t, t.owner = s.owner, NEW p, NEW v,
         t.pads[p].visible = s.pads[p].visible, t.pads[p].output = s.pads[p].output,
         t.pads[p].solo = s.pads[p].solo
  PROVE  Presents(t, p, v) = Presents(s, p, v)
BY DEF Presents, Ancestors, Upward

\* A pad stays as seen if its record, its members and what is on screen of them stay.
LEMMA SeenFrame ==
  ASSUME NEW s, NEW t, t.owner = s.owner, t.members = s.members, NEW p,
         t.pads[p].visible = s.pads[p].visible, t.pads[p].output = s.pads[p].output,
         t.pads[p].solo = s.pads[p].solo,
         \A v \in MembersOf(s, p) : v \in t.shown <=> v \in s.shown,
         Seen(s, p)
  PROVE  Seen(t, p)
BY SameEntries, PresentsFrame DEF Seen

\* Nothing changes but what pads are and show, and which windows of pads are on screen.
OnlyPads(s, t) ==
  /\ Typed(t) /\ Defined(t) = Defined(s)
  /\ t.members = s.members /\ t.noted = s.noted /\ t.focus = s.focus /\ t.place = s.place
  /\ t.owner = s.owner /\ t.lit = s.lit /\ t.restoring = s.restoring
  /\ \A p \in Defined(s) : t.pads[p].last = s.pads[p].last
  /\ \A v \in Windows : ~InPad(s, v) => (v \in t.shown <=> v \in s.shown)
\* The pads other than p stay what they are or hide.
Yields(s, t, p) ==
  /\ OnlyPads(s, t)
  /\ \A q \in Defined(s) \ {p} :
       /\ t.pads[q] = s.pads[q] \/ t.pads[q] = Turned(s.pads[q], FALSE)
       /\ Seen(s, q) => Seen(t, q)

\* A defined pad has a record.
LEMMA PadTypes ==
  ASSUME NEW s, Typed(s)
  PROVE  /\ \A p \in Defined(s) : s.pads[p] \in PadRecords
         /\ \A p \in Pads : p \notin Defined(s) => s.pads[p] = Nobody
         /\ DOMAIN s.pads = Pads /\ Defined(s) \subseteq Pads
BY DEF Typed, Defined

\* What turning a pad on or off does to its record.
LEMMA TurnedIs ==
  ASSUME NEW r \in PadRecords, NEW on \in BOOLEAN
  PROVE  LET t == Turned(r, on)
         IN  /\ t \in PadRecords /\ t # Nobody
             /\ t.visible = on /\ t.solo = (IF on THEN r.solo ELSE Nobody)
             /\ t.active = (on /\ r.active) /\ t.output = r.output /\ t.last = r.last
             /\ t.away = r.away
BY ScreenAssumption, ZenonT(60) DEF Turned, PadRecords

\* Presenting a pad puts exactly the members it presents on screen, and no other pad's.
LEMMA PresentIs ==
  ASSUME NEW s, Sound(s), NEW p \in Defined(s)
  PROVE  LET t == Present(s, p)
         IN  /\ Yields(s, t, p) /\ Seen(t, p) /\ t.pads = s.pads
<1> DEFINE t == Present(s, p)
<1>1. /\ Typed(t) /\ t.pads = s.pads /\ t.members = s.members /\ t.noted = s.noted
      /\ t.focus = s.focus /\ t.place = s.place /\ t.owner = s.owner /\ t.lit = s.lit
      /\ t.restoring = s.restoring
      /\ t.shown = (s.shown \ MembersOf(s, p)) \cup PresentedBy(s, p)
  <2>1. MembersOf(s, p) \subseteq Windows
    BY EntryFacts
  <2> QED BY <2>1 DEF Present, Sound, Typed, Fields, PresentedBy
<1> HIDE DEF t
<1>2. \A v \in MembersOf(s, p) : v \in t.shown <=> Presents(s, p, v)
  BY <1>1 DEF PresentedBy
<1>3. \A v \in Windows : v \notin MembersOf(s, p) => (v \in t.shown <=> v \in s.shown)
  BY <1>1 DEF PresentedBy
<1>4. Seen(t, p)
  BY <1>1, <1>2, SameEntries, PresentsFrame DEF Seen
<1>5. ASSUME NEW q \in Defined(s) \ {p}, Seen(s, q) PROVE Seen(t, q)
  <2>1. \A v \in MembersOf(s, q) : v \in t.shown <=> v \in s.shown
    BY <1>3, EntryFacts
  <2> QED BY <1>1, <1>5, <2>1, SeenFrame
<1>6. OnlyPads(s, t)
  BY <1>1, <1>3, EntryFacts DEF OnlyPads, Defined
<1> QED BY <1>1, <1>4, <1>5, <1>6 DEF Yields, t

\* Entries stay well formed when only pads and what is on screen change.
LEMMA SoundStays ==
  ASSUME NEW s, NEW t, Sound(s), OnlyPads(s, t)
  PROVE  Sound(t)
BY DEF Sound, OnlyPads, Distinct

\* Yielding is transitive, ...
LEMMA YieldsTwice ==
  ASSUME NEW s, NEW t, NEW u, NEW p, Sound(s), Yields(s, t, p), Yields(t, u, p)
  PROVE  Yields(s, u, p)
<1>1. OnlyPads(s, u)
  BY SameEntries DEF Yields, OnlyPads
<1>2. ASSUME NEW q \in Defined(s) \ {p}
      PROVE  /\ u.pads[q] = s.pads[q] \/ u.pads[q] = Turned(s.pads[q], FALSE)
             /\ Seen(s, q) => Seen(u, q)
  <2>1. q \in Defined(t) \ {p} /\ s.pads[q] \in PadRecords
    BY PadTypes DEF Yields, OnlyPads, Sound
  <2>2. Turned(Turned(s.pads[q], FALSE), FALSE) = Turned(s.pads[q], FALSE)
    BY <2>1 DEF Turned, PadRecords
  <2> QED BY <2>1, <2>2 DEF Yields
<1> QED BY <1>1, <1>2 DEF Yields

\* ... and reflexive.
LEMMA YieldsNothing ==
  ASSUME NEW s, Sound(s), NEW p
  PROVE  Yields(s, s, p)
BY DEF Yields, OnlyPads, Sound

\* The record of one pad is rewritten.
LEMMA PadRewritten ==
  ASSUME NEW s, Sound(s), NEW p \in Defined(s), NEW r \in PadRecords, r.last = s.pads[p].last
  PROVE  LET t == [s EXCEPT !.pads[p] = r]
         IN  /\ Yields(s, t, p) /\ t.shown = s.shown
             /\ t.pads[p] = r /\ \A q \in Defined(s) \ {p} : t.pads[q] = s.pads[q]
<1> DEFINE t == [s EXCEPT !.pads[p] = r]
<1>1. /\ Typed(t) /\ t.members = s.members /\ t.noted = s.noted /\ t.focus = s.focus
      /\ t.place = s.place /\ t.owner = s.owner /\ t.lit = s.lit
      /\ t.restoring = s.restoring /\ t.shown = s.shown
      /\ t.pads = [s.pads EXCEPT ![p] = r]
  BY DEF Sound, Typed, Fields
<1> HIDE DEF t
<1>2. t.pads[p] = r /\ \A q \in Pads \ {p} : t.pads[q] = s.pads[q]
  BY <1>1, PadTypes DEF Sound
<1>3. Defined(t) = Defined(s)
  BY <1>2, ScreenAssumption DEF Defined
<1>4. \A q \in Defined(s) \ {p} : Seen(s, q) => Seen(t, q)
  BY <1>1, <1>2, SeenFrame DEF Defined
<1> QED BY <1>1, <1>2, <1>3, <1>4, PadTypes DEF Yields, OnlyPads, Defined, t

\* A pad that is turned on or off is then seen as it should be.
LEMMA SetVisibleIs ==
  ASSUME NEW s, Sound(s), NEW p \in Defined(s), NEW on \in BOOLEAN
  PROVE  LET t == SetVisible(s, p, on)
         IN  /\ Yields(s, t, p) /\ Seen(t, p)
             /\ t.pads[p] = Turned(s.pads[p], on)
             /\ \A q \in Defined(s) \ {p} : t.pads[q] = s.pads[q]
<1> DEFINE m == [s EXCEPT !.pads[p] = Turned(s.pads[p], on)]
<1>1. s.pads[p] \in PadRecords
  BY PadTypes DEF Sound
<1>2. /\ Yields(s, m, p) /\ m.pads[p] = Turned(s.pads[p], on)
      /\ \A q \in Defined(s) \ {p} : m.pads[q] = s.pads[q]
  BY <1>1, TurnedIs, PadRewritten
<1>3. SetVisible(s, p, on) = Present(m, p)
  BY DEF SetVisible, Sound, Typed, Fields
<1> HIDE DEF m
<1>4. Sound(m) /\ p \in Defined(m)
  BY <1>2, SoundStays DEF Yields, OnlyPads
<1> QED BY <1>2, <1>3, <1>4, PresentIs, YieldsTwice

\* After the others gave way, at most p shows on o.
LEMMA GiveWayIs ==
  ASSUME NEW s, Sound(s), OnePerOutput(s), NEW p \in Defined(s), NEW o \in Screens \cup {Nobody}
  PROVE  LET t == GiveWay(s, p, o)
         IN  /\ Yields(s, t, p) /\ OnePerOutput(t)
             /\ t.pads[p] = s.pads[p] /\ (Seen(s, p) => Seen(t, p))
             /\ o # Nobody => VisibleOn(t, o) \subseteq {p}
<1> DEFINE rivals == VisibleOn(s, o) \ {p}
           q == CHOOSE q \in rivals : TRUE
           t == GiveWay(s, p, o)
<1>1. CASE o = Nobody \/ rivals = {}
  <2>1. t = s
    BY <1>1 DEF GiveWay
  <2> HIDE DEF t
  <2>2. o # Nobody => VisibleOn(s, o) \subseteq {p}
    BY <1>1
  <2> QED BY <2>1, <2>2, YieldsNothing DEF t
<1>2. CASE o # Nobody /\ rivals # {}
  <2>1. q \in rivals /\ t = SetVisible(s, q, FALSE)
    BY <1>2 DEF GiveWay
  <2> HIDE DEF q, t
  <2>2. q \in Defined(s) /\ q # p /\ s.pads[q].visible /\ s.pads[q].output = o
    BY <2>1 DEF VisibleOn
  <2>3. s.pads[q] \in PadRecords /\ s.pads[p] \in PadRecords
    BY <2>2, PadTypes DEF Sound
  <2>4. /\ Yields(s, t, q) /\ Seen(t, q) /\ t.pads[q] = Turned(s.pads[q], FALSE)
        /\ \A r \in Defined(s) \ {q} : t.pads[r] = s.pads[r]
    BY <2>1, <2>2, SetVisibleIs, ZenonT(60)
  <2>5. Yields(s, t, p) /\ t.pads[p] = s.pads[p] /\ (Seen(s, p) => Seen(t, p))
    BY <2>2, <2>4 DEF Yields
  <2>6. ~t.pads[q].visible /\ Defined(t) = Defined(s)
    BY <2>3, <2>4, TurnedIs DEF Yields, OnlyPads
  <2>7. OnePerOutput(t)
    BY <2>4, <2>6 DEF OnePerOutput
  <2>8. VisibleOn(t, o) \subseteq {p}
    BY <1>2, <2>2, <2>4, <2>6 DEF VisibleOn, OnePerOutput
  <2> QED BY <2>5, <2>7, <2>8 DEF t
<1> QED BY <1>1, <1>2

\* The three ways MoveScratchpad rewrites a record.
LEMMA Cleaned ==
  ASSUME NEW s, Sound(s), NEW p \in Defined(s), NEW o \in Screens \cup {Nobody}
  PROVE  LET r == [s.pads[p] EXCEPT !.output = o]
             c == [s.pads[p] EXCEPT !.away = Nobody]
             b == [r EXCEPT !.away = Nobody]
         IN  /\ [s EXCEPT !.pads[p].output = o] = [s EXCEPT !.pads[p] = r]
             /\ [s EXCEPT !.pads[p].away = Nobody] = [s EXCEPT !.pads[p] = c]
             /\ [[s EXCEPT !.pads[p].output = o] EXCEPT !.pads[p].away = Nobody]
                  = [s EXCEPT !.pads[p] = b]
<1>1. s.pads[p] \in PadRecords /\ p \in Pads
  BY PadTypes DEF Sound
<1> QED BY <1>1 DEF Sound, Typed, Fields, PadRecords

\* A pad that is moved arrives, and what was seen rightly stays so.
LEMMA MoveScratchpadIs ==
  ASSUME NEW s, Sound(s), OnePerOutput(s), NEW p \in Defined(s),
         NEW o \in Screens \cup {Nobody}, NEW clear \in BOOLEAN
  PROVE  LET t == MoveScratchpad(s, p, o, clear)
         IN  /\ Yields(s, t, p) /\ OnePerOutput(t)
             /\ t.pads[p] = [s.pads[p] EXCEPT !.output = o, !.away = IF clear THEN Nobody ELSE @]
             /\ Seen(s, p) => Seen(t, p)
             /\ s.pads[p].visible /\ s.pads[p].output # o => Seen(t, p)
<1> DEFINE t == MoveScratchpad(s, p, o, clear)
           R == [s.pads[p] EXCEPT !.output = o, !.away = IF clear THEN Nobody ELSE @]
           made == IF s.pads[p].visible THEN GiveWay(s, p, o) ELSE s
           there == [made EXCEPT !.pads[p] = R]
<1>0. s.pads[p] \in PadRecords /\ p \in Pads
  BY PadTypes DEF Sound
<1>1. CASE s.pads[p].output = o
  <2>1. R = [s.pads[p] EXCEPT !.away = IF clear THEN Nobody ELSE @]
    BY <1>0, <1>1 DEF PadRecords
  <2>2. t = IF clear THEN [s EXCEPT !.pads[p] = R] ELSE s
    BY <1>1, <2>1, Cleaned DEF MoveScratchpad
  <2>3. ~clear => R = s.pads[p]
    BY <1>0, <2>1 DEF PadRecords
  <2>4. R \in PadRecords /\ R.last = s.pads[p].last /\ R.visible = s.pads[p].visible
        /\ R.output = s.pads[p].output /\ R.solo = s.pads[p].solo
    BY <1>0, <2>1 DEF PadRecords
  <2> HIDE DEF t, R
  <2>5. /\ Yields(s, t, p) /\ t.pads[p] = R /\ t.shown = s.shown
        /\ \A q \in Defined(s) \ {p} : t.pads[q] = s.pads[q]
    BY <2>2, <2>3, <2>4, PadRewritten, YieldsNothing
  <2>6. OnePerOutput(t)
    BY <2>4, <2>5 DEF OnePerOutput, Yields, OnlyPads
  <2>7. Seen(s, p) => Seen(t, p)
    BY <2>4, <2>5, SeenFrame DEF Yields, OnlyPads
  <2> QED BY <1>1, <2>5, <2>6, <2>7 DEF t, R
<1>2. CASE s.pads[p].output # o
  <2>1. /\ Yields(s, made, p) /\ OnePerOutput(made) /\ made.pads[p] = s.pads[p]
        /\ Seen(s, p) => Seen(made, p)
        /\ s.pads[p].visible /\ o # Nobody => VisibleOn(made, o) \subseteq {p}
    BY GiveWayIs, YieldsNothing
  <2>2. Sound(made) /\ p \in Defined(made) /\ Defined(made) = Defined(s)
    BY <2>1, SoundStays DEF Yields, OnlyPads
  <2>3. R \in PadRecords /\ R.last = s.pads[p].last /\ R.visible = s.pads[p].visible
        /\ R.output = o
    BY <1>0 DEF PadRecords
  <2>4. t = IF s.pads[p].visible THEN Present(there, p) ELSE there
    <3> HIDE DEF made
    <3>1. t = LET u == IF clear THEN [[made EXCEPT !.pads[p].output = o] EXCEPT !.pads[p].away = Nobody]
                       ELSE [made EXCEPT !.pads[p].output = o]
              IN  IF s.pads[p].visible THEN Present(u, p) ELSE u
      BY <1>2 DEF MoveScratchpad, made
    <3>2. clear => R = [[s.pads[p] EXCEPT !.output = o] EXCEPT !.away = Nobody]
      BY <1>0 DEF PadRecords
    <3>3. ~clear => R = [s.pads[p] EXCEPT !.output = o]
      BY <1>0 DEF PadRecords
    <3>4. LET r == [made.pads[p] EXCEPT !.output = o]
              b == [r EXCEPT !.away = Nobody]
          IN  /\ [made EXCEPT !.pads[p].output = o] = [made EXCEPT !.pads[p] = r]
              /\ [[made EXCEPT !.pads[p].output = o] EXCEPT !.pads[p].away = Nobody]
                   = [made EXCEPT !.pads[p] = b]
      <4>1. made.pads[p] \in PadRecords /\ p \in Pads
        BY <2>2, PadTypes DEF Sound
      <4> QED BY <2>2, <4>1 DEF Sound, Typed, Fields, PadRecords
    <3> HIDE DEF t, R
    <3>5. clear => [[made EXCEPT !.pads[p].output = o] EXCEPT !.pads[p].away = Nobody] = there
      BY <2>1, <3>2, <3>4
    <3>6. ~clear => [made EXCEPT !.pads[p].output = o] = there
      BY <2>1, <3>3, <3>4
    <3> HIDE DEF there
    <3> QED BY <3>1, <3>5, <3>6
  <2> HIDE DEF t, R, made
  <2>5. /\ Yields(made, there, p) /\ there.pads[p] = R /\ there.shown = made.shown
        /\ \A q \in Defined(made) \ {p} : there.pads[q] = made.pads[q]
    BY <2>1, <2>2, <2>3, PadRewritten
  <2> HIDE DEF there
  <2>6. Sound(there) /\ p \in Defined(there) /\ Defined(there) = Defined(s)
    BY <2>2, <2>5, SoundStays DEF Yields, OnlyPads
  <2>7. Yields(there, t, p) /\ t.pads = there.pads /\ (s.pads[p].visible => Seen(t, p))
    BY <2>4, <2>6, PresentIs, YieldsNothing
  <2>8. Yields(s, t, p) /\ Defined(t) = Defined(s)
    <3>1. Yields(s, there, p)
      BY <2>1, <2>2, <2>5, YieldsTwice
    <3>2. Yields(s, t, p)
      BY <2>7, <3>1, YieldsTwice
    <3> QED BY <3>2 DEF Yields, OnlyPads
  <2>9. t.pads[p] = R
    BY <2>5, <2>7
  <2>10. OnePerOutput(t)
    <3>1. \A q \in Defined(s) : q # p => t.pads[q] = made.pads[q]
      BY <2>2, <2>5, <2>7
    <3>2. \A q \in Defined(s) : /\ q # p /\ s.pads[p].visible /\ o # Nobody /\ made.pads[q].visible
                                => made.pads[q].output # o
      BY <2>1, <2>2 DEF VisibleOn
    <3> QED BY <2>1, <2>2, <2>3, <2>8, <2>9, <3>1, <3>2 DEF OnePerOutput
  <2>11. Seen(s, p) => Seen(t, p)
    <3>1. CASE s.pads[p].visible
      BY <2>7, <3>1
    <3>2. CASE ~s.pads[p].visible
      <4>1. t = there /\ made = s
        BY <2>4, <3>2 DEF made
      <4>2. \A v : ~Presents(s, p, v) /\ ~Presents(t, p, v)
        BY <2>3, <2>9, <3>2 DEF Presents
      <4>3. t.shown = s.shown /\ t.members = s.members
        BY <2>5, <4>1 DEF Yields, OnlyPads
      <4> QED BY <4>2, <4>3, SameEntries DEF Seen
    <3> QED BY <3>1, <3>2
  <2> QED BY <2>7, <2>8, <2>9, <2>10, <2>11 DEF t, R
<1> QED BY <1>1, <1>2

\* What yielding means for the pads that yield.
LEMMA YieldsKeeps ==
  ASSUME NEW s, NEW t, NEW p, Sound(s), Yields(s, t, p), NEW q \in Defined(s) \ {p}
  PROVE  /\ Pointed(s, q) => Pointed(t, q)
         /\ t.pads[q].output = s.pads[q].output
         /\ s.pads[q].solo # Nobody /\ t.pads[q].solo = Nobody => ~t.pads[q].visible
         /\ t.pads[q].visible => t.pads[q] = s.pads[q]
<1>1. s.pads[q] \in PadRecords /\ (t.pads[q] = s.pads[q] \/ t.pads[q] = Turned(s.pads[q], FALSE))
  BY PadTypes DEF Sound, Yields
<1>2. MembersOf(t, q) = MembersOf(s, q)
  BY SameEntries DEF Yields, OnlyPads
<1>3. LET u == Turned(s.pads[q], FALSE)
      IN  ~u.visible /\ u.solo = Nobody /\ ~u.active /\ u.last = s.pads[q].last
          /\ u.output = s.pads[q].output
  BY <1>1, TurnedIs
<1> QED BY <1>1, <1>2, <1>3 DEF Pointed

-----------------------------------------------------------------------------
(* Focus *)

\* Nothing changes but the focus, which pads are active and what they focused last.
Focuses(s, t) ==
  /\ Typed(t) /\ Defined(t) = Defined(s)
  /\ t.members = s.members /\ t.shown = s.shown /\ t.place = s.place /\ t.owner = s.owner
  /\ t.lit = s.lit /\ t.restoring = s.restoring
  /\ \A p \in Defined(s) :
       /\ t.pads[p].output = s.pads[p].output /\ t.pads[p].visible = s.pads[p].visible
       /\ t.pads[p].solo = s.pads[p].solo /\ t.pads[p].away = s.pads[p].away
       /\ Pointed(s, p) => Pointed(t, p)
  /\ Noted(s) => Noted(t)

\* Changes of the focus compose, ...
LEMMA FocusesTwice ==
  ASSUME NEW s, NEW t, NEW u, Focuses(s, t), Focuses(t, u)
  PROVE  Focuses(s, u)
BY DEF Focuses

\* ... may be none, ...
LEMMA FocusesNothing ==
  ASSUME NEW s, Sound(s)
  PROVE  Focuses(s, s)
BY DEF Focuses, Sound

\* ... and leave everything in order.
LEMMA FocusKeeps ==
  ASSUME NEW s, NEW t, PadsKept(s), Focuses(s, t)
  PROVE  PadsKept(t)
<1>1. Sound(t)
  BY DEF PadsKept, Focuses, Sound, Distinct
<1>2. /\ \A v : InPad(t, v) = InPad(s, v) /\ \A p : MembersOf(t, p) = MembersOf(s, p)
  BY SameEntries DEF Focuses
<1>3. Linked(t)
  BY <1>2 DEF PadsKept, Focuses, Linked, Rooted
<1>4. OnePerOutput(t)
  BY DEF PadsKept, Focuses, OnePerOutput
<1>5. Housed(t)
  BY <1>2 DEF PadsKept, Focuses, Housed
<1>6. \A p \in Defined(t) : Seen(t, p)
  BY SeenFrame DEF PadsKept, Focuses
<1> QED BY <1>1, <1>3, <1>4, <1>5, <1>6 DEF PadsKept, Focuses

\* The keyboard focus goes anywhere.
LEMMA FocusSet ==
  ASSUME NEW s, Sound(s), NEW f \in Windows \cup {Nobody}
  PROVE  LET t == [s EXCEPT !.focus = f] IN Focuses(s, t) /\ Sound(t)
<1> DEFINE t == [s EXCEPT !.focus = f]
<1>1. /\ Typed(t) /\ t.members = s.members /\ t.noted = s.noted /\ t.pads = s.pads
      /\ t.place = s.place /\ t.owner = s.owner /\ t.lit = s.lit
      /\ t.restoring = s.restoring /\ t.shown = s.shown
  BY DEF Sound, Typed, Fields
<1> HIDE DEF t
<1>2. Focuses(s, t)
  BY <1>1, SameEntries DEF Focuses, Defined, Noted, Pointed
<1> QED BY <1>1, <1>2 DEF Sound, Distinct, Defined, t

\* The manager notes nobody.
LEMMA NotedSet ==
  ASSUME NEW s, Sound(s)
  PROVE  LET t == [s EXCEPT !.noted = Nobody] IN Focuses(s, t) /\ Sound(t)
<1> DEFINE t == [s EXCEPT !.noted = Nobody]
<1>1. /\ Typed(t) /\ t.members = s.members /\ t.noted = Nobody /\ t.pads = s.pads
      /\ t.place = s.place /\ t.owner = s.owner /\ t.lit = s.lit
      /\ t.restoring = s.restoring /\ t.shown = s.shown
  BY DEF Sound, Typed, Fields
<1> HIDE DEF t
<1>2. Focuses(s, t)
  BY <1>1, SameEntries DEF Focuses, Defined, Noted, Pointed
<1> QED BY <1>1, <1>2 DEF Sound, Distinct, Defined, t

\* The pads of an output are no longer active.
LEMMA DeactivateOnIs ==
  ASSUME NEW s, Sound(s), NEW o
  PROVE  Focuses(s, DeactivateOn(s, o)) /\ Sound(DeactivateOn(s, o))
<1> DEFINE t == DeactivateOn(s, o)
           off(p) == [s.pads[p] EXCEPT !.active = FALSE]
<1>1. \A p \in Defined(s) : /\ off(p) \in PadRecords /\ off(p).output = s.pads[p].output
                            /\ off(p).visible = s.pads[p].visible /\ off(p).solo = s.pads[p].solo
                            /\ off(p).away = s.pads[p].away /\ off(p).last = s.pads[p].last
                            /\ ~off(p).active
  <2>1. \A p \in Defined(s) : s.pads[p] \in PadRecords
    BY PadTypes DEF Sound
  <2> QED BY <2>1 DEF PadRecords
<1>2. t.pads = [p \in Pads |-> IF p \in Defined(s) /\ s.pads[p].output = o THEN off(p) ELSE s.pads[p]]
  BY DEF DeactivateOn, Sound, Typed, Fields
<1> HIDE DEF off
<1>3. /\ \A p \in Defined(s) : t.pads[p] = s.pads[p] \/ t.pads[p] = off(p)
      /\ \A p \in Pads : p \notin Defined(s) => t.pads[p] = s.pads[p]
      /\ t.pads \in [Pads -> PadRecords \cup {Nobody}]
  BY <1>1, <1>2, PadTypes DEF Sound, Typed
<1>4. /\ Typed(t) /\ t.members = s.members /\ t.noted = s.noted /\ t.focus = s.focus
      /\ t.place = s.place /\ t.owner = s.owner /\ t.lit = s.lit
      /\ t.restoring = s.restoring /\ t.shown = s.shown
  BY <1>3 DEF DeactivateOn, Sound, Typed, Fields
<1> HIDE DEF t
<1>5. Defined(t) = Defined(s)
  BY <1>1, <1>3, PadTypes, ScreenAssumption DEF Sound, Defined
<1>6. \A p \in Defined(s) : Pointed(s, p) => Pointed(t, p)
  BY <1>1, <1>3, <1>4, SameEntries DEF Pointed
<1>7. Noted(s) => Noted(t)
  BY <1>4, SameEntries DEF Noted
<1>8. Focuses(s, t)
  BY <1>1, <1>3, <1>4, <1>5, <1>6, <1>7 DEF Focuses
<1> QED BY <1>4, <1>5, <1>8 DEF Sound, Distinct, t

\* A window on screen is focused.
LEMMA NoteFocusIs ==
  ASSUME NEW s, Sound(s), \A p \in Defined(s) : Seen(s, p), NEW v \in s.shown
  PROVE  Focuses(s, NoteFocus(s, v)) /\ Sound(NoteFocus(s, v))
<1>0. v \in Windows
  BY DEF Sound, Typed
<1>1. CASE ~InPad(s, v)
  <2> DEFINE m == [s EXCEPT !.noted = Nobody]
             o == IF s.place[v] \in {Nobody, Unmapped} THEN Nobody ELSE s.place[v].on
  <2>1. NoteFocus(s, v) = DeactivateOn(m, o)
    BY <1>1 DEF NoteFocus
  <2>2. Focuses(s, m) /\ Sound(m)
    BY NotedSet
  <2> HIDE DEF m, o
  <2> QED BY <2>1, <2>2, DeactivateOnIs, FocusesTwice
<1>2. CASE InPad(s, v)
  <2> DEFINE p == PadOf(s, v)
             r == [s.pads[p] EXCEPT !.active = TRUE, !.last = v]
             t == NoteFocus(s, v)
  <2>1. v \in MembersOf(s, p) /\ p \in Defined(s) /\ p \in Pads
    BY <1>2, EntryFacts, PadTypes DEF Sound
  <2>2. s.pads[p] \in PadRecords /\ s.pads[p].visible
    BY <2>1, PadTypes DEF Sound, Seen, Presents
  <2>3. /\ r \in PadRecords /\ r.active /\ r.last = v /\ r.output = s.pads[p].output
        /\ r.visible = s.pads[p].visible /\ r.solo = s.pads[p].solo /\ r.away = s.pads[p].away
    BY <1>0, <2>2 DEF PadRecords
  <2>4. t = [s EXCEPT !.noted = v, !.pads[p] = r]
    BY <1>2 DEF NoteFocus, Sound, Typed, Fields
  <2> HIDE DEF r, t, p
  <2>5. /\ Typed(t) /\ t.members = s.members /\ t.noted = v /\ t.focus = s.focus
        /\ t.place = s.place /\ t.owner = s.owner /\ t.lit = s.lit
        /\ t.restoring = s.restoring /\ t.shown = s.shown
        /\ t.pads = [s.pads EXCEPT ![p] = r]
    BY <1>0, <2>1, <2>3, <2>4 DEF Sound, Typed, Fields
  <2>6. t.pads[p] = r /\ \A q \in Pads \ {p} : t.pads[q] = s.pads[q]
    BY <2>1, <2>5, PadTypes DEF Sound
  <2>7. Defined(t) = Defined(s)
    BY <2>1, <2>3, <2>6, ScreenAssumption DEF Defined
  <2>8. \A q \in Defined(s) : Pointed(s, q) => Pointed(t, q)
    <3>1. Pointed(s, p) => Pointed(t, p)
      <4>1. MembersOf(t, p) = MembersOf(s, p)
        BY <2>5, SameEntries
      <4> QED BY <2>1, <2>2, <2>3, <2>6, <4>1 DEF Pointed
    <3>2. \A q \in Defined(s) : q # p => (Pointed(s, q) => Pointed(t, q))
      <4>1. \A q : MembersOf(t, q) = MembersOf(s, q)
        BY <2>5, SameEntries
      <4> QED BY <2>6, <4>1 DEF Pointed, Defined
    <3> QED BY <3>1, <3>2
  <2>9. Noted(t)
    BY <1>2, <2>5, SameEntries DEF Noted
  <2>10. Focuses(s, t)
    BY <2>3, <2>5, <2>6, <2>7, <2>8, <2>9 DEF Focuses, Defined
  <2> QED BY <2>5, <2>7, <2>10 DEF Sound, Distinct, t
<1> QED BY <1>1, <1>2

\* Naturals have a least, ...
LEMMA MinIs ==
  ASSUME NEW S \in SUBSET Nat, S # {}
  PROVE  Min(S) \in S
BY Least DEF Min

\* ... and finitely many of them a greatest element.
LEMMA MaxIs ==
  ASSUME NEW n \in Nat, NEW S \in SUBSET (1..n), S # {}
  PROVE  Max(S) \in S
<1> DEFINE T == {n - i : i \in S}
<1>0. \A i \in S : i \in Nat /\ n - i \in Nat
  OBVIOUS
<1>1. T \in SUBSET Nat /\ T # {}
  BY <1>0
<1>2. PICK k \in T : \A j \in T : k <= j
  <2> HIDE DEF T
  <2> QED BY <1>1, Least
<1>3. PICK m \in S : k = n - m
  BY <1>2
<1>4. ASSUME NEW i \in S PROVE m >= i
  <2>1. k <= n - i
    BY <1>2
  <2> QED BY <1>0, <1>3, <2>1
<1> QED BY <1>3, <1>4 DEF Max

\* focusView changes the focus only, whoever it is asked for.
LEMMA FocusWindowIs ==
  ASSUME NEW s, Sound(s), \A p \in Defined(s) : Seen(s, p), NEW v \in Windows
  PROVE  Focuses(s, FocusWindow(s, v)) /\ Sound(FocusWindow(s, v))
<1>1. CASE v \notin s.shown
  BY <1>1, FocusesNothing DEF FocusWindow
<1>2. CASE v \in s.shown
  <2> DEFINE n == NoteFocus(s, v)
             f == IF InPad(s, v) THEN v ELSE Nobody
  <2>1. FocusWindow(s, v) = [n EXCEPT !.focus = f]
    BY <1>2 DEF FocusWindow
  <2>2. Focuses(s, n) /\ Sound(n)
    BY <1>2, NoteFocusIs
  <2>3. f \in Windows \cup {Nobody}
    OBVIOUS
  <2> HIDE DEF n, f
  <2> QED BY <2>1, <2>2, <2>3, FocusSet, FocusesTwice
<1> QED BY <1>1, <1>2

\* The window of a pad that would be focused is a member of it.
LEMMA FocusedIs ==
  ASSUME NEW s, Sound(s), NEW p \in Defined(s), Pointed(s, p)
  PROVE  Focused(s, p) \in MembersOf(s, p) \cup {Nobody}
<1>1. MembersOf(s, p) # {} => s.members[Min(EntriesOf(s, p))].view \in MembersOf(s, p)
  <2> SUFFICES ASSUME MembersOf(s, p) # {} PROVE Min(EntriesOf(s, p)) \in EntriesOf(s, p)
    BY DEF MembersOf
  <2>1. EntriesOf(s, p) # {} /\ EntriesOf(s, p) \in SUBSET Nat
    BY DEF MembersOf, EntriesOf, Sound, Typed
  <2> QED BY <2>1, MinIs
<1> QED BY <1>1 DEF Focused, Pointed

\* An active pad gets the focus back.
LEMMA RefocusActiveIs ==
  ASSUME NEW s, Sound(s), \A p \in Defined(s) : Seen(s, p), NEW p \in Defined(s), Pointed(s, p)
  PROVE  Focuses(s, RefocusActive(s, p)) /\ Sound(RefocusActive(s, p))
<1>1. Focused(s, p) \in Windows \cup {Nobody}
  BY FocusedIs, EntryFacts
<1>2. CASE Focused(s, p) # Nobody
  BY <1>1, <1>2, FocusWindowIs DEF RefocusActive
<1>3. CASE Focused(s, p) = Nobody
  BY <1>3, FocusSet DEF RefocusActive
<1> QED BY <1>2, <1>3

\* The desktop gets the focus back.
LEMMA RefocusExplicitIs ==
  ASSUME NEW s, Sound(s), NEW o
  PROVE  Focuses(s, RefocusExplicit(s, o)) /\ Sound(RefocusExplicit(s, o))
<1> DEFINE d == DeactivateOn(s, o)
           f == [d EXCEPT !.focus = Nobody]
           here == {v \in s.shown : s.place[v] # Nobody /\ s.place[v].on = o}
           t == RefocusExplicit(s, o)
<1>1. Focuses(s, d) /\ Sound(d)
  BY DeactivateOnIs
<1> HIDE DEF d
<1>2. t = IF here = {} THEN f ELSE [f EXCEPT !.noted = Nobody]
  BY <1>1 DEF RefocusExplicit, Sound, Typed, Fields, d
<1>3. Focuses(d, f) /\ Sound(f)
  BY <1>1, FocusSet
<1> HIDE DEF f, here, t
<1>4. Focuses(f, t) /\ Sound(t)
  BY <1>2, <1>3, NotedSet, FocusesNothing
<1> QED BY <1>1, <1>3, <1>4, FocusesTwice DEF t

\* Wherever the focus goes back to, nothing else changes.
LEMMA RefocusIs ==
  ASSUME NEW s, Sound(s), \A p \in Defined(s) : Seen(s, p) /\ Pointed(s, p), NEW o
  PROVE  Focuses(s, Refocus(s, o)) /\ Sound(Refocus(s, o))
<1> DEFINE p == CHOOSE p \in ActiveOn(s, o) : TRUE
<1>1. ActiveOn(s, o) # {} => p \in Defined(s)
  BY DEF ActiveOn, VisibleOn
<1>2. Refocus(s, o) = IF o # Nobody /\ HasFocusOn(s, o) THEN s
                      ELSE IF ActiveOn(s, o) # {} THEN RefocusActive(s, p)
                      ELSE RefocusExplicit(s, o)
  BY DEF Refocus
<1> HIDE DEF p
<1> QED BY <1>1, <1>2, RefocusActiveIs, RefocusExplicitIs, FocusesNothing

-----------------------------------------------------------------------------
(* Pads are summoned *)

\* All is in order but for what p shows and points at.
KeptBut(s, p) ==
  /\ Sound(s) /\ Linked(s) /\ Noted(s) /\ OnePerOutput(s) /\ Housed(s)
  /\ \A q \in Defined(s) \ {p} : Seen(s, q) /\ Pointed(s, q)
\* p points at its members; it need not show yet.
Aims(s, p) ==
  /\ {s.pads[p].last, s.pads[p].solo} \subseteq MembersOf(s, p) \cup {Nobody}
  /\ s.pads[p].active => s.pads[p].visible

\* If p is the one pad that is out of order, mending p mends all.
LEMMA YieldsKept ==
  ASSUME NEW s, NEW t, NEW p \in Defined(s), KeptBut(s, p), Yields(s, t, p), OnePerOutput(t),
         t.pads[p].output \in s.lit \cup {Nobody},
         t.pads[p].output = Nobody => s.pads[p].output = Nobody
  PROVE  KeptBut(t, p) /\ (Seen(t, p) /\ Pointed(t, p) => PadsKept(t))
<1>1. Sound(t)
  BY SoundStays DEF KeptBut, Yields
<1>2. /\ Typed(t) /\ Defined(t) = Defined(s) /\ t.members = s.members /\ t.noted = s.noted
      /\ t.place = s.place /\ t.owner = s.owner /\ t.lit = s.lit /\ t.restoring = s.restoring
      /\ \A v \in Windows : ~InPad(s, v) => (v \in t.shown <=> v \in s.shown)
  BY DEF Yields, OnlyPads
<1>3. \A v : InPad(t, v) = InPad(s, v)
  BY <1>2, SameEntries
<1>4. \A q : MembersOf(t, q) = MembersOf(s, q)
  BY <1>2, SameEntries
<1>5. Linked(t)
  BY <1>2, <1>3, ScreenAssumption DEF KeptBut, Linked, Rooted
<1>6. Noted(t)
  BY <1>2, <1>3 DEF KeptBut, Noted
<1>7. \A q \in Defined(s) \ {p} : t.pads[q].output = s.pads[q].output
  BY YieldsKeeps DEF KeptBut
<1>8. Housed(t)
  <2>1. \A q \in Defined(t) : /\ t.pads[q].output \in t.lit \cup {Nobody}
                              /\ t.pads[q].output = Nobody => s.pads[q].output = Nobody
    BY <1>2, <1>7 DEF KeptBut, Housed
  <2>2. \A v \in Windows : t.place[v] \in Places => t.place[v].on \in t.lit
    BY <1>2 DEF KeptBut, Housed
  <2> QED BY <1>2, <1>3, <1>4, <2>1, <2>2 DEF KeptBut, Housed
<1>9. \A q \in Defined(t) \ {p} : Seen(t, q) /\ Pointed(t, q)
  BY <1>2, YieldsKeeps DEF KeptBut, Yields
<1>10. KeptBut(t, p)
  BY <1>1, <1>5, <1>6, <1>8, <1>9 DEF KeptBut
<1>11. Seen(t, p) /\ Pointed(t, p) => PadsKept(t)
  BY <1>10 DEF KeptBut, PadsKept
<1> QED BY <1>10, <1>11

\* A pad may show where no other does.
LEMMA OneStillPerOutput ==
  ASSUME NEW s, NEW t, NEW p, OnePerOutput(s), Defined(t) = Defined(s),
         \A q \in Defined(s) \ {p} : t.pads[q] = s.pads[q],
         NEW o \in Screens, t.pads[p].output = o,
         \A q \in Defined(s) \ {p} : s.pads[q].visible => s.pads[q].output # o
  PROVE  OnePerOutput(t)
<1> SUFFICES ASSUME NEW q \in Defined(s), NEW r \in Defined(s),
                    t.pads[q].visible, t.pads[r].visible,
                    t.pads[q].output = t.pads[r].output, t.pads[q].output # Nobody
             PROVE  q = r
  BY DEF OnePerOutput
<1>1. CASE q # p /\ r # p
  BY <1>1 DEF OnePerOutput
<1>2. CASE q = p \/ r = p
  BY <1>2
<1> QED BY <1>1, <1>2

\* The provers reason better about these than about operators applied to a truth value.
Shows(s, p)    == SetVisible(s, p, TRUE)
Hides(s, p)    == SetVisible(s, p, FALSE)
Moves(s, p, o) == MoveScratchpad(s, p, o, TRUE)

\* MoveScratchpadIs, for a move that lasts.
LEMMA MovesIs ==
  ASSUME NEW s, Sound(s), OnePerOutput(s), NEW p \in Defined(s), NEW o \in Screens \cup {Nobody}
  PROVE  LET t == Moves(s, p, o)
         IN  /\ Yields(s, t, p) /\ OnePerOutput(t)
             /\ t.pads[p].output = o /\ t.pads[p].away = Nobody
             /\ t.pads[p].visible = s.pads[p].visible /\ t.pads[p].active = s.pads[p].active
             /\ t.pads[p].last = s.pads[p].last /\ t.pads[p].solo = s.pads[p].solo
             /\ Seen(s, p) => Seen(t, p)
             /\ s.pads[p].visible /\ s.pads[p].output # o => Seen(t, p)
<1> DEFINE t == Moves(s, p, o)
<1>0. s.pads[p] \in PadRecords
  BY PadTypes DEF Sound
<1>1. /\ Yields(s, t, p) /\ OnePerOutput(t)
      /\ t.pads[p] = [s.pads[p] EXCEPT !.output = o, !.away = IF TRUE THEN Nobody ELSE @]
      /\ Seen(s, p) => Seen(t, p)
      /\ s.pads[p].visible /\ s.pads[p].output # o => Seen(t, p)
  BY MoveScratchpadIs DEF Moves
<1> HIDE DEF t
<1>2. /\ t.pads[p].output = o /\ t.pads[p].away = Nobody
      /\ t.pads[p].visible = s.pads[p].visible /\ t.pads[p].active = s.pads[p].active
      /\ t.pads[p].last = s.pads[p].last /\ t.pads[p].solo = s.pads[p].solo
  BY <1>0, <1>1 DEF PadRecords
<1> QED BY <1>1, <1>2 DEF t

\* SetVisibleIs, for a pad that hides.
LEMMA HidesIs ==
  ASSUME NEW s, Sound(s), NEW p \in Defined(s)
  PROVE  LET t == Hides(s, p)
         IN  /\ Yields(s, t, p) /\ Seen(t, p)
             /\ ~t.pads[p].visible /\ t.pads[p].solo = Nobody /\ ~t.pads[p].active
             /\ t.pads[p].output = s.pads[p].output /\ t.pads[p].last = s.pads[p].last
             /\ t.pads[p].away = s.pads[p].away
             /\ \A q \in Defined(s) \ {p} : t.pads[q] = s.pads[q]
<1> DEFINE t == Hides(s, p)
<1>1. s.pads[p] \in PadRecords
  BY PadTypes DEF Sound
<1>2. /\ Yields(s, t, p) /\ Seen(t, p) /\ t.pads[p] = Turned(s.pads[p], FALSE)
      /\ \A q \in Defined(s) \ {p} : t.pads[q] = s.pads[q]
  BY SetVisibleIs DEF Hides
<1> HIDE DEF t
<1>3. /\ ~t.pads[p].visible /\ t.pads[p].solo = Nobody /\ ~t.pads[p].active
      /\ t.pads[p].output = s.pads[p].output /\ t.pads[p].last = s.pads[p].last
      /\ t.pads[p].away = s.pads[p].away
  BY <1>1, <1>2, TurnedIs, ZenonT(60)
<1> QED BY <1>2, <1>3 DEF t

\* No pad but p shows on o.
Lonely(s, p, o) ==
  \A q \in Defined(s) \ {p} : s.pads[q].visible => s.pads[q].output # o
\* A pad shows on an output where no other does.
LEMMA ShowsIs ==
  ASSUME NEW s, Sound(s), OnePerOutput(s), NEW p \in Defined(s), NEW o \in Screens,
         s.pads[p].output = o, Lonely(s, p, o)
  PROVE  LET t == Shows(s, p)
         IN  /\ Yields(s, t, p) /\ Seen(t, p) /\ OnePerOutput(t)
             /\ t.pads[p].visible /\ t.pads[p].output = o
             /\ t.pads[p].last = s.pads[p].last /\ t.pads[p].solo = s.pads[p].solo
<1> DEFINE t == Shows(s, p)
<1>1. s.pads[p] \in PadRecords
  BY PadTypes DEF Sound
<1>2. /\ Yields(s, t, p) /\ Seen(t, p) /\ t.pads[p] = Turned(s.pads[p], TRUE)
      /\ \A q \in Defined(s) \ {p} : t.pads[q] = s.pads[q]
  BY SetVisibleIs DEF Shows
<1> HIDE DEF t
<1>3. Yields(s, t, p) /\ \A q \in Defined(s) \ {p} : t.pads[q] = s.pads[q]
  BY <1>2
<1>4. /\ t.pads[p].visible /\ t.pads[p].output = o
      /\ t.pads[p].last = s.pads[p].last /\ t.pads[p].solo = s.pads[p].solo
  BY <1>1, <1>2, TurnedIs, ZenonT(60)
<1>5. Defined(t) = Defined(s)
  BY <1>2 DEF Yields, OnlyPads
<1>6. OnePerOutput(t)
  <2>1. t.pads[p].output = o /\ \A q \in Defined(s) \ {p} : t.pads[q] = s.pads[q]
    BY <1>3, <1>4
  <2> QED BY <1>5, <2>1, OneStillPerOutput DEF Lonely
<1> QED BY <1>2, <1>4, <1>6 DEF t

\* A pad comes to an output and shows there.
LEMMA ComeIs ==
  ASSUME NEW s, Sound(s), OnePerOutput(s), NEW p \in Defined(s), NEW o \in Screens,
         ~(s.pads[p].visible /\ s.pads[p].output = o),
         NEW g, g = GiveWay(s, p, o),
         NEW h, h = IF s.pads[p].output = o THEN g ELSE Moves(g, p, o),
         NEW t, t = IF h.pads[p].visible THEN h ELSE Shows(h, p)
  PROVE  /\ Yields(s, t, p) /\ Seen(t, p) /\ OnePerOutput(t)
         /\ t.pads[p].visible /\ t.pads[p].output = o
         /\ t.pads[p].last = s.pads[p].last /\ t.pads[p].solo = s.pads[p].solo
<1>0. s.pads[p] \in PadRecords /\ o # Nobody
  BY PadTypes, ScreenAssumption DEF Sound
<1>1. /\ Yields(s, g, p) /\ OnePerOutput(g) /\ g.pads[p] = s.pads[p]
      /\ VisibleOn(g, o) \subseteq {p}
  BY <1>0, GiveWayIs
<1>2. Sound(g) /\ p \in Defined(g)
  BY <1>1, SoundStays DEF Yields, OnlyPads
<1>3. /\ Yields(g, h, p) /\ OnePerOutput(h)
      /\ h.pads[p].visible = s.pads[p].visible /\ h.pads[p].last = s.pads[p].last
      /\ h.pads[p].solo = s.pads[p].solo /\ h.pads[p].output = o
      /\ s.pads[p].visible => Seen(h, p)
  <2>1. CASE s.pads[p].output = o
    BY <1>1, <1>2, <2>1, YieldsNothing
  <2>2. CASE s.pads[p].output # o
    <3>1. h = Moves(g, p, o)
      BY <2>2
    <3>2. OnePerOutput(g) /\ o \in Screens \cup {Nobody}
      BY <1>1
    <3>3. /\ Yields(g, h, p) /\ OnePerOutput(h)
          /\ h.pads[p].visible = g.pads[p].visible /\ h.pads[p].last = g.pads[p].last
          /\ h.pads[p].solo = g.pads[p].solo /\ h.pads[p].output = o
          /\ g.pads[p].visible /\ g.pads[p].output # o => Seen(h, p)
      BY <1>2, <3>1, <3>2, MovesIs
    <3> QED BY <1>1, <2>2, <3>3
  <2> QED BY <2>1, <2>2
<1>4. Sound(h) /\ p \in Defined(h) /\ Defined(h) = Defined(g)
  BY <1>2, <1>3, SoundStays DEF Yields, OnlyPads
<1>5. Yields(s, h, p)
  BY <1>0, <1>1, <1>3, YieldsTwice
<1>6. CASE h.pads[p].visible
  BY <1>3, <1>5, <1>6
<1>7. CASE ~h.pads[p].visible
  <2>1. Lonely(h, p, o)
    <3> SUFFICES ASSUME NEW q \in Defined(h) \ {p}, h.pads[q].visible PROVE h.pads[q].output # o
      BY DEF Lonely
    <3>1. q \in Defined(g) \ {p}
      BY <1>4
    <3>2. h.pads[q] = g.pads[q]
      BY <1>2, <1>3, <3>1, YieldsKeeps
    <3> QED BY <1>1, <3>1, <3>2 DEF VisibleOn
  <2>2. t = Shows(h, p)
    BY <1>7
  <2>3. /\ Yields(h, t, p) /\ Seen(t, p) /\ OnePerOutput(t)
        /\ t.pads[p].visible /\ t.pads[p].output = o
        /\ t.pads[p].last = h.pads[p].last /\ t.pads[p].solo = h.pads[p].solo
    <3>1. Sound(h) /\ OnePerOutput(h) /\ p \in Defined(h) /\ h.pads[p].output = o
      BY <1>3, <1>4
    <3>2. LET r == Shows(h, p)
          IN  /\ Yields(h, r, p) /\ Seen(r, p) /\ OnePerOutput(r)
              /\ r.pads[p].visible /\ r.pads[p].output = o
              /\ r.pads[p].last = h.pads[p].last /\ r.pads[p].solo = h.pads[p].solo
      BY <2>1, <3>1, ShowsIs, SMTT(40)
    <3> QED BY <2>2, <3>2
  <2> QED BY <1>3, <1>5, <2>3, YieldsTwice
<1> QED BY <1>6, <1>7

\* A summoned pad shows on the output, with everything in order if at most p was not.
LEMMA SummonIs ==
  ASSUME NEW s, NEW p \in Defined(s), NEW o \in s.lit, NEW member \in MembersOf(s, p) \cup {Nobody},
         KeptBut(s, p), Aims(s, p),
         member # Nobody => Seen(s, p) /\ Pointed(s, p),
         s.pads[p].visible /\ s.pads[p].output = o => Seen(s, p)
  PROVE  LET t == Summon(s, p, o, member)
         IN  /\ Yields(s, t, p) /\ PadsKept(t)
             /\ t.pads[p].visible /\ t.pads[p].output = o
             /\ s.pads[p].solo # Nobody => t.pads[p].solo # Nobody
             /\ member = Nobody => t.pads[p].solo = s.pads[p].solo
<1> DEFINE m == IF member = Nobody THEN Nobody ELSE MemberFor(s, member, p)
           swap == m # Nobody /\ s.pads[p].solo # Nobody /\ s.pads[p].solo # m
           a == [s.pads[p] EXCEPT !.solo = m]
           r == IF swap THEN [s EXCEPT !.pads[p] = a] ELSE s
           here == r.pads[p].output = o
           g == GiveWay(r, p, o)
           there == IF here THEN g ELSE Moves(g, p, o)
           t == Summon(s, p, o, member)
<1>0. /\ Sound(s) /\ OnePerOutput(s) /\ s.pads[p] \in PadRecords /\ p \in Pads
      /\ o \in Screens /\ o # Nobody
  BY PadTypes, ScreenAssumption DEF KeptBut, Sound, Typed
<1>1. m \in MembersOf(s, p) \cup {Nobody} /\ m \in Windows \cup {Nobody} /\ (member = Nobody => m = Nobody)
  BY <1>0, MemberForIs, EntryFacts
<1>2. t = IF swap /\ here THEN Shows(r, p)
          ELSE IF r.pads[p].visible /\ here THEN r
          ELSE IF there.pads[p].visible THEN there ELSE Shows(there, p)
  <2>1. [s EXCEPT !.pads[p].solo = m] = [s EXCEPT !.pads[p] = a]
    BY <1>0 DEF Sound, Typed, Fields, PadRecords
  <2> DEFINE r2 == IF swap THEN [s EXCEPT !.pads[p].solo = m] ELSE s
             F(x) == LET h == x.pads[p].output = o
                         y == IF h THEN GiveWay(x, p, o)
                              ELSE Moves(GiveWay(x, p, o), p, o)
                     IN  IF swap /\ h THEN Shows(x, p)
                         ELSE IF x.pads[p].visible /\ h THEN x
                         ELSE IF y.pads[p].visible THEN y ELSE Shows(y, p)
  <2>2. r2 = r
    BY <2>1
  <2>3. t = F(r2)
    BY DEF Summon, Shows, Moves
  <2>4. t = F(r)
    <3> HIDE DEF F, r, r2, t
    <3> QED BY <2>2, <2>3
  <2> HIDE DEF r, r2, m, swap
  <2> QED BY <2>4
<1> HIDE DEF m, t
<1>3. /\ a \in PadRecords /\ a.last = s.pads[p].last /\ a.solo = m /\ a.visible = s.pads[p].visible
      /\ a.output = s.pads[p].output /\ a.active = s.pads[p].active
  BY <1>0, <1>1 DEF PadRecords
<1>4. swap => s.pads[p].visible /\ m # Nobody /\ member # Nobody
  BY <1>1 DEF Pointed
<1> HIDE DEF a
<1>5. /\ Yields(s, r, p) /\ r.pads[p] = (IF swap THEN a ELSE s.pads[p])
      /\ \A q \in Defined(s) \ {p} : r.pads[q] = s.pads[q]
  BY <1>0, <1>3, PadRewritten, YieldsNothing
<1>6. ~swap => r = s
  OBVIOUS
<1> HIDE DEF r, swap
<1>7. /\ r.pads[p].output = s.pads[p].output /\ r.pads[p].visible = s.pads[p].visible
      /\ r.pads[p].last = s.pads[p].last /\ r.pads[p].active = s.pads[p].active
      /\ r.pads[p] \in PadRecords
      /\ r.pads[p].solo \in MembersOf(s, p) \cup {Nobody}
      /\ s.pads[p].solo # Nobody => r.pads[p].solo # Nobody
      /\ member = Nobody => r.pads[p].solo = s.pads[p].solo
  BY <1>0, <1>1, <1>3, <1>4, <1>5 DEF Aims
<1>8. Sound(r) /\ p \in Defined(r) /\ Defined(r) = Defined(s) /\ r.lit = s.lit
  BY <1>0, <1>5, SoundStays DEF Yields, OnlyPads
<1>9. OnePerOutput(r)
  BY <1>0, <1>5, <1>7, <1>8 DEF OnePerOutput
<1> SUFFICES /\ Yields(r, t, p) /\ Seen(t, p) /\ OnePerOutput(t)
             /\ t.pads[p].visible /\ t.pads[p].output = o
             /\ t.pads[p].last = r.pads[p].last /\ t.pads[p].solo = r.pads[p].solo
  <2>1. Yields(s, t, p)
    BY <1>0, <1>5, YieldsTwice
  <2>2. \A q : MembersOf(t, q) = MembersOf(s, q)
    BY <2>1, SameEntries DEF Yields, OnlyPads
  <2>3. Pointed(t, p)
    BY <1>7, <2>2 DEF Pointed, Aims
  <2>4. PadsKept(t)
    BY <1>0, <2>1, <2>3, YieldsKept
  <2> QED BY <1>7, <2>1, <2>4 DEF t
<1>10. CASE swap /\ here
  <2>1. t = Shows(r, p)
    BY <1>2, <1>10
  <2>2. r.pads[p].visible /\ r.pads[p].output = o
    BY <1>4, <1>7, <1>10
  <2>3. Lonely(r, p, o)
    BY <1>0, <1>8, <1>9, <2>2 DEF OnePerOutput, Lonely
  <2> HIDE DEF here, g, there
  <2> QED BY <1>0, <1>8, <1>9, <2>1, <2>2, <2>3, ShowsIs
<1>11. CASE ~(swap /\ here) /\ r.pads[p].visible /\ here
  <2>1. t = r /\ r = s
    BY <1>2, <1>6, <1>11
  <2>2. Seen(t, p)
    BY <1>11, <2>1
  <2> QED BY <1>8, <1>9, <1>11, <2>1, <2>2, YieldsNothing
<1>12. CASE ~(r.pads[p].visible /\ here) /\ ~(swap /\ here)
  <2>1. t = IF there.pads[p].visible THEN there ELSE Shows(there, p)
    BY <1>2, <1>12
  <2> QED BY <1>0, <1>8, <1>9, <1>12, <2>1, ComeIs, SMTT(40)
<1> QED BY <1>10, <1>11, <1>12

-----------------------------------------------------------------------------
(* Pads are toggled and stepped through *)

\* A pad that showed one window alone does not show all of them.
Holds(s, t) ==
  \A p \in Defined(s) \cap Defined(t) :
    s.pads[p].solo # Nobody /\ t.pads[p].solo = Nobody => ~t.pads[p].visible

\* A pad that yields does not spread.
LEMMA YieldsHolds ==
  ASSUME NEW s, NEW t, NEW p \in Defined(s), Sound(s), Yields(s, t, p),
         s.pads[p].solo # Nobody => t.pads[p].solo # Nobody \/ ~t.pads[p].visible
  PROVE  Holds(s, t)
BY YieldsKeeps DEF Holds

\* The focus makes no pad spread.
LEMMA FocusesHolds ==
  ASSUME NEW s, NEW t, NEW u, Holds(s, t), Focuses(t, u)
  PROVE  Holds(s, u)
BY DEF Holds, Focuses

\* The invariant, taken apart.
LEMMA KeptIs ==
  ASSUME NEW s, PadsKept(s)
  PROVE  /\ Sound(s) /\ \A p : KeptBut(s, p)
         /\ \A p \in Defined(s) : Seen(s, p) /\ Pointed(s, p) /\ Aims(s, p)
BY DEF PadsKept, KeptBut, Pointed, Aims

\* Refocusing leaves everything in order, ...
LEMMA RefocusKeeps ==
  ASSUME NEW s, PadsKept(s), NEW o
  PROVE  PadsKept(Refocus(s, o)) /\ Focuses(s, Refocus(s, o))
<1>1. Focuses(s, Refocus(s, o))
  BY KeptIs, RefocusIs
<1> QED BY <1>1, FocusKeeps

\* ... and so does focusing a window.
LEMMA FocusWindowKeeps ==
  ASSUME NEW s, PadsKept(s), NEW v \in Windows
  PROVE  PadsKept(FocusWindow(s, v)) /\ Focuses(s, FocusWindow(s, v))
<1>1. Focuses(s, FocusWindow(s, v))
  BY KeptIs, FocusWindowIs
<1> QED BY <1>1, FocusKeeps

\* Hiding the one pad that is out of order mends it.
LEMMA HidesKeeps ==
  ASSUME NEW s, NEW p \in Defined(s), KeptBut(s, p), s.pads[p].last \in MembersOf(s, p) \cup {Nobody}
  PROVE  /\ PadsKept(Hides(s, p)) /\ Yields(s, Hides(s, p), p)
         /\ ~Hides(s, p).pads[p].visible /\ Hides(s, p).pads[p].solo = Nobody
<1> DEFINE t == Hides(s, p)
<1>0. Sound(s)
  BY DEF KeptBut
<1>1. /\ Yields(s, t, p) /\ Seen(t, p)
      /\ ~t.pads[p].visible /\ t.pads[p].solo = Nobody /\ ~t.pads[p].active
      /\ t.pads[p].output = s.pads[p].output /\ t.pads[p].last = s.pads[p].last
      /\ \A q \in Defined(s) \ {p} : t.pads[q] = s.pads[q]
  BY <1>0, HidesIs
<1> HIDE DEF t
<1>2. OnePerOutput(t)
  BY <1>1 DEF KeptBut, OnePerOutput, Yields, OnlyPads
<1>3. Pointed(t, p)
  BY <1>1, SameEntries DEF Pointed, Yields, OnlyPads
<1>4. t.pads[p].output \in s.lit \cup {Nobody}
  BY <1>1 DEF KeptBut, Housed
<1>5. PadsKept(t)
  BY <1>1, <1>2, <1>3, <1>4, YieldsKept
<1> QED BY <1>1, <1>5 DEF t

\* toggle leaves everything in order.
LEMMA ToggleOnIs ==
  ASSUME NEW s, PadsKept(s), NEW p \in Defined(s), NEW o \in s.lit
  PROVE  PadsKept(ToggleOn(s, p, o)) /\ Holds(s, ToggleOn(s, p, o))
<1> DEFINE S == Summon(s, p, o, Nobody)
           a == [S.pads[p] EXCEPT !.active = TRUE]
           up == [S EXCEPT !.pads[p] = a]
           q == CHOOSE q \in ActiveOn(up, o) : TRUE
           t == ToggleOn(s, p, o)
<1>0. Sound(s) /\ KeptBut(s, p) /\ Seen(s, p) /\ Pointed(s, p) /\ Aims(s, p)
  BY KeptIs
<1>1. CASE s.pads[p].visible /\ s.pads[p].output = o
  <2>1. t = Refocus(Hides(s, p), o)
    BY <1>1 DEF ToggleOn, Hides
  <2> HIDE DEF t
  <2>2. PadsKept(Hides(s, p)) /\ Yields(s, Hides(s, p), p) /\ ~Hides(s, p).pads[p].visible
    BY <1>0, HidesKeeps DEF Aims
  <2>3. Holds(s, Hides(s, p))
    BY <1>0, <2>2, YieldsHolds
  <2> QED BY <2>1, <2>2, <2>3, RefocusKeeps, FocusesHolds DEF t
<1>2. CASE ~(s.pads[p].visible /\ s.pads[p].output = o)
  <2>1. /\ Yields(s, S, p) /\ PadsKept(S) /\ S.pads[p].visible /\ S.pads[p].output = o
        /\ S.pads[p].solo = s.pads[p].solo
    BY <1>0, <1>2, SummonIs
  <2>2. Sound(S) /\ p \in Defined(S) /\ Defined(S) = Defined(s) /\ S.pads[p] \in PadRecords
    BY <2>1, KeptIs, PadTypes DEF Yields, OnlyPads, Sound
  <2>3. t = RefocusActive(up, q)
    <3>1. [S EXCEPT !.pads[p].active = TRUE] = up
      BY <2>2 DEF Sound, Typed, Fields
    <3>2. t = LET u == [S EXCEPT !.pads[p].active = TRUE]
              IN RefocusActive(u, CHOOSE r \in ActiveOn(u, o) : TRUE)
      BY <1>2 DEF ToggleOn
    <3> HIDE DEF S, up, t
    <3> QED BY <3>1, <3>2
  <2> HIDE DEF S, t
  <2>4. /\ a \in PadRecords /\ a.last = S.pads[p].last /\ a.visible = S.pads[p].visible
        /\ a.output = S.pads[p].output /\ a.solo = S.pads[p].solo /\ a.active
    BY <2>2 DEF PadRecords
  <2> HIDE DEF a
  <2>5. /\ Yields(S, up, p) /\ up.shown = S.shown /\ up.pads[p] = a
        /\ \A r \in Defined(S) \ {p} : up.pads[r] = S.pads[r]
    BY <2>2, <2>4, PadRewritten
  <2> HIDE DEF up
  <2>6. Defined(up) = Defined(S) /\ up.members = S.members /\ up.owner = S.owner
    BY <2>5 DEF Yields, OnlyPads
  <2>7. OnePerOutput(up)
    BY <2>1, <2>4, <2>5, <2>6 DEF PadsKept, OnePerOutput
  <2>8. Seen(up, p)
    BY <2>1, <2>2, <2>4, <2>5, <2>6, SeenFrame DEF PadsKept
  <2>9. Pointed(up, p)
    <3>1. Pointed(S, p) /\ MembersOf(up, p) = MembersOf(S, p)
      BY <2>1, <2>2, <2>6, SameEntries DEF PadsKept
    <3> QED BY <2>1, <2>4, <2>5, <3>1 DEF Pointed
  <2>10. PadsKept(up)
    <3>1. KeptBut(S, p)
      BY <2>1, KeptIs
    <3>2. /\ up.pads[p].output \in S.lit \cup {Nobody}
          /\ up.pads[p].output = Nobody => S.pads[p].output = Nobody
      BY <2>1, <2>2, <2>4, <2>5 DEF PadsKept, Housed
    <3> QED BY <2>2, <2>5, <2>7, <2>8, <2>9, <3>1, <3>2, YieldsKept
  <2>11. q \in Defined(up)
    <3>1. p \in ActiveOn(up, o)
      BY <2>1, <2>2, <2>4, <2>5, <2>6 DEF ActiveOn, VisibleOn
    <3> QED BY <3>1 DEF ActiveOn, VisibleOn
  <2> HIDE DEF q
  <2>12. Focuses(up, t)
    BY <2>3, <2>10, <2>11, KeptIs, RefocusActiveIs
  <2>13. Holds(s, up)
    <3>1. Yields(s, up, p)
      BY <1>0, <2>1, <2>5, YieldsTwice
    <3> QED BY <1>0, <2>1, <2>4, <2>5, <3>1, YieldsHolds
  <2> QED BY <2>10, <2>12, <2>13, FocusKeeps, FocusesHolds DEF t
<1> QED BY <1>1, <1>2

\* Stepping leads to a member of the pad.
LEMMA StepTargetIs ==
  ASSUME NEW s, Sound(s), NEW p, NEW o, NEW d
  PROVE  StepTarget(s, p, o, d) \in MembersOf(s, p) \cup {Nobody}
<1> DEFINE steps == {i \in EntriesOf(s, p) : ~RidesWithParent(s, s.members[i].view, p)}
           at(v) == IF v = Nobody THEN {} ELSE {i \in steps : s.members[i].view = MemberFor(s, v, p)}
           here == s.pads[p].visible /\ s.pads[p].output = o
           from == at(IF here THEN Focused(s, p) ELSE s.pads[p].last)
           i == Min(IF from = {} THEN steps ELSE from)
           ahead  == {j \in steps : i < j}
           behind == {j \in steps : j < i}
           next == IF d = 1 THEN Min(IF ahead = {} THEN steps ELSE ahead)
                            ELSE Max(IF behind = {} THEN steps ELSE behind)
<1>1. StepTarget(s, p, o, d) = IF steps = {} THEN Nobody ELSE s.members[IF here THEN next ELSE i].view
  BY DEF StepTarget
<1>2. /\ steps \in SUBSET (1..Len(s.members)) /\ Len(s.members) \in Nat /\ steps \in SUBSET Nat
      /\ from \subseteq steps /\ ahead \subseteq steps /\ behind \subseteq steps
  BY DEF EntriesOf, Sound, Typed
<1>3. \A j \in steps : s.members[j].view \in MembersOf(s, p)
  BY DEF MembersOf
<1> HIDE DEF steps, here, ahead, behind, from
<1>4. steps # {} => i \in steps
  <2>1. \A S \in SUBSET Nat : S # {} => Min(S) \in S
    BY MinIs
  <2> QED BY <1>2, <2>1
<1> HIDE DEF i
<1>5. steps # {} => next \in steps
  <2>1. \A S \in SUBSET Nat : S # {} => Min(S) \in S
    BY MinIs
  <2>2. \A S \in SUBSET (1..Len(s.members)) : S # {} => Max(S) \in S
    BY <1>2, MaxIs
  <2> QED BY <1>2, <2>1, <2>2
<1> HIDE DEF next
<1> QED BY <1>1, <1>3, <1>4, <1>5

\* showStep leaves everything in order.
LEMMA ShowStepOnIs ==
  ASSUME NEW s, PadsKept(s), NEW p \in Defined(s), NEW o \in s.lit, NEW d,
         StepTarget(s, p, o, d) # Nobody
  PROVE  PadsKept(ShowStepOn(s, p, o, d)) /\ Holds(s, ShowStepOn(s, p, o, d))
<1> DEFINE v == StepTarget(s, p, o, d)
           a == [s.pads[p] EXCEPT !.solo = v]
           alone == [s EXCEPT !.pads[p] = a]
           here == s.pads[p].visible /\ s.pads[p].output = o
           set == IF here THEN Shows(alone, p) ELSE Summon(alone, p, o, Nobody)
           t == ShowStepOn(s, p, o, d)
<1>0. /\ Sound(s) /\ KeptBut(s, p) /\ Seen(s, p) /\ Pointed(s, p) /\ s.pads[p] \in PadRecords
      /\ v \in MembersOf(s, p) /\ v \in Windows /\ v # Nobody /\ o \in Screens
  BY KeptIs, StepTargetIs, EntryFacts, PadTypes, ScreenAssumption DEF Sound, Typed
<1>1. t = FocusWindow(set, v)
  <2>1. [s EXCEPT !.pads[p].solo = v] = alone
    BY <1>0 DEF Sound, Typed, Fields
  <2>2. t = LET u == [s EXCEPT !.pads[p].solo = v]
            IN  FocusWindow(IF here THEN Shows(u, p) ELSE Summon(u, p, o, Nobody), v)
    BY DEF ShowStepOn, Shows
  <2> HIDE DEF t, alone, v, here
  <2> QED BY <2>1, <2>2
<1> HIDE DEF v, t
<1>2. /\ a \in PadRecords /\ a.last = s.pads[p].last /\ a.visible = s.pads[p].visible
      /\ a.output = s.pads[p].output /\ a.solo = v /\ a.active = s.pads[p].active
  BY <1>0 DEF PadRecords
<1> HIDE DEF a
<1>3. /\ Yields(s, alone, p) /\ alone.pads[p] = a
      /\ \A r \in Defined(s) \ {p} : alone.pads[r] = s.pads[r]
  BY <1>0, <1>2, PadRewritten
<1> HIDE DEF alone
<1>4. Defined(alone) = Defined(s) /\ alone.lit = s.lit
  BY <1>3 DEF Yields, OnlyPads
<1>5. OnePerOutput(alone)
  BY <1>0, <1>2, <1>3, <1>4 DEF KeptBut, OnePerOutput
<1>6. KeptBut(alone, p)
  <2>1. /\ alone.pads[p].output \in s.lit \cup {Nobody}
        /\ alone.pads[p].output = Nobody => s.pads[p].output = Nobody
    BY <1>0, <1>2, <1>3 DEF KeptBut, Housed
  <2> QED BY <1>0, <1>3, <1>5, <2>1, YieldsKept
<1>7. \A q : MembersOf(alone, q) = MembersOf(s, q)
  BY <1>3, SameEntries DEF Yields, OnlyPads
<1>8. /\ Aims(alone, p) /\ alone.pads[p].visible = s.pads[p].visible
      /\ alone.pads[p].output = s.pads[p].output /\ alone.pads[p].solo = v
  BY <1>0, <1>2, <1>3, <1>7 DEF Aims, Pointed
<1>9. PadsKept(set) /\ Yields(alone, set, p) /\ set.pads[p].solo = v
  <2>1. CASE here
    <3>1. Lonely(alone, p, o)
      BY <1>0, <1>3, <1>4, <2>1, ScreenAssumption DEF KeptBut, OnePerOutput, Lonely
    <3>2. Sound(alone) /\ p \in Defined(alone) /\ alone.pads[p].output = o /\ OnePerOutput(alone)
      BY <1>4, <1>5, <1>6, <1>8, <2>1 DEF KeptBut
    <3>3. set = Shows(alone, p)
      BY <2>1
    <3> HIDE DEF set, here
    <3>4. /\ Yields(alone, set, p) /\ Seen(set, p) /\ OnePerOutput(set)
          /\ set.pads[p].visible /\ set.pads[p].output = o
          /\ set.pads[p].last = alone.pads[p].last /\ set.pads[p].solo = alone.pads[p].solo
      BY <1>0, <3>1, <3>2, <3>3, ShowsIs
    <3>5. Pointed(set, p)
      BY <1>8, <3>4, SameEntries DEF Yields, OnlyPads, Pointed, Aims
    <3>6. set.pads[p].output \in alone.lit \cup {Nobody} /\ set.pads[p].output # Nobody
      BY <1>0, <1>4, <3>4, ScreenAssumption
    <3> QED BY <1>6, <1>8, <3>2, <3>4, <3>5, <3>6, YieldsKept
  <2>2. CASE ~here
    <3>1. set = Summon(alone, p, o, Nobody)
      BY <2>2
    <3>2. ~(alone.pads[p].visible /\ alone.pads[p].output = o)
      BY <1>8, <2>2
    <3> HIDE DEF set, here
    <3> QED BY <1>4, <1>6, <1>8, <3>1, <3>2, SummonIs
  <2> QED BY <2>1, <2>2
<1> HIDE DEF set
<1>10. Holds(s, set)
  <2>1. Yields(s, set, p)
    BY <1>0, <1>3, <1>9, YieldsTwice
  <2> QED BY <1>0, <1>9, <2>1, YieldsHolds
<1> QED BY <1>0, <1>1, <1>9, <1>10, FocusWindowKeeps, FocusesHolds DEF t

-----------------------------------------------------------------------------
(* Windows leave pads *)

\* Who is where once windows are taken out of the entries.
LEMMA EntriesGone ==
  ASSUME NEW s, NEW t, NEW gone,
         EntriesIn(t.members) = {e \in EntriesIn(s.members) : e.view \notin gone}
  PROVE  /\ \A q : MembersOf(t, q) = MembersOf(s, q) \ gone
         /\ \A u : InPad(t, u) <=> InPad(s, u) /\ u \notin gone
<1>1. /\ \A x : x \in EntriesIn(t.members) <=> \E i \in DOMAIN t.members : x = t.members[i]
      /\ \A x : x \in EntriesIn(s.members) <=> \E i \in DOMAIN s.members : x = s.members[i]
  BY DEF EntriesIn
<1>2. /\ \A i \in DOMAIN t.members : /\ t.members[i].view \notin gone
                                     /\ \E j \in DOMAIN s.members : t.members[i] = s.members[j]
      /\ \A j \in DOMAIN s.members :
           s.members[j].view \notin gone => \E i \in DOMAIN t.members : t.members[i] = s.members[j]
  BY <1>1
<1>3. ASSUME NEW q PROVE MembersOf(t, q) = MembersOf(s, q) \ gone
  <2>1. MembersOf(t, q) \subseteq MembersOf(s, q) \ gone
    BY <1>2 DEF MembersOf, EntriesOf
  <2>2. MembersOf(s, q) \ gone \subseteq MembersOf(t, q)
    <3> SUFFICES ASSUME NEW j \in DOMAIN s.members, s.members[j].pad = q,
                        s.members[j].view \notin gone
                 PROVE  s.members[j].view \in MembersOf(t, q)
      BY DEF MembersOf, EntriesOf
    <3>1. PICK i \in DOMAIN t.members : t.members[i] = s.members[j]
      BY <1>2
    <3> QED BY <3>1 DEF MembersOf, EntriesOf
  <2> QED BY <2>1, <2>2
<1>4. \A u : InPad(t, u) <=> InPad(s, u) /\ u \notin gone
  BY <1>2 DEF InPad
<1> QED BY <1>3, <1>4

\* The window focused last is another once v is forgotten.
LEMMA ForgetIs ==
  ASSUME NEW s, Sound(s), NEW p \in Defined(s), NEW v \in MembersOf(s, p), Pointed(s, p)
  PROVE  LET t == ForgetLastFocused(s, p, v)
         IN  /\ Sound(t) /\ Focuses(s, t) /\ t.noted = s.noted /\ t.focus = s.focus
             /\ \A q \in Defined(s) \ {p} : t.pads[q] = s.pads[q]
             /\ t.pads[p].last \in (MembersOf(s, p) \ {v}) \cup {Nobody}
             /\ t.pads[p].active = s.pads[p].active
<1> DEFINE heirs == {u \in Ancestors(s, v) \ {v} : InPad(s, u) /\ PadOf(s, u) = p}
           near  == {u \in heirs : Ancestors(s, v) \cap heirs \subseteq Ancestors(s, u)}
           heir == IF near = {} THEN Nobody ELSE CHOOSE u \in near : TRUE
           a == [s.pads[p] EXCEPT !.last = heir]
           t == ForgetLastFocused(s, p, v)
<1>1. CASE s.pads[p].last # v
  BY <1>1, FocusesNothing DEF ForgetLastFocused, Pointed
<1>2. CASE s.pads[p].last = v
  <2>1. heir \in (MembersOf(s, p) \ {v}) \cup {Nobody}
    <3>1. heirs \subseteq MembersOf(s, p) \ {v}
      BY EntryFacts
    <3> HIDE DEF heirs
    <3>2. near \subseteq heirs
      OBVIOUS
    <3> QED BY <3>1, <3>2
  <2>2. MembersOf(s, p) \subseteq Windows /\ p \in Pads /\ s.pads[p] \in PadRecords
    BY EntryFacts, PadTypes DEF Sound
  <2>3. t = [s EXCEPT !.pads[p] = a]
    <3>1. t = [s EXCEPT !.pads[p].last = heir]
      BY <1>2 DEF ForgetLastFocused
    <3> HIDE DEF t, heir
    <3> QED BY <2>2, <3>1 DEF Sound, Typed, Fields
  <2> HIDE DEF heir, t
  <2>4. /\ a \in PadRecords /\ a.last = heir /\ a.visible = s.pads[p].visible
        /\ a.output = s.pads[p].output /\ a.solo = s.pads[p].solo /\ a.active = s.pads[p].active
        /\ a.away = s.pads[p].away
    BY <2>1, <2>2 DEF PadRecords
  <2> HIDE DEF a
  <2>5. /\ Typed(t) /\ t.members = s.members /\ t.noted = s.noted /\ t.focus = s.focus
        /\ t.place = s.place /\ t.owner = s.owner /\ t.lit = s.lit
        /\ t.restoring = s.restoring /\ t.shown = s.shown
        /\ t.pads = [s.pads EXCEPT ![p] = a]
    BY <2>3, <2>4 DEF Sound, Typed, Fields
  <2>6. t.pads[p] = a /\ \A q \in Pads \ {p} : t.pads[q] = s.pads[q]
    BY <2>2, <2>5, PadTypes DEF Sound
  <2>7. Defined(t) = Defined(s)
    BY <2>4, <2>6, ScreenAssumption DEF Defined
  <2>8. \A q : MembersOf(t, q) = MembersOf(s, q)
    BY <2>5, SameEntries
  <2>9. \A q \in Defined(s) : Pointed(s, q) => Pointed(t, q)
    <3>1. Pointed(s, p) => Pointed(t, p)
      BY <2>1, <2>4, <2>6, <2>8 DEF Pointed
    <3>2. \A q \in Defined(s) : q # p => (Pointed(s, q) => Pointed(t, q))
      BY <2>6, <2>8 DEF Pointed, Defined
    <3> QED BY <3>1, <3>2
  <2>10. Noted(s) => Noted(t)
    BY <2>5, SameEntries DEF Noted
  <2>11. Focuses(s, t)
    BY <2>4, <2>5, <2>6, <2>7, <2>9, <2>10 DEF Focuses, Defined
  <2> QED BY <2>1, <2>4, <2>5, <2>6, <2>7, <2>11 DEF Sound, Distinct, t, Defined
<1> QED BY <1>1, <1>2

\* v leaves p, the last window of which is another; its dialogs stay whose they were.
Leaves(s, t, p, v) ==
  /\ Typed(t) /\ Apart(t.members)
  /\ EntriesIn(t.members) = {e \in EntriesIn(s.members) : e.view \notin {v}}
  /\ Defined(t) = Defined(s) /\ t.lit = s.lit /\ (s.restoring => t.restoring)
  /\ t.noted = IF s.noted = v THEN Nobody ELSE s.noted
  /\ \A q \in Defined(s) \ {p} : t.pads[q] = s.pads[q]
  /\ t.pads[p].visible = s.pads[p].visible /\ t.pads[p].output = s.pads[p].output
  /\ t.pads[p].solo = s.pads[p].solo /\ t.pads[p].active = s.pads[p].active
  /\ t.pads[p].last \in (MembersOf(s, p) \ {v}) \cup {Nobody}
  /\ \A u \in Windows \ {v} : t.place[u] = s.place[u] /\ (u \in t.shown <=> u \in s.shown)
  /\ v \in t.shown => t.place[v] # Unmapped
  /\ t.place[v] \in Places => t.place[v].on \in t.lit
  /\ t.place[v] = Nobody => t.restoring \/ t.lit = {}
  /\ Rooted(t)
  /\ \A u \in Windows : t.owner[u] # Nobody => /\ t.place[u] # Unmapped
                                               /\ t.place[t.owner[u]] # Unmapped
  /\ \A u, x \in Windows \ {v} : x \in Ancestors(t, u) <=> x \in Ancestors(s, u)

\* Once a window has left, at most the pad it left is out of order.
LEMMA LeaveKeeps ==
  ASSUME NEW s, PadsKept(s), NEW p \in Defined(s), NEW v \in MembersOf(s, p), NEW t,
         Leaves(s, t, p, v)
  PROVE  /\ KeptBut(t, p) /\ t.pads[p].last \in MembersOf(t, p) \cup {Nobody}
         /\ s.pads[p].solo # v => PadsKept(t)
<1>0. /\ Sound(s) /\ v \in Windows /\ InPad(s, v) /\ PadOf(s, v) = p
      /\ \A q \in Defined(s) \ {p} : v \notin MembersOf(s, q)
  BY KeptIs, EntryFacts
<1>1. /\ \A q : MembersOf(t, q) = MembersOf(s, q) \ {v}
      /\ \A u : InPad(t, u) <=> InPad(s, u) /\ u \notin {v}
  BY EntriesGone DEF Leaves
<1>2. Sound(t)
  <2>1. \A i \in DOMAIN t.members : t.members[i].pad \in Defined(t)
    <3> SUFFICES ASSUME NEW i \in DOMAIN t.members PROVE t.members[i].pad \in Defined(s)
      BY DEF Leaves
    <3>1. t.members[i] \in EntriesIn(t.members)
      BY DEF EntriesIn
    <3>2. t.members[i] \in EntriesIn(s.members)
      BY <3>1 DEF Leaves
    <3> QED BY <1>0, <3>2 DEF EntriesIn, Sound, Distinct
  <2> QED BY <2>1 DEF Leaves, Sound, Distinct, Apart
<1>3. Linked(t)
  <2> SUFFICES ASSUME NEW u \in Windows
               PROVE  /\ InPad(t, u) => t.place[u] = Nobody
                      /\ u \in t.shown => t.place[u] # Unmapped
    BY DEF Linked, Leaves
  <2> QED BY <1>1 DEF Leaves, PadsKept, Linked
<1>4. Noted(t)
  BY <1>1 DEF Leaves, PadsKept, Noted
<1>5. OnePerOutput(t)
  BY DEF Leaves, PadsKept, OnePerOutput
<1>6. Housed(t)
  <2>1. \A u \in Windows : t.place[u] \in Places => t.place[u].on \in t.lit
    BY DEF Leaves, PadsKept, Housed
  <2>2. \A q \in Defined(t) : t.pads[q].output = s.pads[q].output
    BY DEF Leaves
  <2>3. ASSUME ~t.restoring, t.lit # {}
        PROVE  \A u \in Windows : t.place[u] = Nobody => InPad(t, u)
    BY <1>1, <2>3 DEF Leaves, PadsKept, Housed
  <2> QED BY <1>1, <2>1, <2>2, <2>3 DEF Leaves, PadsKept, Housed
<1>7. ASSUME NEW q \in Defined(t), s.pads[q].solo # v PROVE Seen(t, q)
  <2>0. /\ t.pads[q].visible = s.pads[q].visible /\ t.pads[q].output = s.pads[q].output
        /\ t.pads[q].solo = s.pads[q].solo /\ q \in Defined(s) /\ Seen(s, q)
        /\ s.pads[q].solo \in Windows \cup {Nobody}
    BY <1>0, PadTypes DEF Leaves, PadsKept, Sound, PadRecords
  <2> SUFFICES ASSUME NEW u \in MembersOf(t, q) PROVE u \in t.shown <=> Presents(t, q, u)
    BY DEF Seen
  <2>1. u \in MembersOf(s, q) /\ u \in Windows \ {v}
    BY <1>0, <1>1, EntryFacts
  <2>2. u \in t.shown <=> Presents(s, q, u)
    BY <2>0, <2>1 DEF Leaves, Seen
  <2>3. s.pads[q].solo # Nobody =>
          (s.pads[q].solo \in Ancestors(t, u) <=> s.pads[q].solo \in Ancestors(s, u))
    BY <1>7, <2>0, <2>1 DEF Leaves
  <2> QED BY <2>0, <2>2, <2>3 DEF Presents
<1>8. \A q \in Defined(t) \ {p} : Seen(t, q) /\ Pointed(t, q)
  <2> SUFFICES ASSUME NEW q \in Defined(t) \ {p} PROVE Seen(t, q) /\ Pointed(t, q)
    OBVIOUS
  <2>0. q \in Defined(s) /\ t.pads[q] = s.pads[q] /\ Pointed(s, q)
    BY DEF Leaves, PadsKept
  <2>1. t.pads[q] = s.pads[q] /\ Pointed(s, q) /\ MembersOf(t, q) = MembersOf(s, q)
    BY <1>0, <1>1, <2>0
  <2>2. s.pads[q].solo # v
    BY <1>0, <2>0, ScreenAssumption DEF Pointed
  <2> QED BY <1>7, <2>1, <2>2 DEF Pointed
<1>9. t.pads[p].last \in MembersOf(t, p) \cup {Nobody}
  BY <1>1 DEF Leaves
<1>10. s.pads[p].solo # v => Pointed(t, p) /\ Seen(t, p)
  <2>1. Pointed(s, p) /\ p \in Defined(t)
    BY DEF PadsKept, Leaves
  <2> QED BY <1>1, <1>7, <1>9, <2>1 DEF Pointed, Leaves
<1>11. KeptBut(t, p)
  BY <1>2, <1>3, <1>4, <1>5, <1>6, <1>8 DEF KeptBut
<1> QED BY <1>9, <1>10, <1>11 DEF KeptBut, PadsKept

\* Once that pad hides if it showed the window alone, all is in order.
LEMMA LeftKeeps ==
  ASSUME NEW s, PadsKept(s), NEW p \in Defined(s), NEW v \in MembersOf(s, p), NEW t,
         Leaves(s, t, p, v), NEW emptied \in BOOLEAN, NEW u,
         u = IF (s.pads[p].solo = v \/ emptied) /\ t.pads[p].visible THEN Hides(t, p) ELSE t
  PROVE  PadsKept(u) /\ Holds(s, u)
<1>0. p \in Defined(t) /\ Sound(s) /\ v \in Windows /\ Defined(t) = Defined(s)
  BY KeptIs, EntryFacts DEF Leaves
<1>1. /\ KeptBut(t, p) /\ t.pads[p].last \in MembersOf(t, p) \cup {Nobody}
      /\ s.pads[p].solo # v => PadsKept(t)
  BY LeaveKeeps
<1>2. s.pads[p].solo = v => t.pads[p].visible
  BY <1>0, ScreenAssumption DEF PadsKept, Pointed, Leaves
<1>3. CASE u = Hides(t, p)
  <2>1. /\ PadsKept(u) /\ Yields(t, u, p) /\ ~u.pads[p].visible
    BY <1>0, <1>1, <1>3, HidesKeeps
  <2>2. Holds(t, u)
    BY <1>0, <1>1, <2>1, YieldsHolds DEF KeptBut
  <2>3. \A q \in Defined(s) : s.pads[q].solo = t.pads[q].solo
    BY DEF Leaves
  <2> QED BY <1>0, <2>1, <2>2, <2>3 DEF Holds
<1>4. CASE u = t /\ s.pads[p].solo # v
  BY <1>1, <1>4 DEF Holds, Leaves
<1> QED BY <1>2, <1>3, <1>4

\* A window goes back to an output that is on, or nowhere if none is.
LEMMA ReturnToIs ==
  ASSUME NEW s, Typed(s), NEW home \in Homes, NEW o \in s.lit \cup {Nobody}
  PROVE  LET w == ReturnTo(s, home, o)
         IN  /\ w \in Places \cup {Nobody} /\ (w # Nobody => w.on \in s.lit)
             /\ w = Nobody => o = Nobody \/ s.lit = {}
<1> DEFINE w == home.to
           out == IF w # Nobody /\ w.on \in s.lit THEN w.on ELSE o
           any == IF s.lit = {} THEN Nobody ELSE CHOOSE x \in s.lit : TRUE
           host == IF out \in s.lit THEN out ELSE any
           t == ReturnTo(s, home, o)
<1>0. /\ s.lit \subseteq Screens /\ w \in Places \cup {Nobody} /\ Nobody \notin Screens
      /\ \A x \in Screens, y \in Screens \cup {Nobody} :
           [on |-> x, for |-> y] \in Places /\ [on |-> x, for |-> y] # Nobody
  BY ScreenAssumption DEF Typed, Homes, Places
<1>1. out \in s.lit \cup {Nobody} /\ (out = Nobody => o = Nobody)
  BY <1>0
<1>2. host \in s.lit \cup {Nobody} /\ (host = Nobody => s.lit = {})
  <2>1. any \in s.lit \cup {Nobody} /\ (any = Nobody => s.lit = {})
    BY <1>0
  <2> HIDE DEF any, out
  <2> QED BY <1>0, <2>1
<1>3. t = IF w = Nobody \/ w.for = Nobody THEN (IF out = Nobody THEN Nobody ELSE Native(out))
          ELSE IF w.for \in s.lit THEN Native(w.for)
          ELSE IF home.held /\ w.on \in s.lit THEN w
          ELSE IF host = Nobody THEN Nobody ELSE RefugeOn(host, w.for)
  BY DEF ReturnTo
<1>4. w # Nobody => w.for \in Screens \cup {Nobody}
  BY <1>0 DEF Places
<1> HIDE DEF out, host, t, w
<1>5. CASE w = Nobody \/ w.for = Nobody
  BY <1>0, <1>1, <1>3, <1>5 DEF Native, t
<1>6. CASE w # Nobody /\ w.for # Nobody /\ w.for \in s.lit
  BY <1>0, <1>3, <1>6 DEF Native, t
<1>7. CASE w # Nobody /\ w.for # Nobody /\ w.for \notin s.lit /\ home.held /\ w.on \in s.lit
  BY <1>0, <1>3, <1>7 DEF t
<1>8. CASE w # Nobody /\ w.for # Nobody /\ w.for \notin s.lit /\ ~(home.held /\ w.on \in s.lit)
  <2>1. t = IF host = Nobody THEN Nobody ELSE RefugeOn(host, w.for)
    BY <1>3, <1>8
  <2> QED BY <1>0, <1>2, <1>4, <1>8, <2>1 DEF RefugeOn, t
<1> QED BY <1>5, <1>6, <1>7, <1>8

\* WithoutIs, for the entries of the manager.
LEMMA EntriesLeft ==
  ASSUME NEW s, Sound(s), NEW gone
  PROVE  LET t == Without(s.members, gone)
         IN  /\ t \in Seq(Entries) /\ Apart(t)
             /\ EntriesIn(t) = {e \in EntriesIn(s.members) : e.view \notin gone}
<1>1. s.members \in Seq(Entries) /\ Apart(s.members)
  BY DEF Sound, Typed, Distinct, Apart
<1> QED BY <1>1, WithoutIs

\* restoreView leaves everything in order.
LEMMA RestoreWindowIs ==
  ASSUME NEW s, PadsKept(s), NEW v, InPad(s, v), NEW focused \in BOOLEAN,
         NEW target \in {Native(x) : x \in s.lit} \cup {Nobody}
  PROVE  PadsKept(RestoreWindow(s, v, focused, target)) /\ Holds(s, RestoreWindow(s, v, focused, target))
<1> DEFINE home == EntryOf(s, v).home
           p == PadOf(s, v)
           o == s.pads[p].output
           w == IF target # Nobody THEN target ELSE ReturnTo(s, home, o)
           f == ForgetLastFocused(s, p, v)
           sh == IF w = Nobody THEN f.shown \ {v} ELSE f.shown \cup {v}
           re == f.restoring \/ (w # Nobody /\ w.for # Nobody)
           no == IF f.noted = v THEN Nobody ELSE f.noted
           out == [f EXCEPT !.members = Without(f.members, {v}), !.place[v] = w, !.noted = no,
                            !.shown = sh, !.restoring = re]
           hid == IF (s.pads[p].solo = v \/ MembersOf(out, p) = {}) /\ out.pads[p].visible
                  THEN Hides(out, p) ELSE out
           t == RestoreWindow(s, v, focused, target)
<1>0. /\ Sound(s) /\ v \in MembersOf(s, p) /\ p \in Defined(s) /\ v \in Windows
      /\ home \in Homes /\ EntryOf(s, v).pad = p /\ Pointed(s, p)
  BY KeptIs, EntryFacts DEF Entries
<1>1. t = IF focused THEN FocusWindow(hid, v) ELSE hid
  BY <1>0 DEF RestoreWindow, HideBereft, Hides
<1>2. /\ w \in Places \cup {Nobody} /\ (w # Nobody => w.on \in s.lit)
      /\ w = Nobody => s.restoring \/ s.lit = {}
  <2>1. o \in s.lit \cup {Nobody} /\ (o = Nobody => s.restoring \/ s.lit = {})
    BY <1>0 DEF PadsKept, Housed
  <2>2. LET x == ReturnTo(s, home, o)
        IN  /\ x \in Places \cup {Nobody} /\ (x # Nobody => x.on \in s.lit)
            /\ x = Nobody => o = Nobody \/ s.lit = {}
    BY <1>0, <2>1, ReturnToIs DEF Sound
  <2>3. CASE target = Nobody
    <3> HIDE DEF o, home
    <3> QED BY <2>1, <2>2, <2>3
  <2>4. CASE target # Nobody
    <3>1. PICK x \in s.lit : target = Native(x)
      BY <2>4
    <3>2. x \in Screens
      BY <1>0 DEF Sound, Typed
    <3> QED BY <2>4, <3>1, <3>2 DEF Native, Places
  <2> QED BY <2>3, <2>4
<1> HIDE DEF w, home, o, t
<1>3. /\ Sound(f) /\ Focuses(s, f) /\ f.noted = s.noted /\ f.focus = s.focus
      /\ \A q \in Defined(s) \ {p} : f.pads[q] = s.pads[q]
      /\ f.pads[p].last \in (MembersOf(s, p) \ {v}) \cup {Nobody}
      /\ f.pads[p].active = s.pads[p].active
  BY <1>0, ForgetIs
<1> HIDE DEF f, p
<1>4. /\ Without(f.members, {v}) \in Seq(Entries) /\ Apart(Without(f.members, {v}))
      /\ EntriesIn(Without(f.members, {v})) = {e \in EntriesIn(s.members) : e.view \notin {v}}
  <2>1. f.members = s.members
    BY <1>3 DEF Focuses
  <2>2. /\ Without(s.members, {v}) \in Seq(Entries) /\ Apart(Without(s.members, {v}))
        /\ EntriesIn(Without(s.members, {v})) = {e \in EntriesIn(s.members) : e.view \notin {v}}
    BY <1>0, EntriesLeft, Zenon
  <2> QED BY <2>1, <2>2
<1>5. /\ sh \in SUBSET Windows /\ re \in BOOLEAN /\ no \in Windows \cup {Nobody}
  BY <1>0, <1>3 DEF Sound, Typed
<1>6. /\ Typed(out) /\ out.members = Without(f.members, {v}) /\ out.noted = no /\ out.shown = sh
      /\ out.restoring = re /\ out.pads = f.pads /\ out.focus = f.focus /\ out.owner = f.owner
      /\ out.lit = f.lit /\ out.place = [f.place EXCEPT ![v] = w]
  <2> HIDE DEF sh, re, no
  <2> QED BY <1>0, <1>2, <1>3, <1>4, <1>5 DEF Sound, Typed, Fields
<1> HIDE DEF out
<1>7. /\ out.place[v] = w /\ \A u \in Windows \ {v} : out.place[u] = s.place[u]
  BY <1>0, <1>3, <1>6 DEF Sound, Typed, Focuses
<1>8. Leaves(s, out, p, v)
  <2>1. /\ Defined(out) = Defined(s) /\ out.lit = s.lit /\ (s.restoring => out.restoring)
        /\ out.noted = IF s.noted = v THEN Nobody ELSE s.noted
        /\ out.owner = s.owner
        /\ v \in out.shown => w # Nobody
        /\ \A u \in Windows \ {v} : u \in out.shown <=> u \in s.shown
    BY <1>3, <1>6 DEF Focuses, Defined
  <2>2. /\ \A q \in Defined(s) \ {p} : out.pads[q] = s.pads[q]
        /\ out.pads[p].visible = s.pads[p].visible /\ out.pads[p].output = s.pads[p].output
        /\ out.pads[p].solo = s.pads[p].solo /\ out.pads[p].active = s.pads[p].active
        /\ out.pads[p].last \in (MembersOf(s, p) \ {v}) \cup {Nobody}
    BY <1>0, <1>3, <1>6 DEF Focuses
  <2>3. Rooted(out) /\ \A u, x : x \in Ancestors(out, u) <=> x \in Ancestors(s, u)
    BY <2>1 DEF PadsKept, Linked, Rooted, Ancestors, Upward
  <2>4. out.place[v] # Unmapped
    BY <1>2, <1>7, ScreenAssumption
  <2>5. \A u \in Windows : out.owner[u] # Nobody => /\ out.place[u] # Unmapped
                                                    /\ out.place[out.owner[u]] # Unmapped
    <3> SUFFICES ASSUME NEW u \in Windows, s.owner[u] # Nobody
                 PROVE  out.place[u] # Unmapped /\ out.place[s.owner[u]] # Unmapped
      BY <2>1
    <3>1. s.owner[u] \in Windows
      BY <1>0 DEF Sound, Typed
    <3> QED BY <1>7, <2>4, <3>1 DEF PadsKept, Linked
  <2>6. /\ out.place[v] \in Places => out.place[v].on \in out.lit
        /\ out.place[v] = Nobody => out.restoring \/ out.lit = {}
    <3>1. w \in Places => w # Nobody
      BY ScreenAssumption
    <3> QED BY <1>2, <1>7, <2>1, <3>1
  <2> QED BY <1>4, <1>6, <1>7, <2>1, <2>2, <2>3, <2>4, <2>5, <2>6 DEF Leaves
<1>9. PadsKept(hid) /\ Holds(s, hid)
  <2> DEFINE E == MembersOf(out, p) = {}
  <2>1. E \in BOOLEAN
    OBVIOUS
  <2>2. hid = IF (s.pads[p].solo = v \/ E) /\ out.pads[p].visible THEN Hides(out, p) ELSE out
    OBVIOUS
  <2> HIDE DEF E, hid
  <2> QED BY <1>0, <1>8, <2>1, <2>2, LeftKeeps
<1> HIDE DEF hid
<1> QED BY <1>0, <1>1, <1>9, FocusWindowKeeps, FocusesHolds DEF t

-----------------------------------------------------------------------------
(* Windows map and unmap *)

\* What a window that is in no pad does touches no pad.
LEMMA AsideKeeps ==
  ASSUME NEW s, PadsKept(s), NEW v \in Windows, ~InPad(s, v), NEW t, Typed(t),
         t.pads = s.pads, t.members = s.members, t.noted = s.noted, t.lit = s.lit,
         s.restoring => t.restoring,
         \A u \in Windows \ {v} : t.place[u] = s.place[u] /\ (u \in t.shown <=> u \in s.shown),
         v \in t.shown => t.place[v] # Unmapped,
         t.place[v] \in Places => t.place[v].on \in t.lit,
         t.place[v] = Nobody => t.restoring \/ t.lit = {},
         Rooted(t),
         \A u \in Windows : t.owner[u] # Nobody => /\ t.place[u] # Unmapped
                                                   /\ t.place[t.owner[u]] # Unmapped,
         \A u, x \in Windows \ {v} : x \in Ancestors(t, u) <=> x \in Ancestors(s, u)
  PROVE  PadsKept(t)
<1>0. /\ Sound(s) /\ \A q : v \notin MembersOf(s, q) /\ MembersOf(s, q) \subseteq Windows
  BY KeptIs, EntryFacts
<1>1. /\ \A q : MembersOf(t, q) = MembersOf(s, q)
      /\ \A u : InPad(t, u) <=> InPad(s, u)
      /\ Defined(t) = Defined(s)
  BY SameEntries DEF Defined
<1>2. Sound(t)
  BY <1>0, <1>1 DEF Sound, Distinct
<1>3. Linked(t)
  <2> SUFFICES ASSUME NEW u \in Windows
               PROVE  /\ InPad(t, u) => t.place[u] = Nobody
                      /\ u \in t.shown => t.place[u] # Unmapped
    BY DEF Linked
  <2> QED BY <1>1 DEF PadsKept, Linked
<1>4. Noted(t) /\ OnePerOutput(t)
  BY <1>1 DEF PadsKept, Noted, OnePerOutput
<1>5. Housed(t)
  <2>1. \A u \in Windows : t.place[u] \in Places => t.place[u].on \in t.lit
    BY DEF PadsKept, Housed
  <2>2. ASSUME ~t.restoring, t.lit # {}
        PROVE  \A u \in Windows : t.place[u] = Nobody => InPad(t, u)
    BY <1>1, <2>2 DEF PadsKept, Housed
  <2> QED BY <1>1, <2>1, <2>2 DEF PadsKept, Housed
<1>6. ASSUME NEW q \in Defined(t) PROVE Seen(t, q) /\ Pointed(t, q)
  <2>0. q \in Defined(s) /\ Seen(s, q) /\ Pointed(s, q) /\ s.pads[q].solo # v
    BY <1>0, <1>1, ScreenAssumption DEF PadsKept, Pointed
  <2>1. Pointed(t, q)
    BY <1>1, <2>0 DEF Pointed
  <2>2. s.pads[q].solo \in Windows \cup {Nobody}
    BY <1>0, <2>0 DEF Pointed
  <2>3. ASSUME NEW u \in MembersOf(t, q) PROVE u \in t.shown <=> Presents(t, q, u)
    <3>1. u \in MembersOf(s, q) /\ u \in Windows \ {v}
      BY <1>0, <1>1
    <3>2. u \in t.shown <=> Presents(s, q, u)
      BY <2>0, <3>1 DEF Seen
    <3>3. s.pads[q].solo # Nobody =>
            (s.pads[q].solo \in Ancestors(t, u) <=> s.pads[q].solo \in Ancestors(s, u))
      BY <2>0, <2>2, <3>1
    <3> QED BY <3>2, <3>3 DEF Presents
  <2> QED BY <2>1, <2>3 DEF Seen
<1> QED BY <1>2, <1>3, <1>4, <1>5, <1>6 DEF PadsKept

\* A window that unmaps hands its dialogs to its parent.
Handed(s, v) ==
  [u \in Windows |-> IF u = v THEN Nobody ELSE IF s.owner[u] = v THEN s.owner[v] ELSE s.owner[u]]

\* Handing a window's dialogs to its parent changes nobody else's ancestors.
LEMMA Reparented ==
  ASSUME NEW s, NEW t, NEW v \in Windows, s.owner \in [Windows -> Windows \cup {Nobody}],
         t.owner = Handed(s, v)
  PROVE  /\ \A u, x \in Windows \ {v} : x \in Ancestors(t, u) <=> x \in Ancestors(s, u)
         /\ Rooted(s) => Rooted(t) /\ \A u \in Windows : t.owner[u] # v
<1> USE DEF Handed
<1>1. ASSUME NEW u \in Windows \ {v}, NEW x \in Windows \ {v}, x \in Ancestors(t, u)
      PROVE  x \in Ancestors(s, u)
  <2> SUFFICES ASSUME NEW S \in Upward(s), u \in S PROVE x \in S
    BY DEF Ancestors
  <2>1. S \in Upward(t)
    <3> SUFFICES ASSUME NEW y \in S, t.owner[y] # Nobody PROVE t.owner[y] \in S
      BY DEF Upward
    <3>1. y \in Windows /\ y # v /\ (s.owner[y] # Nobody => s.owner[y] \in S)
      BY DEF Upward
    <3>2. CASE s.owner[y] = v
      <4>1. v \in S /\ t.owner[y] = s.owner[v]
        BY <3>1, <3>2, ScreenAssumption
      <4> QED BY <4>1 DEF Upward
    <3>3. CASE s.owner[y] # v
      BY <3>1, <3>3
    <3> QED BY <3>2, <3>3
  <2> QED BY <1>1, <2>1 DEF Ancestors
<1>2. ASSUME NEW u \in Windows \ {v}, NEW x \in Windows \ {v}, x \in Ancestors(s, u)
      PROVE  x \in Ancestors(t, u)
  <2> SUFFICES ASSUME NEW S \in Upward(t), u \in S PROVE x \in S
    BY DEF Ancestors
  <2> DEFINE T == {y \in Windows : \/ y \in S /\ y # v
                                   \/ y = v /\ \E z \in S : z # v /\ s.owner[z] = v}
  <2>1. ASSUME NEW y \in T, s.owner[y] # Nobody PROVE s.owner[y] \in T
    <3>1. CASE y # v /\ s.owner[y] = v
      BY <2>1, <3>1
    <3>2. CASE y # v /\ s.owner[y] # v
      <4>1. t.owner[y] = s.owner[y] /\ y \in S
        BY <3>2
      <4>2. s.owner[y] \in S /\ s.owner[y] \in Windows
        BY <2>1, <4>1 DEF Upward
      <4> QED BY <3>2, <4>2
    <3>3. CASE y = v
      <4>1. PICK z \in S : z # v /\ s.owner[z] = v
        BY <3>3
      <4>2. z \in Windows /\ t.owner[z] = s.owner[v]
        BY <4>1 DEF Upward
      <4>3. s.owner[v] \in S /\ s.owner[v] \in Windows
        BY <2>1, <3>3, <4>2 DEF Upward
      <4> QED BY <3>3, <4>1, <4>3
    <3> QED BY <3>1, <3>2, <3>3
  <2>2. T \in Upward(s) /\ u \in T
    <3> HIDE DEF T
    <3>1. T \subseteq Windows
      BY DEF T
    <3>2. u \in T
      BY DEF T
    <3> QED BY <2>1, <3>1, <3>2 DEF Upward
  <2>3. x \in T
    <3> HIDE DEF T
    <3> QED BY <1>2, <2>2 DEF Ancestors
  <2> QED BY <2>3
<1>3. ASSUME Rooted(s) PROVE Rooted(t)
  <2> SUFFICES ASSUME NEW S \in SUBSET Windows, S # {} PROVE \E u \in S : t.owner[u] \notin S
    BY DEF Rooted
  <2> DEFINE T == S \ {v}
  <2>1. CASE T = {}
    <3>1. S = {v}
      BY <2>1
    <3>2. t.owner[v] = Nobody /\ Nobody \notin Windows
      BY ScreenAssumption
    <3> QED BY <3>1, <3>2
  <2>2. CASE T # {}
    <3>1. PICK u \in T \cup {v} : s.owner[u] \notin T \cup {v}
      <4>1. T \cup {v} \in SUBSET Windows /\ T \cup {v} # {}
        OBVIOUS
      <4> HIDE DEF T
      <4> QED BY <1>3, <4>1 DEF Rooted
    <3>2. PICK y \in T : s.owner[y] \notin T
      <4>1. T \in SUBSET Windows
        OBVIOUS
      <4> HIDE DEF T
      <4> QED BY <1>3, <2>2, <4>1 DEF Rooted
    <3>3. CASE u # v
      BY <3>1, <3>3
    <3>4. CASE u = v /\ s.owner[y] = v
      BY <3>1, <3>2, <3>4
    <3>5. CASE s.owner[y] # v
      BY <3>2, <3>5
    <3> QED BY <3>3, <3>4, <3>5
  <2> QED BY <2>1, <2>2
<1>4. ASSUME Rooted(s), NEW u \in Windows PROVE t.owner[u] # v
  <2>1. s.owner[v] # v
    <3>1. {v} \in SUBSET Windows /\ {v} # {}
      OBVIOUS
    <3>2. \E y \in {v} : s.owner[y] \notin {v}
      BY <1>4, <3>1 DEF Rooted
    <3> QED BY <3>2
  <2> QED BY <2>1, ScreenAssumption
<1> QED BY <1>1, <1>2, <1>3, <1>4

\* v is gone; its dialogs are those of its parent.
Gone(s, v) ==
  [s EXCEPT !.place[v] = Unmapped, !.shown = @ \ {v}, !.focus = IF @ = v THEN Nobody ELSE @,
            !.owner = [u \in Windows |-> IF u = v THEN Nobody
                                         ELSE IF @[u] = v THEN @[v] ELSE @[u]]]

\* What is left of a window that unmaps.
LEMMA GoneIs ==
  ASSUME NEW s, Typed(s), NEW v \in Windows
  PROVE  LET t == Gone(s, v)
         IN  /\ Typed(t) /\ t.pads = s.pads /\ t.members = s.members /\ t.noted = s.noted
             /\ t.lit = s.lit /\ t.restoring = s.restoring
             /\ t.place = [s.place EXCEPT ![v] = Unmapped] /\ t.shown = s.shown \ {v}
             /\ t.owner = Handed(s, v)
<1> DEFINE f == IF s.focus = v THEN Nobody ELSE s.focus
           ow == Handed(s, v)
<1>1. f \in Windows \cup {Nobody} /\ ow \in [Windows -> Windows \cup {Nobody}]
  BY DEF Typed, Handed
<1>2. Gone(s, v) = [s EXCEPT !.place[v] = Unmapped, !.shown = s.shown \ {v}, !.focus = f, !.owner = ow]
  BY DEF Gone, Typed, Fields, Handed
<1> HIDE DEF f, ow
<1>3. LET t == [s EXCEPT !.place[v] = Unmapped, !.shown = s.shown \ {v}, !.focus = f, !.owner = ow]
      IN  /\ Typed(t) /\ t.pads = s.pads /\ t.members = s.members /\ t.noted = s.noted
          /\ t.lit = s.lit /\ t.restoring = s.restoring
          /\ t.place = [s.place EXCEPT ![v] = Unmapped] /\ t.shown = s.shown \ {v}
          /\ t.owner = ow
  BY <1>1 DEF Typed, Fields
<1> QED BY <1>2, <1>3 DEF ow

\* It makes no difference whether a pad hides before the window is gone or after.
LEMMA GoneCommutes ==
  ASSUME NEW s, Typed(s), NEW v \in Windows, NEW p \in Defined(s)
  PROVE  Gone(Hides(s, p), v) = Hides(Gone(s, v), p)
<1> DEFINE r == Turned(s.pads[p], FALSE)
           H(x) == [x EXCEPT !.pads[p] = r, !.shown = x.shown \ MembersOf(s, p)]
<1>0. s.pads[p] \in PadRecords /\ p \in Pads
  BY PadTypes
<1>1. r \in PadRecords /\ ~r.visible
  BY <1>0, TurnedIs
<1> HIDE DEF r
<1>2. ASSUME NEW x, Typed(x), x.pads = s.pads, x.members = s.members PROVE Hides(x, p) = H(x)
  <2> DEFINE y == [x EXCEPT !.pads[p] = r]
  <2>1. Hides(x, p) = Present(y, p)
    BY <1>2 DEF Hides, SetVisible, r, Typed, Fields
  <2>2. y.pads[p] = r /\ y.members = s.members /\ y.shown = x.shown
    BY <1>0, <1>2 DEF Typed, Fields
  <2>3. MembersOf(y, p) = MembersOf(s, p)
    BY <2>2, SameEntries
  <2>4. PresentedBy(y, p) = {}
    BY <1>1, <2>2 DEF PresentedBy, Presents
  <2>5. Present(y, p) = [y EXCEPT !.shown = (y.shown \ MembersOf(y, p)) \cup PresentedBy(y, p)]
    BY DEF Present
  <2>6. Present(y, p) = [y EXCEPT !.shown = x.shown \ MembersOf(s, p)]
    <3> HIDE DEF y
    <3> QED BY <2>2, <2>3, <2>4, <2>5
  <2> QED BY <1>2, <2>1, <2>6 DEF Typed, Fields
<1>3. Hides(s, p) = H(s)
  BY <1>2
<1>4. Hides(Gone(s, v), p) = H(Gone(s, v))
  BY <1>2, GoneIs, ZenonT(60)
<1>5. Gone(H(s), v) = H(Gone(s, v))
  <2> DEFINE M == MembersOf(s, p)
             f == IF s.focus = v THEN Nobody ELSE s.focus
             ow == Handed(s, v)
             h == [s EXCEPT !.pads[p] = r, !.shown = s.shown \ M]
             g == [s EXCEPT !.place[v] = Unmapped, !.shown = s.shown \ {v}, !.focus = f, !.owner = ow]
  <2>1. H(s) = h
    OBVIOUS
  <2>2. Gone(s, v) = g
    BY DEF Gone, Typed, Fields, Handed
  <2>3. /\ h.place = s.place /\ h.shown = s.shown \ M /\ h.focus = s.focus /\ h.owner = s.owner
        /\ DOMAIN h = DOMAIN s
    BY DEF Typed, Fields
  <2>4. Gone(h, v) = [h EXCEPT !.place[v] = Unmapped, !.shown = (s.shown \ M) \ {v}, !.focus = f,
                               !.owner = ow]
    <3> HIDE DEF h
    <3> QED BY <2>3 DEF Gone, Typed, Fields, Handed
  <2>5. g.shown = s.shown \ {v} /\ g.pads = s.pads /\ DOMAIN g = DOMAIN s
    BY DEF Typed, Fields
  <2>6. H(g) = [g EXCEPT !.pads[p] = r, !.shown = (s.shown \ {v}) \ M]
    <3> HIDE DEF g
    <3> QED BY <2>5 DEF Typed, Fields
  <2>7. (s.shown \ {v}) \ M = (s.shown \ M) \ {v}
    OBVIOUS
  <2> DEFINE X(S) == [h EXCEPT !.place[v] = Unmapped, !.shown = S, !.focus = f, !.owner = ow]
             Y(S) == [g EXCEPT !.pads[p] = r, !.shown = S]
  <2>8. ASSUME NEW S PROVE X(S) = Y(S)
    <3> HIDE DEF f, ow, M
    <3> QED BY DEF Typed, Fields
  <2> HIDE DEF h, g, M, f, ow, H
  <2> QED BY <2>1, <2>2, <2>4, <2>6, <2>7, <2>8
<1> QED BY <1>3, <1>4, <1>5

\* Dialogs and parents are mapped after one of them unmapped.
LEMMA OwnersGone ==
  ASSUME NEW s, PadsKept(s), NEW v \in Windows, NEW t,
         t.owner = Handed(s, v),
         \A u \in Windows \ {v} : t.place[u] = s.place[u]
  PROVE  /\ Rooted(t)
         /\ \A u \in Windows : t.owner[u] # Nobody => /\ t.place[u] # Unmapped
                                                      /\ t.place[t.owner[u]] # Unmapped
         /\ \A u, x \in Windows \ {v} : x \in Ancestors(t, u) <=> x \in Ancestors(s, u)
<1>0. s.owner \in [Windows -> Windows \cup {Nobody}] /\ Rooted(s)
  BY DEF PadsKept, Sound, Typed, Linked
<1>1. /\ \A u, x \in Windows \ {v} : x \in Ancestors(t, u) <=> x \in Ancestors(s, u)
      /\ Rooted(t) /\ \A u \in Windows : t.owner[u] # v
  BY <1>0, Reparented
<1>2. ASSUME NEW u \in Windows, t.owner[u] # Nobody
      PROVE  t.place[u] # Unmapped /\ t.place[t.owner[u]] # Unmapped
  <2>1. u # v
    BY <1>2 DEF Handed
  <2>2. t.owner[u] # v /\ t.owner[u] \in Windows /\ s.owner[u] # Nobody
    BY <1>0, <1>1, <1>2, <2>1, ScreenAssumption DEF Handed
  <2>3. t.owner[u] = s.owner[u] \/ (t.owner[u] = s.owner[v] /\ s.owner[v] # Nobody)
    <3>1. t.owner[u] = IF s.owner[u] = v THEN s.owner[v] ELSE s.owner[u]
      BY <2>1 DEF Handed
    <3> QED BY <1>2, <3>1
  <2> QED BY <2>1, <2>2, <2>3 DEF PadsKept, Linked
<1> QED BY <1>1, <1>2

\* handleUnmap leaves everything in order.
LEMMA UnmapIs ==
  ASSUME NEW s, PadsKept(s), NEW v \in Windows
  PROVE  LET t == Gone(IF InPad(s, v) THEN RemoveWindow(s, v) ELSE s, v)
         IN  PadsKept(t) /\ Holds(s, t)
<1>0. Sound(s)
  BY KeptIs
<1>1. CASE ~InPad(s, v)
  <2> DEFINE t == Gone(s, v)
  <2>1. /\ Typed(t) /\ t.pads = s.pads /\ t.members = s.members /\ t.noted = s.noted
        /\ t.lit = s.lit /\ t.restoring = s.restoring
        /\ t.place = [s.place EXCEPT ![v] = Unmapped] /\ t.shown = s.shown \ {v}
        /\ t.owner = Handed(s, v)
    BY <1>0, GoneIs DEF Sound
  <2> HIDE DEF t
  <2>2. t.place[v] = Unmapped /\ \A u \in Windows \ {v} : t.place[u] = s.place[u]
    BY <1>0, <2>1 DEF Sound, Typed
  <2>3. /\ Rooted(t)
        /\ \A u \in Windows : t.owner[u] # Nobody => /\ t.place[u] # Unmapped
                                                     /\ t.place[t.owner[u]] # Unmapped
        /\ \A u, x \in Windows \ {v} : x \in Ancestors(t, u) <=> x \in Ancestors(s, u)
    BY <2>1, <2>2, OwnersGone
  <2>4. Unmapped \notin Places /\ Unmapped # Nobody
    BY ScreenAssumption
  <2>5. PadsKept(t)
    BY <1>1, <2>1, <2>2, <2>3, <2>4, AsideKeeps
  <2>6. Holds(s, t)
    BY <2>1 DEF Holds
  <2> QED BY <1>1, <2>5, <2>6 DEF t
<1>2. CASE InPad(s, v)
  <2> DEFINE p == PadOf(s, v)
             f == ForgetLastFocused(s, p, v)
             no == IF f.noted = v THEN Nobody ELSE f.noted
             out == [f EXCEPT !.members = Without(f.members, {v}), !.noted = no]
             z == Gone(out, v)
             E == FALSE
             t == Gone(RemoveWindow(s, v), v)
  <2>0. p \in Defined(s) /\ v \in MembersOf(s, p) /\ Pointed(s, p)
    BY <1>2, KeptIs, EntryFacts
  <2>1. RemoveWindow(s, v) = IF (s.pads[p].solo = v \/ E) /\ out.pads[p].visible
                             THEN Hides(out, p) ELSE out
    BY DEF RemoveWindow, HideBereft, Hides
  <2> HIDE DEF p
  <2>2. /\ Sound(f) /\ Focuses(s, f) /\ f.noted = s.noted
        /\ \A q \in Defined(s) \ {p} : f.pads[q] = s.pads[q]
        /\ f.pads[p].last \in (MembersOf(s, p) \ {v}) \cup {Nobody}
        /\ f.pads[p].active = s.pads[p].active
    BY <1>0, <2>0, ForgetIs
  <2> HIDE DEF f
  <2>3. /\ Without(f.members, {v}) \in Seq(Entries) /\ Apart(Without(f.members, {v}))
        /\ EntriesIn(Without(f.members, {v})) = {e \in EntriesIn(s.members) : e.view \notin {v}}
    <3>1. f.members = s.members
      BY <2>2 DEF Focuses
    <3>2. /\ Without(s.members, {v}) \in Seq(Entries) /\ Apart(Without(s.members, {v}))
          /\ EntriesIn(Without(s.members, {v})) = {e \in EntriesIn(s.members) : e.view \notin {v}}
      BY <1>0, EntriesLeft, Zenon
    <3> QED BY <3>1, <3>2
  <2>4. no \in Windows \cup {Nobody}
    BY <2>2 DEF Sound, Typed
  <2>5. /\ Typed(out) /\ out.members = Without(f.members, {v}) /\ out.noted = no
        /\ out.shown = f.shown /\ out.restoring = f.restoring /\ out.pads = f.pads
        /\ out.owner = f.owner /\ out.lit = f.lit /\ out.place = f.place
    <3> HIDE DEF no
    <3> QED BY <2>2, <2>3, <2>4 DEF Sound, Typed, Fields
  <2> HIDE DEF out
  <2>6. Defined(out) = Defined(s) /\ p \in Defined(out)
    BY <2>0, <2>2, <2>5 DEF Focuses, Defined
  <2>7. t = IF (s.pads[p].solo = v \/ E) /\ z.pads[p].visible THEN Hides(z, p) ELSE z
    <3>1. z.pads = out.pads
      BY <2>5, GoneIs
    <3>2. Gone(Hides(out, p), v) = Hides(z, p)
      BY <2>5, <2>6, GoneCommutes
    <3> HIDE DEF z, E
    <3> QED BY <2>1, <3>1, <3>2 DEF z
  <2> HIDE DEF t
  <2>8. /\ Typed(z) /\ z.pads = out.pads /\ z.members = out.members /\ z.noted = out.noted
        /\ z.lit = out.lit /\ z.restoring = out.restoring
        /\ z.place = [out.place EXCEPT ![v] = Unmapped] /\ z.shown = out.shown \ {v}
        /\ z.owner = Handed(out, v)
    BY <2>5, GoneIs
  <2> HIDE DEF z
  <2>9. Leaves(s, z, p, v)
    <3>1. /\ Defined(z) = Defined(s) /\ z.lit = s.lit /\ (s.restoring => z.restoring)
          /\ z.noted = IF s.noted = v THEN Nobody ELSE s.noted
          /\ z.place[v] = Unmapped
          /\ \A u \in Windows \ {v} : z.place[u] = s.place[u] /\ (u \in z.shown <=> u \in s.shown)
          /\ v \notin z.shown
          /\ z.owner = Handed(s, v)
      BY <1>0, <2>2, <2>5, <2>6, <2>8 DEF Focuses, Defined, Sound, Typed, Handed
    <3>2. /\ \A q \in Defined(s) \ {p} : z.pads[q] = s.pads[q]
          /\ z.pads[p].visible = s.pads[p].visible /\ z.pads[p].output = s.pads[p].output
          /\ z.pads[p].solo = s.pads[p].solo /\ z.pads[p].active = s.pads[p].active
          /\ z.pads[p].last \in (MembersOf(s, p) \ {v}) \cup {Nobody}
      BY <2>0, <2>2, <2>5, <2>8 DEF Focuses
    <3>3. /\ Rooted(z)
          /\ \A u \in Windows : z.owner[u] # Nobody => /\ z.place[u] # Unmapped
                                                       /\ z.place[z.owner[u]] # Unmapped
          /\ \A u, x \in Windows \ {v} : x \in Ancestors(z, u) <=> x \in Ancestors(s, u)
      BY <3>1, OwnersGone
    <3>4. Unmapped \notin Places /\ Unmapped # Nobody
      BY ScreenAssumption
    <3>5. /\ Typed(z) /\ Apart(z.members)
          /\ EntriesIn(z.members) = {e \in EntriesIn(s.members) : e.view \notin {v}}
      BY <2>3, <2>5, <2>8
    <3>6. /\ Defined(z) = Defined(s) /\ z.lit = s.lit /\ (s.restoring => z.restoring)
          /\ z.noted = IF s.noted = v THEN Nobody ELSE s.noted
          /\ z.place[v] = Unmapped
          /\ \A u \in Windows \ {v} : z.place[u] = s.place[u] /\ (u \in z.shown <=> u \in s.shown)
          /\ v \notin z.shown
      BY <3>1
    <3> QED BY <3>2, <3>3, <3>4, <3>5, <3>6 DEF Leaves
  <2>10. E \in BOOLEAN
    OBVIOUS
  <2> HIDE DEF E
  <2> QED BY <1>2, <2>0, <2>7, <2>9, <2>10, LeftKeeps DEF t
<1> QED BY <1>1, <1>2

-----------------------------------------------------------------------------
(* Windows enter pads *)

\* Pads other than p do not come up, and a pad that shows one window alone goes on to, or hides.
Steady(s, t, p) ==
  /\ Defined(t) = Defined(s)
  /\ \A q \in Defined(s) \ {p} :
       t.pads[q].visible => s.pads[q].visible /\ (s.pads[q].solo # Nobody => t.pads[q].solo # Nobody)
  /\ s.pads[p].solo # Nobody => t.pads[p].solo # Nobody

\* Steadiness is transitive.
LEMMA SteadyTwice ==
  ASSUME NEW s, NEW t, NEW u, NEW p, Steady(s, t, p), Steady(t, u, p)
  PROVE  Steady(s, u, p)
BY DEF Steady

\* A steady pad does not spread.
LEMMA SteadyHolds ==
  ASSUME NEW s, NEW t, NEW p, Steady(s, t, p)
  PROVE  Holds(s, t)
BY DEF Steady, Holds

\* A pad that goes on showing one window alone is steady.
LEMMA YieldsSteady ==
  ASSUME NEW s, NEW t, NEW p, Sound(s), Yields(s, t, p),
         s.pads[p].solo # Nobody => t.pads[p].solo # Nobody
  PROVE  Steady(s, t, p)
<1>1. Defined(t) = Defined(s)
  BY DEF Yields, OnlyPads
<1>2. \A q \in Defined(s) \ {p} : t.pads[q].visible => t.pads[q] = s.pads[q]
  BY YieldsKeeps
<1> QED BY <1>1, <1>2 DEF Steady

\* The focus moves no pad.
LEMMA FocusesSteady ==
  ASSUME NEW s, NEW t, NEW p \in Defined(s), Focuses(s, t)
  PROVE  Steady(s, t, p)
BY DEF Steady, Focuses

\* A pad shows what it has to, and goes on showing or not.
Settles(s, p) == SetVisible(s, p, s.pads[p].visible)

\* A pad that settles keeps its record and shows what it has to.
LEMMA SettlesIs ==
  ASSUME NEW s, Sound(s), NEW p \in Defined(s),
         s.pads[p].solo # Nobody \/ s.pads[p].active => s.pads[p].visible
  PROVE  LET t == Settles(s, p)
         IN  Yields(s, t, p) /\ Seen(t, p) /\ \A q \in Defined(s) : t.pads[q] = s.pads[q]
<1> DEFINE on == s.pads[p].visible
           t == SetVisible(s, p, on)
<1>1. s.pads[p] \in PadRecords /\ on \in BOOLEAN
  BY PadTypes DEF Sound, PadRecords
<1>2. Turned(s.pads[p], on) = s.pads[p]
  BY <1>1 DEF Turned, PadRecords
<1> HIDE DEF on
<1>3. /\ Yields(s, t, p) /\ Seen(t, p) /\ t.pads[p] = Turned(s.pads[p], on)
      /\ \A q \in Defined(s) \ {p} : t.pads[q] = s.pads[q]
  BY <1>1, SetVisibleIs
<1> HIDE DEF t
<1>4. Yields(s, t, p) /\ Seen(t, p) /\ \A q \in Defined(s) : t.pads[q] = s.pads[q]
  BY <1>2, <1>3
<1> QED BY <1>4 DEF t, on, Settles

\* Settling the one pad that is out of order mends it.
LEMMA SettlesKeeps ==
  ASSUME NEW s, NEW p \in Defined(s), KeptBut(s, p), Pointed(s, p)
  PROVE  /\ PadsKept(Settles(s, p)) /\ Yields(s, Settles(s, p), p)
         /\ \A q \in Defined(s) : Settles(s, p).pads[q] = s.pads[q]
<1> DEFINE t == Settles(s, p)
<1>1. Yields(s, t, p) /\ Seen(t, p) /\ \A q \in Defined(s) : t.pads[q] = s.pads[q]
  BY SettlesIs DEF KeptBut, Pointed
<1> HIDE DEF t
<1>2. OnePerOutput(t) /\ Pointed(t, p)
  BY <1>1, SameEntries DEF KeptBut, OnePerOutput, Pointed, Yields, OnlyPads
<1>3. t.pads[p].output \in s.lit \cup {Nobody}
  BY <1>1 DEF KeptBut, Housed
<1>4. PadsKept(t)
  BY <1>1, <1>2, <1>3, YieldsKept
<1> QED BY <1>1, <1>4 DEF t

\* v joins p.
Enters(s, v, p, home) ==
  [s EXCEPT !.members = Append(@, [view |-> v, pad |-> p, home |-> home]), !.place[v] = Nobody]

\* A window that joins a pad leaves at most that pad out of order.
LEMMA EntersIs ==
  ASSUME NEW s, PadsKept(s), NEW v \in Windows, ~InPad(s, v), s.place[v] # Unmapped,
         NEW p \in Defined(s), s.pads[p].output # Nobody, NEW home \in Homes
  PROVE  LET t == Enters(s, v, p, home)
         IN  /\ KeptBut(t, p) /\ Pointed(t, p) /\ t.pads = s.pads /\ v \in MembersOf(t, p)
             /\ Defined(t) = Defined(s) /\ t.focus = s.focus
<1> DEFINE e == [view |-> v, pad |-> p, home |-> home]
           n == Len(s.members)
           t == Enters(s, v, p, home)
<1>0. /\ Sound(s) /\ p \in Pads /\ \A q : v \notin MembersOf(s, q)
      /\ s.members \in Seq(Entries) /\ n \in Nat /\ DOMAIN s.members = 1..n
  BY KeptIs, EntryFacts DEF Sound, Typed, Defined
<1>1. e \in Entries /\ e.view = v /\ e.pad = p
  BY <1>0 DEF Entries
<1>2. t = [s EXCEPT !.members = Append(s.members, e), !.place[v] = Nobody]
  BY DEF Enters, Sound, Typed, Fields
<1> HIDE DEF e, n
<1>3. /\ Typed(t) /\ t.members = Append(s.members, e) /\ t.place = [s.place EXCEPT ![v] = Nobody]
      /\ t.noted = s.noted /\ t.focus = s.focus /\ t.shown = s.shown /\ t.pads = s.pads
      /\ t.owner = s.owner /\ t.lit = s.lit /\ t.restoring = s.restoring
  <2>1. Append(s.members, e) \in Seq(Entries)
    BY <1>0, <1>1
  <2> HIDE DEF t
  <2> QED BY <1>0, <1>2, <2>1 DEF Sound, Typed, Fields
<1> HIDE DEF t
<1>4. /\ DOMAIN t.members = 1..(n + 1) /\ t.members[n + 1] = e
      /\ \A i \in 1..n : t.members[i] = s.members[i]
  BY <1>0, <1>1, <1>3 DEF n
<1>5. Defined(t) = Defined(s)
  BY <1>3 DEF Defined
<1>6. /\ MembersOf(t, p) = MembersOf(s, p) \cup {v}
      /\ \A q : q # p => MembersOf(t, q) = MembersOf(s, q)
      /\ \A u : InPad(t, u) <=> InPad(s, u) \/ u = v
  BY <1>0, <1>1, <1>4 DEF MembersOf, EntriesOf, InPad
<1>7. Sound(t)
  <2>1. \A i \in DOMAIN t.members : t.members[i].pad \in Defined(t)
    BY <1>0, <1>1, <1>4, <1>5 DEF Sound, Distinct
  <2>2. ASSUME NEW i \in DOMAIN t.members, NEW j \in DOMAIN t.members,
               t.members[i].view = t.members[j].view
        PROVE  i = j
    <3>1. \A k \in 1..n : s.members[k].view # v
      BY <1>0 DEF InPad
    <3> QED BY <1>0, <1>1, <1>4, <2>2, <3>1, SMTT(20) DEF Sound, Distinct
  <2> QED BY <1>3, <2>1, <2>2 DEF Sound, Distinct
<1>8. t.place[v] = Nobody /\ \A u \in Windows \ {v} : t.place[u] = s.place[u]
  BY <1>0, <1>3 DEF Sound, Typed
<1>9. Linked(t)
  <2>1. Rooted(t)
    BY <1>3 DEF PadsKept, Linked, Rooted
  <2>2. Unmapped # Nobody
    BY ScreenAssumption
  <2>3. \A u \in Windows : t.place[u] = Unmapped => s.place[u] = Unmapped
    BY <1>8, <2>2
  <2>4. ASSUME NEW u \in Windows, t.owner[u] # Nobody
        PROVE  t.place[u] # Unmapped /\ t.place[t.owner[u]] # Unmapped
    <3>1. s.owner[u] \in Windows
      BY <1>0, <1>3, <2>4 DEF Sound, Typed
    <3> QED BY <1>3, <2>3, <2>4, <3>1 DEF PadsKept, Linked
  <2>5. ASSUME NEW u \in Windows
        PROVE  /\ InPad(t, u) => t.place[u] = Nobody
               /\ u \in t.shown => t.place[u] # Unmapped
    BY <1>3, <1>6, <1>8, <2>2 DEF PadsKept, Linked
  <2> QED BY <2>1, <2>4, <2>5 DEF Linked
<1>10. Noted(t) /\ OnePerOutput(t)
  BY <1>3, <1>5, <1>6 DEF PadsKept, Noted, OnePerOutput
<1>11. Housed(t)
  <2>1. Nobody \notin Places
    BY ScreenAssumption
  <2>2. \A u \in Windows : t.place[u] \in Places => t.place[u].on \in t.lit
    BY <1>3, <1>8, <2>1 DEF PadsKept, Housed
  <2>3. ASSUME ~t.restoring, t.lit # {}
        PROVE  /\ \A u \in Windows : t.place[u] = Nobody => InPad(t, u)
               /\ \A q \in Defined(t) : MembersOf(t, q) # {} => t.pads[q].output # Nobody
    BY <1>3, <1>5, <1>6, <1>8, <2>3 DEF PadsKept, Housed
  <2> QED BY <1>3, <1>5, <2>2, <2>3 DEF PadsKept, Housed
<1>12. \A q \in Defined(t) \ {p} : Seen(t, q) /\ Pointed(t, q)
  <2> SUFFICES ASSUME NEW q \in Defined(t) \ {p} PROVE Seen(t, q) /\ Pointed(t, q)
    OBVIOUS
  <2>0. t.owner = s.owner /\ t.pads = s.pads
    BY <1>3
  <2>1. \A u : Presents(t, q, u) = Presents(s, q, u)
    BY <2>0, PresentsFrame
  <2> QED BY <1>3, <1>5, <1>6, <2>1 DEF PadsKept, Seen, Pointed
<1>13. Pointed(t, p) /\ v \in MembersOf(t, p)
  BY <1>3, <1>6 DEF PadsKept, Pointed
<1> QED BY <1>3, <1>5, <1>7, <1>9, <1>10, <1>11, <1>12, <1>13 DEF KeptBut, t

\* Moving a pad leaves everything in order.
LEMMA MovesKeeps ==
  ASSUME NEW s, PadsKept(s), NEW p \in Defined(s), NEW o \in s.lit
  PROVE  /\ PadsKept(Moves(s, p, o)) /\ Yields(s, Moves(s, p, o), p)
         /\ Moves(s, p, o).pads[p].output = o /\ Moves(s, p, o).pads[p].solo = s.pads[p].solo
<1> DEFINE t == Moves(s, p, o)
<1>0. Sound(s) /\ KeptBut(s, p) /\ OnePerOutput(s) /\ o \in Screens \cup {Nobody} /\ o # Nobody
  BY KeptIs, ScreenAssumption DEF PadsKept, Sound, Typed
<1>1. /\ Yields(s, t, p) /\ OnePerOutput(t) /\ t.pads[p].output = o
      /\ t.pads[p].visible = s.pads[p].visible /\ t.pads[p].active = s.pads[p].active
      /\ t.pads[p].last = s.pads[p].last /\ t.pads[p].solo = s.pads[p].solo
      /\ Seen(s, p) => Seen(t, p)
  BY <1>0, MovesIs
<1> HIDE DEF t
<1>2. Seen(t, p)
  BY <1>1 DEF PadsKept
<1>3. Pointed(t, p)
  <2>1. MembersOf(t, p) = MembersOf(s, p)
    BY <1>1, SameEntries DEF Yields, OnlyPads
  <2> QED BY <1>1, <2>1 DEF PadsKept, Pointed
<1>4. PadsKept(t)
  BY <1>0, <1>1, <1>2, <1>3, YieldsKept
<1> QED BY <1>1, <1>4 DEF t

\* A pad that is not to be seen anywhere.
Idle(s, p) == ~s.pads[p].visible \/ s.pads[p].output = Nobody

\* admit leaves everything in order, for a window that was in no pad.
LEMMA AdmitNewIs ==
  ASSUME NEW s, PadsKept(s), NEW v \in Windows, ~InPad(s, v), s.place[v] # Unmapped,
         NEW p \in Defined(s), NEW o, NEW interactive \in BOOLEAN, NEW home \in Homes,
         Idle(s, p) => o \in s.lit
  PROVE  LET t == AdmitNew(s, v, p, o, interactive, home)
         IN  PadsKept(t) /\ Steady(s, t, p) /\ v \in MembersOf(t, p) /\ t.lit = s.lit
<1> DEFINE m == IF ~s.pads[p].visible \/ s.pads[p].output = Nobody THEN Moves(s, p, o) ELSE s
           source == IF s.place[v] = Nobody THEN Nobody ELSE s.place[v].on
           b == Enters(m, v, p, home)
           u == MemberFor(b, v, p)
           a == [b.pads[p] EXCEPT !.solo = u]
           c == IF b.pads[p].solo # Nobody /\ interactive THEN [b EXCEPT !.pads[p] = a] ELSE b
           d == Settles(c, p)
           t == AdmitNew(s, v, p, o, interactive, home)
<1>1. /\ PadsKept(m) /\ Yields(s, m, p) /\ m.pads[p].output # Nobody
      /\ m.pads[p].solo = s.pads[p].solo
  <2>1. CASE ~s.pads[p].visible \/ s.pads[p].output = Nobody
    <3>1. m = Moves(s, p, o) /\ o \in s.lit
      BY <2>1 DEF Idle
    <3> HIDE DEF m
    <3>2. o # Nobody
      BY <3>1, ScreenAssumption DEF PadsKept, Sound, Typed
    <3> QED BY <3>1, <3>2, MovesKeeps
  <2>2. CASE ~(~s.pads[p].visible \/ s.pads[p].output = Nobody)
    BY <2>2, YieldsNothing DEF PadsKept
  <2> QED BY <2>1, <2>2
<1>2. /\ PadsKept(m) /\ ~InPad(m, v) /\ m.place[v] # Unmapped /\ p \in Defined(m)
      /\ m.focus = s.focus /\ m.lit = s.lit /\ Sound(m)
  BY <1>1, SameEntries DEF Yields, OnlyPads, PadsKept
<1>3. t = IF interactive \/ (s.focus = v /\ ~Presents(d, p, v)) THEN Refocus(d, source) ELSE d
  <2> DEFINE c2 == IF b.pads[p].solo # Nobody /\ interactive
                   THEN [b EXCEPT !.pads[p].solo = MemberFor(b, v, p)] ELSE b
             d2 == Settles(c2, p)
  <2>2. t = IF interactive \/ (s.focus = v /\ ~Presents(d2, p, v)) THEN Refocus(d2, source) ELSE d2
    BY DEF AdmitNew, Moves, Settles, Enters
  <2>3. [b EXCEPT !.pads[p].solo = u] = [b EXCEPT !.pads[p] = a]
    <3>1. LET x == Enters(m, v, p, home) IN KeptBut(x, p) /\ Defined(x) = Defined(m)
      BY <1>1, <1>2, EntersIs
    <3>2. Sound(b) /\ p \in Defined(b)
      BY <1>2, <3>1 DEF KeptBut
    <3>3. p \in Pads
      BY <3>2, PadTypes DEF Sound
    <3> HIDE DEF b, u
    <3> QED BY <3>2, <3>3 DEF Sound, Typed, Fields
  <2>4. c2 = c
    <3> HIDE DEF b
    <3> QED BY <2>3
  <2> HIDE DEF c, c2, b, t
  <2> QED BY <2>2, <2>4
<1> HIDE DEF m, t, source
<1>4. /\ KeptBut(b, p) /\ Pointed(b, p) /\ b.pads = m.pads /\ v \in MembersOf(b, p)
      /\ Defined(b) = Defined(m) /\ b.focus = m.focus
  BY <1>1, <1>2, EntersIs
<1> HIDE DEF b
<1>5. Sound(b) /\ p \in Defined(b) /\ b.pads[p] \in PadRecords /\ OnePerOutput(b)
  BY <1>2, <1>4, PadTypes DEF KeptBut, Sound
<1>6. u \in MembersOf(b, p) /\ u \in Windows /\ u # Nobody
  <2>1. u \in MembersOf(b, p)
    BY <1>4, <1>5, MemberForIs
  <2> QED BY <1>5, <2>1, EntryFacts, ScreenAssumption
<1> HIDE DEF u
<1>7. /\ a \in PadRecords /\ a.last = b.pads[p].last /\ a.solo = u /\ a.visible = b.pads[p].visible
      /\ a.output = b.pads[p].output /\ a.active = b.pads[p].active
  BY <1>5, <1>6 DEF PadRecords
<1> HIDE DEF a
<1>8. KeptBut(c, p) /\ Pointed(c, p) /\ Yields(b, c, p) /\ (b.pads[p].solo # Nobody => c.pads[p].solo # Nobody)
  <2>1. CASE c = b
    BY <1>4, <1>5, <2>1, YieldsNothing
  <2>2. CASE b.pads[p].solo # Nobody /\ c = [b EXCEPT !.pads[p] = a]
    <3>0. c = [b EXCEPT !.pads[p] = a]
      BY <2>2
    <3> HIDE DEF c
    <3>1. /\ Yields(b, c, p) /\ c.pads[p] = a
          /\ \A q \in Defined(b) \ {p} : c.pads[q] = b.pads[q]
      BY <1>5, <1>7, <3>0, PadRewritten
    <3>2. OnePerOutput(c)
      BY <1>5, <1>7, <3>1 DEF OnePerOutput, Yields, OnlyPads
    <3>3. c.pads[p].output \in b.lit \cup {Nobody}
      BY <1>4, <1>5, <1>7, <3>1 DEF KeptBut, Housed
    <3>4. KeptBut(c, p)
      BY <1>4, <1>5, <1>7, <3>1, <3>2, <3>3, YieldsKept
    <3>5. MembersOf(c, p) = MembersOf(b, p)
      BY <3>1, SameEntries DEF Yields, OnlyPads
    <3> QED BY <1>4, <1>6, <1>7, <2>2, <3>1, <3>4, <3>5 DEF Pointed
  <2> QED BY <2>1, <2>2
<1> HIDE DEF c
<1>9. p \in Defined(c) /\ Defined(c) = Defined(b) /\ Sound(c)
  BY <1>5, <1>8 DEF Yields, OnlyPads, KeptBut
<1>10. PadsKept(d) /\ Yields(c, d, p) /\ \A q \in Defined(c) : d.pads[q] = c.pads[q]
  BY <1>8, <1>9, SettlesKeeps
<1> HIDE DEF d
<1>11. Steady(s, d, p)
  <2>1. Steady(s, m, p)
    BY <1>1, YieldsSteady DEF PadsKept
  <2>2. Steady(m, b, p)
    BY <1>4 DEF Steady
  <2>3. Steady(b, c, p)
    BY <1>5, <1>8, YieldsSteady
  <2>4. Steady(c, d, p)
    BY <1>9, <1>10, YieldsSteady
  <2> QED BY <2>1, <2>2, <2>3, <2>4, SteadyTwice
<1>12. v \in MembersOf(d, p) /\ d.lit = b.lit
  <2>1. MembersOf(d, p) = MembersOf(b, p)
    BY <1>8, <1>10, SameEntries DEF Yields, OnlyPads
  <2> QED BY <1>4, <1>8, <1>10, <2>1 DEF Yields, OnlyPads
<1>13. b.lit = s.lit
  BY <1>2 DEF b, Enters, Sound, Typed, Fields
<1>14. CASE t = d
  BY <1>10, <1>11, <1>12, <1>13, <1>14 DEF t
<1>15. CASE t = Refocus(d, source)
  <2>1. PadsKept(t) /\ Focuses(d, t)
    BY <1>10, <1>15, RefocusKeeps
  <2>2. Steady(d, t, p)
    BY <1>9, <1>10, <2>1, FocusesSteady DEF Yields, OnlyPads
  <2>3. v \in MembersOf(t, p) /\ t.lit = s.lit
    BY <1>12, <1>13, <2>1, SameEntries DEF Focuses
  <2> QED BY <1>11, <2>1, <2>2, <2>3, SteadyTwice DEF t
<1> QED BY <1>3, <1>14, <1>15

\* A window that maps is nobody's parent yet.
LEMMA Adopted ==
  ASSUME NEW s, NEW t, NEW v \in Windows, NEW parent \in (Windows \ {v}) \cup {Nobody},
         s.owner \in [Windows -> Windows \cup {Nobody}], \A u \in Windows : s.owner[u] # v,
         t.owner = [s.owner EXCEPT ![v] = parent]
  PROVE  /\ \A u, x \in Windows \ {v} : x \in Ancestors(t, u) <=> x \in Ancestors(s, u)
         /\ Rooted(s) => Rooted(t)
<1>0. t.owner[v] = parent /\ \A u \in Windows \ {v} : t.owner[u] = s.owner[u]
  OBVIOUS
<1>1. ASSUME NEW S \in Upward(s) PROVE S \ {v} \in Upward(t)
  BY <1>0 DEF Upward
<1>2. ASSUME NEW S \in Upward(t) PROVE S \ {v} \in Upward(s)
  BY <1>0 DEF Upward
<1>3. ASSUME NEW u \in Windows \ {v}, NEW x \in Windows \ {v}, x \in Ancestors(t, u)
      PROVE  x \in Ancestors(s, u)
  BY <1>1, <1>3 DEF Ancestors
<1>4. ASSUME NEW u \in Windows \ {v}, NEW x \in Windows \ {v}, x \in Ancestors(s, u)
      PROVE  x \in Ancestors(t, u)
  BY <1>2, <1>4 DEF Ancestors
<1>5. ASSUME Rooted(s), NEW S \in SUBSET Windows, S # {} PROVE \E u \in S : t.owner[u] \notin S
  <2> DEFINE T == S \ {v}
  <2>1. CASE T = {}
    <3>1. S = {v}
      BY <1>5, <2>1
    <3> QED BY <1>0, <3>1, ScreenAssumption
  <2>2. CASE T # {}
    <3>1. PICK y \in T : s.owner[y] \notin T
      <4>1. T \in SUBSET Windows
        OBVIOUS
      <4> HIDE DEF T
      <4> QED BY <1>5, <2>2, <4>1 DEF Rooted
    <3> QED BY <1>0, <3>1
  <2> QED BY <2>1, <2>2
<1> QED BY <1>3, <1>4, <1>5 DEF Rooted

PlacedIn(s, v, o, parent) ==
  [s EXCEPT !.place[v] = IF o = Nobody THEN Nobody ELSE Native(o), !.owner[v] = parent,
            !.shown = IF o = Nobody THEN @ ELSE @ \cup {v}]

\* A window that maps disturbs nothing.
LEMMA PlacedIs ==
  ASSUME NEW s, PadsKept(s), NEW v \in Windows, s.place[v] = Unmapped,
         NEW o \in s.lit \cup {Nobody}, o = Nobody => s.lit = {},
         NEW parent \in {Nobody} \cup {u \in Windows \ {v} : s.place[u] # Unmapped}
  PROVE  LET t == PlacedIn(s, v, o, parent)
         IN  /\ PadsKept(t) /\ ~InPad(s, v) /\ ~InPad(t, v)
             /\ t.place[v] \in Places \cup {Nobody} /\ t.place[v] # Unmapped
             /\ t.pads = s.pads /\ t.members = s.members /\ t.lit = s.lit
<1> DEFINE w == IF o = Nobody THEN Nobody ELSE Native(o)
           sh == IF o = Nobody THEN s.shown ELSE s.shown \cup {v}
           t == PlacedIn(s, v, o, parent)
<1>0. Sound(s) /\ Unmapped # Nobody /\ Unmapped \notin Places /\ Nobody \notin Places
  BY KeptIs, ScreenAssumption
<1>1. /\ w \in Places \cup {Nobody} /\ (w \in Places => w.on \in s.lit)
      /\ w = Nobody => o = Nobody
  <2>1. CASE o = Nobody
    BY <1>0, <2>1
  <2>2. CASE o # Nobody
    <3>1. o \in Screens
      BY <1>0, <2>2 DEF Sound, Typed
    <3>2. w = [on |-> o, for |-> Nobody] /\ w \in Places
      BY <2>2, <3>1 DEF Native, Places
    <3> QED BY <1>0, <2>2, <3>2
  <2> QED BY <2>1, <2>2
<1>2. sh \in SUBSET Windows /\ (v \in sh => v \in s.shown \/ o # Nobody)
  BY <1>0 DEF Sound, Typed
<1>3. t = [s EXCEPT !.place[v] = w, !.owner[v] = parent, !.shown = sh]
  BY DEF PlacedIn, Sound, Typed, Fields
<1> HIDE DEF t
<1>4. /\ Typed(t) /\ t.pads = s.pads /\ t.members = s.members /\ t.noted = s.noted
      /\ t.lit = s.lit /\ t.restoring = s.restoring /\ t.shown = sh
      /\ t.place = [s.place EXCEPT ![v] = w] /\ t.owner = [s.owner EXCEPT ![v] = parent]
  <2> HIDE DEF w, sh
  <2> QED BY <1>0, <1>1, <1>2, <1>3 DEF Sound, Typed, Fields
<1>5. t.place[v] = w /\ \A u \in Windows \ {v} : t.place[u] = s.place[u]
  <2> HIDE DEF w, sh
  <2> QED BY <1>0, <1>4 DEF Sound, Typed
<1>6. ~InPad(s, v) /\ v \notin s.shown /\ \A u \in Windows : s.owner[u] # v
  BY <1>0, ScreenAssumption DEF PadsKept, Linked
<1>7. /\ \A u, x \in Windows \ {v} : x \in Ancestors(t, u) <=> x \in Ancestors(s, u)
      /\ Rooted(t)
  <2>1. s.owner \in [Windows -> Windows \cup {Nobody}] /\ Rooted(s)
    BY <1>0 DEF Sound, Typed, PadsKept, Linked
  <2>2. parent \in (Windows \ {v}) \cup {Nobody} /\ t.owner = [s.owner EXCEPT ![v] = parent]
    BY <1>4
  <2> QED BY <1>6, <2>1, <2>2, Adopted
<1>8. \A u \in Windows : t.owner[u] # Nobody => /\ t.place[u] # Unmapped
                                                /\ t.place[t.owner[u]] # Unmapped
  <2> SUFFICES ASSUME NEW u \in Windows, t.owner[u] # Nobody
               PROVE  t.place[u] # Unmapped /\ t.place[t.owner[u]] # Unmapped
    OBVIOUS
  <2>1. w # Unmapped
    BY <1>0, <1>1
  <2>2. CASE u = v
    <3>1. t.owner[u] = parent
      BY <1>0, <1>4, <2>2 DEF Sound, Typed
    <3> QED BY <1>5, <2>1, <2>2, <3>1
  <2>3. CASE u # v
    <3>1. t.owner[u] = s.owner[u] /\ s.owner[u] \in Windows \ {v}
      BY <1>0, <1>4, <1>6, <2>3 DEF Sound, Typed
    <3>2. s.place[u] # Unmapped /\ s.place[s.owner[u]] # Unmapped
      BY <3>1 DEF PadsKept, Linked
    <3> QED BY <1>5, <2>3, <3>1, <3>2
  <2> QED BY <2>2, <2>3
<1>9. \A u \in Windows \ {v} : u \in t.shown <=> u \in s.shown
  BY <1>4
<1>10. /\ v \in t.shown => t.place[v] # Unmapped
       /\ t.place[v] \in Places => t.place[v].on \in t.lit
       /\ t.place[v] = Nobody => t.restoring \/ t.lit = {}
  BY <1>0, <1>1, <1>2, <1>4, <1>5, <1>6
<1>11. PadsKept(t)
  BY <1>4, <1>5, <1>6, <1>7, <1>8, <1>9, <1>10, AsideKeeps, ZenonT(60)
<1>12. ~InPad(t, v)
  BY <1>4, <1>6, SameEntries
<1> QED BY <1>0, <1>1, <1>4, <1>5, <1>6, <1>11, <1>12 DEF t

\* The place a window came from is one it can go back to.
LEMMA ReturnPlaceIs ==
  ASSUME NEW w \in Places \cup {Nobody}
  PROVE  ReturnPlace(w, Nobody) \in Homes
BY DEF ReturnPlace, Homes


-----------------------------------------------------------------------------
(* The handlers *)

\* A window that maps joins a pad.
Admits(s, v, p, o, home) == AdmitNew(s, v, p, o, FALSE, home)
LEMMA AdmitsIs ==
  ASSUME NEW s, PadsKept(s), NEW v \in Windows, ~InPad(s, v), s.place[v] # Unmapped,
         NEW p \in Defined(s), NEW o, NEW home \in Homes,
         Idle(s, p) => o \in s.lit
  PROVE  LET t == Admits(s, v, p, o, home)
         IN  PadsKept(t) /\ Steady(s, t, p) /\ v \in MembersOf(t, p) /\ t.lit = s.lit
<1> DEFINE E == FALSE
           Good(t) == PadsKept(t) /\ Steady(s, t, p) /\ v \in MembersOf(t, p) /\ t.lit = s.lit
<1>1. E \in BOOLEAN
  OBVIOUS
<1> HIDE DEF E
<1>2. \A e \in BOOLEAN : Good(AdmitNew(s, v, p, o, e, home))
  <2> SUFFICES ASSUME NEW e \in BOOLEAN PROVE Good(AdmitNew(s, v, p, o, e, home))
    OBVIOUS
  <2> QED BY AdmitNewIs
<1> HIDE DEF Good
<1>3. Good(AdmitNew(s, v, p, o, E, home))
  BY <1>1, <1>2
<1>4. AdmitNew(s, v, p, o, E, home) = Admits(s, v, p, o, home)
  BY DEF Admits, E
<1> QED BY <1>3, <1>4 DEF Good

\* The same for a window that is moved to a pad on request.
AdmitsAsked(s, v, p, o, home) == AdmitNew(s, v, p, o, TRUE, home)
LEMMA AdmitsAskedIs ==
  ASSUME NEW s, PadsKept(s), NEW v \in Windows, ~InPad(s, v), s.place[v] # Unmapped,
         NEW p \in Defined(s), NEW o \in s.lit, NEW home \in Homes
  PROVE  PadsKept(AdmitsAsked(s, v, p, o, home)) /\ Holds(s, AdmitsAsked(s, v, p, o, home))
<1> DEFINE E == TRUE
           Good(t) == PadsKept(t) /\ Steady(s, t, p)
<1>1. E \in BOOLEAN
  OBVIOUS
<1> HIDE DEF E
<1>2. \A e \in BOOLEAN : Good(AdmitNew(s, v, p, o, e, home))
  <2> SUFFICES ASSUME NEW e \in BOOLEAN PROVE Good(AdmitNew(s, v, p, o, e, home))
    OBVIOUS
  <2> QED BY AdmitNewIs
<1> HIDE DEF Good
<1>3. Good(AdmitNew(s, v, p, o, E, home))
  BY <1>1, <1>2
<1>4. AdmitNew(s, v, p, o, E, home) = AdmitsAsked(s, v, p, o, home)
  BY DEF AdmitsAsked, E
<1> QED BY <1>3, <1>4, SteadyHolds DEF Good

-----------------------------------------------------------------------------
(* Windows map *)

\* A window maps, on an output or nowhere, and a dialog joins the pad its parent is shown in.
MapsOn(s, v, o, parent, focused) ==
  LET t == PlacedIn(s, v, o, parent)
      p == PadOf(t, parent)
      in == IF parent # Nobody /\ InPad(s, parent) /\ parent \in s.shown
            THEN Admits(t, v, p, t.pads[p].output, ReturnPlace(t.place[v], Nobody)) ELSE t
  IN  IF focused THEN FocusWindow(in, v) ELSE in

\* Mapping leaves everything in order.
LEMMA MapsOnIs ==
  ASSUME NEW s, PadsKept(s), NEW v \in Windows, s.place[v] = Unmapped,
         NEW o \in s.lit \cup {Nobody}, o = Nobody => s.lit = {},
         NEW parent \in {Nobody} \cup {u \in Windows \ {v} : s.place[u] # Unmapped},
         NEW focused \in BOOLEAN
  PROVE  PadsKept(MapsOn(s, v, o, parent, focused)) /\ Holds(s, MapsOn(s, v, o, parent, focused))
<1> DEFINE t == PlacedIn(s, v, o, parent)
           p == PadOf(t, parent)
           home == ReturnPlace(t.place[v], Nobody)
           joined == Admits(t, v, p, t.pads[p].output, home)
           joins == parent # Nobody /\ InPad(s, parent) /\ parent \in s.shown
           in == IF joins THEN joined ELSE t
<1>1. /\ PadsKept(t) /\ ~InPad(s, v) /\ ~InPad(t, v)
      /\ t.place[v] \in Places \cup {Nobody} /\ t.place[v] # Unmapped
      /\ t.pads = s.pads /\ t.members = s.members /\ t.lit = s.lit
  BY PlacedIs
<1>2. MapsOn(s, v, o, parent, focused) = IF focused THEN FocusWindow(in, v) ELSE in
  BY DEF MapsOn
<1> HIDE DEF t
<1>3. home \in Homes
  BY <1>1, ReturnPlaceIs
<1> HIDE DEF home
<1>4. PadsKept(in) /\ Holds(t, in)
  <2>1. CASE joins
    <3>1. p = PadOf(s, parent) /\ parent \in MembersOf(s, p) /\ p \in Defined(s)
      BY <1>1, <2>1, SameEntries, EntryFacts, KeptIs
    <3>2. ~Idle(t, p) /\ p \in Defined(t)
      BY <1>1, <2>1, <3>1 DEF PadsKept, Seen, Presents, Idle, Defined
    <3> HIDE DEF p
    <3>3. PadsKept(joined) /\ Steady(t, joined, p)
      <4> DEFINE x == t.pads[p].output
      <4> HIDE DEF x
      <4>1. LET r == Admits(t, v, p, x, home) IN PadsKept(r) /\ Steady(t, r, p)
        BY <1>1, <1>3, <3>2, AdmitsIs
      <4> QED BY <4>1 DEF x
    <3> QED BY <2>1, <3>3, SteadyHolds
  <2>2. CASE ~joins
    BY <1>1, <2>2 DEF Holds
  <2> QED BY <2>1, <2>2
<1> HIDE DEF in
<1>5. Holds(s, in)
  BY <1>1, <1>4 DEF Holds, Defined
<1>6. PadsKept(FocusWindow(in, v)) /\ Holds(s, FocusWindow(in, v))
  BY <1>4, <1>5, FocusWindowKeeps, FocusesHolds
<1> QED BY <1>2, <1>4, <1>5, <1>6

\* A pad is summoned for a window of it, which is focused.
Recalls(s, p, o, v) == FocusWindow(Summon(s, p, o, v), v)
\* Recalling a window of a pad leaves everything in order.
LEMMA RecallsIs ==
  ASSUME NEW s, PadsKept(s), NEW p \in Defined(s), NEW o \in s.lit, NEW v \in MembersOf(s, p)
  PROVE  LET t == Recalls(s, p, o, v) IN PadsKept(t) /\ Steady(s, t, p)
<1> DEFINE u == Summon(s, p, o, v)
<1>1. v \in Windows /\ Sound(s)
  BY KeptIs, EntryFacts
<1>2. KeptBut(s, p) /\ Aims(s, p) /\ Seen(s, p) /\ Pointed(s, p)
  BY KeptIs
<1>3. PadsKept(u) /\ Yields(s, u, p) /\ (s.pads[p].solo # Nobody => u.pads[p].solo # Nobody)
  <2>1. v \in MembersOf(s, p) \cup {Nobody}
    OBVIOUS
  <2> QED BY <1>2, <2>1, SummonIs
<1>4. Recalls(s, p, o, v) = FocusWindow(u, v)
  BY DEF Recalls
<1> HIDE DEF u
<1>5. Steady(s, u, p) /\ p \in Defined(u)
  BY <1>1, <1>3, YieldsSteady DEF Yields, OnlyPads
<1>6. PadsKept(FocusWindow(u, v)) /\ Focuses(u, FocusWindow(u, v))
  BY <1>1, <1>3, FocusWindowKeeps
<1>7. Steady(u, FocusWindow(u, v), p)
  BY <1>5, <1>6, FocusesSteady
<1> QED BY <1>4, <1>5, <1>6, <1>7, SteadyTwice

\* A rule sends a window to a pad as it maps.
MapsInto(s, v, o, p) == Admits(PlacedIn(s, v, o, Nobody), v, p, o, ReturnPlace(Native(o), Nobody))
\* Mapping into a pad leaves everything in order, whether the rule focuses the window or not.
LEMMA MapsIntoIs ==
  ASSUME NEW s, PadsKept(s), NEW v \in Windows, s.place[v] = Unmapped, NEW o \in s.lit,
         NEW p \in Defined(s)
  PROVE  LET t == MapsInto(s, v, o, p)
             u == Recalls(t, p, o, v)
         IN  PadsKept(t) /\ Holds(s, t) /\ PadsKept(u) /\ Holds(s, u)
<1> DEFINE m == PlacedIn(s, v, o, Nobody)
           home == ReturnPlace(Native(o), Nobody)
           t == Admits(m, v, p, o, home)
           u == Recalls(t, p, o, v)
<1>1. o # Nobody /\ Native(o) \in Places
  BY ScreenAssumption DEF PadsKept, Sound, Typed, Places, Native
<1>2. /\ PadsKept(m) /\ ~InPad(m, v) /\ m.place[v] # Unmapped
      /\ m.pads = s.pads /\ m.lit = s.lit
  BY <1>1, PlacedIs
<1>3. home \in Homes
  BY <1>1, ReturnPlaceIs
<1> HIDE DEF m, home
<1>4. p \in Defined(m)
  BY <1>2 DEF Defined
<1>5. PadsKept(t) /\ Steady(m, t, p) /\ v \in MembersOf(t, p) /\ t.lit = m.lit
  BY <1>2, <1>3, <1>4, AdmitsIs
<1> HIDE DEF t
<1>6. p \in Defined(t) /\ o \in t.lit
  BY <1>2, <1>4, <1>5 DEF Steady
<1>7. PadsKept(u) /\ Steady(t, u, p)
  BY <1>5, <1>6, RecallsIs
<1>8. Holds(m, t) /\ Holds(m, u)
  BY <1>5, <1>7, SteadyTwice, SteadyHolds
<1>9. Holds(s, t) /\ Holds(s, u)
  BY <1>2, <1>8 DEF Holds, Defined
<1> QED BY <1>5, <1>7, <1>9 DEF MapsInto, t, m, home

-----------------------------------------------------------------------------
(* Windows change pads *)

\* Housed, but for where p is.
HousedBut(s, p) ==
  /\ \A v \in Windows : s.place[v] \in Places => s.place[v].on \in s.lit
  /\ \A q \in Defined(s) \ {p} : s.pads[q].output \in s.lit \cup {Nobody}
  /\ ~s.restoring /\ s.lit # {} =>
       /\ \A v \in Windows : s.place[v] = Nobody => InPad(s, v)
       /\ \A q \in Defined(s) \ {p} : MembersOf(s, q) # {} => s.pads[q].output # Nobody

\* Once p is on an output that is on, everything is housed.
LEMMA YieldsHoused ==
  ASSUME NEW s, NEW t, NEW p \in Defined(s), Sound(s), Linked(s), Noted(s), HousedBut(s, p),
         Yields(s, t, p), t.pads[p].output \in s.lit
  PROVE  Sound(t) /\ Linked(t) /\ Noted(t) /\ Housed(t)
<1>1. Sound(t)
  BY SoundStays DEF Yields
<1>2. /\ Typed(t) /\ Defined(t) = Defined(s) /\ t.members = s.members /\ t.noted = s.noted
      /\ t.place = s.place /\ t.owner = s.owner /\ t.lit = s.lit /\ t.restoring = s.restoring
      /\ \A v \in Windows : ~InPad(s, v) => (v \in t.shown <=> v \in s.shown)
  BY DEF Yields, OnlyPads
<1>3. \A v : InPad(t, v) = InPad(s, v)
  BY <1>2, SameEntries
<1>4. \A q : MembersOf(t, q) = MembersOf(s, q)
  BY <1>2, SameEntries
<1>5. Linked(t)
  BY <1>2, <1>3, ScreenAssumption DEF Linked, Rooted
<1>6. Noted(t)
  BY <1>2, <1>3 DEF Noted
<1>7. \A q \in Defined(s) \ {p} : t.pads[q].output = s.pads[q].output
  BY YieldsKeeps
<1>8. t.pads[p].output # Nobody
  BY ScreenAssumption DEF Sound, Typed
<1>9. \A q \in Defined(t) : t.pads[q].output \in t.lit \cup {Nobody}
  BY <1>2, <1>7 DEF HousedBut
<1>10. \A q \in Defined(t) : q = p \/ t.pads[q].output = s.pads[q].output
  BY <1>2, <1>7
<1>11. Housed(t)
  BY <1>2, <1>3, <1>4, <1>8, <1>9, <1>10 DEF HousedBut, Housed
<1> QED BY <1>1, <1>5, <1>6, <1>11

\* Entry i goes from q to p; q no longer shows it alone.
Passed(s, q, p, i, left) ==
  [s EXCEPT !.pads[q].solo = IF left THEN Nobody ELSE @, !.members[i].pad = p]

Passes(s, t, p, i, left) ==
  LET q == s.members[i].pad
      v == s.members[i].view
  IN  /\ Sound(t) /\ Defined(t) = Defined(s) /\ t.noted = s.noted /\ t.focus = s.focus
      /\ t.place = s.place /\ t.owner = s.owner /\ t.lit = s.lit
      /\ t.restoring = s.restoring /\ t.shown = s.shown
      /\ \A r \in Defined(s) \ {q} : t.pads[r] = s.pads[r]
      /\ t.pads[q].output = s.pads[q].output /\ t.pads[q].visible = s.pads[q].visible
      /\ t.pads[q].last = s.pads[q].last /\ t.pads[q].active = s.pads[q].active
      /\ t.pads[q].solo = (IF left THEN Nobody ELSE s.pads[q].solo)
      /\ \A u : InPad(t, u) <=> InPad(s, u)
      /\ MembersOf(t, p) = MembersOf(s, p) \cup {v}
      /\ MembersOf(t, q) = MembersOf(s, q) \ {v}
      /\ \A r : r \notin {p, q} => MembersOf(t, r) = MembersOf(s, r)

\* What passing an entry on changes.
LEMMA PassedIs ==
  ASSUME NEW s, Sound(s), NEW p \in Defined(s), NEW i \in DOMAIN s.members,
         s.members[i].pad # p, NEW left \in BOOLEAN
  PROVE  Passes(s, Passed(s, s.members[i].pad, p, i, left), p, i, left)
<1> DEFINE q == s.members[i].pad
           v == s.members[i].view
           t == Passed(s, q, p, i, left)
           e == [s.members[i] EXCEPT !.pad = p]
           r0 == [s.pads[q] EXCEPT !.solo = IF left THEN Nobody ELSE @]
<1>0. /\ q \in Defined(s) /\ q \in Pads /\ p \in Pads /\ s.pads[q] \in PadRecords
      /\ s.members[i] \in Entries
  BY PadTypes, EntryFacts DEF Sound, Distinct
<1>1. e \in Entries /\ e.view = v /\ e.pad = p
  BY <1>0 DEF Entries
<1>2. /\ r0 \in PadRecords /\ r0.output = s.pads[q].output /\ r0.visible = s.pads[q].visible
      /\ r0.last = s.pads[q].last /\ r0.active = s.pads[q].active
      /\ r0.solo = (IF left THEN Nobody ELSE s.pads[q].solo)
  BY <1>0 DEF PadRecords
<1>3. t = [s EXCEPT !.pads = [s.pads EXCEPT ![q] = r0], !.members = [s.members EXCEPT ![i] = e]]
  BY <1>0 DEF Passed, Sound, Typed, Fields
<1> HIDE DEF t, e, r0, q, v
<1>4. /\ DOMAIN t = Fields /\ t.pads = [s.pads EXCEPT ![q] = r0]
      /\ t.members = [s.members EXCEPT ![i] = e]
      /\ t.noted = s.noted /\ t.focus = s.focus /\ t.place = s.place /\ t.owner = s.owner
      /\ t.lit = s.lit /\ t.restoring = s.restoring /\ t.shown = s.shown
  BY <1>3 DEF Sound, Typed, Fields
<1>5. t.members \in Seq(Entries) /\ DOMAIN t.members = DOMAIN s.members
      /\ t.members[i] = e /\ \A j \in DOMAIN s.members \ {i} : t.members[j] = s.members[j]
  BY <1>1, <1>4 DEF Sound, Typed
<1>6. /\ t.pads \in [Pads -> PadRecords \cup {Nobody}]
      /\ t.pads[q] = r0 /\ \A r \in Pads \ {q} : t.pads[r] = s.pads[r]
  BY <1>0, <1>2, <1>4 DEF Sound, Typed
<1>7. Typed(t)
  BY <1>4, <1>5, <1>6 DEF Sound, Typed
<1>8. Defined(t) = Defined(s)
  BY <1>0, <1>2, <1>6, ScreenAssumption DEF Defined
<1>9. \A j \in DOMAIN s.members : t.members[j].view = s.members[j].view
  BY <1>1, <1>5 DEF v
<1>10. \A j \in DOMAIN s.members : t.members[j].pad = IF j = i THEN p ELSE s.members[j].pad
  BY <1>1, <1>5
<1>11. Sound(t)
  BY <1>5, <1>7, <1>8, <1>9, <1>10 DEF Sound, Distinct
<1>12. \A u : InPad(t, u) <=> InPad(s, u)
  BY <1>5, <1>9 DEF InPad
<1>13. \A r, u : u \in MembersOf(t, r) <=> \E j \in DOMAIN s.members :
                                           t.members[j].pad = r /\ s.members[j].view = u
  BY <1>5, <1>9 DEF MembersOf, EntriesOf
<1>14. \A r, u : u \in MembersOf(s, r) <=> \E j \in DOMAIN s.members :
                                           s.members[j].pad = r /\ s.members[j].view = u
  BY DEF MembersOf, EntriesOf
<1>15. \A r : r \notin {p, q} => MembersOf(t, r) = MembersOf(s, r)
  <2>1. s.members[i].pad = q
    BY DEF q
  <2> SUFFICES ASSUME NEW r, r \notin {p, q}, NEW u
               PROVE  u \in MembersOf(t, r) <=> u \in MembersOf(s, r)
    OBVIOUS
  <2>2. \A j \in DOMAIN s.members : t.members[j].pad = r <=> s.members[j].pad = r
    BY <1>10, <2>1
  <2> QED BY <1>13, <1>14, <2>2
<1>16. MembersOf(t, p) = MembersOf(s, p) \cup {v}
  BY <1>10, <1>13, <1>14 DEF q, v
<1>17. MembersOf(t, q) = MembersOf(s, q) \ {v}
  <2>1. \A j \in DOMAIN s.members : s.members[j].view = v => j = i
    BY DEF v, Sound, Distinct
  <2>2. q # p /\ s.members[i].view = v /\ s.members[i].pad = q
    BY DEF q, v
  <2> QED BY <1>10, <1>13, <1>14, <2>1, <2>2
<1>18. /\ \A r \in Defined(s) \ {q} : t.pads[r] = s.pads[r]
       /\ t.pads[q].output = s.pads[q].output /\ t.pads[q].visible = s.pads[q].visible
       /\ t.pads[q].last = s.pads[q].last /\ t.pads[q].active = s.pads[q].active
       /\ t.pads[q].solo = (IF left THEN Nobody ELSE s.pads[q].solo)
  BY <1>2, <1>6 DEF Defined
<1> QED BY <1>4, <1>8, <1>11, <1>12, <1>15, <1>16, <1>17, <1>18 DEF Passes, t, q, v

\* admit leaves everything in order, for a window of another pad.
LEMMA TransferMemberIs ==
  ASSUME NEW s, PadsKept(s), NEW v, InPad(s, v), NEW p \in Defined(s), PadOf(s, v) # p,
         NEW o \in s.lit
  PROVE  PadsKept(TransferMember(s, v, p, o)) /\ Holds(s, TransferMember(s, v, p, o))
<1> DEFINE q == PadOf(s, v)
           left == s.pads[q].solo = v
           i == CHOOSE i \in DOMAIN s.members : s.members[i].view = v
           f == ForgetLastFocused(s, q, v)
           out == Passed(f, q, p, i, left)
           m == IF ~out.pads[p].visible \/ out.pads[p].output = Nobody THEN Moves(out, p, o) ELSE out
           b == Settles(m, p)
           d == CloseIfBereft(b, q, left)
           t == TransferMember(s, v, p, o)
<1>1. t = IF s.focus = v /\ ~Presents(d, p, v) THEN Refocus(d, s.pads[q].output) ELSE d
  BY DEF TransferMember, Passed, Moves, Settles
<1>2. /\ i \in DOMAIN s.members /\ s.members[i].view = v /\ s.members[i].pad = q
      /\ v \in MembersOf(s, q) /\ q \in Defined(s) /\ v \in Windows /\ Sound(s)
  <2>1. i \in DOMAIN s.members /\ s.members[i].view = v
    BY DEF InPad
  <2>2. s.members[i].pad = q
    BY DEF PadOf, EntryOf
  <2> HIDE DEF i, q
  <2>3. v \in MembersOf(s, PadOf(s, v)) /\ PadOf(s, v) \in Defined(s) /\ v \in Windows /\ Sound(s)
    BY KeptIs, EntryFacts
  <2> QED BY <2>1, <2>2, <2>3 DEF q
<1> HIDE DEF t, i
<1>3. /\ Sound(f) /\ Focuses(s, f) /\ f.noted = s.noted /\ f.focus = s.focus
      /\ \A r \in Defined(s) \ {q} : f.pads[r] = s.pads[r]
      /\ f.pads[q].last \in (MembersOf(s, q) \ {v}) \cup {Nobody}
      /\ f.pads[q].active = s.pads[q].active
  BY <1>2, ForgetIs DEF PadsKept
<1> HIDE DEF f
<1>4. /\ f.members = s.members /\ f.shown = s.shown /\ f.place = s.place /\ f.owner = s.owner
      /\ f.lit = s.lit /\ f.restoring = s.restoring /\ Defined(f) = Defined(s)
      /\ f.pads[q].output = s.pads[q].output /\ f.pads[q].visible = s.pads[q].visible
      /\ f.pads[q].solo = s.pads[q].solo
  BY <1>2, <1>3 DEF Focuses
<1>5. /\ \A r : MembersOf(f, r) = MembersOf(s, r) /\ \A u : InPad(f, u) = InPad(s, u)
  BY <1>4, SameEntries
<1>6. left \in BOOLEAN /\ q # p
  OBVIOUS
<1>7. /\ Sound(out) /\ Defined(out) = Defined(f) /\ out.noted = f.noted /\ out.focus = f.focus
      /\ out.place = f.place /\ out.owner = f.owner /\ out.lit = f.lit
      /\ out.restoring = f.restoring /\ out.shown = f.shown
      /\ \A r \in Defined(f) \ {q} : out.pads[r] = f.pads[r]
      /\ out.pads[q].output = f.pads[q].output /\ out.pads[q].visible = f.pads[q].visible
      /\ out.pads[q].last = f.pads[q].last /\ out.pads[q].active = f.pads[q].active
      /\ out.pads[q].solo = (IF left THEN Nobody ELSE f.pads[q].solo)
      /\ \A u : InPad(out, u) <=> InPad(f, u)
      /\ MembersOf(out, p) = MembersOf(f, p) \cup {v}
      /\ MembersOf(out, q) = MembersOf(f, q) \ {v}
      /\ \A r : r \notin {p, q} => MembersOf(out, r) = MembersOf(f, r)
  <2>1. p \in Defined(f) /\ i \in DOMAIN f.members /\ f.members[i].pad = q /\ f.members[i].view = v
    BY <1>2, <1>4
  <2>2. out = Passed(f, f.members[i].pad, p, i, left)
    BY <2>1
  <2> HIDE DEF q, left, out
  <2>3. f.members[i].pad # p /\ left \in BOOLEAN
    BY <1>6, <2>1 DEF q
  <2>4. Passes(f, out, p, i, left)
    BY <1>3, <2>1, <2>2, <2>3, PassedIs
  <2> QED BY <2>1, <2>4 DEF Passes
<1> HIDE DEF q, left, out
<1>8. /\ Defined(out) = Defined(s) /\ out.noted = s.noted /\ out.shown = s.shown
      /\ out.place = s.place /\ out.owner = s.owner /\ out.lit = s.lit
      /\ out.restoring = s.restoring /\ \A u : InPad(out, u) <=> InPad(s, u)
      /\ MembersOf(out, p) = MembersOf(s, p) \cup {v}
      /\ MembersOf(out, q) = MembersOf(s, q) \ {v}
      /\ \A r : r \notin {p, q} => MembersOf(out, r) = MembersOf(s, r)
      /\ \A r \in Defined(s) \ {q} : out.pads[r] = s.pads[r]
      /\ out.pads[q].output = s.pads[q].output /\ out.pads[q].visible = s.pads[q].visible
      /\ out.pads[q].active = s.pads[q].active
      /\ out.pads[q].last \in MembersOf(out, q) \cup {Nobody}
      /\ out.pads[q].solo = (IF left THEN Nobody ELSE s.pads[q].solo)
  BY <1>3, <1>4, <1>5, <1>7
<1>9. OnePerOutput(out) /\ Linked(out) /\ Noted(out)
  <2>1. OnePerOutput(out)
    <3>1. \A r \in Defined(s) : /\ out.pads[r].visible = s.pads[r].visible
                                /\ out.pads[r].output = s.pads[r].output
      BY <1>8
    <3> QED BY <1>8, <3>1 DEF PadsKept, OnePerOutput
  <2>2. Linked(out)
    BY <1>8 DEF PadsKept, Linked, Rooted
  <2>3. Noted(out)
    BY <1>8 DEF PadsKept, Noted
  <2> QED BY <2>1, <2>2, <2>3
<1>10. HousedBut(out, p)
  <2>1. \A r \in Defined(s) \ {p} : /\ out.pads[r].output = s.pads[r].output
                                    /\ MembersOf(out, r) \subseteq MembersOf(s, r)
    BY <1>8
  <2> QED BY <1>8, <2>1 DEF PadsKept, Housed, HousedBut
<1>11. /\ \A r \in Defined(s) \ {p, q} : Seen(out, r) /\ Pointed(out, r)
       /\ ~left => Seen(out, q) /\ Pointed(out, q)
       /\ Pointed(out, p)
  <2>1. \A r, u : out.pads[r].visible = s.pads[r].visible /\ out.pads[r].output = s.pads[r].output
                  /\ out.pads[r].solo = s.pads[r].solo => Presents(out, r, u) = Presents(s, r, u)
    BY <1>8, PresentsFrame
  <2>2. ASSUME NEW r \in Defined(s) \ {p, q} PROVE Seen(out, r) /\ Pointed(out, r)
    BY <1>8, <2>1 DEF PadsKept, Seen, Pointed
  <2>3. ASSUME ~left PROVE Seen(out, q) /\ Pointed(out, q)
    <3>1. out.pads[q].solo = s.pads[q].solo
      BY <1>8, <2>3
    <3>2. Seen(out, q)
      BY <1>2, <1>8, <2>1, <3>1 DEF PadsKept, Seen
    <3>3. out.pads[q].solo \in MembersOf(out, q) \cup {Nobody}
      BY <1>2, <1>8, <2>3, <3>1 DEF PadsKept, Pointed, left
    <3> QED BY <1>2, <1>8, <3>1, <3>2, <3>3 DEF PadsKept, Pointed
  <2>4. Pointed(out, p)
    BY <1>6, <1>8 DEF PadsKept, Pointed
  <2> QED BY <2>2, <2>3, <2>4

<1>12. /\ Yields(out, m, p) /\ OnePerOutput(m) /\ m.pads[p].output \in s.lit
       /\ m.pads[p].visible = s.pads[p].visible /\ m.pads[p].active = s.pads[p].active
       /\ m.pads[p].last = s.pads[p].last /\ m.pads[p].solo = s.pads[p].solo
  <2>0. out.pads[p] = s.pads[p] /\ p \in Defined(out)
    BY <1>6, <1>8
  <2>1. CASE ~out.pads[p].visible \/ out.pads[p].output = Nobody
    <3>1. m = Moves(out, p, o) /\ o \in Screens \cup {Nobody}
      BY <1>2, <2>1 DEF Sound, Typed
    <3> HIDE DEF m
    <3> QED BY <1>7, <1>9, <2>0, <3>1, MovesIs
  <2>2. CASE ~(~out.pads[p].visible \/ out.pads[p].output = Nobody)
    <3>1. m = out
      BY <2>2
    <3>2. s.pads[p].output \in s.lit
      BY <2>0, <2>2 DEF PadsKept, Housed
    <3> QED BY <1>7, <1>9, <2>0, <3>1, <3>2, YieldsNothing
  <2> QED BY <2>1, <2>2
<1> HIDE DEF m
<1>13. /\ Sound(m) /\ p \in Defined(m) /\ Defined(m) = Defined(s)
       /\ m.pads[p].solo # Nobody \/ m.pads[p].active => m.pads[p].visible
  BY <1>7, <1>8, <1>12, SoundStays DEF Yields, OnlyPads, PadsKept, Pointed
<1>14. Yields(m, b, p) /\ Seen(b, p) /\ \A r \in Defined(m) : b.pads[r] = m.pads[r]
  BY <1>13, SettlesIs
<1> HIDE DEF b
<1>15. /\ Yields(out, b, p) /\ Sound(b) /\ Defined(b) = Defined(s) /\ OnePerOutput(b)
       /\ b.pads[p] = m.pads[p] /\ \A r : MembersOf(b, r) = MembersOf(out, r)
  <2>1. Yields(out, b, p)
    BY <1>7, <1>12, <1>14, YieldsTwice
  <2>2. Sound(b) /\ Defined(b) = Defined(s)
    BY <1>7, <1>8, <2>1, SoundStays DEF Yields, OnlyPads
  <2>3. OnePerOutput(b)
    BY <1>12, <1>13, <1>14, <2>2 DEF OnePerOutput
  <2>4. \A r : MembersOf(b, r) = MembersOf(out, r)
    BY <2>1, SameEntries DEF Yields, OnlyPads
  <2> QED BY <1>13, <1>14, <2>1, <2>2, <2>3, <2>4
<1>16. /\ \A r \in Defined(s) \ {p, q} : Seen(b, r) /\ Pointed(b, r)
       /\ ~left => Seen(b, q) /\ Pointed(b, q)
       /\ Seen(b, p) /\ Pointed(b, p)
  <2>1. \A r \in Defined(s) \ {p} : /\ Seen(out, r) => Seen(b, r)
                                    /\ Pointed(out, r) => Pointed(b, r)
    BY <1>7, <1>8, <1>15, YieldsKeeps DEF Yields
  <2>2. Pointed(b, p)
    BY <1>6, <1>8, <1>11, <1>12, <1>15 DEF Pointed
  <2> QED BY <1>2, <1>6, <1>11, <1>14, <2>1, <2>2
<1>17. KeptBut(b, q)
  <2>1. Linked(b) /\ Noted(b) /\ Housed(b)
    <3>1. b.pads[p].output \in out.lit /\ p \in Defined(out)
      BY <1>8, <1>12, <1>15
    <3> QED BY <1>7, <1>9, <1>10, <1>15, <3>1, YieldsHoused
  <2>2. \A r \in Defined(b) \ {q} : Seen(b, r) /\ Pointed(b, r)
    BY <1>15, <1>16
  <2> QED BY <1>15, <2>1, <2>2 DEF KeptBut
<1>18. b.pads[q].last \in MembersOf(b, q) \cup {Nobody}
  BY <1>2, <1>8, <1>15 DEF Yields, OnlyPads
<1>19. \A r \in Defined(s) : s.pads[r].solo # Nobody /\ b.pads[r].solo = Nobody
                             => ~b.pads[r].visible \/ (r = q /\ left)
  <2> SUFFICES ASSUME NEW r \in Defined(s), s.pads[r].solo # Nobody, b.pads[r].solo = Nobody,
                      ~(r = q /\ left)
               PROVE  ~b.pads[r].visible
    OBVIOUS
  <2>1. r # p
    BY <1>12, <1>15
  <2>2. out.pads[r].solo = s.pads[r].solo
    BY <1>8
  <2> QED BY <1>7, <1>8, <1>15, <2>1, <2>2, YieldsKeeps
<1>20. PadsKept(d) /\ Holds(s, d)
  <2>1. CASE left \/ MembersOf(b, q) = {}
    <3>1. d = Hides(b, q)
      BY <2>1 DEF CloseIfBereft, Hides
    <3> HIDE DEF d
    <3>2. q \in Defined(b)
      BY <1>2, <1>15
    <3>3. PadsKept(d) /\ Yields(b, d, q) /\ ~d.pads[q].visible
      BY <1>17, <1>18, <3>1, <3>2, HidesKeeps
    <3>4. \A r \in Defined(b) \ {q} : d.pads[r] = b.pads[r]
      BY <1>15, <3>1, <3>2, HidesIs
    <3>5. Holds(s, d)
      BY <1>15, <1>19, <3>3, <3>4 DEF Holds
    <3> QED BY <3>3, <3>5
  <2>2. CASE ~(left \/ MembersOf(b, q) = {})
    <3>1. d = b
      BY <2>2 DEF CloseIfBereft
    <3>2. PadsKept(b)
      BY <1>15, <1>16, <1>17, <2>2 DEF KeptBut, PadsKept
    <3>3. Holds(s, b)
      BY <1>15, <1>19, <2>2 DEF Holds
    <3> QED BY <3>1, <3>2, <3>3
  <2> QED BY <2>1, <2>2
<1> HIDE DEF d
<1>21. PadsKept(Refocus(d, s.pads[q].output)) /\ Holds(s, Refocus(d, s.pads[q].output))
  BY <1>20, RefocusKeeps, FocusesHolds
<1>22. PadsKept(t) /\ Holds(s, t)
  BY <1>1, <1>20, <1>21
<1> QED BY <1>22 DEF t

-----------------------------------------------------------------------------
(* Many pads at once *)

WindowsHoused(s) ==
  /\ \A v \in Windows : s.place[v] \in Places => s.place[v].on \in s.lit
  /\ ~s.restoring /\ s.lit # {} => \A v \in Windows : s.place[v] = Nobody => InPad(s, v)

\* Pads may change at will as long as they are in order afterwards.
LEMMA OnlyPadsKeeps ==
  ASSUME NEW s, NEW t, Sound(s), Linked(s), Noted(s), WindowsHoused(s), OnlyPads(s, t),
         OnePerOutput(t),
         \A p \in Defined(s) : /\ Seen(t, p) /\ Pointed(t, p)
                               /\ t.pads[p].output \in s.lit \cup {Nobody},
         ~s.restoring /\ s.lit # {} =>
           \A p \in Defined(s) : MembersOf(s, p) # {} => t.pads[p].output # Nobody
  PROVE  PadsKept(t)
<1>1. Sound(t)
  BY SoundStays
<1>2. /\ Typed(t) /\ Defined(t) = Defined(s) /\ t.members = s.members /\ t.noted = s.noted
      /\ t.place = s.place /\ t.owner = s.owner /\ t.lit = s.lit /\ t.restoring = s.restoring
      /\ \A v \in Windows : ~InPad(s, v) => (v \in t.shown <=> v \in s.shown)
  BY DEF OnlyPads
<1>3. \A v : InPad(t, v) = InPad(s, v)
  BY <1>2, SameEntries
<1>4. \A q : MembersOf(t, q) = MembersOf(s, q)
  BY <1>2, SameEntries
<1>5. Linked(t)
  BY <1>2, <1>3, ScreenAssumption DEF Linked, Rooted
<1>6. Noted(t)
  BY <1>2, <1>3 DEF Noted
<1>7. Housed(t)
  BY <1>2, <1>3, <1>4 DEF WindowsHoused, Housed
<1>8. \A p \in Defined(t) : Seen(t, p) /\ Pointed(t, p)
  BY <1>2
<1> QED BY <1>1, <1>5, <1>6, <1>7, <1>8 DEF PadsKept

\* Housed, for the windows alone.
LEMMA HousedIs ==
  ASSUME NEW s, Housed(s)
  PROVE  WindowsHoused(s)
BY DEF Housed, WindowsHoused

\* Every pad hides.
LEMMA HideAllIs ==
  ASSUME NEW s, PadsKept(s)
  PROVE  PadsKept(HideAll(s)) /\ Holds(s, HideAll(s))
<1> DEFINE on == {p \in Defined(s) : s.pads[p].visible}
           off == [p \in Pads |-> IF p \in on THEN Turned(s.pads[p], FALSE) ELSE s.pads[p]]
           sh == s.shown \ UNION {MembersOf(s, p) : p \in on}
           t == HideAll(s)
<1>0. Sound(s) /\ Typed(s)
  BY KeptIs DEF Sound
<1>1. \A p \in Defined(s) : LET r == Turned(s.pads[p], FALSE)
                            IN  /\ r \in PadRecords /\ r # Nobody /\ ~r.visible /\ r.solo = Nobody
                                /\ ~r.active /\ r.output = s.pads[p].output /\ r.last = s.pads[p].last
  BY <1>0, PadTypes, TurnedIs
<1>2. t = [s EXCEPT !.pads = off, !.shown = sh]
  BY <1>0 DEF HideAll, Typed, Fields
<1>3. /\ off \in [Pads -> PadRecords \cup {Nobody}]
      /\ \A p \in Pads : off[p] # Nobody <=> s.pads[p] # Nobody
      /\ \A p \in Defined(s) : /\ off[p].output = s.pads[p].output /\ off[p].last = s.pads[p].last
                               /\ ~off[p].visible /\ off[p].solo = Nobody /\ ~off[p].active
  <2> SUFFICES ASSUME NEW p \in Pads
               PROVE  /\ off[p] \in PadRecords \cup {Nobody}
                      /\ off[p] # Nobody <=> s.pads[p] # Nobody
                      /\ p \in Defined(s) =>
                           /\ off[p].output = s.pads[p].output /\ off[p].last = s.pads[p].last
                           /\ ~off[p].visible /\ off[p].solo = Nobody /\ ~off[p].active
    BY <1>0, PadTypes
  <2>1. CASE p \in on
    <3>1. off[p] = Turned(s.pads[p], FALSE) /\ p \in Defined(s) /\ s.pads[p] # Nobody
      BY <2>1 DEF Defined
    <3> HIDE DEF off
    <3> QED BY <1>1, <3>1
  <2>2. CASE p \notin on
    <3>1. off[p] = s.pads[p]
      BY <2>2
    <3>2. p \in Defined(s) => ~s.pads[p].visible
      BY <2>2
    <3> HIDE DEF off, on
    <3>3. p \in Defined(s) <=> s.pads[p] # Nobody
      BY DEF Defined
    <3>4. p \in Defined(s) => Pointed(s, p)
      BY DEF PadsKept
    <3> QED BY <1>0, <3>1, <3>2, <3>3, <3>4 DEF Pointed, Typed
  <2> QED BY <2>1, <2>2
<1>4. sh \in SUBSET Windows
  BY <1>0 DEF Typed
<1> HIDE DEF t, off, sh
<1>5. /\ Typed(t) /\ t.pads = off /\ t.shown = sh /\ t.members = s.members /\ t.noted = s.noted
      /\ t.focus = s.focus /\ t.place = s.place /\ t.owner = s.owner /\ t.lit = s.lit
      /\ t.restoring = s.restoring
  BY <1>0, <1>2, <1>3, <1>4 DEF Typed, Fields
<1>6. Defined(t) = Defined(s)
  BY <1>3, <1>5 DEF Defined
<1>7. \A p : MembersOf(t, p) = MembersOf(s, p)
  BY <1>5, SameEntries
<1>8. OnlyPads(s, t)
  <2>1. \A v \in Windows : ~InPad(s, v) => (v \in sh <=> v \in s.shown)
    BY <1>0, EntryFacts DEF sh
  <2> QED BY <1>3, <1>5, <1>6, <2>1 DEF OnlyPads
<1>9. OnePerOutput(t)
  BY <1>3, <1>5, <1>6 DEF OnePerOutput
<1>10. ASSUME NEW p \in Defined(s) PROVE Seen(t, p)
  <2>1. \A v : ~Presents(t, p, v)
    BY <1>3, <1>5 DEF Presents
  <2>2. ASSUME NEW v \in MembersOf(s, p) PROVE v \notin sh
    <3>1. CASE p \in on
      BY <2>2, <3>1 DEF sh
    <3>2. CASE p \notin on
      BY <2>2, <3>2 DEF sh, PadsKept, Seen, Presents
    <3> QED BY <3>1, <3>2
  <2> QED BY <1>5, <1>7, <2>1, <2>2 DEF Seen
<1>11. ASSUME NEW p \in Defined(s) PROVE Pointed(t, p)
  BY <1>3, <1>5, <1>7 DEF PadsKept, Pointed
<1>12. PadsKept(t)
  <2>1. \A p \in Defined(s) : t.pads[p].output = s.pads[p].output
    BY <1>3, <1>5
  <2> QED BY <1>8, <1>9, <1>10, <1>11, <2>1, HousedIs, OnlyPadsKeeps DEF PadsKept, Housed
<1>13. Holds(s, t)
  BY <1>3, <1>5 DEF Holds
<1> QED BY <1>12, <1>13 DEF t

\* A pad is moved for a while.
Shifts(s, p, o) == MoveScratchpad(s, p, o, FALSE)

\* MoveScratchpadIs, for a move that is to be undone.
LEMMA ShiftsIs ==
  ASSUME NEW s, Sound(s), OnePerOutput(s), NEW p \in Defined(s), NEW o \in Screens \cup {Nobody}
  PROVE  LET t == Shifts(s, p, o)
         IN  /\ Yields(s, t, p) /\ OnePerOutput(t) /\ t.pads[p].output = o
             /\ t.pads[p].visible = s.pads[p].visible /\ t.pads[p].active = s.pads[p].active
             /\ t.pads[p].last = s.pads[p].last /\ t.pads[p].solo = s.pads[p].solo
             /\ Seen(s, p) => Seen(t, p)
<1> DEFINE t == Shifts(s, p, o)
<1>0. s.pads[p] \in PadRecords
  BY PadTypes DEF Sound
<1>2. /\ Yields(s, t, p) /\ OnePerOutput(t)
      /\ t.pads[p] = [s.pads[p] EXCEPT !.output = o, !.away = IF FALSE THEN Nobody ELSE @]
      /\ Seen(s, p) => Seen(t, p)
      /\ s.pads[p].visible /\ s.pads[p].output # o => Seen(t, p)
  BY MoveScratchpadIs DEF Shifts
<1> HIDE DEF t
<1>3. /\ t.pads[p].output = o
      /\ t.pads[p].visible = s.pads[p].visible /\ t.pads[p].active = s.pads[p].active
      /\ t.pads[p].last = s.pads[p].last /\ t.pads[p].solo = s.pads[p].solo
  BY <1>0, <1>2 DEF PadRecords
<1> QED BY <1>2, <1>3 DEF t

\* Pads go elsewhere and hide; what is in order stays so.
Roams(s, t) ==
  /\ OnlyPads(s, t) /\ OnePerOutput(t)
  /\ \A p \in Defined(s) : /\ Seen(s, p) => Seen(t, p)
                           /\ Pointed(s, p) => Pointed(t, p)
                           /\ t.pads[p].visible => /\ s.pads[p].visible
                                                   /\ t.pads[p].solo = s.pads[p].solo

\* Roaming is transitive.
LEMMA RoamsTwice ==
  ASSUME NEW s, NEW t, NEW u, Roams(s, t), Roams(t, u)
  PROVE  Roams(s, u)
<1>1. OnlyPads(s, u)
  BY SameEntries DEF Roams, OnlyPads
<1> QED BY <1>1 DEF Roams, OnlyPads

\* A pad that roams does not spread.
LEMMA RoamsHolds ==
  ASSUME NEW s, NEW t, Roams(s, t)
  PROVE  Holds(s, t)
BY DEF Roams, Holds

\* A pad that is moved roams, and no other changes its output.
LEMMA ShiftRoams ==
  ASSUME NEW s, Sound(s), OnePerOutput(s), NEW p \in Defined(s), NEW o \in Screens \cup {Nobody}
  PROVE  LET t == Shifts(s, p, o)
         IN  /\ Roams(s, t) /\ t.pads[p].output = o
             /\ \A q \in Defined(s) \ {p} : t.pads[q].output = s.pads[q].output
<1> DEFINE t == Shifts(s, p, o)
<1>1. /\ Yields(s, t, p) /\ OnePerOutput(t) /\ t.pads[p].output = o
      /\ t.pads[p].visible = s.pads[p].visible /\ t.pads[p].active = s.pads[p].active
      /\ t.pads[p].last = s.pads[p].last /\ t.pads[p].solo = s.pads[p].solo
      /\ Seen(s, p) => Seen(t, p)
  BY ShiftsIs
<1> HIDE DEF t
<1>2. \A q \in Defined(s) \ {p} : /\ Seen(s, q) => Seen(t, q)
                                  /\ Pointed(s, q) => Pointed(t, q)
                                  /\ t.pads[q].output = s.pads[q].output
                                  /\ t.pads[q].visible => t.pads[q] = s.pads[q]
  BY <1>1, YieldsKeeps DEF Yields
<1>3. Pointed(s, p) => Pointed(t, p)
  <2>1. MembersOf(t, p) = MembersOf(s, p)
    BY <1>1, SameEntries DEF Yields, OnlyPads
  <2> QED BY <1>1, <2>1 DEF Pointed
<1>4. \A q \in Defined(s) : /\ Seen(s, q) => Seen(t, q)
                            /\ Pointed(s, q) => Pointed(t, q)
                            /\ t.pads[q].visible => /\ s.pads[q].visible
                                                    /\ t.pads[q].solo = s.pads[q].solo
  BY <1>1, <1>2, <1>3
<1>5. Roams(s, t)
  BY <1>1, <1>4 DEF Roams, Yields
<1> QED BY <1>1, <1>2, <1>5 DEF t

\* Pads that are moved one after another all arrive, in whatever order.
LEMMA MoveEachIs ==
  ASSUME NEW s, Sound(s), OnePerOutput(s), NEW moving, moving \subseteq Defined(s), NEW to,
         \A p \in moving : to[p] \in Screens \cup {Nobody}
  PROVE  LET t == MoveEach(s, moving, to)
         IN  /\ Roams(s, t)
             /\ \A p \in Defined(s) : t.pads[p].output = IF p \in moving THEN to[p]
                                                         ELSE s.pads[p].output
<1> DEFINE order == SetToSeq(moving)
           N == Len(order)
           Next1(x, p) == Shifts(x, p, to[p])
           Steps(g, n) == g = [k \in 0..n |-> IF k = 0 THEN s ELSE Next1(g[k - 1], order[k])]
           move == CHOOSE g : Steps(g, N)
<1>1. N \in Nat /\ DOMAIN order = 1..N /\ {order[i] : i \in 1..N} = moving
  <2>1. moving \subseteq Pads
    BY PadTypes DEF Sound
  <2> QED BY <2>1, OrderIs
<1>0. N \in Nat
  BY <1>1
<1>2. MoveEach(s, moving, to) = move[N]
  BY DEF MoveEach, Shifts
<1> HIDE DEF Next1, order, N
<1>3. \E g : Steps(g, N)
  <2> DEFINE P == {n \in Nat : \E g : Steps(g, n)}
  <2>1. 0 \in P
    <3>1. Steps([k \in 0..0 |-> s], 0)
      OBVIOUS
    <3> QED BY <3>1
  <2>2. ASSUME NEW n \in 0..(N - 1), n \in P PROVE n + 1 \in P
    <3>1. PICK g : Steps(g, n)
      BY <2>2
    <3> DEFINE h == [k \in 0..(n + 1) |-> IF k = n + 1 THEN Next1(g[n], order[n + 1]) ELSE g[k]]
    <3>2. \A k \in 0..(n + 1) : h[k] = IF k = 0 THEN s ELSE Next1(h[k - 1], order[k])
      BY <1>1, <3>1
    <3>3. Steps(h, n + 1)
      BY <1>1, <3>2
    <3>4. n + 1 \in Nat
      BY <1>1
    <3> HIDE DEF Steps, h
    <3> QED BY <3>3, <3>4
  <2> HIDE DEF P
  <2>3. N \in P
    BY <1>0, <2>1, <2>2, Upto
  <2> QED BY <2>3 DEF P
<1>4. Steps(move, N)
  BY <1>3
<1> HIDE DEF move
<1>5. move[0] = s /\ \A k \in 1..N : move[k] = Next1(move[k - 1], order[k])
  BY <1>1, <1>4
<1> DEFINE Is(n) == /\ Roams(s, move[n])
                    /\ \A p \in Defined(s) : move[n].pads[p].output =
                         IF \E i \in 1..n : order[i] = p THEN to[p] ELSE s.pads[p].output
           Q == {n \in 0..N : Is(n)}
<1>6. 0 \in Q
  <2>1. Roams(s, s)
    BY DEF Roams, OnlyPads, Sound
  <2> QED BY <1>1, <1>5, <2>1
<1>7. ASSUME NEW n \in 0..(N - 1), n \in Q PROVE n + 1 \in Q
  <2> DEFINE x == move[n]  y == move[n + 1]  p == order[n + 1]
  <2>1. n + 1 \in 1..N /\ n + 1 \in 0..N /\ Is(n) /\ p \in moving
    BY <1>1, <1>7
  <2>2. y = Shifts(x, p, to[p])
    BY <1>5, <2>1 DEF Next1
  <2>3. Sound(x) /\ OnePerOutput(x) /\ Defined(x) = Defined(s) /\ p \in Defined(s)
    BY <2>1, SoundStays DEF Roams, OnlyPads
  <2> DEFINE o == to[p]
  <2>4. o \in Screens \cup {Nobody}
    BY <2>1
  <2> HIDE DEF x, y, o, p
  <2>5. /\ Roams(x, y) /\ y.pads[p].output = o
        /\ \A q \in Defined(x) \ {p} : y.pads[q].output = x.pads[q].output
    BY <2>2, <2>3, <2>4, ShiftRoams DEF o
  <2>6. Roams(s, y)
    BY <2>1, <2>5, RoamsTwice DEF x
  <2>7. \A q \in Defined(s) : y.pads[q].output =
          IF \E i \in 1..(n + 1) : order[i] = q THEN to[q] ELSE s.pads[q].output
    <3> SUFFICES ASSUME NEW q \in Defined(s)
                 PROVE  y.pads[q].output =
                          IF \E i \in 1..(n + 1) : order[i] = q THEN to[q] ELSE s.pads[q].output
      OBVIOUS
    <3>1. (\E i \in 1..(n + 1) : order[i] = q) <=> q = p \/ \E i \in 1..n : order[i] = q
      BY <1>1, <2>1 DEF p
    <3>2. x.pads[q].output = IF \E i \in 1..n : order[i] = q THEN to[q] ELSE s.pads[q].output
      BY <2>1 DEF x
    <3> QED BY <2>3, <2>5, <3>1, <3>2 DEF o
  <2> QED BY <2>1, <2>6, <2>7 DEF y
<1> HIDE DEF Q
<1>8. N \in Q
  BY <1>0, <1>6, <1>7, Upto
<1>9. Is(N)
  BY <1>8 DEF Q
<1>10. \A p : (\E i \in 1..N : order[i] = p) <=> p \in moving
  BY <1>1
<1> QED BY <1>2, <1>9, <1>10

\* Noting the output a pad is away from moves nothing.
LEMMA AwayFromIs ==
  ASSUME NEW s, Sound(s), OnePerOutput(s), NEW away,
         \A p \in Defined(s) : away[p] \in Screens \cup {Nobody}
  PROVE  LET t == AwayFrom(s, away)
         IN  /\ Roams(s, t) /\ \A p \in Defined(s) : t.pads[p].output = s.pads[p].output
<1> DEFINE t == AwayFrom(s, away)
           from(p) == [s.pads[p] EXCEPT !.away = away[p]]
           all == [p \in Pads |-> IF p \in Defined(s) THEN from(p) ELSE s.pads[p]]
<1>0. Typed(s) /\ Defined(s) \subseteq Pads
  BY PadTypes DEF Sound
<1>1. \A p \in Defined(s) : /\ from(p) \in PadRecords /\ from(p).output = s.pads[p].output
                            /\ from(p).visible = s.pads[p].visible /\ from(p).solo = s.pads[p].solo
                            /\ from(p).active = s.pads[p].active /\ from(p).last = s.pads[p].last
  <2>1. \A p \in Defined(s) : s.pads[p] \in PadRecords
    BY <1>0, PadTypes
  <2> QED BY <2>1 DEF PadRecords
<1>2. t = [s EXCEPT !.pads = all]
  BY <1>0 DEF AwayFrom, Typed, Fields
<1> HIDE DEF from
<1>3. /\ all \in [Pads -> PadRecords \cup {Nobody}]
      /\ \A p \in Pads : all[p] # Nobody <=> s.pads[p] # Nobody
      /\ \A p \in Defined(s) : all[p] = from(p)
  BY <1>0, <1>1, PadTypes, ScreenAssumption DEF Defined
<1> HIDE DEF t, all
<1>4. /\ Typed(t) /\ t.pads = all /\ t.shown = s.shown /\ t.members = s.members
      /\ t.noted = s.noted /\ t.focus = s.focus /\ t.place = s.place /\ t.owner = s.owner
      /\ t.lit = s.lit /\ t.restoring = s.restoring
  BY <1>0, <1>2, <1>3 DEF Typed, Fields
<1>5. Defined(t) = Defined(s)
  BY <1>3, <1>4 DEF Defined
<1>6. \A p \in Defined(s) : /\ t.pads[p].output = s.pads[p].output
                            /\ t.pads[p].visible = s.pads[p].visible
                            /\ t.pads[p].solo = s.pads[p].solo /\ t.pads[p].last = s.pads[p].last
                            /\ t.pads[p].active = s.pads[p].active
  BY <1>1, <1>3, <1>4
<1>7. OnlyPads(s, t) /\ OnePerOutput(t)
  BY <1>4, <1>5, <1>6 DEF OnlyPads, OnePerOutput
<1>8. \A p \in Defined(s) : Seen(s, p) => Seen(t, p)
  BY <1>4, <1>6, SeenFrame
<1>9. \A p \in Defined(s) : Pointed(s, p) => Pointed(t, p)
  <2>1. \A p : MembersOf(t, p) = MembersOf(s, p)
    BY <1>4, SameEntries
  <2> QED BY <1>6, <2>1 DEF Pointed
<1> QED BY <1>6, <1>7, <1>8, <1>9 DEF Roams, t

\* moveOutput moves the pads of an output and no others.
LEMMA MoveOutputIs ==
  ASSUME NEW s, Sound(s), OnePerOutput(s), NEW o \in Screens, NEW d \in Screens \cup {Nobody}
  PROVE  LET t == MoveOutput(s, o, d)
         IN  /\ Roams(s, t)
             /\ \A p \in Defined(s) : t.pads[p].output = IF s.pads[p].output = o THEN d
                                                         ELSE s.pads[p].output
<1> DEFINE away == [p \in Defined(s) |-> IF p \in PadsOn(s, o) /\ s.pads[p].away = Nobody THEN o
                                         ELSE s.pads[p].away]
           moving == PadsOn(s, o)
           to == [p \in Pads |-> d]
           a == AwayFrom(s, away)
           t == MoveEach(a, moving, to)
<1>1. t = MoveOutput(s, o, d)
  BY DEF MoveOutput
<1>2. \A p \in Defined(s) : away[p] \in Screens \cup {Nobody}
  BY PadTypes DEF Sound, PadRecords
<1>3. moving \subseteq Defined(s) /\ \A p \in Defined(s) : p \in moving <=> s.pads[p].output = o
  BY DEF PadsOn
<1>4. \A p \in moving : to[p] = d
  BY <1>3, PadTypes DEF Sound
<1> HIDE DEF away, moving, to
<1>5. Roams(s, a) /\ \A p \in Defined(s) : a.pads[p].output = s.pads[p].output
  BY <1>2, AwayFromIs
<1> HIDE DEF a
<1>6. Sound(a) /\ OnePerOutput(a) /\ Defined(a) = Defined(s)
  BY <1>5, SoundStays DEF Roams, OnlyPads
<1>7. /\ Roams(a, t)
      /\ \A p \in Defined(a) : t.pads[p].output = IF p \in moving THEN to[p] ELSE a.pads[p].output
  <2>1. \A p \in moving : to[p] \in Screens \cup {Nobody}
    BY <1>4
  <2>2. moving \subseteq Defined(a)
    BY <1>3, <1>6
  <2> QED BY <1>6, <2>1, <2>2, MoveEachIs
<1> HIDE DEF t
<1>8. Roams(s, t)
  BY <1>5, <1>7, RoamsTwice
<1> QED BY <1>1, <1>3, <1>4, <1>5, <1>6, <1>7, <1>8

\* releaseOutput has nothing left to release once the pads were moved.
LEMMA ReleaseOutputIs ==
  ASSUME NEW s, Sound(s), NEW o, PadsOn(s, o) = {}
  PROVE  Focuses(s, ReleaseOutput(s, o))
<1> DEFINE seen == {p \in PadsOn(s, o) : s.pads[p].visible}
           all == [p \in Pads |-> IF p \in PadsOn(s, o) THEN [s.pads[p] EXCEPT !.output = Nobody]
                                  ELSE s.pads[p]]
           sh == s.shown \ UNION {MembersOf(s, p) : p \in seen}
<1>1. all = s.pads
  BY DEF Sound, Typed
<1>2. sh = s.shown
  BY DEF Sound, Typed
<1>3. ReleaseOutput(s, o) = [s EXCEPT !.pads = all, !.shown = sh]
  BY DEF ReleaseOutput, Sound, Typed, Fields
<1> HIDE DEF all, sh
<1> DEFINE t == ReleaseOutput(s, o)
<1> HIDE DEF t
<1>4. /\ Typed(t) /\ t.pads = s.pads /\ t.shown = s.shown /\ t.members = s.members
      /\ t.noted = s.noted /\ t.focus = s.focus /\ t.place = s.place /\ t.owner = s.owner
      /\ t.lit = s.lit /\ t.restoring = s.restoring
  BY <1>1, <1>2, <1>3 DEF Sound, Typed, Fields, t
<1>5. Focuses(s, t)
  BY <1>4, SameEntries DEF Focuses, Defined, Noted, Pointed
<1> QED BY <1>5 DEF t

\* An output that leaves takes its workspaces off every window, and its anchors off every entry.
LEMMA EvacuateToIs ==
  ASSUME NEW s, Sound(s), NEW o, NEW d \in Screens \cup {Nobody}
  PROVE  LET t == EvacuateTo(s, o, d)
         IN  /\ Sound(t) /\ t.pads = s.pads /\ t.noted = s.noted /\ t.focus = s.focus
             /\ t.owner = s.owner /\ t.lit = s.lit /\ t.restoring = s.restoring
             /\ \A p : MembersOf(t, p) = MembersOf(s, p)
             /\ \A u : InPad(t, u) = InPad(s, u)
             /\ \A u \in Windows :
                  IF s.place[u] \in Places /\ s.place[u].on = o
                  THEN /\ IF d = Nobody THEN t.place[u] = Nobody /\ u \notin t.shown
                          ELSE t.place[u] \in Places /\ t.place[u].on = d /\ (u \in t.shown <=> u \in s.shown)
                  ELSE t.place[u] = s.place[u] /\ (u \in t.shown <=> u \in s.shown)
<1> DEFINE mine == {u \in Windows : s.place[u] \notin {Nobody, Unmapped} /\ s.place[u].on = o}
           new(u) == IF d = Nobody THEN Nobody
                     ELSE IF s.place[u].for # Nobody THEN RefugeOn(d, s.place[u].for)
                     ELSE RefugeOn(d, o)
           gone == IF d = Nobody THEN mine ELSE {}
           pl == [u \in Windows |-> IF u \in mine THEN new(u) ELSE s.place[u]]
           cut(i) == [s.members[i] EXCEPT !.home.held = FALSE]
           mem == [i \in DOMAIN s.members |-> IF s.members[i].home.to # Nobody /\ s.members[i].home.to.on = o
                                              THEN cut(i) ELSE s.members[i]]
           sh == s.shown \ gone
           t == EvacuateTo(s, o, d)
<1>0. Typed(s) /\ Unmapped # Nobody /\ Unmapped \notin Places /\ Nobody \notin Places
  BY ScreenAssumption DEF Sound
<1>1. t = [s EXCEPT !.place = pl, !.shown = sh, !.members = mem]
  BY <1>0 DEF EvacuateTo, Typed, Fields
<1>2. \A u \in Windows : u \in mine <=> s.place[u] \in Places /\ s.place[u].on = o
  BY <1>0 DEF Typed
<1>3. \A u \in mine : IF d = Nobody THEN new(u) = Nobody ELSE new(u) \in Places /\ new(u).on = d
  <2> SUFFICES ASSUME NEW u \in mine, d # Nobody PROVE new(u) \in Places /\ new(u).on = d
    OBVIOUS
  <2>1. s.place[u] \in Places /\ s.place[u].on = o
    BY <1>2
  <2>2. o \in Screens /\ s.place[u].for \in Screens \cup {Nobody} /\ d \in Screens
    BY <2>1 DEF Places
  <2>3. \E x \in Screens \cup {Nobody} : new(u) = [on |-> d, for |-> x]
    BY <2>2 DEF RefugeOn
  <2> QED BY <2>2, <2>3 DEF Places
<1> HIDE DEF mine, new
<1>4. /\ pl \in [Windows -> Places \cup {Nobody, Unmapped}]
      /\ \A u \in Windows : pl[u] = IF u \in mine THEN new(u) ELSE s.place[u]
  BY <1>0, <1>3 DEF Typed
<1>5. \A i \in DOMAIN s.members : cut(i) \in Entries /\ cut(i).view = s.members[i].view
                                  /\ cut(i).pad = s.members[i].pad
  <2> SUFFICES ASSUME NEW i \in DOMAIN s.members
               PROVE  cut(i) \in Entries /\ cut(i).view = s.members[i].view
                      /\ cut(i).pad = s.members[i].pad
    OBVIOUS
  <2>1. s.members[i] \in Entries
    BY EntryFacts
  <2> QED BY <2>1 DEF Entries, Homes
<1> HIDE DEF cut
<1>6. /\ mem \in Seq(Entries) /\ DOMAIN mem = DOMAIN s.members
      /\ \A i \in DOMAIN s.members : mem[i].view = s.members[i].view /\ mem[i].pad = s.members[i].pad
  <2>1. \A i \in DOMAIN s.members : mem[i] \in Entries /\ mem[i].view = s.members[i].view
                                    /\ mem[i].pad = s.members[i].pad
    BY <1>5, EntryFacts
  <2>2. DOMAIN s.members = 1..Len(s.members) /\ Len(s.members) \in Nat
    BY <1>0 DEF Typed
  <2>3. DOMAIN mem = 1..Len(s.members) /\ mem = [i \in 1..Len(s.members) |-> mem[i]]
    BY <2>2
  <2> HIDE DEF mem
  <2>4. mem \in Seq(Entries)
    BY <2>1, <2>2, <2>3
  <2> QED BY <2>1, <2>2, <2>3, <2>4
<1> HIDE DEF pl, mem, t
<1>7. sh \in SUBSET Windows
  BY <1>0 DEF Typed
<1> HIDE DEF sh
<1>8. /\ Typed(t) /\ t.pads = s.pads /\ t.noted = s.noted /\ t.focus = s.focus
      /\ t.owner = s.owner /\ t.lit = s.lit /\ t.restoring = s.restoring
      /\ t.place = pl /\ t.shown = sh /\ t.members = mem
  BY <1>0, <1>1, <1>4, <1>6, <1>7 DEF Typed, Fields
<1>9. \A p : MembersOf(t, p) = MembersOf(s, p)
  BY <1>6, <1>8 DEF MembersOf, EntriesOf
<1>10. \A u : InPad(t, u) = InPad(s, u)
  BY <1>6, <1>8 DEF InPad
<1>11. Sound(t)
  BY <1>6, <1>8 DEF Sound, Distinct, Defined
<1>12. \A u \in Windows : IF u \in mine THEN
                               IF d = Nobody THEN t.place[u] = Nobody /\ u \notin t.shown
                               ELSE t.place[u] \in Places /\ t.place[u].on = d /\ (u \in t.shown <=> u \in s.shown)
                          ELSE t.place[u] = s.place[u] /\ (u \in t.shown <=> u \in s.shown)
  BY <1>3, <1>4, <1>8 DEF sh
<1> QED BY <1>2, <1>8, <1>9, <1>10, <1>11, <1>12 DEF t

\* An output leaves, and another takes its windows and pads.
Loses(s, o, d) ==
  ReleaseOutput(MoveOutput(EvacuateTo([s EXCEPT !.lit = @ \ {o}], o, d), o, d), o)

\* Losing an output leaves everything in order.
LEMMA LosesIs ==
  ASSUME NEW s, PadsKept(s), NEW o \in s.lit, NEW d,
         d \in (IF s.lit = {o} THEN {Nobody} ELSE s.lit \ {o})
  PROVE  PadsKept(Loses(s, o, d)) /\ Holds(s, Loses(s, o, d))
<1> DEFINE g == [s EXCEPT !.lit = @ \ {o}]
           e == EvacuateTo(g, o, d)
           m == MoveOutput(e, o, d)
           t == ReleaseOutput(m, o)
<1>0. /\ Sound(s) /\ Typed(s) /\ s.lit \subseteq Screens /\ o \in Screens /\ Nobody \notin Screens
      /\ Nobody \notin Places /\ Unmapped \notin Places /\ Unmapped # Nobody
  BY KeptIs, ScreenAssumption DEF Sound, Typed
<1>1. d \in Screens \cup {Nobody} /\ d # o /\ (d # Nobody => d \in s.lit) /\ (d = Nobody => s.lit = {o})
  BY <1>0
<1>2. /\ Typed(g) /\ g.lit = s.lit \ {o} /\ g.pads = s.pads /\ g.shown = s.shown
      /\ g.members = s.members /\ g.noted = s.noted /\ g.focus = s.focus /\ g.place = s.place
      /\ g.owner = s.owner /\ g.restoring = s.restoring
  BY <1>0 DEF Typed, Fields
<1> HIDE DEF g
<1>3. Sound(g)
  BY <1>0, <1>2 DEF Sound, Distinct, Defined
<1>4. /\ \A p : MembersOf(g, p) = MembersOf(s, p) /\ \A u : InPad(g, u) = InPad(s, u)
  BY <1>2, SameEntries
<1> DEFINE Moved(u) == s.place[u] \in Places /\ s.place[u].on = o
<1>5. /\ Sound(e) /\ e.pads = s.pads /\ e.noted = s.noted /\ e.focus = s.focus
      /\ e.owner = s.owner /\ e.lit = s.lit \ {o} /\ e.restoring = s.restoring
      /\ \A p : MembersOf(e, p) = MembersOf(s, p)
      /\ \A u : InPad(e, u) = InPad(s, u)
      /\ \A u \in Windows :
           IF Moved(u)
           THEN /\ IF d = Nobody THEN e.place[u] = Nobody /\ u \notin e.shown
                   ELSE e.place[u] \in Places /\ e.place[u].on = d /\ (u \in e.shown <=> u \in s.shown)
           ELSE e.place[u] = s.place[u] /\ (u \in e.shown <=> u \in s.shown)
  <2>1. LET x == EvacuateTo(g, o, d)
        IN  /\ Sound(x) /\ x.pads = g.pads /\ x.noted = g.noted /\ x.focus = g.focus
            /\ x.owner = g.owner /\ x.lit = g.lit /\ x.restoring = g.restoring
            /\ \A p : MembersOf(x, p) = MembersOf(g, p)
            /\ \A u : InPad(x, u) = InPad(g, u)
            /\ \A u \in Windows :
                 IF g.place[u] \in Places /\ g.place[u].on = o
                 THEN /\ IF d = Nobody THEN x.place[u] = Nobody /\ u \notin x.shown
                         ELSE x.place[u] \in Places /\ x.place[u].on = d /\ (u \in x.shown <=> u \in g.shown)
                 ELSE x.place[u] = g.place[u] /\ (u \in x.shown <=> u \in g.shown)
    BY <1>1, <1>3, EvacuateToIs
  <2> HIDE DEF e
  <2> QED BY <1>2, <1>4, <2>1 DEF e
<1> HIDE DEF e, Moved
<1>6. Defined(e) = Defined(s) /\ OnePerOutput(e)
  BY <1>5 DEF PadsKept, OnePerOutput, Defined
<1>7. \A u \in Windows : InPad(s, u) => ~Moved(u)
  BY <1>0 DEF PadsKept, Linked, Moved
<1>8. \A p \in Defined(e) : Seen(e, p) /\ Pointed(e, p)
  <2>1. \A p, u : Presents(e, p, u) = Presents(s, p, u)
    BY <1>5, PresentsFrame
  <2>2. \A p, u : u \in MembersOf(s, p) => u \in Windows /\ InPad(s, u)
    BY <1>0, EntryFacts
  <2>3. \A p, u : u \in MembersOf(s, p) => (u \in e.shown <=> u \in s.shown)
    BY <1>5, <1>7, <2>2
  <2>4. \A p \in Defined(e) : Seen(e, p)
    BY <1>5, <1>6, <2>1, <2>3 DEF PadsKept, Seen
  <2>5. \A p \in Defined(e) : Pointed(e, p)
    BY <1>5, <1>6 DEF PadsKept, Pointed
  <2> QED BY <2>4, <2>5
<1>9. Linked(e) /\ Noted(e)
  <2>1. \A u \in Windows : e.place[u] # Unmapped <=> s.place[u] # Unmapped
    BY <1>0, <1>5 DEF Moved
  <2>2. \A u \in Windows : u \in e.shown => u \in s.shown
    BY <1>5
  <2>3. Rooted(e)
    BY <1>5 DEF PadsKept, Linked, Rooted
  <2>4. ASSUME NEW u \in Windows
        PROVE  /\ InPad(e, u) => e.place[u] = Nobody
               /\ u \in e.shown => e.place[u] # Unmapped
               /\ e.owner[u] # Nobody => e.place[u] # Unmapped /\ e.place[e.owner[u]] # Unmapped
    <3>1. s.owner[u] \in Windows \cup {Nobody}
      BY <1>0 DEF Typed
    <3> QED BY <1>5, <1>7, <2>1, <2>2, <3>1 DEF PadsKept, Linked
  <2>5. Noted(e)
    BY <1>5 DEF PadsKept, Noted
  <2> QED BY <2>3, <2>4, <2>5 DEF Linked
<1>10. WindowsHoused(e)
  <2>1. \A u \in Windows : e.place[u] \in Places => e.place[u].on \in e.lit
    <3> SUFFICES ASSUME NEW u \in Windows, e.place[u] \in Places PROVE e.place[u].on \in e.lit
      OBVIOUS
    <3>1. CASE Moved(u)
      BY <1>0, <1>1, <1>5, <3>1
    <3>2. CASE ~Moved(u)
      BY <1>5, <3>2 DEF PadsKept, Housed, Moved
    <3> QED BY <3>1, <3>2
  <2>2. ASSUME ~e.restoring, e.lit # {}, NEW u \in Windows, e.place[u] = Nobody PROVE InPad(e, u)
    <3>1. d # Nobody
      BY <1>1, <1>5, <2>2
    <3>2. e.place[u] = s.place[u]
      BY <1>0, <1>5, <2>2, <3>1
    <3>3. s.lit # {} /\ ~s.restoring
      BY <1>5, <2>2
    <3> QED BY <1>5, <2>2, <3>2, <3>3 DEF PadsKept, Housed
  <2> QED BY <2>1, <2>2 DEF WindowsHoused
<1>11. /\ Roams(e, m)
       /\ \A p \in Defined(e) : m.pads[p].output = IF e.pads[p].output = o THEN d
                                                   ELSE e.pads[p].output
  BY <1>0, <1>1, <1>5, <1>6, MoveOutputIs
<1> HIDE DEF m
<1>12. PadsKept(m)
  <2>1. \A p \in Defined(e) : /\ Seen(m, p) /\ Pointed(m, p)
                              /\ m.pads[p].output \in e.lit \cup {Nobody}
    BY <1>1, <1>5, <1>6, <1>8, <1>11 DEF Roams, PadsKept, Housed
  <2>2. ~e.restoring /\ e.lit # {} =>
          \A p \in Defined(e) : MembersOf(e, p) # {} => m.pads[p].output # Nobody
    BY <1>1, <1>5, <1>6, <1>11 DEF PadsKept, Housed
  <2> QED BY <1>5, <1>9, <1>10, <1>11, <2>1, <2>2, OnlyPadsKeeps DEF Roams
<1>13. Focuses(m, t)
  <2>1. PadsOn(m, o) = {}
    BY <1>1, <1>11 DEF PadsOn, Roams, OnlyPads
  <2> QED BY <1>12, <2>1, ReleaseOutputIs DEF PadsKept
<1>14. PadsKept(t)
  BY <1>12, <1>13, FocusKeeps
<1>15. Holds(s, t)
  <2>1. Holds(e, m)
    BY <1>11, RoamsHolds
  <2>2. Holds(s, m)
    BY <1>5, <1>6, <2>1 DEF Holds
  <2> QED BY <1>13, <2>2, FocusesHolds
<1> QED BY <1>14, <1>15 DEF Loses, t, m, e, g

\* Windows that are in no pad are placed.
LEMMA PlacesKeep ==
  ASSUME NEW s, PadsKept(s), NEW t, Typed(t), t.pads = s.pads, t.members = s.members,
         t.noted = s.noted, t.owner = s.owner, t.lit = s.lit,
         \A u \in Windows : \/ t.place[u] = s.place[u] /\ (u \in t.shown <=> u \in s.shown)
                            \/ /\ s.place[u] # Unmapped /\ ~InPad(s, u)
                               /\ t.place[u] \in Places /\ t.place[u].on \in s.lit,
         ~t.restoring /\ t.lit # {} =>
           /\ \A u \in Windows : t.place[u] = Nobody => InPad(s, u)
           /\ \A p \in Defined(s) : MembersOf(s, p) # {} => s.pads[p].output # Nobody
  PROVE  PadsKept(t)
<1>0. /\ Sound(s) /\ Nobody \notin Places /\ Unmapped \notin Places /\ Unmapped # Nobody
  BY KeptIs, ScreenAssumption
<1>1. /\ \A p : MembersOf(t, p) = MembersOf(s, p) /\ \A u : InPad(t, u) = InPad(s, u)
      /\ Defined(t) = Defined(s)
  BY SameEntries DEF Defined
<1>2. Sound(t)
  BY <1>0, <1>1 DEF Sound, Distinct
<1>3. \A u \in Windows : /\ t.place[u] = Unmapped <=> s.place[u] = Unmapped
                         /\ InPad(s, u) => t.place[u] = s.place[u] /\ (u \in t.shown <=> u \in s.shown)
                         /\ u \in t.shown => u \in s.shown \/ t.place[u] # Unmapped
  BY <1>0
<1>4. Linked(t)
  <2>1. Rooted(t)
    BY DEF PadsKept, Linked, Rooted
  <2>2. ASSUME NEW u \in Windows
        PROVE  /\ InPad(t, u) => t.place[u] = Nobody
               /\ u \in t.shown => t.place[u] # Unmapped
               /\ t.owner[u] # Nobody => t.place[u] # Unmapped /\ t.place[t.owner[u]] # Unmapped
    <3>1. s.owner[u] \in Windows \cup {Nobody}
      BY <1>0 DEF Sound, Typed
    <3> QED BY <1>1, <1>3, <3>1 DEF PadsKept, Linked
  <2> QED BY <2>1, <2>2 DEF Linked
<1>5. Noted(t) /\ OnePerOutput(t)
  BY <1>1 DEF PadsKept, Noted, OnePerOutput
<1>6. Housed(t)
  <2>1. \A u \in Windows : t.place[u] \in Places => t.place[u].on \in t.lit
    BY DEF PadsKept, Housed
  <2> QED BY <1>1, <2>1 DEF PadsKept, Housed
<1>7. ASSUME NEW p \in Defined(t) PROVE Seen(t, p) /\ Pointed(t, p)
  <2>1. Seen(s, p) /\ Pointed(s, p)
    BY <1>1 DEF PadsKept
  <2>2. \A u \in MembersOf(s, p) : u \in t.shown <=> u \in s.shown
    BY <1>0, <1>3, EntryFacts
  <2>3. Seen(t, p)
    BY <2>1, <2>2, SeenFrame
  <2> QED BY <1>1, <2>1, <2>3 DEF Pointed
<1> QED BY <1>2, <1>4, <1>5, <1>6, <1>7 DEF PadsKept

\* restoreDisplaced leaves everything in order, and every pad on an output.
LEMMA RestorePadsIs ==
  ASSUME NEW s, PadsKept(s), NEW f \in s.lit
  PROVE  LET t == RestorePads(s, f)
         IN  /\ PadsKept(t) /\ Roams(s, t)
             /\ \A p \in Defined(s) : t.pads[p].output # Nobody
<1> DEFINE home   == {p \in Defined(s) : s.pads[p].away \in s.lit}
           adrift == {p \in Defined(s) : s.pads[p].output = Nobody}
           to == [p \in Defined(s) |-> IF p \in home THEN s.pads[p].away ELSE f]
           still == [p \in Defined(s) |-> IF p \in home THEN Nobody ELSE s.pads[p].away]
           moving == home \cup adrift
           m == MoveEach(s, moving, to)
           t == AwayFrom(m, still)
<1>0. /\ Sound(s) /\ OnePerOutput(s) /\ Nobody \notin s.lit /\ s.lit \subseteq Screens
  BY KeptIs, ScreenAssumption DEF PadsKept, Sound, Typed
<1>1. t = RestorePads(s, f)
  BY DEF RestorePads
<1>2. /\ moving \subseteq Defined(s) /\ \A p \in moving : to[p] \in s.lit
      /\ \A p \in Defined(s) : still[p] \in Screens \cup {Nobody}
      /\ \A p \in Defined(s) : p \notin moving => s.pads[p].output # Nobody
  <2>1. \A p \in Defined(s) : s.pads[p] \in PadRecords
    BY <1>0, PadTypes DEF Sound
  <2> QED BY <2>1 DEF PadRecords
<1> HIDE DEF moving, to, still
<1>3. /\ Roams(s, m)
      /\ \A p \in Defined(s) : m.pads[p].output = IF p \in moving THEN to[p] ELSE s.pads[p].output
  <2>1. \A p \in moving : to[p] \in Screens \cup {Nobody}
    BY <1>0, <1>2
  <2> QED BY <1>0, <1>2, <2>1, MoveEachIs
<1> HIDE DEF m
<1>4. Sound(m) /\ OnePerOutput(m) /\ Defined(m) = Defined(s)
  BY <1>0, <1>3, SoundStays DEF Roams, OnlyPads
<1>5. Roams(m, t) /\ \A p \in Defined(m) : t.pads[p].output = m.pads[p].output
  BY <1>2, <1>4, AwayFromIs
<1> HIDE DEF t
<1>6. Roams(s, t)
  BY <1>3, <1>5, RoamsTwice
<1>7. \A p \in Defined(s) : t.pads[p].output \in s.lit
  BY <1>0, <1>2, <1>3, <1>4, <1>5 DEF PadsKept, Housed
<1>8. PadsKept(t)
  <2>1. \A p \in Defined(s) : Seen(t, p) /\ Pointed(t, p)
    BY <1>6 DEF PadsKept, Roams
  <2>2. WindowsHoused(s)
    BY HousedIs DEF PadsKept
  <2> QED BY <1>0, <1>6, <1>7, <2>1, <2>2, OnlyPadsKeeps DEF PadsKept, Roams
<1> QED BY <1>0, <1>1, <1>6, <1>7, <1>8

\* The restoration leaves everything in order.
LEMMA BringHomeIs ==
  ASSUME NEW s, PadsKept(s), NEW f \in s.lit
  PROVE  PadsKept(BringHome(s, f)) /\ Holds(s, BringHome(s, f))
<1> DEFINE home == {v \in Windows : /\ s.place[v] \notin {Nobody, Unmapped}
                                    /\ s.place[v].for \in s.lit}
           pl == [v \in Windows |-> IF v \in home THEN Native(s.place[v].for) ELSE s.place[v]]
           back == [s EXCEPT !.place = pl]
           padded == RestorePads(back, f)
           lost == {v \in Windows : padded.place[v] = Nobody /\ ~InPad(padded, v)}
           pl2 == [v \in Windows |-> IF v \in lost THEN Native(f) ELSE padded.place[v]]
           t == BringHome(s, f)
<1>0. /\ Sound(s) /\ Typed(s) /\ Nobody \notin s.lit /\ s.lit \subseteq Screens
      /\ Nobody \notin Places /\ Unmapped \notin Places /\ Unmapped # Nobody
  BY KeptIs, ScreenAssumption DEF Sound, Typed
<1>1. \A o \in s.lit : Native(o) \in Places /\ Native(o).on = o
  BY <1>0 DEF Native, Places
<1>2. t = [padded EXCEPT !.place = pl2, !.shown = @ \cup lost, !.restoring = FALSE]
  <2>1. back = [s EXCEPT !.place = [v \in Windows |-> IF v \in home THEN Native(@[v].for) ELSE @[v]]]
    BY <1>0 DEF Typed, Fields
  <2>2. t = [padded EXCEPT !.place = [v \in Windows |-> IF v \in lost THEN Native(f) ELSE @[v]],
                           !.shown = @ \cup lost, !.restoring = FALSE]
    <3> HIDE DEF back
    <3> QED BY <2>1 DEF BringHome
  <2> HIDE DEF padded, lost
  <2> QED BY <2>2
<1> HIDE DEF t
<1>3. /\ pl \in [Windows -> Places \cup {Nobody, Unmapped}]
      /\ \A u \in home : pl[u] = Native(s.place[u].for) /\ s.place[u] \in Places
                         /\ s.place[u].for \in s.lit
      /\ \A u \in Windows \ home : pl[u] = s.place[u]
  <2>1. \A u \in home : s.place[u] \in Places /\ s.place[u].for \in s.lit
    BY <1>0 DEF Typed
  <2> QED BY <1>0, <1>1, <2>1 DEF Typed
<1> HIDE DEF pl, home
<1>4. /\ Typed(back) /\ back.pads = s.pads /\ back.shown = s.shown /\ back.members = s.members
      /\ back.noted = s.noted /\ back.owner = s.owner /\ back.place = pl
      /\ back.lit = s.lit /\ back.restoring = s.restoring
  BY <1>0, <1>3 DEF Typed, Fields
<1> HIDE DEF back
<1>5. PadsKept(back)
  <2>1. \A u \in Windows : \/ back.place[u] = s.place[u] /\ (u \in back.shown <=> u \in s.shown)
                           \/ /\ s.place[u] # Unmapped /\ ~InPad(s, u)
                              /\ back.place[u] \in Places /\ back.place[u].on \in s.lit
    <3> SUFFICES ASSUME NEW u \in Windows, u \in home
                 PROVE  /\ s.place[u] # Unmapped /\ ~InPad(s, u)
                        /\ back.place[u] \in Places /\ back.place[u].on \in s.lit
      BY <1>3, <1>4
    <3>1. s.place[u] \in Places /\ back.place[u] = Native(s.place[u].for) /\ s.place[u].for \in s.lit
      BY <1>3, <1>4
    <3>2. ~InPad(s, u)
      BY <1>0, <3>1 DEF PadsKept, Linked
    <3> QED BY <1>0, <1>1, <3>1, <3>2
  <2>2. ~back.restoring /\ back.lit # {} =>
          /\ \A u \in Windows : back.place[u] = Nobody => InPad(s, u)
          /\ \A p \in Defined(s) : MembersOf(s, p) # {} => s.pads[p].output # Nobody
    <3>1. \A u \in Windows : back.place[u] = Nobody => s.place[u] = Nobody
      BY <1>0, <1>1, <1>3, <1>4
    <3> QED BY <1>4, <3>1 DEF PadsKept, Housed
  <2> QED BY <1>4, <2>1, <2>2, PlacesKeep
<1>6. /\ PadsKept(padded) /\ Roams(back, padded)
      /\ \A p \in Defined(back) : padded.pads[p].output # Nobody
  BY <1>4, <1>5, RestorePadsIs
<1> HIDE DEF padded
<1>7. Sound(padded) /\ Typed(padded) /\ padded.lit = s.lit /\ Defined(padded) = Defined(back)
  BY <1>4, <1>6, KeptIs DEF Roams, OnlyPads, Sound
<1>8. /\ pl2 \in [Windows -> Places \cup {Nobody, Unmapped}]
      /\ \A u \in lost : pl2[u] = Native(f) /\ padded.place[u] = Nobody /\ ~InPad(padded, u)
      /\ \A u \in Windows \ lost : pl2[u] = padded.place[u] /\ (padded.place[u] = Nobody => InPad(padded, u))
      /\ lost \subseteq Windows
  BY <1>1, <1>7 DEF Typed
<1> HIDE DEF pl2, lost
<1>9. /\ Typed(t) /\ t.pads = padded.pads /\ t.shown = padded.shown \cup lost
      /\ t.members = padded.members /\ t.noted = padded.noted /\ t.owner = padded.owner
      /\ t.place = pl2 /\ t.lit = padded.lit
  BY <1>2, <1>7, <1>8 DEF Typed, Fields
<1>10. PadsKept(t)
  <2>1. \A u \in Windows : \/ t.place[u] = padded.place[u] /\ (u \in t.shown <=> u \in padded.shown)
                           \/ /\ padded.place[u] # Unmapped /\ ~InPad(padded, u)
                              /\ t.place[u] \in Places /\ t.place[u].on \in padded.lit
    BY <1>0, <1>1, <1>7, <1>8, <1>9
  <2>2. /\ \A u \in Windows : t.place[u] = Nobody => InPad(padded, u)
        /\ \A p \in Defined(padded) : padded.pads[p].output # Nobody
    <3>1. Native(f) # Nobody
      BY <1>0, <1>1
    <3> QED BY <1>6, <1>7, <1>8, <1>9, <3>1
  <2> QED BY <1>6, <1>9, <2>1, <2>2, PlacesKeep
<1>11. Holds(s, t)
  <2>1. Holds(back, padded)
    BY <1>6, RoamsHolds
  <2> QED BY <1>4, <1>9, <2>1 DEF Holds, Defined
<1> QED BY <1>10, <1>11 DEF t

-----------------------------------------------------------------------------
(* The configuration is reloaded *)

\* Dropping pads leaves everything in order.
LEMMA DropPadsIs ==
  ASSUME NEW s, PadsKept(s), NEW removed, removed \subseteq Defined(s)
  PROVE  LET t == DropPads(s, removed)
         IN  /\ PadsKept(t) /\ Holds(s, t)
             /\ \A p \in Pads : t.pads[p] = IF p \in removed THEN Nobody ELSE s.pads[p]
<1> DEFINE gone == UNION {MembersOf(s, p) : p \in removed}
           home(v) == ReturnTo(s, EntryOf(s, v).home, s.pads[PadOf(s, v)].output)
           housed == {v \in gone : home(v) # Nobody}
           pd == [p \in Pads |-> IF p \in removed THEN Nobody ELSE s.pads[p]]
           mem == Without(s.members, gone)
           pl == [v \in Windows |-> IF v \in gone THEN home(v) ELSE s.place[v]]
           nt == IF s.noted \in gone THEN Nobody ELSE s.noted
           sh == (s.shown \ gone) \cup housed
           re == s.restoring \/ \E v \in housed : home(v).for # Nobody
           t == DropPads(s, removed)
<1>0. /\ Sound(s) /\ Typed(s)
      /\ Nobody \notin Places /\ Unmapped \notin Places /\ Unmapped # Nobody
  BY KeptIs, ScreenAssumption DEF Sound
<1>1. \A v \in gone : /\ v \in Windows /\ InPad(s, v) /\ PadOf(s, v) \in removed
                      /\ PadOf(s, v) \in Defined(s) /\ v \in MembersOf(s, PadOf(s, v))
                      /\ EntryOf(s, v) \in Entries
  BY <1>0, EntryFacts
<1>2. \A v : InPad(s, v) /\ PadOf(s, v) \in removed => v \in gone
  BY <1>0, EntryFacts
<1>3. \A v \in gone : /\ home(v) \in Places \cup {Nobody}
                      /\ home(v) # Nobody => home(v).on \in s.lit
                      /\ home(v) = Nobody => s.restoring \/ s.lit = {}
  <2> SUFFICES ASSUME NEW v \in gone
               PROVE  /\ home(v) \in Places \cup {Nobody}
                      /\ home(v) # Nobody => home(v).on \in s.lit
                      /\ home(v) = Nobody => s.restoring \/ s.lit = {}
    OBVIOUS
  <2> DEFINE h == EntryOf(s, v).home  o == s.pads[PadOf(s, v)].output
  <2>1. /\ h \in Homes /\ o \in s.lit \cup {Nobody}
        /\ o = Nobody => s.restoring \/ s.lit = {}
    BY <1>1 DEF Entries, PadsKept, Housed
  <2> HIDE DEF gone, h, o
  <2>2. LET w == ReturnTo(s, h, o)
        IN  /\ w \in Places \cup {Nobody} /\ (w # Nobody => w.on \in s.lit)
            /\ w = Nobody => o = Nobody \/ s.lit = {}
    BY <1>0, <2>1, ReturnToIs
  <2> QED BY <2>1, <2>2 DEF h, o
<1> HIDE DEF gone, home
<1>4. t = [s EXCEPT !.pads = pd, !.members = mem, !.place = pl, !.noted = nt, !.shown = sh,
                    !.restoring = re]
  BY <1>0 DEF DropPads, Typed, Fields, gone, home
<1>5. /\ mem \in Seq(Entries) /\ Apart(mem)
      /\ EntriesIn(mem) = {e \in EntriesIn(s.members) : e.view \notin gone}
  BY <1>0, EntriesLeft
<1>6. /\ pd \in [Pads -> PadRecords \cup {Nobody}]
      /\ \A p \in Pads : pd[p] = IF p \in removed THEN Nobody ELSE s.pads[p]
  BY <1>0 DEF Typed
<1>7. /\ pl \in [Windows -> Places \cup {Nobody, Unmapped}]
      /\ \A v \in Windows : pl[v] = IF v \in gone THEN home(v) ELSE s.place[v]
  BY <1>0, <1>3 DEF Typed
<1>8. nt \in Windows \cup {Nobody} /\ sh \in SUBSET Windows /\ re \in BOOLEAN /\ (s.restoring => re)
  BY <1>0, <1>1 DEF Typed
<1>9. \A v \in Windows : v \in sh <=> IF v \in gone THEN home(v) # Nobody ELSE v \in s.shown
  OBVIOUS
<1> HIDE DEF t, pd, mem, pl, sh, re
<1>10. /\ Typed(t) /\ t.pads = pd /\ t.members = mem /\ t.place = pl /\ t.noted = nt
       /\ t.shown = sh /\ t.restoring = re /\ t.owner = s.owner /\ t.lit = s.lit
  BY <1>0, <1>4, <1>5, <1>6, <1>7, <1>8 DEF Typed, Fields
<1>11. /\ \A p : MembersOf(t, p) = MembersOf(s, p) \ gone
       /\ \A u : InPad(t, u) <=> InPad(s, u) /\ u \notin gone
  BY <1>5, <1>10, EntriesGone
<1>12. \A p : p \in Defined(t) <=> p \in Defined(s) /\ p \notin removed
  BY <1>6, <1>10 DEF Defined
<1>13. Sound(t)
  <2> SUFFICES ASSUME NEW i \in DOMAIN t.members PROVE t.members[i].pad \in Defined(t)
    BY <1>5, <1>10 DEF Sound, Distinct, Apart
  <2> DEFINE e == t.members[i]
  <2>1. e \in EntriesIn(s.members) /\ e.view \notin gone
    <3>1. e \in EntriesIn(mem)
      BY <1>10 DEF EntriesIn
    <3> HIDE DEF e
    <3> QED BY <1>5, <3>1
  <2> HIDE DEF e
  <2>2. PICK j \in DOMAIN s.members : e = s.members[j]
    BY <2>1 DEF EntriesIn
  <2>3. e.view \in MembersOf(s, e.pad) /\ e.pad \in Defined(s)
    BY <1>0, <2>2 DEF MembersOf, EntriesOf, Sound, Distinct
  <2>4. e.pad \notin removed
    BY <2>1, <2>3 DEF gone
  <2> QED BY <1>12, <2>3, <2>4 DEF e
<1>14. Linked(t)
  <2>1. Rooted(t)
    BY <1>10 DEF PadsKept, Linked, Rooted
  <2>2. \A u \in gone : s.place[u] = Nobody
    BY <1>1 DEF PadsKept, Linked
  <2>3. \A u \in Windows : t.place[u] = Unmapped <=> s.place[u] = Unmapped
    BY <1>0, <1>3, <1>7, <1>10, <2>2
  <2>4. ASSUME NEW u \in Windows
        PROVE  /\ InPad(t, u) => t.place[u] = Nobody
               /\ u \in t.shown => t.place[u] # Unmapped
               /\ t.owner[u] # Nobody => t.place[u] # Unmapped /\ t.place[t.owner[u]] # Unmapped
    <3>1. s.owner[u] \in Windows \cup {Nobody}
      BY <1>0 DEF Typed
    <3>2. u \in t.shown => t.place[u] # Unmapped
      BY <1>0, <1>9, <1>10, <2>2, <2>3 DEF PadsKept, Linked
    <3>3. InPad(t, u) => t.place[u] = Nobody
      BY <1>7, <1>10, <1>11 DEF PadsKept, Linked
    <3> QED BY <1>10, <2>3, <3>1, <3>2, <3>3 DEF PadsKept, Linked
  <2> QED BY <2>1, <2>4 DEF Linked
<1>15. Noted(t)
  BY <1>10, <1>11 DEF PadsKept, Noted
<1>16. \A p \in Defined(t) : p \in Defined(s) /\ t.pads[p] = s.pads[p] /\ MembersOf(t, p) = MembersOf(s, p)
  <2> SUFFICES ASSUME NEW p \in Defined(t)
               PROVE  p \in Defined(s) /\ t.pads[p] = s.pads[p] /\ MembersOf(t, p) = MembersOf(s, p)
    OBVIOUS
  <2>1. p \in Defined(s) /\ p \notin removed /\ t.pads[p] = s.pads[p]
    BY <1>6, <1>10, <1>12 DEF Defined
  <2>2. \A u \in MembersOf(s, p) : u \notin gone
    BY <1>0, <1>1, <2>1, EntryFacts
  <2> QED BY <1>11, <2>1, <2>2
<1>17. OnePerOutput(t)
  BY <1>16 DEF PadsKept, OnePerOutput
<1>18. Housed(t)
  <2>1. \A u \in Windows : t.place[u] \in Places => t.place[u].on \in t.lit
    BY <1>0, <1>3, <1>7, <1>10 DEF PadsKept, Housed
  <2>2. \A p \in Defined(t) : t.pads[p].output \in t.lit \cup {Nobody}
    BY <1>10, <1>16 DEF PadsKept, Housed
  <2>3. ASSUME ~t.restoring, t.lit # {}
        PROVE  /\ \A u \in Windows : t.place[u] = Nobody => InPad(t, u)
               /\ \A p \in Defined(t) : MembersOf(t, p) # {} => t.pads[p].output # Nobody
    <3>1. ~s.restoring /\ s.lit # {}
      BY <1>8, <1>10, <2>3
    <3>2. \A u \in Windows : t.place[u] = Nobody => InPad(t, u)
      BY <1>3, <1>7, <1>10, <1>11, <3>1 DEF PadsKept, Housed
    <3> QED BY <1>16, <3>1, <3>2 DEF PadsKept, Housed
  <2> QED BY <2>1, <2>2, <2>3 DEF Housed
<1>19. ASSUME NEW p \in Defined(t) PROVE Seen(t, p) /\ Pointed(t, p)
  <2>1. \A u : Presents(t, p, u) = Presents(s, p, u)
    BY <1>10, <1>16, PresentsFrame
  <2>2. \A u \in MembersOf(t, p) : u \in Windows /\ u \notin gone
    BY <1>0, <1>11, <1>16, EntryFacts
  <2>3. \A u \in MembersOf(t, p) : u \in t.shown <=> u \in s.shown
    BY <1>9, <1>10, <2>2
  <2> QED BY <1>16, <2>1, <2>3 DEF PadsKept, Seen, Pointed
<1>20. PadsKept(t)
  BY <1>13, <1>14, <1>15, <1>17, <1>18, <1>19 DEF PadsKept
<1>21. Holds(s, t)
  BY <1>16 DEF Holds
<1> QED BY <1>6, <1>10, <1>20, <1>21 DEF t

WithPads(s, added) ==
  [s EXCEPT !.pads = [p \in Pads |-> IF p \in added THEN NewPad ELSE s.pads[p]]]

\* A new pad is empty and disturbs nothing.
LEMMA NewPadsIs ==
  ASSUME NEW s, PadsKept(s), NEW added \in SUBSET Pads, \A p \in added : s.pads[p] = Nobody
  PROVE  LET t == WithPads(s, added)
         IN  /\ PadsKept(t) /\ \A p \in Defined(s) : t.pads[p] = s.pads[p]
             /\ \A p \in Defined(t) : p \in Defined(s) \cup added
<1> DEFINE pd == [p \in Pads |-> IF p \in added THEN NewPad ELSE s.pads[p]]
           t == WithPads(s, added)
<1>0. Sound(s) /\ Typed(s) /\ Nobody \notin PadRecords
  BY KeptIs, ScreenAssumption DEF Sound
<1>1. /\ NewPad \in PadRecords /\ ~NewPad.visible /\ ~NewPad.active /\ NewPad.output = Nobody
      /\ NewPad.last = Nobody /\ NewPad.solo = Nobody
  BY DEF NewPad, PadRecords
<1>2. /\ pd \in [Pads -> PadRecords \cup {Nobody}]
      /\ \A p \in Pads : pd[p] = IF p \in added THEN NewPad ELSE s.pads[p]
  BY <1>0, <1>1 DEF Typed
<1>3. t = [s EXCEPT !.pads = pd]
  BY DEF WithPads
<1> HIDE DEF pd, t
<1>4. /\ Typed(t) /\ t.pads = pd /\ t.shown = s.shown /\ t.members = s.members
      /\ t.noted = s.noted /\ t.focus = s.focus /\ t.place = s.place /\ t.owner = s.owner
      /\ t.lit = s.lit /\ t.restoring = s.restoring
  BY <1>0, <1>2, <1>3 DEF Typed, Fields
<1>5. /\ \A p : MembersOf(t, p) = MembersOf(s, p) /\ \A u : InPad(t, u) = InPad(s, u)
  BY <1>4, SameEntries
<1>6. /\ \A p \in Defined(s) : p \in Defined(t) /\ t.pads[p] = s.pads[p] /\ p \notin added
      /\ \A p \in Defined(t) : p \in Defined(s) \/ (t.pads[p] = NewPad /\ MembersOf(s, p) = {})
  <2>1. \A p \in Defined(s) : p \in Pads /\ p \notin added /\ s.pads[p] # Nobody
    BY DEF Defined
  <2>2. \A p \in Defined(s) : p \in Defined(t) /\ t.pads[p] = s.pads[p]
    BY <1>2, <1>4, <2>1 DEF Defined
  <2>3. ASSUME NEW p \in Defined(t), p \notin Defined(s)
        PROVE  t.pads[p] = NewPad /\ MembersOf(s, p) = {}
    <3>1. MembersOf(s, p) = {}
      BY <1>0, <2>3, EntryFacts
    <3> QED BY <1>2, <1>4, <2>3, <3>1 DEF Defined
  <2> QED BY <2>1, <2>2, <2>3
<1>7. Sound(t)
  BY <1>0, <1>4, <1>6 DEF Sound, Distinct
<1>8. Linked(t) /\ Noted(t)
  BY <1>4, <1>5 DEF PadsKept, Linked, Rooted, Noted
<1>9. OnePerOutput(t)
  <2>1. \A p \in Defined(t) : t.pads[p].visible => p \in Defined(s) /\ t.pads[p] = s.pads[p]
    BY <1>1, <1>6
  <2> QED BY <2>1 DEF PadsKept, OnePerOutput
<1>10. Housed(t)
  <2>1. \A p \in Defined(t) : t.pads[p].output \in t.lit \cup {Nobody}
    BY <1>1, <1>4, <1>6 DEF PadsKept, Housed
  <2>2. ~s.restoring /\ s.lit # {} =>
          \A p \in Defined(t) : MembersOf(s, p) # {} => t.pads[p].output # Nobody
    BY <1>6 DEF PadsKept, Housed
  <2> QED BY <1>4, <1>5, <2>1, <2>2 DEF PadsKept, Housed
<1>11. ASSUME NEW p \in Defined(t) PROVE Seen(t, p) /\ Pointed(t, p)
  <2>1. CASE p \in Defined(s)
    <3>1. t.pads[p] = s.pads[p]
      BY <1>6, <2>1
    <3>2. \A u : Presents(t, p, u) = Presents(s, p, u)
      BY <1>4, <3>1, PresentsFrame
    <3> QED BY <1>4, <1>5, <2>1, <3>1, <3>2 DEF PadsKept, Seen, Pointed
  <2>2. CASE p \notin Defined(s)
    BY <1>1, <1>5, <1>6, <2>2 DEF Seen, Pointed
  <2> QED BY <2>1, <2>2
<1>12. PadsKept(t)
  BY <1>7, <1>8, <1>9, <1>10, <1>11 DEF PadsKept
<1>13. \A p \in Defined(t) : p \in Defined(s) \cup added
  BY <1>2, <1>4 DEF Defined
<1> QED BY <1>6, <1>12, <1>13 DEF t

Reloads(s, desired, o) ==
  LET removed == Defined(s) \ desired
      out == DropPads(s, removed)
      new == [out EXCEPT !.pads = [p \in Pads |-> IF p \in desired /\ s.pads[p] = Nobody THEN NewPad
                                                  ELSE out.pads[p]]]
      busy == \E p \in removed : s.pads[p].visible \/ MembersOf(s, p) # {}
  IN  IF busy /\ o # Nobody THEN Refocus(new, o) ELSE new

\* reconcileConfig leaves everything in order.
LEMMA ReloadsIs ==
  ASSUME NEW s, PadsKept(s), NEW desired \in SUBSET Pads, NEW o
  PROVE  PadsKept(Reloads(s, desired, o)) /\ Holds(s, Reloads(s, desired, o))
<1> DEFINE removed == Defined(s) \ desired
           out == DropPads(s, removed)
           added == {p \in desired : s.pads[p] = Nobody}
           new == [out EXCEPT !.pads = [p \in Pads |-> IF p \in desired /\ s.pads[p] = Nobody THEN NewPad
                                                       ELSE out.pads[p]]]
<1>1. Reloads(s, desired, o) \in {new, Refocus(new, o)}
  BY DEF Reloads
<1>2. /\ PadsKept(out) /\ Holds(s, out)
      /\ \A p \in Pads : out.pads[p] = IF p \in removed THEN Nobody ELSE s.pads[p]
  BY DropPadsIs
<1> HIDE DEF out
<1>3. added \in SUBSET Pads /\ \A p \in added : out.pads[p] = Nobody
  BY <1>2 DEF Defined
<1>4. new = WithPads(out, added)
  BY DEF Defined, WithPads
<1> HIDE DEF added, new
<1>5. /\ PadsKept(new) /\ \A p \in Defined(out) : new.pads[p] = out.pads[p]
      /\ \A p \in Defined(new) : p \in Defined(out) \cup added
  BY <1>2, <1>3, <1>4, NewPadsIs
<1>6. Holds(s, new)
  <2>1. \A p \in Defined(s) \cap Defined(new) : p \in Defined(out) /\ new.pads[p] = out.pads[p]
    BY <1>5 DEF Defined, added
  <2> QED BY <1>2, <2>1 DEF Holds
<1>7. PadsKept(Refocus(new, o)) /\ Holds(s, Refocus(new, o))
  BY <1>5, <1>6, RefocusKeeps, FocusesHolds
<1> HIDE DEF new
<1> QED BY <1>1, <1>5, <1>6, <1>7

-----------------------------------------------------------------------------
(* The steps *)

\* A step leaves all in order.
Fares == PadsKept(PadsNow') /\ Holds(PadsNow, PadsNow')

\* The record of the state.
LEMMA NowIs ==
  /\ PadsNow.pads = pads /\ PadsNow.members = members /\ PadsNow.noted = noted
  /\ PadsNow.focus = focus /\ PadsNow.shown = shown /\ PadsNow.place = place
  /\ PadsNow.owner = owner /\ PadsNow.lit = lit /\ PadsNow.restoring = restoring
BY DEF PadsNow

\* A step that commits a record that is in order fares well.
LEMMA Becomes ==
  ASSUME NEW t, PadsKept(t), Holds(PadsNow, t), PadsBecome(t)
  PROVE  Fares
<1> DEFINE n == PadsNow'
<1>1. /\ DOMAIN n = Fields
      /\ n.pads = t.pads /\ n.members = t.members /\ n.noted = t.noted /\ n.focus = t.focus
      /\ n.shown = t.shown /\ n.place = t.place /\ n.owner = t.owner /\ n.lit = t.lit
      /\ n.restoring = t.restoring
  BY DEF PadsNow, PadsBecome, Fields
<1>2. Typed(t)
  BY DEF PadsKept, Sound
<1> HIDE DEF n
<1>3. Focuses(t, n)
  BY <1>1, <1>2, SameEntries DEF Typed, Focuses, Defined, Noted, Pointed
<1>4. PadsKept(n) /\ Holds(PadsNow, n)
  BY <1>3, FocusKeeps, FocusesHolds
<1> QED BY <1>4 DEF Fares, n

\* Every action of the module fares well.
LEMMA MapWindowOnFares ==
  ASSUME PadsKept(PadsNow), NEW v \in Windows, NEW o \in MapAnywhere, NEW parent \in Parents(v),
         NEW focused \in BOOLEAN, MapWindowOn(v, o, parent, focused)
  PROVE  Fares
<1> DEFINE s == PadsNow
           t == MapsOn(s, v, o, parent, focused)
<1>1. /\ s.place[v] = Unmapped /\ o \in s.lit \cup {Nobody} /\ (o = Nobody => s.lit = {})
      /\ parent \in {Nobody} \cup {u \in Windows \ {v} : s.place[u] # Unmapped}
  <2>1. lit \subseteq Screens
    BY NowIs DEF PadsKept, Sound, Typed
  <2> QED BY <2>1, NowIs, ScreenAssumption DEF MapWindowOn, MapAnywhere, Parents
<1>2. PadsBecome(t)
  BY NowIs DEF MapWindowOn, MapsOn, Placed, PlacedIn, Joins, Admits
<1> HIDE DEF s, t
<1>3. PadsKept(t) /\ Holds(s, t)
  <2>1. PadsKept(s)
    BY DEF s
  <2>2. PadsKept(MapsOn(s, v, o, parent, focused)) /\ Holds(s, MapsOn(s, v, o, parent, focused))
    BY <1>1, <2>1, MapsOnIs
  <2> QED BY <2>2 DEF t
<1> QED BY <1>2, <1>3, Becomes DEF s

LEMMA MapIntoPadFares ==
  ASSUME PadsKept(PadsNow), NEW v \in Windows, NEW o \in lit, NEW p \in Defined(PadsNow),
         NEW focused \in BOOLEAN, MapIntoPad(v, o, p, focused)
  PROVE  Fares
<1> DEFINE s == PadsNow
           t == MapsInto(s, v, o, p)
           u == Recalls(t, p, o, v)
<1>1. s.place[v] = Unmapped /\ o \in s.lit
  BY NowIs DEF MapIntoPad
<1>2. PadsBecome(t) \/ PadsBecome(u)
  BY DEF MapIntoPad, MapsInto, Placed, PlacedIn, Admits, Recalls
<1> HIDE DEF s
<1>3. PadsKept(t) /\ Holds(s, t) /\ PadsKept(u) /\ Holds(s, u)
  BY <1>1, MapsIntoIs DEF s
<1> HIDE DEF t, u
<1> QED BY <1>2, <1>3, Becomes DEF s

LEMMA UnmapFromFares ==
  ASSUME PadsKept(PadsNow), NEW v \in Windows, UnmapFrom(v)
  PROVE  Fares
<1> DEFINE s == PadsNow
           t == Gone(IF InPad(s, v) THEN RemoveWindow(s, v) ELSE s, v)
<1>1. PadsBecome(t)
  BY DEF UnmapFrom, Gone
<1>2. PadsKept(t) /\ Holds(s, t)
  BY UnmapIs
<1> HIDE DEF t
<1> QED BY <1>1, <1>2, Becomes

LEMMA MoveToPadFares ==
  ASSUME PadsKept(PadsNow), NEW v \in Windows, NEW p \in Defined(PadsNow), NEW o \in lit,
         MoveToPad(v, p, o)
  PROVE  Fares
<1> DEFINE s == PadsNow
           home == ReturnPlace(place[v], Nobody)
           t == AdmitsAsked(s, v, p, o, home)
<1>1. s.place[v] # Unmapped /\ s.place[v] = place[v] /\ o \in s.lit /\ ~InPad(s, v)
  BY NowIs DEF MoveToPad
<1>2. home \in Homes
  <2>1. place[v] \in Places \cup {Nobody}
    BY <1>1 DEF PadsKept, Sound, Typed
  <2> QED BY <2>1, ReturnPlaceIs
<1>3. PadsBecome(t)
  BY DEF MoveToPad, AdmitsAsked
<1> HIDE DEF s, home
<1>4. PadsKept(t) /\ Holds(s, t)
  BY <1>1, <1>2, AdmitsAskedIs DEF s
<1> HIDE DEF t
<1> QED BY <1>3, <1>4, Becomes DEF s

LEMMA RuleMovesToPadFares ==
  ASSUME PadsKept(PadsNow), NEW v \in Windows, NEW p \in Defined(PadsNow), NEW o \in lit,
         RuleMovesToPad(v, p, o)
  PROVE  Fares
<1> DEFINE s == PadsNow
           t == TransferMember(s, v, p, o)
           u == Moves(s, p, o)
<1>1. InPad(s, v) /\ o \in s.lit
  BY NowIs DEF RuleMovesToPad
<1>2. (PadOf(s, v) # p /\ PadsBecome(t)) \/ PadsBecome(u)
  BY DEF RuleMovesToPad, Moves
<1> HIDE DEF s
<1>3. CASE PadOf(s, v) # p /\ PadsBecome(t)
  <2>1. PadsKept(t) /\ Holds(s, t)
    BY <1>1, <1>3, TransferMemberIs DEF s
  <2> HIDE DEF t
  <2> QED BY <1>3, <2>1, Becomes DEF s
<1>4. CASE PadsBecome(u)
  <2>1. PadsKept(u) /\ Yields(s, u, p) /\ u.pads[p].solo = s.pads[p].solo
    BY <1>1, MovesKeeps DEF s
  <2>2. Holds(s, u)
    BY <2>1, YieldsHolds DEF s, PadsKept
  <2> HIDE DEF u
  <2> QED BY <1>4, <2>1, <2>2, Becomes DEF s
<1> QED BY <1>2, <1>3, <1>4

LEMMA FocusByIdFares ==
  ASSUME PadsKept(PadsNow), NEW v \in Windows, NEW o \in lit, FocusById(v, o)
  PROVE  Fares
<1> DEFINE s == PadsNow
           p == PadOf(s, v)
           t == Recalls(s, p, o, v)
<1>1. InPad(s, v) /\ o \in s.lit /\ PadsBecome(t)
  BY NowIs DEF FocusById, Recalls
<1>2. p \in Defined(s) /\ v \in MembersOf(s, p)
  BY <1>1, KeptIs, EntryFacts
<1> HIDE DEF s, p
<1>3. PadsKept(t) /\ Steady(s, t, p)
  BY <1>1, <1>2, RecallsIs DEF s
<1> HIDE DEF t
<1> QED BY <1>1, <1>3, SteadyHolds, Becomes DEF s

LEMMA SendToWorkspaceFares ==
  ASSUME PadsKept(PadsNow), NEW v \in Windows, NEW o \in lit, SendToWorkspace(v, o)
  PROVE  Fares
<1> DEFINE s == PadsNow
           E == FALSE
           t == RestoreWindow(s, v, E, Native(o))
<1>1. InPad(s, v) /\ Native(o) \in {Native(x) : x \in s.lit} \cup {Nobody} /\ PadsBecome(t)
  BY NowIs DEF SendToWorkspace
<1>2. E \in BOOLEAN
  OBVIOUS
<1> HIDE DEF s, E
<1>3. PadsKept(t) /\ Holds(s, t)
  BY <1>1, <1>2, RestoreWindowIs DEF s
<1> HIDE DEF t
<1> QED BY <1>1, <1>3, Becomes DEF s

LEMMA RestoreFocusedFares ==
  ASSUME PadsKept(PadsNow), NEW p \in Pads, RestoreFocused(p)
  PROVE  Fares
<1> DEFINE s == PadsNow
           v == Focused(s, p)
           E == TRUE
           t == RestoreWindow(s, v, E, Nobody)
<1>1. p \in Defined(s) /\ v # Nobody /\ PadsBecome(t)
  BY NowIs DEF RestoreFocused, Defined
<1>2. E \in BOOLEAN
  OBVIOUS
<1>3. InPad(s, v)
  <2>1. v \in MembersOf(s, p)
    BY <1>1, FocusedIs DEF PadsKept
  <2> QED BY <2>1, KeptIs, EntryFacts
<1> HIDE DEF s, E, v
<1>4. PadsKept(t) /\ Holds(s, t)
  <2>1. Nobody \in {Native(x) : x \in s.lit} \cup {Nobody}
    OBVIOUS
  <2> QED BY <1>2, <1>3, <2>1, RestoreWindowIs DEF s
<1> HIDE DEF t
<1> QED BY <1>1, <1>4, Becomes DEF s

LEMMA DropOnFares ==
  ASSUME PadsKept(PadsNow), NEW v \in Windows, NEW o \in lit, DropOn(v, o)
  PROVE  Fares
<1> DEFINE s == PadsNow
           p == PadOf(s, v)
           t == Moves(s, p, o)
<1>1. InPad(s, v) /\ o \in s.lit /\ PadsBecome(t)
  BY NowIs DEF DropOn, Moves
<1>2. p \in Defined(s)
  BY <1>1, KeptIs, EntryFacts
<1> HIDE DEF s, p
<1>3. PadsKept(t) /\ Yields(s, t, p) /\ t.pads[p].solo = s.pads[p].solo
  BY <1>1, <1>2, MovesKeeps DEF s
<1>4. Holds(s, t)
  BY <1>2, <1>3, YieldsHolds DEF s, PadsKept
<1> HIDE DEF t
<1> QED BY <1>1, <1>3, <1>4, Becomes DEF s

LEMMA FocusFares ==
  ASSUME PadsKept(PadsNow), NEW t, Focuses(PadsNow, t), PadsBecome(t)
  PROVE  Fares
<1>1. PadsKept(t)
  BY FocusKeeps
<1>2. Holds(PadsNow, PadsNow)
  BY DEF Holds
<1>3. Holds(PadsNow, t)
  BY <1>2, FocusesHolds
<1> QED BY <1>1, <1>3, Becomes

LEMMA FocusOnFares ==
  ASSUME PadsKept(PadsNow), NEW v \in Windows, FocusOn(v)
  PROVE  Fares
<1> DEFINE t == FocusWindow(PadsNow, v)
<1>1. Focuses(PadsNow, t) /\ PadsBecome(t)
  BY FocusWindowKeeps DEF FocusOn
<1> HIDE DEF t
<1> QED BY <1>1, FocusFares

LEMMA FocusDesktopFares ==
  ASSUME PadsKept(PadsNow), NEW o \in lit, FocusDesktop(o)
  PROVE  Fares
<1> DEFINE t == RefocusExplicit(PadsNow, o)
<1>1. Focuses(PadsNow, t) /\ PadsBecome(t)
  BY RefocusExplicitIs DEF FocusDesktop, PadsKept
<1> HIDE DEF t
<1> QED BY <1>1, FocusFares

LEMMA TogglePadFares ==
  ASSUME PadsKept(PadsNow), NEW p \in Pads, NEW o \in lit, TogglePad(p, o)
  PROVE  Fares
<1> DEFINE s == PadsNow
           t == ToggleOn(s, p, o)
<1>1. p \in Defined(s) /\ o \in s.lit /\ PadsBecome(t)
  BY NowIs DEF TogglePad, Defined
<1> HIDE DEF s
<1>2. PadsKept(t) /\ Holds(s, t)
  BY <1>1, ToggleOnIs DEF s
<1> HIDE DEF t
<1> QED BY <1>1, <1>2, Becomes DEF s

LEMMA StepPadFares ==
  ASSUME PadsKept(PadsNow), NEW p \in Pads, NEW o \in lit, NEW d, StepPad(p, o, d)
  PROVE  Fares
<1> DEFINE s == PadsNow
           t == ShowStepOn(s, p, o, d)
<1>1. p \in Defined(s) /\ o \in s.lit /\ StepTarget(s, p, o, d) # Nobody /\ PadsBecome(t)
  BY NowIs DEF StepPad, Defined
<1> HIDE DEF s
<1>2. PadsKept(t) /\ Holds(s, t)
  BY <1>1, ShowStepOnIs DEF s
<1> HIDE DEF t
<1> QED BY <1>1, <1>2, Becomes DEF s

LEMMA ToggleOverviewFares ==
  ASSUME PadsKept(PadsNow), ToggleOverview
  PROVE  Fares
<1>1. CASE PadsBecome(PadsNow)
  <2>1. Focuses(PadsNow, PadsNow)
    BY FocusesNothing DEF PadsKept
  <2> QED BY <1>1, <2>1, FocusFares
<1>2. CASE PadsBecome(HideAll(PadsNow))
  BY <1>2, HideAllIs, Becomes
<1> QED BY <1>1, <1>2 DEF ToggleOverview

LEMMA ReloadPadsFares ==
  ASSUME PadsKept(PadsNow), NEW desired \in SUBSET Pads, NEW o, ReloadPads(desired, o)
  PROVE  Fares
<1> DEFINE t == Reloads(PadsNow, desired, o)
<1>1. PadsBecome(t)
  BY NowIs DEF ReloadPads, Reloads
<1>2. PadsKept(t) /\ Holds(PadsNow, t)
  BY ReloadsIs
<1> HIDE DEF t
<1> QED BY <1>1, <1>2, Becomes

LEMMA LoseScreenFares ==
  ASSUME PadsKept(PadsNow), NEW o \in Screens, NEW d, LoseScreen(o, d)
  PROVE  Fares
<1> DEFINE s == PadsNow
           t == Loses(s, o, d)
<1>1. o \in s.lit /\ d \in (IF s.lit = {o} THEN {Nobody} ELSE s.lit \ {o}) /\ PadsBecome(t)
  BY NowIs DEF LoseScreen, Loses
<1> HIDE DEF s
<1>2. PadsKept(t) /\ Holds(s, t)
  BY <1>1, LosesIs DEF s
<1> HIDE DEF t
<1> QED BY <1>1, <1>2, Becomes DEF s

LEMMA RegainScreenFares ==
  ASSUME PadsKept(PadsNow), NEW o \in Screens, RegainScreen(o)
  PROVE  Fares
<1> DEFINE s == PadsNow
           t == [s EXCEPT !.lit = @ \cup {o}, !.restoring = TRUE]
<1>0. Sound(s) /\ Typed(s)
  BY KeptIs DEF Sound
<1>1. PadsBecome(t)
  BY DEF RegainScreen
<1> HIDE DEF s
<1>2. /\ Typed(t) /\ t.pads = s.pads /\ t.shown = s.shown /\ t.members = s.members
      /\ t.noted = s.noted /\ t.focus = s.focus /\ t.place = s.place /\ t.owner = s.owner
      /\ t.lit = s.lit \cup {o} /\ t.restoring
  BY <1>0 DEF Typed, Fields
<1> HIDE DEF t
<1>3. /\ \A p : MembersOf(t, p) = MembersOf(s, p) /\ \A u : InPad(t, u) = InPad(s, u)
      /\ Defined(t) = Defined(s)
  BY <1>2, SameEntries DEF Defined
<1>4. PadsKept(s)
  BY DEF s
<1>5. Sound(t) /\ Linked(t) /\ Noted(t) /\ OnePerOutput(t)
  BY <1>0, <1>2, <1>3, <1>4 DEF PadsKept, Sound, Distinct, Linked, Rooted, Noted, OnePerOutput
<1>6. Housed(t)
  BY <1>2, <1>3, <1>4 DEF PadsKept, Housed
<1>7. \A p \in Defined(t) : Seen(t, p) /\ Pointed(t, p)
  <2>1. \A p, u : Presents(t, p, u) = Presents(s, p, u)
    BY <1>2, PresentsFrame
  <2> QED BY <1>2, <1>3, <1>4, <2>1 DEF PadsKept, Seen, Pointed
<1>8. PadsKept(t)
  BY <1>5, <1>6, <1>7 DEF PadsKept
<1>9. Holds(s, t)
  BY <1>2 DEF Holds
<1> QED BY <1>1, <1>8, <1>9, Becomes DEF s

LEMMA RestoreScreensFares ==
  ASSUME PadsKept(PadsNow), NEW f \in Screens, RestoreScreens(f)
  PROVE  Fares
<1> DEFINE s == PadsNow
           b == BringHome(s, f)
           t == Refocus(b, f)
<1>1. f \in s.lit /\ PadsBecome(t)
  BY NowIs DEF RestoreScreens
<1>2. PadsKept(b) /\ Holds(s, b)
  BY <1>1, BringHomeIs
<1> HIDE DEF s, b
<1>3. PadsKept(t) /\ Holds(s, t)
  BY <1>2, RefocusKeeps, FocusesHolds
<1> HIDE DEF t
<1> QED BY <1>1, <1>3, Becomes DEF s

\* So do the actions on one window, and every step.
LEMMA WindowActionFares ==
  ASSUME PadsKept(PadsNow), NEW v \in Windows, WindowAction(v)
  PROVE  Fares
BY MapWindowOnFares, MapIntoPadFares, UnmapFromFares, FocusOnFares, MoveToPadFares,
   RuleMovesToPadFares, FocusByIdFares, SendToWorkspaceFares, DropOnFares DEF WindowAction

LEMMA StepFares ==
  ASSUME PadsKept(PadsNow), ScratchpadNext
  PROVE  Fares
<1>1. ASSUME NEW v \in Windows, WindowAction(v) PROVE Fares
  BY <1>1, WindowActionFares
<1>2. CASE PadAction
  BY <1>2, TogglePadFares, StepPadFares, RestoreFocusedFares, FocusDesktopFares DEF PadAction
<1>3. CASE ScreenAction
  BY <1>3, RegainScreenFares, RestoreScreensFares, LoseScreenFares, ReloadPadsFares DEF ScreenAction
<1>4. CASE ToggleOverview
  BY <1>4, ToggleOverviewFares
<1> QED BY <1>1, <1>2, <1>3, <1>4 DEF ScratchpadNext

\* Nothing is in a pad, and no pad shows.
LEMMA Initially ==
  ASSUME ScratchpadInit
  PROVE  PadsKept(PadsNow)
<1> DEFINE s == PadsNow
<1>1. /\ DOMAIN s = Fields /\ s.pads = [p \in Pads |-> NewPad] /\ s.members = <<>>
      /\ s.noted = Nobody /\ s.focus = Nobody /\ s.shown = {}
      /\ s.place = [v \in Windows |-> Unmapped] /\ s.owner = [v \in Windows |-> Nobody]
      /\ s.lit \in {Screens, Unsteady} /\ s.restoring = FALSE
  BY DEF PadsNow, ScratchpadInit, Fields
<1> HIDE DEF s
<1>2. /\ NewPad \in PadRecords /\ ~NewPad.visible /\ ~NewPad.active /\ NewPad.output = Nobody
      /\ NewPad.last = Nobody /\ NewPad.solo = Nobody
  BY DEF NewPad, PadRecords
<1>3. Typed(s)
  <2>1. s.members \in Seq(Entries)
    BY <1>1
  <2>2. s.pads \in [Pads -> PadRecords \cup {Nobody}]
    BY <1>1, <1>2
  <2>3. /\ s.place \in [Windows -> Places \cup {Nobody, Unmapped}]
        /\ s.owner \in [Windows -> Windows \cup {Nobody}]
    BY <1>1
  <2>4. s.lit \in SUBSET Screens /\ s.restoring \in BOOLEAN
    BY <1>1, ScreenAssumption
  <2> QED BY <1>1, <2>1, <2>2, <2>3, <2>4 DEF Typed
<1>4. /\ \A p : MembersOf(s, p) = {}
      /\ \A u : ~InPad(s, u)
      /\ \A p \in Pads : s.pads[p] = NewPad
  BY <1>1 DEF MembersOf, EntriesOf, InPad
<1>5. Sound(s)
  BY <1>1, <1>3 DEF Sound, Distinct
<1>6. Linked(s)
  <2>1. Rooted(s)
    BY <1>1, ScreenAssumption DEF Rooted
  <2> QED BY <1>1, <1>4, <2>1 DEF Linked
<1>7. Noted(s) /\ OnePerOutput(s)
  BY <1>1, <1>2, <1>4 DEF Noted, OnePerOutput, Defined
<1>8. Housed(s)
  BY <1>1, <1>2, <1>4, ScreenAssumption DEF Housed, Defined
<1>9. \A p \in Defined(s) : Seen(s, p) /\ Pointed(s, p)
  BY <1>2, <1>4 DEF Seen, Pointed, Defined
<1> QED BY <1>5, <1>6, <1>7, <1>8, <1>9 DEF PadsKept, s

-----------------------------------------------------------------------------
(* The invariant, and what follows from it *)

\* What the pads show and point at, where their windows are and which outputs they are on are
\* in order after every step.
THEOREM Invariance == ScratchpadSpec => []Inv
<1>1. ScratchpadInit => Inv
  BY Initially DEF Inv, ScratchpadInit
<1>2. Inv /\ [ScratchpadNext]_padVars => Inv'
  <2> SUFFICES ASSUME Inv, [ScratchpadNext]_padVars PROVE Inv'
    OBVIOUS
  <2>1. CASE ScratchpadNext
    <3>1. PadsKept(PadsNow')
      BY <2>1, StepFares DEF Inv, Fares
    <3>2. overviewOpen' \in BOOLEAN
      BY <2>1 DEF Inv, ScratchpadNext, ToggleOverview
    <3> QED BY <3>1, <3>2 DEF Inv
  <2>2. CASE UNCHANGED padVars
    BY <2>2 DEF padVars, Inv, PadsNow
  <2> QED BY <2>1, <2>2
<1> QED BY <1>1, <1>2, PTL DEF ScratchpadSpec

\* Every entry, note and pointer is to something there is, a window is in one pad at most, and
\* while it is in one it is mapped and on no workspace.
THEOREM ScratchpadTyped == ScratchpadSpec => []ScratchpadTypeOK
<1>1. Inv => ScratchpadTypeOK
  <2> SUFFICES ASSUME Inv PROVE ScratchpadTypeOK
    OBVIOUS
  <2>1. Sound(PadsNow) /\ Linked(PadsNow) /\ Noted(PadsNow)
    BY DEF Inv, PadsKept
  <2>2. ASSUME NEW p \in Defined(PadsNow)
        PROVE  /\ {pads[p].output, pads[p].away} \subseteq Screens \cup {Nobody}
               /\ {pads[p].last, pads[p].solo} \subseteq Windows \cup {Nobody}
               /\ {pads[p].visible, pads[p].active} \subseteq BOOLEAN
    <3>1. pads[p] \in PadRecords
      BY <2>1, PadTypes, NowIs DEF Sound
    <3> QED BY <3>1 DEF PadRecords
  <2>3. ASSUME NEW i \in DOMAIN members
        PROVE  /\ members[i].pad \in Defined(PadsNow)
               /\ place[members[i].view] = Nobody
               /\ \A j \in DOMAIN members : members[i].view = members[j].view => i = j
    <3>1. members[i].view \in Windows /\ InPad(PadsNow, members[i].view)
      BY <2>1, EntryFacts, NowIs DEF InPad, Entries
    <3> QED BY <2>1, <3>1, NowIs DEF Sound, Distinct, Linked
  <2>4. \A v \in Windows : /\ v \in shown => place[v] # Unmapped
                           /\ owner[v] # Nobody => place[v] # Unmapped /\ place[owner[v]] # Unmapped
    BY <2>1, NowIs DEF Linked
  <2>5. noted # Nobody => InPad(PadsNow, noted)
    BY <2>1, NowIs DEF Noted
  <2> QED BY <2>2, <2>3, <2>4, <2>5 DEF ScratchpadTypeOK
<1> QED BY <1>1, Invariance, PTL

\* One pad shows per output, exactly the members it presents are on screen, and the windows the
\* manager points at are in the pad in question.
THEOREM PadsAlwaysInOrder == ScratchpadSpec => []PadsInOrder
<1>1. Inv => PadsInOrder
  <2> SUFFICES ASSUME Inv PROVE PadsInOrder
    OBVIOUS
  <2> DEFINE s == PadsNow
  <2>1. PadsKept(s)
    BY DEF Inv
  <2>2. ASSUME NEW o \in Screens PROVE Cardinality(VisibleOn(s, o)) <= 1
    <3>1. \A p, q \in VisibleOn(s, o) : p = q
      BY <2>1, ScreenAssumption DEF PadsKept, OnePerOutput, VisibleOn
    <3>2. VisibleOn(s, o) = {} \/ \E p : VisibleOn(s, o) = {p}
      BY <3>1
    <3>3. CASE VisibleOn(s, o) = {}
      <4>1. Cardinality(VisibleOn(s, o)) = 0
        BY <3>3, FS_EmptySet
      <4> QED BY <4>1
    <3>4. CASE \E p : VisibleOn(s, o) = {p}
      <4>1. PICK p : VisibleOn(s, o) = {p}
        BY <3>4
      <4>2. Cardinality(VisibleOn(s, o)) = 1
        BY <4>1, FS_Singleton
      <4> QED BY <4>2
    <3> QED BY <3>2, <3>3, <3>4
  <2>3. ASSUME NEW i \in DOMAIN members
        PROVE  members[i].view \in shown <=> Presents(s, members[i].pad, members[i].view)
    <3>1. members[i].view \in MembersOf(s, members[i].pad) /\ members[i].pad \in Defined(s)
      BY <2>1, NowIs DEF PadsKept, Sound, Distinct, MembersOf, EntriesOf
    <3> QED BY <2>1, <3>1, NowIs DEF PadsKept, Seen
  <2>4. ASSUME NEW p \in Defined(s)
        PROVE  /\ {pads[p].last, pads[p].solo} \ {Nobody} \subseteq MembersOf(s, p)
               /\ pads[p].solo # Nobody => pads[p].visible
               /\ pads[p].active => pads[p].visible
    BY <2>1, NowIs DEF PadsKept, Pointed
  <2> QED BY <2>2, <2>3, <2>4 DEF PadsInOrder, PadsShowApart, PadPointersLive
<1> QED BY <1>1, Invariance, PTL

\* Once the restoration has run no window is stranded.
THEOREM PadsAlwaysFollowOutputs == ScratchpadSpec => []PadsFollowOutputs
<1>1. Inv => PadsFollowOutputs
  <2> SUFFICES ASSUME Inv, ~restoring, lit # {}, NEW v \in Windows
               PROVE  \/ place[v] = Unmapped
                      \/ place[v] # Nobody /\ place[v].on \in lit
                      \/ InPad(PadsNow, v) /\ pads[PadOf(PadsNow, v)].output \in lit
    BY DEF PadsFollowOutputs
  <2> DEFINE s == PadsNow
  <2>1. PadsKept(s) /\ Sound(s)
    BY KeptIs DEF Inv
  <2>2. place[v] \in Places \cup {Nobody, Unmapped} /\ Nobody \notin Places
    BY <2>1, NowIs, ScreenAssumption DEF Sound, Typed
  <2>3. CASE place[v] \in Places
    BY <2>1, <2>2, <2>3, NowIs DEF PadsKept, Housed
  <2>4. CASE place[v] = Nobody
    <3>1. InPad(s, v)
      BY <2>1, <2>4, NowIs DEF PadsKept, Housed
    <3> DEFINE p == PadOf(s, v)
    <3>2. p \in Defined(s) /\ MembersOf(s, p) # {}
      BY <2>1, <3>1, EntryFacts
    <3> HIDE DEF p
    <3>3. pads[p].output \in lit
      BY <2>1, <3>2, NowIs DEF PadsKept, Housed
    <3> QED BY <3>1, <3>3 DEF p
  <2> QED BY <2>2, <2>3, <2>4
<1> QED BY <1>1, Invariance, PTL

\* A pad that showed one window alone never shows all of them for want of that one.
THEOREM SoloAlwaysHolds == ScratchpadSpec => SoloNeverSpreads
<1> DEFINE A == \A p \in Pads : /\ pads[p] # Nobody /\ pads'[p] # Nobody
                                /\ pads[p].solo # Nobody /\ pads'[p].solo = Nobody
                                => ~pads'[p].visible
<1>1. Inv /\ [ScratchpadNext]_padVars => [A]_padVars
  <2> SUFFICES ASSUME Inv, ScratchpadNext, NEW p \in Pads, pads[p] # Nobody, pads'[p] # Nobody,
                      pads[p].solo # Nobody, pads'[p].solo = Nobody
               PROVE  ~pads'[p].visible
    OBVIOUS
  <2>1. Holds(PadsNow, PadsNow')
    BY StepFares DEF Inv, Fares
  <2>2. (PadsNow').pads = pads' /\ PadsNow.pads = pads
    BY DEF PadsNow
  <2> QED BY <2>1, <2>2 DEF Holds, Defined
<1> QED BY <1>1, Invariance, PTL DEF ScratchpadSpec, SoloNeverSpreads

=============================================================================
