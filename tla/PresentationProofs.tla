------------------------- MODULE PresentationProofs -------------------------
(***************************************************************************)
(* What a window is and what it remembers fit together, whoever asks for    *)
(* what in whatever order, and a round trip through a mode loses nothing.   *)
(*                                                                         *)
(* The operations are chains of functions on one record.  Each gets a       *)
(* contract, a predicate on the record before and after it, and is used     *)
(* through its contract alone: ...Shape for the links, which pass through   *)
(* records that are not coherent (a float on its way into the layout still  *)
(* says maximized), ...Done for whole operations, which take a coherent     *)
(* window to a coherent one.                                                *)
(***************************************************************************)
EXTENDS Presentation, TLAPS

Fields == {"tiled", "want", "shown", "maxi", "wide", "edges", "floatMax", "pinned", "minimized",
           "retile", "repin", "reEdges", "reFull", "parked",
           "geo", "asked", "pending", "size", "maxBox", "fullBox"}

\* The shape of a window's record, field by field.
Shaped(s) ==
  /\ DOMAIN s = Fields
  /\ s.tiled \in BOOLEAN /\ s.want \in BOOLEAN /\ s.shown \in BOOLEAN /\ s.maxi \in BOOLEAN
  /\ s.wide \in BOOLEAN /\ s.edges \in BOOLEAN /\ s.floatMax \in BOOLEAN /\ s.pinned \in BOOLEAN
  /\ s.minimized \in BOOLEAN /\ s.retile \in BOOLEAN /\ s.repin \in BOOLEAN
  /\ s.reEdges \in BOOLEAN /\ s.reFull \in BOOLEAN /\ s.parked \in BOOLEAN
  /\ s.geo \in Sizes /\ s.asked \in Sizes /\ s.pending \in Maybe /\ s.size \in Maybe
  /\ s.maxBox \in Maybe /\ s.fullBox \in Maybe

SameSide(s, t) ==
  /\ t.tiled = s.tiled /\ t.want = s.want /\ t.shown = s.shown /\ t.pinned = s.pinned
  /\ t.retile = s.retile /\ t.repin = s.repin /\ t.reFull = s.reFull /\ t.parked = s.parked
SameMaximized(s, t) ==
  /\ t.maxi = s.maxi /\ t.wide = s.wide /\ t.edges = s.edges /\ t.floatMax = s.floatMax
  /\ t.reEdges = s.reEdges
SameSizes(s, t) ==
  /\ t.geo = s.geo /\ t.size = s.size /\ t.fullBox = s.fullBox

\* Which modes exclude each other.
Exclusive(s) ==
  /\ s.pinned => ~s.tiled /\ ~s.want
  /\ s.minimized => ~s.tiled /\ ~s.pinned
  /\ s.edges => s.maxi /\ ~s.want
  /\ s.floatMax => ~s.tiled /\ s.maxi
  /\ s.parked => s.want
\* What is remembered, and for how long.
Remembered(s) ==
  /\ s.repin => s.want /\ ~s.tiled
  /\ s.reEdges => s.want
  /\ s.reFull => ~s.tiled
  /\ ~s.tiled /\ s.maxi => s.maxBox # Unset
\* What each side of the layout knows of: a float's maximized state has a bit of its own and a tile's
\* comes from its column or the edges, and a tile asks for the size the layout gives it.
Sided(s) ==
  /\ ~s.tiled => ~s.wide /\ (s.maxi => s.floatMax)
  /\ s.tiled => (s.maxi => s.wide \/ s.edges) /\ s.pending = Unset /\ s.asked = TileSize(s)

Coherent(s) == Shaped(s) /\ Exclusive(s) /\ Remembered(s) /\ Sided(s)

PresentationInv == Coherent(win) /\ wish = "leave"

-----------------------------------------------------------------------------
(* Maximize *)

LEMMA ArrangeShape ==
  ASSUME NEW s, Shaped(s)
  PROVE  LET t == Arrange(s)
         IN  /\ Shaped(t) /\ SameSide(s, t) /\ SameMaximized(s, t) /\ SameSizes(s, t)
             /\ t.minimized = s.minimized /\ t.pending = s.pending /\ t.maxBox = s.maxBox
             /\ t.tiled => t.asked = TileSize(t)
             /\ ~t.tiled => t = s
BY SMTT(60) DEF Shaped, Fields, Arrange, TileSize, Sizes, SameSide, SameMaximized, SameSizes

LEMMA MaximizeFloatShape ==
  ASSUME NEW s, Shaped(s), NEW on \in BOOLEAN
  PROVE  LET t == MaximizeFloat(s, on)
         IN  /\ Shaped(t) /\ SameSide(s, t) /\ SameSizes(s, t)
             /\ t.minimized = s.minimized
             /\ t.maxi = on /\ t.floatMax = on /\ t.wide = s.wide /\ t.edges = s.edges
             /\ t.reEdges = s.reEdges
             /\ on /\ ~s.maxi => t.maxBox = FloatingSize(s) /\ t.pending = Unset
             /\ on /\ s.maxi => t.maxBox = s.maxBox /\ t.pending = s.pending
             /\ on => t.asked = MaximizedArea(s)
             /\ ~on /\ s.maxi /\ s.maxBox # Unset =>
                  t.maxBox = Unset /\ t.pending = s.maxBox /\ t.asked = s.maxBox
             /\ ~on /\ ~(s.maxi /\ s.maxBox # Unset) =>
                  t.maxBox = s.maxBox /\ t.pending = s.pending /\ t.asked = s.asked
BY UnsetAssumption, SMTT(60) DEF Shaped, Fields, MaximizeFloat, RequestSize, FloatingSize, MaximizedArea, Sizes, Maybe, SameSide, SameMaximized, SameSizes

\* What setMaximizedToEdges makes of s, past any fullscreen.
EdgesSet(s, t, on) ==
  /\ Shaped(t) /\ SameSide(s, t) /\ SameSizes(s, t)
  /\ t.edges = on /\ t.wide = s.wide
  /\ on => t.reEdges = s.reEdges
  /\ ~on => t.reEdges = FALSE
  /\ on = s.edges =>
       /\ t.maxi = s.maxi /\ t.floatMax = s.floatMax /\ t.minimized = s.minimized
       /\ t.pending = s.pending /\ t.maxBox = s.maxBox /\ t.asked = s.asked
  /\ on # s.edges =>
       /\ t.minimized = (s.minimized /\ Minimizable(s))
       /\ s.tiled => /\ t.maxi = (on \/ (~s.want /\ s.wide)) /\ t.floatMax = s.floatMax
                     /\ t.pending = s.pending /\ t.maxBox = s.maxBox
                     /\ t.asked = TileSize(t)
       /\ ~s.tiled =>
            /\ t.maxi = on /\ t.floatMax = on
            /\ on /\ ~s.maxi => t.maxBox = FloatingSize(s) /\ t.pending = Unset
            /\ on /\ s.maxi => t.maxBox = s.maxBox /\ t.pending = s.pending
            /\ on => t.asked = "edge"
            /\ ~on /\ s.maxi /\ s.maxBox # Unset =>
                 t.maxBox = Unset /\ t.pending = s.maxBox /\ t.asked = s.maxBox
            /\ ~on /\ ~(s.maxi /\ s.maxBox # Unset) =>
                 t.maxBox = s.maxBox /\ t.pending = s.pending /\ t.asked = s.asked

LEMMA EdgesHereShape ==
  ASSUME NEW s, Shaped(s), NEW on \in BOOLEAN
  PROVE  EdgesSet(s, EdgesHere(s, on), on)
<1> DEFINE a == [s EXCEPT !.edges = on, !.reEdges = @ /\ on]
           b == [a EXCEPT !.maxi = on \/ (~s.want /\ s.wide)]
           c == IF s.tiled THEN Arrange(b) ELSE MaximizeFloat(a, on)
<1>1. /\ Shaped(a) /\ SameSide(s, a) /\ SameSizes(s, a) /\ a.edges = on
      /\ (on => a.reEdges = s.reEdges) /\ (~on => a.reEdges = FALSE)
      /\ a.wide = s.wide /\ a.maxi = s.maxi /\ a.floatMax = s.floatMax
      /\ a.minimized = s.minimized /\ a.pending = s.pending /\ a.maxBox = s.maxBox /\ a.asked = s.asked
  BY DEF Shaped, Fields, SameSide, SameSizes
<1>2. /\ Shaped(b) /\ SameSide(s, b) /\ SameSizes(s, b) /\ b.edges = on /\ b.reEdges = a.reEdges
      /\ b.maxi = (on \/ (~s.want /\ s.wide))
      /\ b.wide = s.wide /\ b.floatMax = s.floatMax
      /\ b.minimized = s.minimized /\ b.pending = s.pending /\ b.maxBox = s.maxBox /\ b.asked = s.asked
  BY <1>1 DEF Shaped, Fields, SameSide, SameSizes
<1>3. s.edges # on => EdgesHere(s, on) = SyncMinimize(c)
  BY DEF EdgesHere, Arrange
<1>4. s.edges = on => EdgesHere(s, on) = a
  BY DEF EdgesHere
<1> HIDE DEF a, b
<1>5. /\ Shaped(c) /\ SameSide(s, c) /\ SameSizes(s, c) /\ c.minimized = s.minimized
      /\ c.edges = on /\ c.reEdges = a.reEdges /\ c.wide = s.wide
  BY <1>1, <1>2, ArrangeShape, MaximizeFloatShape DEF SameSide, SameSizes, SameMaximized
<1>6. s.tiled => /\ c.maxi = (on \/ (~s.want /\ s.wide)) /\ c.floatMax = s.floatMax
                 /\ c.pending = s.pending /\ c.maxBox = s.maxBox
                 /\ c.asked = TileSize(c)
  <2> SUFFICES ASSUME s.tiled
               PROVE  /\ c.maxi = (on \/ (~s.want /\ s.wide)) /\ c.floatMax = s.floatMax
                      /\ c.pending = s.pending /\ c.maxBox = s.maxBox
                      /\ c.asked = TileSize(c)
    OBVIOUS
  <2>1. c = Arrange(b)
    OBVIOUS
  <2> HIDE DEF c
  <2>2. /\ SameSide(b, c) /\ SameMaximized(b, c) /\ c.pending = b.pending /\ c.maxBox = b.maxBox
        /\ c.tiled => c.asked = TileSize(c)
    BY <1>2, <2>1, ArrangeShape
  <2>3. QED
    BY <1>2, <2>2 DEF SameSide, SameMaximized
<1>7. ~s.tiled =>
         /\ c.maxi = on /\ c.floatMax = on
         /\ on /\ ~s.maxi => c.maxBox = FloatingSize(s) /\ c.pending = Unset
         /\ on /\ s.maxi => c.maxBox = s.maxBox /\ c.pending = s.pending
         /\ on => c.asked = "edge"
         /\ ~on /\ s.maxi /\ s.maxBox # Unset =>
              c.maxBox = Unset /\ c.pending = s.maxBox /\ c.asked = s.maxBox
         /\ ~on /\ ~(s.maxi /\ s.maxBox # Unset) =>
              c.maxBox = s.maxBox /\ c.pending = s.pending /\ c.asked = s.asked
  BY <1>1, MaximizeFloatShape DEF SameSide, SameSizes, SameMaximized, FloatingSize, MaximizedArea
<1> HIDE DEF c
<1> DEFINE t == SyncMinimize(c)
<1>8. /\ Shaped(t) /\ SameSide(c, t) /\ SameSizes(c, t) /\ SameMaximized(c, t)
      /\ t.minimized = (c.minimized /\ Minimizable(c))
      /\ t.pending = c.pending /\ t.maxBox = c.maxBox /\ t.asked = c.asked
  BY <1>5 DEF Shaped, Fields, SyncMinimize, Minimizable, SameSide, SameSizes, SameMaximized
<1> HIDE DEF t
<1>9. QED
  BY <1>1, <1>3, <1>4, <1>5, <1>6, <1>7, <1>8 DEF t, EdgesSet, SameSide, SameSizes, SameMaximized, Minimizable, TileSize

LEMMA SyncMinimizeShape ==
  ASSUME NEW s, Shaped(s)
  PROVE  LET t == SyncMinimize(s)
         IN  /\ Shaped(t) /\ SameSide(s, t) /\ SameMaximized(s, t) /\ SameSizes(s, t)
             /\ t.minimized = (s.minimized /\ Minimizable(s))
             /\ t.pending = s.pending /\ t.maxBox = s.maxBox /\ t.asked = s.asked
BY DEF Shaped, Fields, SyncMinimize, Minimizable, SameSide, SameSizes, SameMaximized

-----------------------------------------------------------------------------
(* Fullscreen *)

LEMMA EdgesAsideShape ==
  ASSUME NEW s, Shaped(s), s.edges => ~s.want, s.minimized => Minimizable(s)
  PROVE  LET t == EdgesAside(s)
         IN  /\ Shaped(t) /\ SameSide(s, t) /\ SameSizes(s, t)
             /\ t.edges = FALSE /\ t.reEdges = (s.reEdges \/ s.edges)
             /\ t.wide = s.wide /\ t.minimized = s.minimized
             /\ ~s.edges => /\ t.maxi = s.maxi /\ t.floatMax = s.floatMax /\ t.pending = s.pending
                            /\ t.maxBox = s.maxBox /\ t.asked = s.asked
             /\ s.edges => /\ t.maxi = (s.tiled /\ s.wide)
                           /\ t.floatMax = (s.tiled /\ s.floatMax)
                           /\ s.tiled => t.pending = s.pending /\ t.maxBox = s.maxBox
                           /\ ~s.tiled /\ s.maxi /\ s.maxBox # Unset =>
                                t.pending = s.maxBox /\ t.maxBox = Unset
<1>1. CASE s.edges
  <2> DEFINE e == EdgesHere(s, FALSE)
             t == [e EXCEPT !.reEdges = TRUE]
  <2>1. EdgesAside(s) = t
    BY <1>1 DEF EdgesAside
  <2>2. /\ Shaped(e) /\ SameSide(s, e) /\ SameSizes(s, e)
        /\ e.edges = FALSE /\ e.wide = s.wide /\ e.minimized = s.minimized
        /\ s.tiled => e.maxi = s.wide /\ e.floatMax = s.floatMax /\ e.pending = s.pending /\ e.maxBox = s.maxBox
        /\ ~s.tiled => e.maxi = FALSE /\ e.floatMax = FALSE
        /\ ~s.tiled /\ s.maxi /\ s.maxBox # Unset => e.pending = s.maxBox /\ e.maxBox = Unset
    <3>0. EdgesSet(s, e, FALSE)
      BY EdgesHereShape
    <3>1. s.edges # FALSE /\ ~s.want
      BY <1>1 DEF Shaped
    <3>2. e.minimized = s.minimized
      BY <3>1, <3>0 DEF EdgesSet, Shaped, Minimizable
    <3>3. Shaped(e) /\ SameSide(s, e) /\ SameSizes(s, e) /\ e.edges = FALSE /\ e.wide = s.wide
      BY <3>0 DEF EdgesSet
    <3>8. s.tiled => e.maxi = (FALSE \/ (~s.want /\ s.wide))
      BY <3>1, <3>0 DEF EdgesSet
    <3>9. s.tiled => e.maxi = s.wide
      BY <3>1, <3>8 DEF Shaped
    <3>4. s.tiled => e.maxi = s.wide /\ e.floatMax = s.floatMax /\ e.pending = s.pending /\ e.maxBox = s.maxBox
      BY <3>0, <3>1, <3>9 DEF EdgesSet
    <3>5. ~s.tiled => e.maxi = FALSE /\ e.floatMax = FALSE
      BY <3>1, <3>0 DEF EdgesSet
    <3>6. ~s.tiled /\ s.maxi /\ s.maxBox # Unset => e.pending = s.maxBox /\ e.maxBox = Unset
      BY <3>1, <3>0 DEF EdgesSet
    <3>7. QED
      BY <3>2, <3>3, <3>4, <3>5, <3>6
  <2> HIDE DEF e
  <2>3. /\ Shaped(t) /\ SameSide(e, t) /\ SameSizes(e, t) /\ t.edges = e.edges /\ t.reEdges = TRUE
        /\ t.wide = e.wide /\ t.minimized = e.minimized /\ t.maxi = e.maxi
        /\ t.floatMax = e.floatMax /\ t.pending = e.pending /\ t.maxBox = e.maxBox
    BY <2>2 DEF Shaped, Fields, SameSide, SameSizes
  <2> HIDE DEF t
  <2>4. QED
    BY <1>1, <2>1, <2>2, <2>3 DEF SameSide, SameSizes, Shaped
<1>2. CASE ~s.edges
  BY <1>2 DEF EdgesAside, SameSide, SameSizes, Shaped
<1>3. QED
  BY <1>1, <1>2

\* What entering fullscreen makes of a window, whatever state it is in.
LEMMA EnterShape ==
  ASSUME NEW s, Shaped(s), s.edges => ~s.want, s.minimized => Minimizable(s)
  PROVE  LET t == EnterFullscreen(s)
         IN  /\ Shaped(t) /\ t.geo = s.geo /\ t.size = s.size /\ t.tiled = s.tiled
             /\ t.shown = s.shown /\ t.retile = s.retile /\ t.reFull = s.reFull /\ t.wide = s.wide
             /\ t.want = TRUE /\ t.parked = FALSE /\ t.pinned = FALSE /\ t.edges = FALSE
             /\ t.repin = (s.repin \/ s.pinned) /\ t.reEdges = (s.reEdges \/ s.edges)
             /\ t.minimized = s.minimized /\ t.pending = Unset /\ t.asked = "full"
             /\ ~s.edges => t.maxi = s.maxi /\ t.floatMax = s.floatMax /\ t.maxBox = s.maxBox
             /\ s.edges => t.maxi = (s.tiled /\ s.wide) /\ t.floatMax = (s.tiled /\ s.floatMax)
             /\ ~s.tiled /\ ~Fullscreened(s) => t.fullBox # Unset
             /\ ~s.tiled /\ ~Fullscreened(s) /\ ~s.edges => t.fullBox = FloatingSize(s)
<1> DEFINE a == EdgesAside(s)
           b == BoxRestored(a)
           c == PinAside(b)
           d == Cover(c)
<1>1. EnterFullscreen(s) = SyncMinimize(d)
  BY DEF EnterFullscreen
<1>2. /\ Shaped(a) /\ SameSide(s, a) /\ SameSizes(s, a)
      /\ a.edges = FALSE /\ a.reEdges = (s.reEdges \/ s.edges)
      /\ a.wide = s.wide /\ a.minimized = s.minimized
      /\ ~s.edges => /\ a.maxi = s.maxi /\ a.floatMax = s.floatMax /\ a.pending = s.pending
                     /\ a.maxBox = s.maxBox
      /\ s.edges => a.maxi = (s.tiled /\ s.wide) /\ a.floatMax = (s.tiled /\ s.floatMax)
  BY EdgesAsideShape
<1> HIDE DEF a
<1>3. /\ Shaped(b) /\ SameSide(a, b) /\ SameMaximized(a, b) /\ b.geo = a.geo /\ b.size = a.size
      /\ b.minimized = a.minimized /\ b.maxBox = a.maxBox
      /\ ~a.tiled /\ ~Fullscreened(a) => b.fullBox = FloatingSize(a) /\ b.fullBox # Unset
  BY <1>2, UnsetAssumption DEF BoxRestored, Shaped, Fields, SameSide, SameMaximized, FloatingSize, Maybe
<1> HIDE DEF b
<1>4. /\ Shaped(c) /\ SameMaximized(b, c) /\ SameSizes(b, c) /\ c.tiled = b.tiled
      /\ c.shown = b.shown /\ c.retile = b.retile /\ c.reFull = b.reFull
      /\ c.want = TRUE /\ c.parked = FALSE /\ c.pinned = FALSE
      /\ c.repin = (b.repin \/ b.pinned) /\ c.pending = Unset
      /\ c.minimized = b.minimized /\ c.maxBox = b.maxBox
  BY <1>3 DEF PinAside, Shaped, Fields, SameSizes, SameMaximized, Maybe
<1> HIDE DEF c
<1>5. /\ Shaped(d) /\ SameSide(c, d) /\ SameMaximized(c, d) /\ SameSizes(c, d)
      /\ d.pending = c.pending /\ d.minimized = c.minimized /\ d.maxBox = c.maxBox
      /\ d.asked = "full"
  <2>1. CASE c.tiled
    <3>1. d = Arrange(c)
      BY <2>1 DEF Cover
    <3>2. /\ Shaped(d) /\ SameSide(c, d) /\ SameMaximized(c, d) /\ SameSizes(c, d)
          /\ d.pending = c.pending /\ d.minimized = c.minimized /\ d.maxBox = c.maxBox
          /\ d.tiled => d.asked = TileSize(d)
      BY <3>1, <1>4, ArrangeShape
    <3>3. d.tiled /\ d.want
      BY <2>1, <1>4, <3>2 DEF SameSide
    <3>4. TileSize(d) = "full"
      BY <3>3 DEF TileSize
    <3>5. QED
      BY <3>2, <3>3, <3>4
  <2>2. CASE ~c.tiled
    BY <2>2, <1>4 DEF Cover, Shaped, Fields, SameSide, SameSizes, SameMaximized, Sizes
  <2>3. QED
    BY <2>1, <2>2
<1> HIDE DEF d
<1>6. Fullscreened(a) = Fullscreened(s) /\ (~s.edges => FloatingSize(a) = FloatingSize(s))
  BY <1>2 DEF Fullscreened, FloatingSize, SameSide, SameSizes
<1> DEFINE t == SyncMinimize(d)
<1>7. /\ Shaped(t) /\ SameSide(d, t) /\ SameMaximized(d, t) /\ SameSizes(d, t)
      /\ t.minimized = (d.minimized /\ Minimizable(d))
      /\ t.pending = d.pending /\ t.maxBox = d.maxBox /\ t.asked = d.asked
  BY <1>5, SyncMinimizeShape
<1> HIDE DEF t
<1>8. t.minimized = s.minimized
  BY <1>2, <1>3, <1>4, <1>5, <1>7 DEF Minimizable, SameSide, Shaped
<1>9. QED
  BY <1>1, <1>2, <1>3, <1>4, <1>5, <1>6, <1>7, <1>8 DEF t, SameSide, SameSizes, SameMaximized

LEMMA EnterCoherent ==
  ASSUME NEW s, Coherent(s)
  PROVE  Coherent(EnterFullscreen(s))
<1> DEFINE t == EnterFullscreen(s)
<1>1. Shaped(s) /\ (s.edges => ~s.want) /\ (s.minimized => Minimizable(s))
  BY DEF Coherent, Exclusive, Minimizable
<1>2. /\ Shaped(t) /\ t.tiled = s.tiled /\ t.reFull = s.reFull /\ t.wide = s.wide
      /\ t.want = TRUE /\ t.parked = FALSE /\ t.pinned = FALSE /\ t.edges = FALSE
      /\ t.repin = (s.repin \/ s.pinned)
      /\ t.minimized = s.minimized /\ t.pending = Unset /\ t.asked = "full"
      /\ ~s.edges => t.maxi = s.maxi /\ t.floatMax = s.floatMax /\ t.maxBox = s.maxBox
      /\ s.edges => t.maxi = (s.tiled /\ s.wide) /\ t.floatMax = (s.tiled /\ s.floatMax)
  BY <1>1, EnterShape
<1> HIDE DEF t
<1>3. Exclusive(t)
  BY <1>1, <1>2 DEF Coherent, Exclusive, Sided, Shaped
<1>4. Remembered(t)
  BY <1>1, <1>2 DEF Coherent, Exclusive, Remembered, Sided, Shaped
<1>5. Sided(t)
  BY <1>1, <1>2 DEF Coherent, Exclusive, Sided, Shaped, TileSize
<1>6. QED
  BY <1>2, <1>3, <1>4, <1>5 DEF Coherent, t

LEMMA BoxBackShape ==
  ASSUME NEW s, Shaped(s)
  PROVE  LET t == BoxBack(s)
         IN  /\ Shaped(t) /\ SameSide(s, t) /\ SameMaximized(s, t)
             /\ t.geo = s.geo /\ t.size = s.size /\ t.minimized = s.minimized /\ t.maxBox = s.maxBox
             /\ s.tiled => t.pending = s.pending
             /\ ~s.tiled => t.pending = IF s.fullBox # Unset THEN s.fullBox ELSE s.pending
<1>1. CASE ~s.tiled /\ s.fullBox # Unset
  BY <1>1 DEF BoxBack, RequestSize, Shaped, Fields, SameSide, SameMaximized, Maybe
<1>2. CASE s.tiled
  BY <1>2 DEF BoxBack, Shaped, Fields, SameSide, SameMaximized, Maybe
<1>3. CASE ~s.tiled /\ s.fullBox = Unset
  BY <1>3 DEF BoxBack, SameSide, SameMaximized
<1>4. QED
  BY <1>1, <1>2, <1>3

LEMMA EdgesBackShape ==
  ASSUME NEW s, Shaped(s), NEW immediate \in BOOLEAN, s.minimized => Minimizable(s),
         s.reEdges => ~s.edges, ~s.want
  PROVE  LET t == EdgesBack(s, immediate)
         IN  /\ Shaped(t) /\ SameSide(s, t) /\ t.geo = s.geo /\ t.size = s.size
             /\ t.reEdges = FALSE /\ t.wide = s.wide /\ t.minimized = s.minimized
             /\ s.reEdges /\ immediate =>
                  /\ t.edges = TRUE /\ t.maxi = TRUE /\ t.floatMax = (s.floatMax \/ ~s.tiled)
                  /\ s.tiled => t.pending = s.pending
                  /\ ~s.tiled /\ ~s.maxi => t.maxBox # Unset
                  /\ ~s.tiled /\ s.maxi => t.maxBox = s.maxBox
             /\ ~(s.reEdges /\ immediate) =>
                  /\ t.edges = s.edges /\ t.maxi = s.maxi /\ t.floatMax = s.floatMax
                  /\ t.pending = s.pending /\ t.maxBox = s.maxBox
<1> DEFINE a == [s EXCEPT !.reEdges = FALSE]
           t == EdgesHere(a, TRUE)
<1>1. /\ Shaped(a) /\ SameSide(s, a) /\ SameSizes(s, a) /\ a.reEdges = FALSE /\ a.wide = s.wide
      /\ a.edges = s.edges /\ a.maxi = s.maxi /\ a.floatMax = s.floatMax /\ a.minimized = s.minimized
      /\ a.pending = s.pending /\ a.maxBox = s.maxBox
  BY DEF Shaped, Fields, SameSide, SameSizes
<1> HIDE DEF a
<1>2. CASE s.reEdges /\ immediate
  <2>1. EdgesBack(s, immediate) = t
    BY <1>2 DEF EdgesBack, a
  <2>2. TRUE # a.edges
    <3>1. ~a.edges
      BY <1>1, <1>2
    <3>2. QED
      BY <3>1, Zenon
  <2>0. EdgesSet(a, t, TRUE)
    BY <1>1, EdgesHereShape
  <2>3. Shaped(t) /\ SameSide(a, t) /\ SameSizes(a, t) /\ t.edges = TRUE /\ t.wide = a.wide
    BY <2>0 DEF EdgesSet
  <2>4. t.reEdges = FALSE
    BY <1>1, <2>0 DEF EdgesSet
  <2>5. t.minimized = (a.minimized /\ Minimizable(a))
    BY <2>0, <2>2 DEF EdgesSet
  <2>6. t.minimized = s.minimized
    BY <1>1, <2>3, <2>5 DEF Minimizable, SameSide, Shaped
  <2>7. a.tiled => t.maxi = TRUE /\ t.floatMax = a.floatMax /\ t.pending = a.pending
    BY <2>0, <2>2 DEF EdgesSet
  <2>8. ~a.tiled => t.maxi = TRUE /\ t.floatMax = TRUE
    BY <2>0, <2>2 DEF EdgesSet
  <2>9. /\ ~a.tiled /\ ~a.maxi => t.maxBox = FloatingSize(a)
        /\ ~a.tiled /\ a.maxi => t.maxBox = a.maxBox
    BY <2>0, <2>2 DEF EdgesSet
  <2>10. FloatingSize(a) # Unset
    BY <1>1, UnsetAssumption DEF FloatingSize, Shaped
  <2> HIDE DEF t
  <2>11. t.maxi = TRUE /\ t.floatMax = (s.floatMax \/ ~s.tiled)
    BY <1>1, <2>3, <2>7, <2>8 DEF SameSide, Shaped
  <2>12. SameSide(s, t) /\ t.geo = s.geo /\ t.size = s.size /\ t.wide = s.wide
    BY <1>1, <2>3 DEF SameSide, SameSizes
  <2>13. /\ s.tiled => t.pending = s.pending
         /\ ~s.tiled /\ ~s.maxi => t.maxBox # Unset
         /\ ~s.tiled /\ s.maxi => t.maxBox = s.maxBox
    BY <1>1, <2>7, <2>9, <2>10 DEF SameSide
  <2>14. QED
    BY <1>2, <2>1, <2>3, <2>4, <2>6, <2>11, <2>12, <2>13
<1>3. CASE ~(s.reEdges /\ immediate)
  BY <1>1, <1>3 DEF EdgesBack, a, SameSide, SameSizes
<1>4. QED
  BY <1>2, <1>3

LEMMA PinBackShape ==
  ASSUME NEW s, Shaped(s)
  PROVE  LET t == PinBack(s)
         IN  /\ Shaped(t) /\ SameMaximized(s, t) /\ SameSizes(s, t)
             /\ t.tiled = s.tiled /\ t.want = s.want /\ t.shown = s.shown /\ t.retile = s.retile
             /\ t.reFull = s.reFull /\ t.parked = s.parked
             /\ t.pinned = (s.pinned \/ s.repin) /\ t.repin = FALSE
             /\ t.minimized = s.minimized /\ t.pending = s.pending /\ t.maxBox = s.maxBox
             /\ t.asked = s.asked
BY DEF PinBack, Shaped, Fields, SameMaximized, SameSizes

\* What leaving fullscreen makes of s; back: the edges come back.
Left(s, t, back) ==
  /\ Shaped(t) /\ t.geo = s.geo /\ t.size = s.size /\ t.tiled = s.tiled
  /\ t.shown = s.shown /\ t.retile = s.retile /\ t.wide = s.wide
  /\ t.want = FALSE /\ t.parked = FALSE /\ t.reFull = FALSE /\ t.reEdges = FALSE
  /\ t.repin = FALSE /\ t.pinned = (s.pinned \/ s.repin)
  /\ t.minimized = (s.minimized /\ ~t.pinned)
  /\ t.edges = (s.edges \/ back) /\ t.maxi = (s.maxi \/ back)
  /\ t.floatMax = (s.floatMax \/ (back /\ ~s.tiled))
  /\ s.tiled => t.asked = TileSize(t) /\ t.pending = s.pending
  /\ ~s.tiled /\ t.maxi => t.maxBox # Unset
  /\ ~s.tiled /\ ~back =>
       t.pending = IF s.fullBox # Unset THEN s.fullBox ELSE s.pending

LEMMA LeaveShape ==
  ASSUME NEW s, Coherent(s), NEW immediate \in BOOLEAN
  PROVE  Left(s, LeaveFullscreen(s, immediate), s.reEdges /\ immediate)
<1> DEFINE a == [s EXCEPT !.parked = FALSE, !.want = FALSE, !.reFull = FALSE]
           b == BoxBack(a)
           c == EdgesBack(b, immediate)
           d == Arrange(c)
           e == PinBack(d)
           t == SyncMinimize(e)
           back == s.reEdges /\ immediate
<1>0. LeaveFullscreen(s, immediate) = t
  BY DEF LeaveFullscreen
<1>1. /\ Shaped(a) /\ SameMaximized(s, a) /\ SameSizes(s, a) /\ a.tiled = s.tiled /\ a.want = FALSE
      /\ a.shown = s.shown /\ a.pinned = s.pinned /\ a.retile = s.retile /\ a.repin = s.repin
      /\ a.reFull = FALSE /\ a.parked = FALSE
      /\ a.minimized = s.minimized /\ a.pending = s.pending /\ a.maxBox = s.maxBox
  BY DEF Coherent, Shaped, Fields, SameMaximized, SameSizes
<1> HIDE DEF a
<1>2. /\ Shaped(b) /\ SameSide(a, b) /\ SameMaximized(a, b)
      /\ b.geo = a.geo /\ b.size = a.size /\ b.minimized = a.minimized /\ b.maxBox = a.maxBox
      /\ a.tiled => b.pending = a.pending
      /\ ~a.tiled => b.pending = IF a.fullBox # Unset THEN a.fullBox ELSE a.pending
  BY <1>1, BoxBackShape
<1> HIDE DEF b
<1>3. (b.minimized => Minimizable(b)) /\ (b.reEdges => ~b.edges) /\ ~b.want
  BY <1>1, <1>2 DEF Coherent, Exclusive, Remembered, Minimizable, SameSide, SameMaximized
<1>4. /\ Shaped(c) /\ SameSide(b, c) /\ c.geo = b.geo /\ c.size = b.size
      /\ c.reEdges = FALSE /\ c.wide = b.wide /\ c.minimized = b.minimized
      /\ b.reEdges /\ immediate =>
           /\ c.edges = TRUE /\ c.maxi = TRUE /\ c.floatMax = (b.floatMax \/ ~b.tiled)
           /\ b.tiled => c.pending = b.pending
           /\ ~b.tiled /\ ~b.maxi => c.maxBox # Unset
           /\ ~b.tiled /\ b.maxi => c.maxBox = b.maxBox
      /\ ~(b.reEdges /\ immediate) =>
           /\ c.edges = b.edges /\ c.maxi = b.maxi /\ c.floatMax = b.floatMax
           /\ c.pending = b.pending /\ c.maxBox = b.maxBox
  BY <1>2, <1>3, EdgesBackShape
<1> HIDE DEF c
<1>5. /\ Shaped(d) /\ SameSide(c, d) /\ SameMaximized(c, d) /\ SameSizes(c, d)
      /\ d.minimized = c.minimized /\ d.pending = c.pending /\ d.maxBox = c.maxBox
      /\ d.tiled => d.asked = TileSize(d)
  BY <1>4, ArrangeShape
<1> HIDE DEF d
<1>6. /\ Shaped(e) /\ SameMaximized(d, e) /\ SameSizes(d, e)
      /\ e.tiled = d.tiled /\ e.want = d.want /\ e.shown = d.shown /\ e.retile = d.retile
      /\ e.reFull = d.reFull /\ e.parked = d.parked
      /\ e.pinned = (d.pinned \/ d.repin) /\ e.repin = FALSE
      /\ e.minimized = d.minimized /\ e.pending = d.pending /\ e.maxBox = d.maxBox
      /\ e.asked = d.asked
  BY <1>5, PinBackShape
<1> HIDE DEF e
<1>7. /\ Shaped(t) /\ SameSide(e, t) /\ SameMaximized(e, t) /\ SameSizes(e, t)
      /\ t.minimized = (e.minimized /\ Minimizable(e))
      /\ t.pending = e.pending /\ t.maxBox = e.maxBox /\ t.asked = e.asked
  BY <1>6, SyncMinimizeShape
<1> HIDE DEF t
<1>8. /\ t.geo = s.geo /\ t.size = s.size /\ t.tiled = s.tiled
      /\ t.shown = s.shown /\ t.retile = s.retile /\ t.wide = s.wide
      /\ t.want = FALSE /\ t.parked = FALSE /\ t.reFull = FALSE /\ t.reEdges = FALSE
      /\ t.repin = FALSE /\ t.pinned = (s.pinned \/ s.repin)
  BY <1>1, <1>2, <1>4, <1>5, <1>6, <1>7 DEF SameSide, SameMaximized, SameSizes
<1>9. t.minimized = (s.minimized /\ ~t.pinned)
  BY <1>1, <1>2, <1>4, <1>5, <1>6, <1>7 DEF SameSide, Minimizable, Coherent, Exclusive, Shaped
<1>10. t.asked = d.asked /\ t.pending = c.pending /\ t.maxBox = c.maxBox /\ t.maxi = c.maxi
       /\ t.edges = c.edges /\ t.floatMax = c.floatMax /\ c.tiled = s.tiled /\ c.wide = s.wide
  BY <1>1, <1>2, <1>4, <1>5, <1>6, <1>7 DEF SameSide, SameMaximized
<1>11. /\ b.reEdges = s.reEdges /\ b.tiled = s.tiled /\ b.maxi = s.maxi /\ b.maxBox = s.maxBox
       /\ b.edges = s.edges /\ b.floatMax = s.floatMax
       /\ s.tiled => b.pending = s.pending
       /\ ~s.tiled => b.pending = IF s.fullBox # Unset THEN s.fullBox ELSE s.pending
  BY <1>1, <1>2 DEF SameSide, SameMaximized, SameSizes
<1>12. t.edges = (s.edges \/ back) /\ t.maxi = (s.maxi \/ back)
  BY <1>4, <1>10, <1>11 DEF Coherent, Shaped
<1>13. t.floatMax = (s.floatMax \/ (back /\ ~s.tiled))
  BY <1>4, <1>10, <1>11 DEF Coherent, Shaped
<1>14. s.tiled => t.asked = TileSize(t) /\ t.pending = s.pending
  BY <1>4, <1>5, <1>6, <1>7, <1>8, <1>10, <1>11 DEF TileSize, SameSide, SameMaximized
<1>15. ~s.tiled /\ t.maxi => t.maxBox # Unset
  BY <1>4, <1>10, <1>11 DEF Coherent, Remembered
<1>16. ~s.tiled /\ ~back => t.pending = IF s.fullBox # Unset THEN s.fullBox ELSE s.pending
  BY <1>4, <1>10, <1>11
<1>17. QED
  BY <1>0, <1>7, <1>8, <1>9, <1>12, <1>13, <1>14, <1>15, <1>16 DEF Left

LEMMA LeaveCoherent ==
  ASSUME NEW s, Coherent(s), NEW immediate \in BOOLEAN
  PROVE  Coherent(LeaveFullscreen(s, immediate))
<1> DEFINE t    == LeaveFullscreen(s, immediate)
           back == s.reEdges /\ immediate
<1>1. Left(s, t, back)
  BY LeaveShape
<1> HIDE DEF t, back
<1>2. Exclusive(t)
  BY <1>1 DEF Left, Coherent, Exclusive, Remembered, Shaped
<1>3. Remembered(t)
  BY <1>1 DEF Left, Remembered
<1>4. Sided(t)
  BY <1>1 DEF Left, Coherent, Exclusive, Sided, Shaped
<1>5. QED
  BY <1>1, <1>2, <1>3, <1>4 DEF Left, Coherent, t

\* A request that what a tile waits for be asked again changes nothing.
LEMMA ArrangeIdle ==
  ASSUME NEW s, Coherent(s)
  PROVE  Coherent(Arrange(s)) /\ SameSide(s, Arrange(s)) /\ SameMaximized(s, Arrange(s))
         /\ SameSizes(s, Arrange(s)) /\ Arrange(s).minimized = s.minimized
<1> DEFINE t == Arrange(s)
<1>1. /\ Shaped(t) /\ SameSide(s, t) /\ SameMaximized(s, t) /\ SameSizes(s, t)
      /\ t.minimized = s.minimized /\ t.pending = s.pending /\ t.maxBox = s.maxBox
      /\ t.tiled => t.asked = TileSize(t)
  BY ArrangeShape DEF Coherent
<1> HIDE DEF t
<1>2. Exclusive(t) /\ Remembered(t) /\ Sided(t)
  BY <1>1 DEF Coherent, Exclusive, Remembered, Sided, SameSide, SameMaximized
<1>3. QED
  BY <1>1, <1>2 DEF Coherent, t

LEMMA SyncIdle ==
  ASSUME NEW s, Coherent(s)
  PROVE  Coherent(SyncMinimize(s)) /\ SameSide(s, SyncMinimize(s))
         /\ SameMaximized(s, SyncMinimize(s)) /\ SameSizes(s, SyncMinimize(s))
         /\ SyncMinimize(s).asked = s.asked
<1> DEFINE t == SyncMinimize(s)
<1>1. /\ Shaped(t) /\ SameSide(s, t) /\ SameMaximized(s, t) /\ SameSizes(s, t)
      /\ t.minimized = (s.minimized /\ Minimizable(s))
      /\ t.pending = s.pending /\ t.maxBox = s.maxBox /\ t.asked = s.asked
  BY SyncMinimizeShape DEF Coherent
<1> HIDE DEF t
<1>2. Exclusive(t)
  BY <1>1 DEF Coherent, Exclusive, SameSide, SameMaximized, Minimizable
<1>3. Remembered(t) /\ Sided(t)
  BY <1>1 DEF Coherent, Remembered, Sided, SameSide, SameMaximized, TileSize
<1>4. QED
  BY <1>1, <1>2, <1>3 DEF Coherent, t

LEMMA EdgesHereCoherent ==
  ASSUME NEW s, Coherent(s), NEW on \in BOOLEAN, on => s.edges \/ ~s.want
  PROVE  LET t == EdgesHere(s, on)
         IN  /\ Coherent(t) /\ SameSide(s, t) /\ SameSizes(s, t)
             /\ t.edges = on /\ t.wide = s.wide /\ t.minimized = s.minimized
             /\ on => t.maxi = TRUE /\ t.floatMax = ~s.tiled
             /\ ~on => t.reEdges = FALSE
             /\ ~on /\ s.edges => t.maxi = (s.tiled /\ s.wide) /\ t.floatMax = FALSE
             /\ ~on /\ ~s.edges => t.maxi = s.maxi /\ t.floatMax = s.floatMax
<1> DEFINE t == EdgesHere(s, on)
<1>0. Shaped(s)
  BY DEF Coherent
<1>1. EdgesSet(s, t, on)
  BY <1>0, EdgesHereShape
<1>4. FloatingSize(s) # Unset
  BY <1>0, UnsetAssumption DEF FloatingSize, Shaped
<1> HIDE DEF t
<1>5. t.minimized = s.minimized
  BY <1>0, <1>1 DEF EdgesSet, Coherent, Exclusive, Minimizable, Shaped
<1>6. on => t.maxi = TRUE /\ t.floatMax = ~s.tiled
  BY <1>0, <1>1 DEF EdgesSet, Coherent, Exclusive, Sided, Shaped
<1>7. ~on /\ s.edges => t.maxi = (s.tiled /\ s.wide) /\ t.floatMax = FALSE
  BY <1>0, <1>1 DEF EdgesSet, Coherent, Exclusive, Sided, Shaped
<1>8. ~on /\ ~s.edges => on = s.edges
  BY <1>0 DEF Shaped
<1>9. Exclusive(t)
  BY <1>0, <1>1, <1>5, <1>6, <1>7, <1>8 DEF EdgesSet, Coherent, Exclusive, Sided, Shaped, SameSide
<1>10. Remembered(t)
  BY <1>0, <1>1, <1>4, <1>6, <1>7, <1>8 DEF EdgesSet, Coherent, Remembered, Shaped, SameSide
<1>11. CASE on = s.edges
  <2>1. Sided(t)
    BY <1>11, <1>1 DEF EdgesSet, Coherent, Sided, SameSide, TileSize
  <2>2. QED
    BY <2>1, <1>1, <1>5, <1>6, <1>7, <1>8, <1>9, <1>10 DEF EdgesSet, Coherent, t
<1>12. CASE on # s.edges
  <2>1. Sided(t)
    BY <1>12, <1>0, <1>1 DEF EdgesSet, Coherent, Sided, SameSide, Shaped
  <2>2. QED
    BY <2>1, <1>1, <1>5, <1>6, <1>7, <1>8, <1>9, <1>10 DEF EdgesSet, Coherent, t
<1>13. QED
  BY <1>11, <1>12

LEMMA SetFullscreenCoherent ==
  ASSUME NEW s, Coherent(s), NEW on \in BOOLEAN
  PROVE  Coherent(SetFullscreen(s, on)) /\ ~SetFullscreen(s, on).parked
<1>1. Shaped(s) /\ (s.edges => ~s.want) /\ (s.minimized => Minimizable(s))
  BY DEF Coherent, Exclusive, Minimizable
<1>2. ~EnterFullscreen(s).parked
  BY <1>1, EnterShape
<1>3. ~LeaveFullscreen(s, TRUE).parked
  BY LeaveShape DEF Left
<1>4. QED
  BY <1>2, <1>3, EnterCoherent, LeaveCoherent DEF SetFullscreen

\* What setMaximizedToEdges makes of s.
EdgesDone(s, t, on) ==
  /\ Coherent(t) /\ (t.parked => s.parked)
  /\ t.tiled = s.tiled /\ t.geo = s.geo /\ t.size = s.size /\ t.shown = s.shown
  /\ t.retile = s.retile /\ t.wide = s.wide /\ t.edges = on
  /\ (t.want => s.want) /\ (t.reFull => s.reFull)
  /\ on => t.maxi = TRUE /\ t.floatMax = ~s.tiled
  /\ ~on => SameSide(s, t) /\ t.reEdges = FALSE /\ t.minimized = s.minimized
  /\ ~on /\ s.edges => t.maxi = (s.tiled /\ s.wide) /\ t.floatMax = FALSE
  /\ ~on /\ ~s.edges => t.maxi = s.maxi /\ t.floatMax = s.floatMax

LEMMA SetEdgesDone ==
  ASSUME NEW s, Coherent(s), NEW on \in BOOLEAN
  PROVE  EdgesDone(s, SetEdges(s, on), on)
<1>1. CASE on /\ ~s.edges /\ s.want
  <2> DEFINE a == LeaveFullscreen(s, FALSE)
             b == EdgesHere(a, TRUE)
             t == Arrange(b)
  <2>1. SetEdges(s, on) = t
    BY <1>1 DEF SetEdges
  <2>2. Left(s, a, FALSE) /\ Coherent(a)
    BY LeaveShape, LeaveCoherent
  <2> HIDE DEF a
  <2>3. a.want = FALSE
    BY <2>2 DEF Left
  <2>4. /\ Coherent(b) /\ SameSide(a, b) /\ SameSizes(a, b)
        /\ b.edges = TRUE /\ b.wide = a.wide /\ b.maxi = TRUE /\ b.floatMax = ~a.tiled
    BY <2>2, <2>3, EdgesHereCoherent
  <2> HIDE DEF b
  <2>5. Coherent(t) /\ SameSide(b, t) /\ SameMaximized(b, t) /\ SameSizes(b, t)
    BY <2>4, ArrangeIdle
  <2> HIDE DEF t
  <2>6. /\ t.tiled = a.tiled /\ t.geo = a.geo /\ t.size = a.size /\ t.shown = a.shown
        /\ t.retile = a.retile /\ t.wide = a.wide /\ t.edges = TRUE /\ t.maxi = TRUE
        /\ t.floatMax = ~a.tiled /\ t.want = FALSE /\ t.parked = a.parked /\ t.reFull = a.reFull
    BY <2>3, <2>4, <2>5 DEF SameSide, SameMaximized, SameSizes
  <2>7. /\ a.tiled = s.tiled /\ a.geo = s.geo /\ a.size = s.size /\ a.shown = s.shown
        /\ a.retile = s.retile /\ a.wide = s.wide /\ a.parked = FALSE /\ a.reFull = FALSE
    BY <2>2 DEF Left
  <2>8. EdgesDone(s, t, TRUE)
    <3>1. /\ t.tiled = s.tiled /\ t.geo = s.geo /\ t.size = s.size /\ t.shown = s.shown
          /\ t.retile = s.retile /\ t.wide = s.wide /\ t.floatMax = ~s.tiled
          /\ t.parked = FALSE /\ t.reFull = FALSE
      BY <2>6, <2>7
    <3>2. QED
      BY <2>5, <2>6, <3>1 DEF EdgesDone
  <2>9. on = TRUE
    BY <1>1
  <2>10. QED
    BY <2>1, <2>8, <2>9
<1>2. CASE ~(on /\ ~s.edges /\ s.want)
  <2> DEFINE t == EdgesHere(s, on)
  <2>1. SetEdges(s, on) = t
    BY <1>2 DEF SetEdges
  <2>2. /\ Coherent(t) /\ SameSide(s, t) /\ SameSizes(s, t)
        /\ t.edges = on /\ t.wide = s.wide /\ t.minimized = s.minimized
        /\ on => t.maxi = TRUE /\ t.floatMax = ~s.tiled
        /\ ~on => t.reEdges = FALSE
        /\ ~on /\ s.edges => t.maxi = (s.tiled /\ s.wide) /\ t.floatMax = FALSE
        /\ ~on /\ ~s.edges => t.maxi = s.maxi /\ t.floatMax = s.floatMax
    <3>1. on => s.edges \/ ~s.want
      BY <1>2
    <3>2. QED
      BY <3>1, EdgesHereCoherent, ZenonT(60)
  <2> HIDE DEF t
  <2>3. EdgesDone(s, t, on)
    <3>1. /\ t.tiled = s.tiled /\ t.geo = s.geo /\ t.size = s.size /\ t.shown = s.shown
          /\ t.retile = s.retile /\ t.want = s.want /\ t.reFull = s.reFull /\ t.parked = s.parked
      BY <2>2 DEF SameSide, SameSizes
    <3>2. QED
      BY <2>2, <3>1 DEF EdgesDone
  <2>4. QED
    BY <2>1, <2>3
<1>3. QED
  BY <1>1, <1>2

\* A window that is not maximized to the edges, or no longer.
NoEdges(s, t) ==
  /\ Coherent(t) /\ SameSide(s, t) /\ t.geo = s.geo /\ t.size = s.size
  /\ t.wide = s.wide /\ t.edges = FALSE /\ t.minimized = s.minimized
  /\ s.edges => t.maxi = (s.tiled /\ s.wide) /\ t.floatMax = FALSE
  /\ ~s.edges => t = s

LEMMA WithoutEdgesDone ==
  ASSUME NEW s, Coherent(s)
  PROVE  NoEdges(s, WithoutEdges(s))
<1>1. CASE s.edges
  <2> DEFINE t == SetEdges(s, FALSE)
  <2>1. EdgesDone(s, t, FALSE)
    BY SetEdgesDone
  <2>2. WithoutEdges(s) = t
    BY <1>1 DEF WithoutEdges
  <2> HIDE DEF t
  <2>3. QED
    BY <1>1, <2>1, <2>2 DEF EdgesDone, NoEdges
<1>2. CASE ~s.edges
  <2>1. s.edges = FALSE
    BY <1>2 DEF Coherent, Shaped
  <2>2. QED
    BY <1>2, <2>1 DEF WithoutEdges, NoEdges, SameSide
<1>3. QED
  BY <1>1, <1>2

\* What setMaximized makes of s.
Maximized(s, t, on) ==
  /\ Coherent(t) /\ SameSide(s, t) /\ t.geo = s.geo /\ t.size = s.size
  /\ t.maxi = on /\ t.minimized = s.minimized
  /\ s.tiled => t.wide = on /\ t.edges = FALSE /\ t.floatMax = FALSE
  /\ ~s.tiled => t.floatMax = on /\ t.edges = s.edges

LEMMA SetMaximizedDone ==
  ASSUME NEW s, Coherent(s), NEW on \in BOOLEAN, s.edges => on \/ s.tiled
  PROVE  Maximized(s, SetMaximized(s, on), on)
<1>1. CASE s.tiled
  <2> DEFINE a == WithoutEdges(s)
             b == [a EXCEPT !.floatMax = FALSE, !.wide = on, !.maxi = on]
             t == Arrange(b)
  <2>1. SetMaximized(s, on) = t
    BY <1>1 DEF SetMaximized
  <2>2. NoEdges(s, a)
    BY WithoutEdgesDone
  <2> HIDE DEF a
  <2>3. /\ Shaped(b) /\ SameSide(a, b) /\ SameSizes(a, b) /\ b.edges = a.edges
        /\ b.reEdges = a.reEdges /\ b.floatMax = FALSE /\ b.wide = on /\ b.maxi = on
        /\ b.minimized = a.minimized /\ b.pending = a.pending /\ b.maxBox = a.maxBox
    BY <2>2 DEF NoEdges, Coherent, Shaped, Fields, SameSide, SameSizes
  <2> HIDE DEF b
  <2>4. /\ Shaped(t) /\ SameSide(b, t) /\ SameMaximized(b, t) /\ SameSizes(b, t)
        /\ t.minimized = b.minimized /\ t.pending = b.pending /\ t.maxBox = b.maxBox
        /\ t.tiled => t.asked = TileSize(t)
    BY <2>3, ArrangeShape
  <2> HIDE DEF t
  <2>5. /\ SameSide(s, t) /\ t.geo = s.geo /\ t.size = s.size /\ t.tiled = TRUE
        /\ t.maxi = on /\ t.wide = on /\ t.edges = FALSE /\ t.floatMax = FALSE
        /\ t.minimized = s.minimized /\ t.reEdges = a.reEdges /\ t.pending = a.pending
    BY <1>1, <2>2, <2>3, <2>4 DEF NoEdges, SameSide, SameMaximized, SameSizes, Coherent, Shaped
  <2>6. Exclusive(t) /\ Remembered(t) /\ Sided(t)
    BY <1>1, <2>2, <2>4, <2>5 DEF NoEdges, Coherent, Exclusive, Remembered, Sided, SameSide
  <2>7. QED
    BY <1>1, <2>1, <2>4, <2>5, <2>6 DEF Maximized, Coherent
<1>2. CASE ~s.tiled
  <2> DEFINE t == MaximizeFloat(s, on)
  <2>1. SetMaximized(s, on) = t
    BY <1>2 DEF SetMaximized
  <2>2. /\ Shaped(t) /\ SameSide(s, t) /\ SameSizes(s, t)
        /\ t.minimized = s.minimized
        /\ t.maxi = on /\ t.floatMax = on /\ t.wide = s.wide /\ t.edges = s.edges
        /\ t.reEdges = s.reEdges
        /\ on /\ ~s.maxi => t.maxBox = FloatingSize(s) /\ t.pending = Unset
        /\ on /\ s.maxi => t.maxBox = s.maxBox /\ t.pending = s.pending
    BY MaximizeFloatShape DEF Coherent
  <2>3. FloatingSize(s) # Unset
    BY UnsetAssumption DEF FloatingSize, Coherent, Shaped
  <2> HIDE DEF t
  <2>4. Exclusive(t)
    BY <1>2, <2>2 DEF Coherent, Exclusive, SameSide
  <2>5. Remembered(t) /\ Sided(t)
    BY <1>2, <2>2, <2>3 DEF Coherent, Remembered, Sided, SameSide
  <2>6. QED
    BY <1>2, <2>1, <2>2, <2>4, <2>5 DEF Maximized, Coherent, SameSizes
<1>3. QED
  BY <1>1, <1>2

-----------------------------------------------------------------------------
(* Tiled or floating *)

\* What setFloating(true) makes of a tile.
Floated(s, t) ==
  /\ Coherent(t) /\ t.tiled = FALSE /\ t.want = FALSE /\ t.parked = FALSE
  /\ t.maxi = FALSE /\ t.floatMax = FALSE /\ t.edges = FALSE /\ t.pinned = FALSE
  /\ t.reFull = Fullscreened(s)
  /\ t.geo = s.geo /\ t.size = s.size /\ t.shown = s.shown /\ t.retile = s.retile
  /\ t.asked = Kept(s)

\* A tile that is about to float is no longer fullscreen, and keeps what it was.
Uncovered(s, t) ==
  /\ Shaped(t) /\ t.tiled = TRUE /\ t.want = FALSE /\ t.parked = FALSE
  /\ t.edges = FALSE /\ t.floatMax = FALSE /\ t.pinned = FALSE /\ t.repin = FALSE
  /\ t.reEdges = FALSE /\ (t.maxi => t.wide)
  /\ t.minimized = FALSE /\ t.reFull = Fullscreened(s)
  /\ t.geo = s.geo /\ t.size = s.size /\ t.shown = s.shown /\ t.retile = s.retile

LEMMA UncoverDone ==
  ASSUME NEW s, Coherent(s), s.tiled
  PROVE  Uncovered(s, Uncover(Plain(s, TRUE)))
<1> DEFINE a == WithoutEdges(s)
           b == [a EXCEPT !.floatMax = FALSE]
           c == LeaveFullscreen(b, FALSE)
           d == [c EXCEPT !.reFull = TRUE]
           t == Uncover(b)
<1>1. Plain(s, TRUE) = b
  BY DEF Plain
<1>2. NoEdges(s, a)
  BY WithoutEdgesDone
<1> HIDE DEF a
<1>3. /\ Shaped(b) /\ SameSide(a, b) /\ SameSizes(a, b) /\ b.maxi = a.maxi /\ b.wide = a.wide
      /\ b.edges = a.edges /\ b.reEdges = a.reEdges /\ b.floatMax = FALSE
      /\ b.minimized = a.minimized /\ b.pending = a.pending /\ b.maxBox = a.maxBox
      /\ b.asked = a.asked
  BY <1>2 DEF NoEdges, Coherent, Shaped, Fields, SameSide, SameSizes
<1> HIDE DEF b
<1>4. /\ Exclusive(b) /\ Remembered(b)
  BY <1>2, <1>3 DEF NoEdges, Coherent, Exclusive, Remembered, SameSide
<1>5. Sided(b)
  BY <1>2, <1>3 DEF NoEdges, Coherent, Sided, SameSide, TileSize
<1>6. /\ b.tiled = TRUE /\ b.edges = FALSE /\ b.floatMax = FALSE /\ b.pinned = FALSE
      /\ b.repin = FALSE /\ (b.maxi => b.wide) /\ b.minimized = FALSE /\ b.reFull = FALSE
      /\ b.geo = s.geo /\ b.size = s.size /\ b.shown = s.shown /\ b.retile = s.retile
      /\ b.want = s.want /\ Fullscreened(b) = Fullscreened(s)
  <2>1. /\ b.tiled = s.tiled /\ b.edges = FALSE /\ b.geo = s.geo /\ b.size = s.size
        /\ b.shown = s.shown /\ b.retile = s.retile /\ b.want = s.want
    BY <1>2, <1>3 DEF NoEdges, SameSide, SameSizes
  <2>2. b.tiled = TRUE
    BY <2>1, <1>3 DEF Shaped
  <2>3. /\ b.floatMax = FALSE /\ b.pinned = FALSE /\ b.repin = FALSE /\ b.minimized = FALSE
        /\ b.reFull = FALSE /\ (b.maxi => b.wide)
    BY <2>1, <2>2, <1>3, <1>4, <1>5 DEF Exclusive, Remembered, Sided, Shaped
  <2>4. QED
    BY <2>1, <2>2, <2>3 DEF Fullscreened
<1>7. CASE Fullscreened(b)
  <2>1. t = d
    BY <1>7 DEF Uncover
  <2>2. Left(b, c, FALSE)
    BY <1>3, <1>4, <1>5, LeaveShape DEF Coherent
  <2> HIDE DEF c
  <2>3. /\ Shaped(d) /\ d.tiled = c.tiled /\ d.want = c.want /\ d.parked = c.parked
        /\ d.edges = c.edges /\ d.floatMax = c.floatMax /\ d.pinned = c.pinned
        /\ d.repin = c.repin /\ d.reEdges = c.reEdges /\ d.maxi = c.maxi /\ d.wide = c.wide
        /\ d.minimized = c.minimized /\ d.reFull = TRUE /\ d.geo = c.geo /\ d.size = c.size
        /\ d.shown = c.shown /\ d.retile = c.retile
    BY <2>2 DEF Left, Shaped, Fields
  <2> HIDE DEF d
  <2>4. /\ c.edges = FALSE /\ c.floatMax = FALSE /\ c.pinned = FALSE /\ c.minimized = FALSE
        /\ c.maxi = b.maxi /\ c.tiled = TRUE
    BY <2>2, <1>6, <1>3 DEF Left, Shaped
  <2>5. Fullscreened(s) = TRUE
    BY <1>6, <1>7 DEF Fullscreened, Coherent, Shaped
  <2>6. /\ Shaped(d) /\ d.tiled = TRUE /\ d.want = FALSE /\ d.parked = FALSE
        /\ d.edges = FALSE /\ d.floatMax = FALSE /\ d.pinned = FALSE /\ d.repin = FALSE
        /\ d.reEdges = FALSE /\ d.maxi = b.maxi /\ d.wide = b.wide
        /\ d.minimized = FALSE /\ d.reFull = Fullscreened(s)
        /\ d.geo = b.geo /\ d.size = b.size /\ d.shown = b.shown /\ d.retile = b.retile
    <3>1. /\ c.want = FALSE /\ c.parked = FALSE /\ c.repin = FALSE /\ c.reEdges = FALSE
          /\ c.wide = b.wide /\ c.geo = b.geo /\ c.size = b.size /\ c.shown = b.shown
          /\ c.retile = b.retile
      BY <2>2 DEF Left
    <3>2. QED
      BY <2>3, <2>4, <2>5, <3>1
  <2>7. (d.maxi => d.wide) /\ d.geo = s.geo /\ d.size = s.size /\ d.shown = s.shown
        /\ d.retile = s.retile
    BY <1>6, <2>6
  <2>8. Uncovered(s, d)
    BY <2>6, <2>7 DEF Uncovered
  <2>9. QED
    BY <1>1, <2>1, <2>8
<1>8. CASE ~Fullscreened(b)
  <2>1. t = b
    BY <1>8 DEF Uncover
  <2>2. b.want = FALSE
    BY <1>3, <1>8 DEF Fullscreened, Shaped
  <2>3. b.parked = FALSE /\ b.reEdges = FALSE
    BY <2>2, <1>3, <1>4 DEF Exclusive, Remembered, Shaped
  <2>4. Fullscreened(s) = FALSE
    BY <1>6, <1>8 DEF Fullscreened, Coherent, Shaped
  <2>5. b.reFull = Fullscreened(s)
    BY <1>6, <2>4
  <2>6. Uncovered(s, b)
    BY <1>3, <1>6, <2>2, <2>3, <2>5 DEF Uncovered
  <2>7. QED
    BY <1>1, <2>1, <2>6
<1>9. QED
  BY <1>7, <1>8

LEMMA FloatDone ==
  ASSUME NEW s, Coherent(s), s.tiled
  PROVE  Floated(s, Float(s))
<1> DEFINE a == Uncover(Plain(s, TRUE))
           b == OffLayout(a)
           c == Resized(b, Kept(a))
           t == SyncMinimize(c)
<1>1. Float(s) = t
  BY DEF Float, Lift
<1>2. /\ Shaped(a) /\ a.tiled = TRUE /\ a.want = FALSE /\ a.parked = FALSE
      /\ a.edges = FALSE /\ a.floatMax = FALSE /\ a.pinned = FALSE /\ a.repin = FALSE
      /\ a.reEdges = FALSE /\ (a.maxi => a.wide)
      /\ a.minimized = FALSE /\ a.reFull = Fullscreened(s)
      /\ a.geo = s.geo /\ a.size = s.size /\ a.shown = s.shown /\ a.retile = s.retile
  <2>1. Uncovered(s, a)
    BY UncoverDone
  <2>2. QED
    BY <2>1 DEF Uncovered
<1> HIDE DEF a
<1>3. /\ Shaped(b) /\ b.tiled = FALSE /\ b.want = FALSE /\ b.parked = FALSE /\ b.wide = FALSE
      /\ b.edges = FALSE /\ b.floatMax = FALSE /\ b.pinned = FALSE /\ b.repin = FALSE
      /\ b.reEdges = FALSE /\ b.maxi = FALSE /\ b.minimized = FALSE /\ b.reFull = a.reFull
      /\ b.geo = a.geo /\ b.size = a.size /\ b.shown = a.shown /\ b.retile = a.retile
  BY <1>2 DEF OffLayout, Shaped, Fields
<1>4. Kept(a) = Kept(s) /\ Kept(a) \in Sizes
  BY <1>2 DEF Kept, Fit, Shaped, Maybe, Sizes
<1> HIDE DEF b
<1>5. /\ Shaped(c) /\ c.tiled = FALSE /\ c.want = FALSE /\ c.parked = FALSE /\ c.wide = FALSE
      /\ c.edges = FALSE /\ c.floatMax = FALSE /\ c.pinned = FALSE /\ c.repin = FALSE
      /\ c.reEdges = FALSE /\ c.maxi = FALSE /\ c.minimized = FALSE /\ c.reFull = b.reFull
      /\ c.geo = b.geo /\ c.size = b.size /\ c.shown = b.shown /\ c.retile = b.retile
      /\ c.asked = Kept(a)
  BY <1>3, <1>4 DEF Resized, RequestSize, Shaped, Fields, Maybe
<1> HIDE DEF c
<1>6. Coherent(c)
  BY <1>5 DEF Coherent, Exclusive, Remembered, Sided
<1>7. Coherent(t) /\ SameSide(c, t) /\ SameMaximized(c, t) /\ SameSizes(c, t) /\ t.asked = c.asked
  BY <1>6, SyncIdle
<1> HIDE DEF t
<1>8. QED
  BY <1>1, <1>2, <1>3, <1>4, <1>5, <1>7 DEF Floated, SameSide, SameMaximized, SameSizes

\* What setFloating(false) makes of a float.
Dropped(s, t) ==
  /\ Coherent(t) /\ (t.parked => s.parked) /\ t.tiled = TRUE
  /\ t.maxi = FALSE /\ t.edges = FALSE /\ t.floatMax = FALSE /\ t.pinned = FALSE
  /\ t.want = (s.want \/ (s.reFull /\ ~Fullscreened(s)))
  /\ t.size = (IF Fullscreened(s) THEN s.size ELSE s.geo)
  /\ t.geo = s.geo /\ t.shown = s.shown

\* A float on its way into the layout: nothing holds it up, pinned or minimized, any more.
LEMMA PlainShape ==
  ASSUME NEW s, Coherent(s), ~s.tiled
  PROVE  LET t == Plain(s, FALSE)
         IN  /\ Shaped(t) /\ t.tiled = FALSE /\ t.want = s.want /\ t.parked = s.parked
             /\ t.edges = FALSE /\ t.floatMax = FALSE /\ t.pinned = FALSE /\ t.minimized = FALSE
             /\ (t.reEdges => t.want) /\ t.reFull = s.reFull
             /\ t.geo = s.geo /\ t.size = s.size /\ t.shown = s.shown
             /\ Fullscreened(t) = Fullscreened(s)
<1> DEFINE a == WithoutEdges(s)
           b == [a EXCEPT !.floatMax = FALSE]
           t == Unpinned(b)
<1>1. Plain(s, FALSE) = t
  BY DEF Plain
<1>2. NoEdges(s, a)
  BY WithoutEdgesDone
<1> HIDE DEF a
<1>3. /\ Shaped(b) /\ SameSide(a, b) /\ SameSizes(a, b) /\ b.edges = a.edges
      /\ b.reEdges = a.reEdges /\ b.floatMax = FALSE
  BY <1>2 DEF NoEdges, Coherent, Shaped, Fields, SameSide, SameSizes
<1> HIDE DEF b
<1>4. /\ Shaped(t) /\ t.tiled = b.tiled /\ t.want = b.want /\ t.parked = b.parked
      /\ t.edges = b.edges /\ t.floatMax = b.floatMax /\ t.pinned = FALSE /\ t.minimized = FALSE
      /\ t.reEdges = b.reEdges /\ t.reFull = b.reFull
      /\ t.geo = b.geo /\ t.size = b.size /\ t.shown = b.shown
  BY <1>3 DEF Unpinned, Shaped, Fields
<1> HIDE DEF t
<1>5. /\ t.tiled = s.tiled /\ t.want = s.want /\ t.parked = s.parked /\ t.edges = FALSE
      /\ t.floatMax = FALSE /\ t.reEdges = a.reEdges /\ t.reFull = s.reFull
      /\ t.geo = s.geo /\ t.size = s.size /\ t.shown = s.shown /\ a.want = s.want
  BY <1>2, <1>3, <1>4 DEF NoEdges, SameSide, SameSizes
<1>6. t.reEdges => t.want
  BY <1>2, <1>5 DEF NoEdges, Coherent, Remembered
<1>7. t.tiled = FALSE
  BY <1>4, <1>5 DEF Shaped
<1>8. QED
  BY <1>1, <1>4, <1>5, <1>6, <1>7 DEF Fullscreened

LEMMA OnLayoutShape ==
  ASSUME NEW s, Shaped(s), NEW full \in BOOLEAN
  PROVE  LET t == OnLayout(s, full)
         IN  /\ Shaped(t) /\ SameMaximized(s, t) /\ t.tiled = TRUE /\ t.want = s.want
             /\ t.shown = s.shown /\ t.parked = s.parked /\ t.pinned = s.pinned
             /\ t.repin = FALSE /\ t.reFull = FALSE /\ t.minimized = s.minimized
             /\ t.pending = Unset /\ t.geo = s.geo
             /\ t.size = (IF full THEN s.size ELSE s.geo)
BY DEF OnLayout, Shaped, Fields, SameMaximized, Maybe

LEMMA DropShape ==
  ASSUME NEW s, Coherent(s), ~s.tiled
  PROVE  LET t == Drop(Plain(s, FALSE))
         IN  /\ Shaped(t) /\ t.tiled = TRUE /\ (t.parked => s.parked)
             /\ t.want = (s.want \/ (s.reFull /\ ~Fullscreened(s)))
             /\ t.edges = FALSE /\ t.floatMax = FALSE /\ t.pinned = FALSE /\ t.minimized = FALSE
             /\ t.repin = FALSE /\ t.reFull = FALSE /\ (t.reEdges => t.want)
             /\ t.parked => t.want
             /\ t.pending = Unset /\ t.geo = s.geo /\ t.shown = s.shown
             /\ t.size = (IF Fullscreened(s) THEN s.size ELSE s.geo)
<1> DEFINE p == Plain(s, FALSE)
           t == Drop(p)
<1>1. /\ Shaped(p) /\ p.tiled = FALSE /\ p.want = s.want /\ p.parked = s.parked
      /\ p.edges = FALSE /\ p.floatMax = FALSE /\ p.pinned = FALSE /\ p.minimized = FALSE
      /\ (p.reEdges => p.want) /\ p.reFull = s.reFull
      /\ p.geo = s.geo /\ p.size = s.size /\ p.shown = s.shown
      /\ Fullscreened(p) = Fullscreened(s)
  BY PlainShape
<1>2. s.parked => s.want
  BY DEF Coherent, Exclusive
<1>3. Shaped(s)
  BY DEF Coherent
<1> HIDE DEF p
<1>4. CASE p.reFull /\ ~Fullscreened(p)
  <2> DEFINE o == OnLayout(p, FALSE)
             e == EnterFullscreen(o)
  <2>1. t = e
    BY <1>4 DEF Drop, SetFullscreen
  <2>2. /\ Shaped(o) /\ SameMaximized(p, o) /\ o.tiled = TRUE /\ o.want = p.want
        /\ o.shown = p.shown /\ o.pinned = p.pinned
        /\ o.repin = FALSE /\ o.reFull = FALSE /\ o.minimized = p.minimized
        /\ o.geo = p.geo /\ o.size = p.geo
    BY <1>1, OnLayoutShape
  <2> HIDE DEF o
  <2>3. (o.edges => ~o.want) /\ (o.minimized => Minimizable(o))
    BY <1>1, <2>2 DEF SameMaximized
  <2>4. /\ Shaped(e) /\ e.geo = o.geo /\ e.size = o.size /\ e.tiled = o.tiled
        /\ e.shown = o.shown /\ e.reFull = o.reFull
        /\ e.want = TRUE /\ e.parked = FALSE /\ e.pinned = FALSE /\ e.edges = FALSE
        /\ e.repin = (o.repin \/ o.pinned)
        /\ e.minimized = o.minimized /\ e.pending = Unset
        /\ ~o.edges => e.floatMax = o.floatMax
    BY <2>2, <2>3, EnterShape
  <2> HIDE DEF e
  <2>5. ~Fullscreened(s) /\ s.reFull
    BY <1>1, <1>4
  <2>6. /\ e.tiled = TRUE /\ e.floatMax = FALSE /\ e.minimized = FALSE /\ e.repin = FALSE
        /\ e.reFull = FALSE /\ e.geo = s.geo /\ e.shown = s.shown /\ e.size = s.geo
    BY <1>1, <2>2, <2>4 DEF SameMaximized
  <2>7. e.want = (s.want \/ (s.reFull /\ ~Fullscreened(s)))
    BY <2>4, <2>5
  <2>8. QED
    BY <2>1, <2>4, <2>5, <2>6, <2>7 DEF p
<1>5. CASE ~(p.reFull /\ ~Fullscreened(p))
  <2> DEFINE full == Fullscreened(p)
             o == OnLayout(p, full)
  <2>1. t = o
    BY <1>5 DEF Drop
  <2>2. full \in BOOLEAN
    BY <1>1 DEF Fullscreened, Shaped
  <2>3. /\ Shaped(o) /\ SameMaximized(p, o) /\ o.tiled = TRUE /\ o.want = p.want
        /\ o.shown = p.shown /\ o.parked = p.parked /\ o.pinned = p.pinned
        /\ o.repin = FALSE /\ o.reFull = FALSE /\ o.minimized = p.minimized
        /\ o.pending = Unset /\ o.geo = p.geo
        /\ o.size = (IF full THEN p.size ELSE p.geo)
    BY <1>1, <2>2, OnLayoutShape
  <2> HIDE DEF o
  <2>4. o.want = (s.want \/ (s.reFull /\ ~Fullscreened(s)))
    BY <1>1, <1>3, <1>5, <2>3 DEF Shaped
  <2>5. /\ o.edges = FALSE /\ o.floatMax = FALSE /\ o.minimized = FALSE /\ o.pinned = FALSE
        /\ o.geo = s.geo /\ o.shown = s.shown /\ o.parked = s.parked
        /\ (o.reEdges => o.want) /\ (o.parked => o.want)
        /\ o.size = (IF Fullscreened(s) THEN s.size ELSE s.geo)
    BY <1>1, <1>2, <2>3 DEF SameMaximized
  <2>6. QED
    BY <2>1, <2>3, <2>4, <2>5 DEF p
<1>6. QED
  BY <1>4, <1>5

LEMMA TileDone ==
  ASSUME NEW s, Coherent(s), ~s.tiled
  PROVE  Dropped(s, Tile(s))
<1> DEFINE a == Drop(Plain(s, FALSE))
           b == [a EXCEPT !.maxi = FALSE, !.wide = FALSE]
           c == Arrange(b)
           t == SyncMinimize(c)
<1>1. Tile(s) = t
  BY DEF Tile
<1>2. /\ Shaped(a) /\ a.tiled = TRUE /\ (a.parked => s.parked)
      /\ a.want = (s.want \/ (s.reFull /\ ~Fullscreened(s)))
      /\ a.edges = FALSE /\ a.floatMax = FALSE /\ a.pinned = FALSE /\ a.minimized = FALSE
      /\ a.repin = FALSE /\ a.reFull = FALSE /\ (a.reEdges => a.want)
      /\ a.parked => a.want
      /\ a.pending = Unset /\ a.geo = s.geo /\ a.shown = s.shown
      /\ a.size = (IF Fullscreened(s) THEN s.size ELSE s.geo)
  BY DropShape
<1> HIDE DEF a
<1>3. /\ Shaped(b) /\ SameSide(a, b) /\ SameSizes(a, b) /\ b.maxi = FALSE /\ b.wide = FALSE
      /\ b.edges = a.edges /\ b.floatMax = a.floatMax /\ b.reEdges = a.reEdges
      /\ b.minimized = a.minimized /\ b.pending = a.pending
  BY <1>2 DEF Shaped, Fields, SameSide, SameSizes
<1> HIDE DEF b
<1>4. /\ Shaped(c) /\ SameSide(b, c) /\ SameMaximized(b, c) /\ SameSizes(b, c)
      /\ c.minimized = b.minimized /\ c.pending = b.pending
      /\ c.tiled => c.asked = TileSize(c)
  BY <1>3, ArrangeShape
<1> HIDE DEF c
<1>5. /\ c.tiled = TRUE /\ c.want = a.want /\ c.parked = a.parked /\ c.shown = a.shown
      /\ c.pinned = FALSE /\ c.repin = FALSE /\ c.reFull = FALSE /\ c.minimized = FALSE
      /\ c.maxi = FALSE /\ c.wide = FALSE /\ c.edges = FALSE /\ c.floatMax = FALSE
      /\ c.reEdges = a.reEdges /\ c.pending = Unset /\ c.geo = a.geo /\ c.size = a.size
  BY <1>2, <1>3, <1>4 DEF SameSide, SameMaximized, SameSizes
<1>6. Coherent(c)
  BY <1>2, <1>4, <1>5 DEF Coherent, Exclusive, Remembered, Sided
<1>7. Coherent(t) /\ SameSide(c, t) /\ SameMaximized(c, t) /\ SameSizes(c, t)
  BY <1>6, SyncIdle
<1> HIDE DEF t
<1>8. QED
  BY <1>1, <1>2, <1>5, <1>7 DEF Dropped, SameSide, SameMaximized, SameSizes

LEMMA SetFloatingDone ==
  ASSUME NEW s, Coherent(s), NEW floating \in BOOLEAN
  PROVE  LET t == SetFloating(s, floating)
         IN  /\ Coherent(t) /\ (t.parked => s.parked) /\ t.tiled = ~floating
             /\ s.tiled # floating => t = s
             /\ s.tiled /\ floating => t = Float(s)
             /\ ~s.tiled /\ ~floating => t = Tile(s)
<1> DEFINE t == SetFloating(s, floating)
<1>0. s.tiled \in BOOLEAN
  BY DEF Coherent, Shaped
<1>1. CASE s.tiled # floating
  <2>1. t = s
    BY <1>1 DEF SetFloating
  <2>2. s.tiled = ~floating
    BY <1>0, <1>1
  <2>3. QED
    BY <2>1, <2>2, <1>0
<1>2. CASE s.tiled /\ floating
  <2>1. ~(s.tiled # floating)
    BY <1>0, <1>2
  <2>2. t = Float(s)
    BY <2>1, <1>2 DEF SetFloating
  <2>3. Floated(s, Float(s))
    BY <1>2, FloatDone
  <2>4. QED
    BY <1>0, <1>2, <2>2, <2>3 DEF Floated
<1>3. CASE ~s.tiled /\ ~floating
  <2>1. ~(s.tiled # floating)
    BY <1>0, <1>3
  <2>2. t = Tile(s)
    BY <2>1, <1>3 DEF SetFloating
  <2>3. Dropped(s, Tile(s))
    BY <1>3, TileDone
  <2>4. QED
    BY <1>0, <1>3, <2>2, <2>3 DEF Dropped
<1>4. QED
  BY <1>0, <1>1, <1>2, <1>3

\* A maximized window between its two sides: on the other one, and not maximized yet.
Crossed(s, t) ==
  /\ Coherent(t) /\ (t.parked => s.parked) /\ t.tiled = ~s.tiled
  /\ t.maxi = FALSE /\ t.edges = FALSE /\ t.floatMax = FALSE
  /\ t.geo \in Sizes /\ t.shown = s.shown
  /\ s.tiled => t.want = FALSE /\ t.reFull = Fullscreened(s)
  /\ ~s.tiled => t.want = (s.want \/ (s.reFull /\ ~Fullscreened(s)))

LEMMA AcrossTile ==
  ASSUME NEW s, Coherent(s), s.tiled
  PROVE  Crossed(s, Across(s))
<1> DEFINE a == WithoutEdges(s)
           b == SetMaximized(a, FALSE)
           c == Sized(b)
           d == SetFloating(c, TRUE)
           t == RequestSize(d, d.asked)
<1>0. s.tiled = TRUE /\ Shaped(s)
  BY DEF Coherent, Shaped
<1>1. NoEdges(s, a)
  BY WithoutEdgesDone
<1>2. Across(s) = Landed(d, Unset)
  BY <1>0 DEF Across
<1> HIDE DEF a
<1>3. Maximized(a, b, FALSE)
  BY <1>1, SetMaximizedDone DEF NoEdges
<1> HIDE DEF b
<1>4. /\ Shaped(c) /\ SameSide(b, c) /\ SameMaximized(b, c) /\ c.geo = b.geo
      /\ c.minimized = b.minimized /\ c.pending = b.pending /\ c.maxBox = b.maxBox
      /\ c.asked = b.asked
  BY <1>3 DEF Maximized, Coherent, Sized, Shaped, Fields, SameSide, SameMaximized, Maybe, Sizes
<1> HIDE DEF c
<1>5. Coherent(c)
  BY <1>3, <1>4 DEF Maximized, Coherent, Exclusive, Remembered, Sided, SameSide, SameMaximized, TileSize
<1>6. c.tiled = TRUE /\ c.want = s.want /\ c.shown = s.shown /\ c.parked = s.parked
  BY <1>0, <1>1, <1>3, <1>4 DEF NoEdges, Maximized, SameSide
<1>7. d = Float(c)
  BY <1>5, <1>6, SetFloatingDone
<1>8. Floated(c, d)
  BY <1>5, <1>6, <1>7, FloatDone
<1> HIDE DEF d
<1>9. Landed(d, Unset) = t
  BY <1>8 DEF Floated, Landed
<1>10. /\ Shaped(t) /\ SameSide(d, t) /\ SameMaximized(d, t) /\ t.geo = d.geo
       /\ t.minimized = d.minimized /\ t.maxBox = d.maxBox
  BY <1>8 DEF Floated, Coherent, RequestSize, Shaped, Fields, SameSide, SameMaximized, Maybe
<1> HIDE DEF t
<1>11. Exclusive(t) /\ Remembered(t) /\ Sided(t)
  BY <1>8, <1>10 DEF Floated, Coherent, Exclusive, Remembered, Sided, SameSide, SameMaximized
<1>12. Fullscreened(c) = Fullscreened(s)
  BY <1>6 DEF Fullscreened
<1>13. QED
  BY <1>0, <1>2, <1>6, <1>8, <1>9, <1>10, <1>11, <1>12
     DEF Crossed, Coherent, Floated, SameSide, SameMaximized, Shaped

LEMMA AcrossFloat ==
  ASSUME NEW s, Coherent(s), ~s.tiled
  PROVE  Crossed(s, Across(s))
<1> DEFINE d == SetFloating(s, FALSE)
           t == Landed(d, s.maxBox)
<1>0. s.tiled = FALSE /\ Shaped(s)
  BY DEF Coherent, Shaped
<1>1. Across(s) = t
  BY <1>0 DEF Across
<1>2. d = Tile(s)
  BY <1>0, SetFloatingDone
<1>3. Dropped(s, d)
  BY <1>0, <1>2, TileDone
<1>4. s.maxBox \in Maybe
  BY <1>0 DEF Shaped
<1> HIDE DEF d
<1>5. /\ Shaped(t) /\ SameSide(d, t) /\ SameMaximized(d, t) /\ t.geo = d.geo
      /\ t.minimized = d.minimized /\ t.pending = d.pending /\ t.asked = d.asked
  <2>1. CASE s.maxBox # Unset
    BY <2>1, <1>3, <1>4 DEF Dropped, Coherent, Landed, Shaped, Fields, SameSide, SameMaximized, Maybe
  <2>2. CASE s.maxBox = Unset
    BY <2>2, <1>3, <1>4 DEF Dropped, Coherent, Landed, Shaped, Fields, SameSide, SameMaximized, Maybe
  <2>3. QED
    BY <2>1, <2>2
<1> HIDE DEF t
<1>6. Exclusive(t) /\ Remembered(t) /\ Sided(t)
  BY <1>3, <1>5 DEF Dropped, Coherent, Exclusive, Remembered, Sided, SameSide, SameMaximized, TileSize
<1>7. QED
  BY <1>0, <1>1, <1>3, <1>5, <1>6
     DEF Crossed, Coherent, Dropped, SameSide, SameMaximized, Shaped

LEMMA AcrossDone ==
  ASSUME NEW s, Coherent(s)
  PROVE  Crossed(s, Across(s))
BY AcrossTile, AcrossFloat

LEMMA ToggleFloatingDone ==
  ASSUME NEW s, Coherent(s)
  PROVE  LET t == ToggleFloating(s)
         IN  Coherent(t) /\ (t.parked => s.parked) /\ t.tiled = ~s.tiled
<1> DEFINE a == Across(s)
           t == ToggleFloating(s)
<1>0. s.tiled \in BOOLEAN
  BY DEF Coherent, Shaped
<1>1. Crossed(s, a)
  BY AcrossDone
<1>2. CASE ~s.maxi \/ Fullscreened(s)
  <2>1. t = SetFloating(s, s.tiled)
    BY <1>2 DEF ToggleFloating
  <2>2. QED
    BY <1>0, <2>1, SetFloatingDone
<1>3. CASE s.maxi /\ ~Fullscreened(s) /\ s.edges
  <2>1. t = SetEdges(a, TRUE)
    BY <1>3 DEF ToggleFloating
  <2>2. EdgesDone(a, t, TRUE)
    BY <1>1, <2>1, SetEdgesDone DEF Crossed
  <2> HIDE DEF a, t
  <2>3. QED
    BY <1>1, <2>2 DEF EdgesDone, Crossed, t
<1>4. CASE s.maxi /\ ~Fullscreened(s) /\ ~s.edges
  <2>1. t = SetMaximized(a, TRUE)
    BY <1>4 DEF ToggleFloating
  <2>2. Maximized(a, t, TRUE)
    BY <1>1, <2>1, SetMaximizedDone DEF Crossed
  <2> HIDE DEF a, t
  <2>3. QED
    BY <1>1, <2>2 DEF Maximized, Crossed, SameSide, t
<1>5. QED
  BY <1>2, <1>3, <1>4

\* Floats that are neither maximized nor fullscreen, whatever is pinned or minimized, are coherent.
LEMMA PinCoherent ==
  ASSUME NEW s, Coherent(s), ~Fullscreened(s)
  PROVE  LET t == SyncMinimize(Arrange(Pin(s)))
         IN  Coherent(t) /\ (t.parked => s.parked)
<1> DEFINE a == SetFloating(s, TRUE)
           b == [a EXCEPT !.retile = s.tiled, !.pinned = TRUE]
           t == SyncMinimize(b)
<1>1. s.tiled \in BOOLEAN /\ s.want = FALSE
  BY DEF Coherent, Shaped, Fullscreened
<1>2. /\ Coherent(a) /\ (a.parked => s.parked) /\ a.tiled = FALSE
      /\ s.tiled # TRUE => a = s
      /\ s.tiled => a = Float(s)
  BY <1>1, SetFloatingDone
<1>3. a.want = FALSE
  <2>1. s.tiled => Floated(s, Float(s))
    BY FloatDone
  <2>2. QED
    BY <1>1, <1>2, <2>1 DEF Floated
<1> HIDE DEF a
<1>4. Pin(s) = b
  BY DEF Pin, a
<1>5. /\ Shaped(b) /\ b.tiled = FALSE /\ b.want = FALSE /\ b.pinned = TRUE /\ b.repin = a.repin
      /\ b.reFull = a.reFull /\ b.parked = a.parked /\ SameMaximized(a, b)
      /\ b.maxBox = a.maxBox /\ b.pending = a.pending
  BY <1>1, <1>2, <1>3 DEF Coherent, Shaped, Fields, SameMaximized
<1> HIDE DEF b
<1>6. Arrange(b) = b
  BY <1>5 DEF Arrange
<1>7. /\ Shaped(t) /\ SameSide(b, t) /\ SameMaximized(b, t)
      /\ t.minimized = (b.minimized /\ Minimizable(b))
      /\ t.pending = b.pending /\ t.maxBox = b.maxBox
  BY <1>5, SyncMinimizeShape
<1> HIDE DEF t
<1>8. t.minimized = FALSE
  BY <1>5, <1>7 DEF Minimizable, Shaped
<1>9. Exclusive(t) /\ Remembered(t) /\ Sided(t)
  BY <1>2, <1>3, <1>5, <1>7, <1>8
     DEF Coherent, Exclusive, Remembered, Sided, SameSide, SameMaximized
<1>10. QED
  BY <1>2, <1>4, <1>5, <1>6, <1>7, <1>9 DEF Coherent, SameSide, t

\* The pin of a float may be taken off at any time.
LEMMA UnpinCoherent ==
  ASSUME NEW s, Coherent(s), NEW retile \in BOOLEAN
  PROVE  LET t == [s EXCEPT !.retile = retile, !.pinned = FALSE]
         IN  Coherent(t) /\ t.parked = s.parked
<1> DEFINE t == [s EXCEPT !.retile = retile, !.pinned = FALSE]
<1>1. /\ Shaped(t) /\ SameMaximized(s, t) /\ t.tiled = s.tiled /\ t.want = s.want
      /\ t.repin = s.repin /\ t.reFull = s.reFull /\ t.parked = s.parked /\ t.pinned = FALSE
      /\ t.minimized = s.minimized /\ t.pending = s.pending /\ t.maxBox = s.maxBox
      /\ t.asked = s.asked
  BY DEF Coherent, Shaped, Fields, SameMaximized
<1> HIDE DEF t
<1>2. Exclusive(t) /\ Remembered(t) /\ Sided(t)
  BY <1>1 DEF Coherent, Exclusive, Remembered, Sided, SameMaximized, TileSize
<1>3. QED
  BY <1>1, <1>2 DEF Coherent, t

LEMMA SetPinnedDone ==
  ASSUME NEW s, Coherent(s), NEW on \in BOOLEAN
  PROVE  LET t == SetPinned(s, on)
         IN  Coherent(t) /\ (t.parked => s.parked)
<1> DEFINE t == SetPinned(s, on)
<1>0. s.pinned \in BOOLEAN /\ s.retile \in BOOLEAN /\ DOMAIN s = Fields
  BY DEF Coherent, Shaped
<1>1. CASE on = s.pinned \/ (on /\ Fullscreened(s))
  BY <1>1 DEF SetPinned
<1>2. CASE on # s.pinned /\ on /\ ~Fullscreened(s)
  <2>1. t = SyncMinimize(Arrange(Pin(s)))
    BY <1>2 DEF SetPinned
  <2>2. QED
    BY <1>2, <2>1, PinCoherent
<1>3. CASE on # s.pinned /\ ~on
  <2> DEFINE a == [s EXCEPT !.retile = FALSE, !.pinned = FALSE]
             b == [s EXCEPT !.pinned = FALSE]
             c == Arrange(b)
  <2>1. t = IF s.retile THEN SetFloating(a, FALSE) ELSE SyncMinimize(c)
    BY <1>3 DEF SetPinned
  <2>2. CASE s.retile
    <3>1. Coherent(a) /\ a.parked = s.parked
      BY UnpinCoherent
    <3> HIDE DEF a, c
    <3>2. Coherent(SetFloating(a, FALSE)) /\ (SetFloating(a, FALSE).parked => a.parked)
      BY <3>1, SetFloatingDone
    <3>3. t = SetFloating(a, FALSE)
      BY <2>1, <2>2
    <3>4. QED
      BY <3>1, <3>2, <3>3
  <2>3. CASE ~s.retile
    <3>1. b = [s EXCEPT !.retile = s.retile, !.pinned = FALSE]
      BY <1>0 DEF Coherent, Shaped, Fields
    <3>2. Coherent(b) /\ b.parked = s.parked
      BY <1>0, <3>1, UnpinCoherent
    <3> HIDE DEF b
    <3>3. Coherent(c) /\ SameSide(b, c)
      BY <3>2, ArrangeIdle
    <3> HIDE DEF c
    <3>4. Coherent(SyncMinimize(c)) /\ SameSide(c, SyncMinimize(c))
      BY <3>3, SyncIdle
    <3>5. QED
      BY <2>1, <2>3, <3>2, <3>3, <3>4 DEF SameSide
  <2>4. QED
    BY <2>2, <2>3
<1>4. QED
  BY <1>0, <1>1, <1>2, <1>3

-----------------------------------------------------------------------------
(* Commits *)

\* What a commit leaves alone, and what it makes of the size that was asked for.
Adopted(s, t) ==
  /\ Coherent(t) /\ SameSide(s, t) /\ SameMaximized(s, t) /\ SameSizes(s, t)
  /\ t.minimized = s.minimized
  /\ s.tiled => t = s
  /\ ~s.tiled /\ s.want => t.asked = "full" /\ t.pending = s.pending

LEMMA AdoptDone ==
  ASSUME NEW s, Coherent(s), NEW answers \in BOOLEAN
  PROVE  Adopted(s, Adopt(s, answers))
<1> DEFINE t == Adopt(s, answers)
           same == s.tiled \/ (~s.want /\ (s.maxi \/ (s.pending # Unset /\ ~answers)))
<1>0. Shaped(s)
  BY DEF Coherent
<1>1. CASE same
  <2>1. t = s
    BY <1>1 DEF Adopt
  <2>2. QED
    BY <1>1, <2>1 DEF Adopted, SameSide, SameMaximized, SameSizes
<1>2. CASE ~s.tiled /\ s.want
  <2>1. t = [s EXCEPT !.asked = "full"]
    BY <1>2 DEF Adopt
  <2>2. /\ Shaped(t) /\ SameSide(s, t) /\ SameMaximized(s, t) /\ SameSizes(s, t)
        /\ t.minimized = s.minimized /\ t.pending = s.pending /\ t.maxBox = s.maxBox
        /\ t.asked = "full"
    BY <1>0, <2>1 DEF Shaped, Fields, SameSide, SameMaximized, SameSizes, Sizes
  <2> HIDE DEF t
  <2>3. Exclusive(t) /\ Remembered(t) /\ Sided(t)
    BY <1>2, <2>2 DEF Coherent, Exclusive, Remembered, Sided, SameSide, SameMaximized
  <2>4. QED
    BY <1>2, <2>2, <2>3 DEF Adopted, Coherent, t
<1>3. CASE ~same /\ ~(~s.tiled /\ s.want)
  <2>1. t = [s EXCEPT !.pending = Unset, !.asked = s.geo]
    BY <1>3 DEF Adopt
  <2>2. /\ Shaped(t) /\ SameSide(s, t) /\ SameMaximized(s, t) /\ SameSizes(s, t)
        /\ t.minimized = s.minimized /\ t.maxBox = s.maxBox
    BY <1>0, <2>1 DEF Shaped, Fields, SameSide, SameMaximized, SameSizes, Maybe
  <2> HIDE DEF t
  <2>3. Exclusive(t) /\ Remembered(t) /\ Sided(t)
    BY <1>3, <2>2 DEF Coherent, Exclusive, Remembered, Sided, SameSide, SameMaximized
  <2>4. QED
    BY <1>3, <2>2, <2>3 DEF Adopted, Coherent, t
<1>4. QED
  BY <1>1, <1>2, <1>3

-----------------------------------------------------------------------------
(* The actions *)

\* A decision that parks nothing leaves "leave" the last word.
LEMMA DecideKeeps ==
  ASSUME PresentationInv, NEW s, Coherent(s), s.parked => win.parked, Decide(s)
  PROVE  PresentationInv'
<1>1. win' = s /\ wish' = (IF s.parked THEN (IF s.want = win.want THEN wish ELSE Word(s.want)) ELSE "leave")
  BY DEF Decide, Say
<1>2. s.parked => s.want = win.want
  <2>1. s.parked => win.want = TRUE /\ s.want = TRUE
    BY DEF PresentationInv, Coherent, Exclusive, Shaped
  <2>2. QED
    BY <2>1
<1>3. wish' = "leave"
  BY <1>1, <1>2 DEF PresentationInv
<1>4. QED
  BY <1>1, <1>3 DEF PresentationInv

LEMMA CommitKeeps ==
  ASSUME PresentationInv, Acknowledge \/ CommitContent
  PROVE  PresentationInv'
<1>1. CASE Acknowledge
  <2>1. PICK size \in {win.asked} \cup (IF win.tiled \/ win.want \/ win.maxi THEN {} ELSE {"own"}) :
           win' = Adopt([win EXCEPT !.geo = size, !.shown = win.want], TRUE)
    BY <1>1 DEF Acknowledge
  <2> DEFINE a == [win EXCEPT !.geo = size, !.shown = win.want]
  <2>2. size \in Sizes
    BY <2>1 DEF PresentationInv, Coherent, Shaped, Sizes
  <2>3. /\ Shaped(a) /\ SameMaximized(win, a) /\ a.tiled = win.tiled /\ a.want = win.want
        /\ a.pinned = win.pinned /\ a.repin = win.repin /\ a.reFull = win.reFull
        /\ a.parked = win.parked /\ a.minimized = win.minimized /\ a.pending = win.pending
        /\ a.maxBox = win.maxBox /\ a.asked = win.asked
    BY <2>2 DEF PresentationInv, Coherent, Shaped, Fields, SameMaximized
  <2> HIDE DEF a
  <2>4. Exclusive(a) /\ Remembered(a) /\ Sided(a)
    BY <2>3 DEF PresentationInv, Coherent, Exclusive, Remembered, Sided, SameMaximized, TileSize
  <2>5. Adopted(a, Adopt(a, TRUE))
    BY <2>3, <2>4, AdoptDone DEF Coherent
  <2>6. QED
    BY <1>1, <2>1, <2>5 DEF PresentationInv, Acknowledge, Adopted, a
<1>2. CASE CommitContent
  <2>1. Adopted(win, Adopt(win, FALSE))
    BY AdoptDone DEF PresentationInv
  <2>2. QED
    BY <1>2, <2>1 DEF PresentationInv, CommitContent, Adopted
<1>3. QED
  BY <1>1, <1>2

\* A parked flag may be raised only while the window is fullscreen, and lowered at any time.
LEMMA ParkCoherent ==
  ASSUME NEW s, Coherent(s), NEW parked \in BOOLEAN, parked => s.want
  PROVE  LET t == [s EXCEPT !.parked = parked] IN Coherent(t) /\ t.parked = parked
<1> DEFINE t == [s EXCEPT !.parked = parked]
<1>1. /\ Shaped(t) /\ SameMaximized(s, t) /\ t.tiled = s.tiled /\ t.want = s.want
      /\ t.repin = s.repin /\ t.reFull = s.reFull /\ t.parked = parked /\ t.pinned = s.pinned
      /\ t.minimized = s.minimized /\ t.pending = s.pending /\ t.maxBox = s.maxBox
      /\ t.asked = s.asked
  BY DEF Coherent, Shaped, Fields, SameMaximized
<1> HIDE DEF t
<1>2. Exclusive(t) /\ Remembered(t) /\ Sided(t)
  BY <1>1 DEF Coherent, Exclusive, Remembered, Sided, SameMaximized, TileSize
<1>3. QED
  BY <1>1, <1>2 DEF Coherent, t

LEMMA MinimizeCoherent ==
  ASSUME NEW s, Coherent(s), NEW minimized \in BOOLEAN, minimized => Minimizable(s)
  PROVE  LET t == [s EXCEPT !.minimized = minimized] IN Coherent(t) /\ t.parked = s.parked
<1> DEFINE t == [s EXCEPT !.minimized = minimized]
<1>1. /\ Shaped(t) /\ SameSide(s, t) /\ SameMaximized(s, t) /\ t.minimized = minimized
      /\ t.pending = s.pending /\ t.maxBox = s.maxBox /\ t.asked = s.asked
  BY DEF Coherent, Shaped, Fields, SameSide, SameMaximized
<1> HIDE DEF t
<1>2. Exclusive(t) /\ Remembered(t) /\ Sided(t)
  BY <1>1 DEF Coherent, Exclusive, Remembered, Sided, SameSide, SameMaximized, Minimizable, TileSize
<1>3. QED
  BY <1>1, <1>2 DEF Coherent, SameSide, t

LEMMA RequestFullscreenKeeps ==
  ASSUME PresentationInv, RequestFullscreen
  PROVE  PresentationInv'
<1>1. PICK on \in BOOLEAN, activated \in BOOLEAN :
         win' = Observe(win, on, activated) /\ Say(Word(on))
  BY DEF RequestFullscreen
<1>0. Coherent(win) /\ win.want \in BOOLEAN
  BY DEF PresentationInv, Coherent, Shaped
<1> DEFINE a == [win EXCEPT !.parked = FALSE]
           b == [win EXCEPT !.parked = TRUE]
           c == SetFullscreen(win, on)
<1>2. CASE on = win.want
  <2>1. Coherent(a) /\ a.parked = FALSE
    BY <1>0, ParkCoherent
  <2>2. win' = a
    BY <1>1, <1>2 DEF Observe
  <2> HIDE DEF a
  <2>3. QED
    BY <1>1, <2>1, <2>2 DEF PresentationInv, Say
<1>3. CASE on # win.want /\ ~on /\ ~activated
  <2>1. Coherent(b) /\ b.parked = TRUE
    BY <1>0, <1>3, ParkCoherent
  <2>2. win' = b
    BY <1>1, <1>3 DEF Observe
  <2> HIDE DEF b
  <2>3. QED
    BY <1>1, <1>3, <2>1, <2>2 DEF PresentationInv, Say, Word
<1>4. CASE on # win.want /\ ~(~on /\ ~activated)
  <2>1. Coherent(c) /\ ~c.parked
    BY <1>0, SetFullscreenCoherent
  <2>2. win' = c
    BY <1>1, <1>4 DEF Observe
  <2> HIDE DEF c
  <2>3. QED
    BY <1>1, <2>1, <2>2 DEF PresentationInv, Say
<1>5. QED
  BY <1>2, <1>3, <1>4

LEMMA RequestMaximizeKeeps ==
  ASSUME PresentationInv, RequestMaximize
  PROVE  PresentationInv'
<1>1. PICK on \in BOOLEAN, toEdges \in BOOLEAN :
         win' = CASE ~on /\ win.edges -> SetEdges(win, FALSE)
                  [] on /\ win.tiled /\ (win.edges \/ toEdges) -> SetEdges(win, TRUE)
                  [] OTHER -> SetMaximized(win, on)
  BY DEF RequestMaximize
<1>0. Coherent(win) /\ wish = "leave"
  BY DEF PresentationInv
<1>2. wish' = "leave"
  BY <1>0 DEF RequestMaximize, Say
<1>3. EdgesDone(win, SetEdges(win, FALSE), FALSE) /\ EdgesDone(win, SetEdges(win, TRUE), TRUE)
  BY <1>0, SetEdgesDone
<1>4. CASE ~on /\ win.edges
  BY <1>1, <1>2, <1>3, <1>4 DEF PresentationInv, EdgesDone
<1>5. CASE on /\ win.tiled /\ (win.edges \/ toEdges)
  BY <1>1, <1>2, <1>3, <1>5 DEF PresentationInv, EdgesDone
<1>6. CASE ~(~on /\ win.edges) /\ ~(on /\ win.tiled /\ (win.edges \/ toEdges))
  <2>1. win' = SetMaximized(win, on)
    BY <1>1, <1>6
  <2>2. Maximized(win, SetMaximized(win, on), on)
    BY <1>0, <1>6, SetMaximizedDone
  <2>3. QED
    BY <1>2, <2>1, <2>2 DEF PresentationInv, Maximized
<1>7. QED
  BY <1>4, <1>5, <1>6

\* A tile that is not maximized to the edges may be given any width.
LEMMA WidthCoherent ==
  ASSUME NEW s, Coherent(s), s.tiled, ~s.edges, NEW wide \in BOOLEAN, NEW maxi \in BOOLEAN,
         maxi => wide
  PROVE  LET t == Arrange([s EXCEPT !.wide = wide, !.maxi = maxi])
         IN  Coherent(t) /\ t.parked = s.parked
<1> DEFINE a == [s EXCEPT !.wide = wide, !.maxi = maxi]
           t == Arrange(a)
<1>1. /\ Shaped(a) /\ SameSide(s, a) /\ SameSizes(s, a) /\ a.wide = wide /\ a.maxi = maxi
      /\ a.edges = s.edges /\ a.floatMax = s.floatMax /\ a.reEdges = s.reEdges
      /\ a.minimized = s.minimized /\ a.pending = s.pending
  BY DEF Coherent, Shaped, Fields, SameSide, SameSizes
<1> HIDE DEF a
<1>2. /\ Shaped(t) /\ SameSide(a, t) /\ SameMaximized(a, t)
      /\ t.minimized = a.minimized /\ t.pending = a.pending
      /\ t.tiled => t.asked = TileSize(t)
  BY <1>1, ArrangeShape
<1> HIDE DEF t
<1>3. Exclusive(t) /\ Remembered(t) /\ Sided(t)
  BY <1>1, <1>2 DEF Coherent, Exclusive, Remembered, Sided, SameSide, SameMaximized
<1>4. QED
  BY <1>1, <1>2, <1>3 DEF Coherent, SameSide, t, a

LEMMA FullWidthDone ==
  ASSUME NEW s, Coherent(s), ~s.edges
  PROVE  Coherent(FullWidth(s)) /\ (FullWidth(s).parked => s.parked)
<1>0. s.wide \in BOOLEAN /\ s.floatMax \in BOOLEAN
  BY DEF Coherent, Shaped
<1>1. CASE s.tiled
  <2> DEFINE on == ~s.wide
             t == Arrange([s EXCEPT !.wide = on, !.maxi = on])
  <2>1. FullWidth(s) = t
    BY <1>1 DEF FullWidth
  <2>2. on \in BOOLEAN
    BY <1>0
  <2> HIDE DEF on
  <2>3. Coherent(t) /\ t.parked = s.parked
    BY <1>1, <2>2, WidthCoherent
  <2>4. QED
    BY <2>1, <2>3
<1>2. CASE ~s.tiled /\ ~s.want
  <2> DEFINE on == ~s.floatMax
             t == SetMaximized(s, on)
  <2>1. FullWidth(s) = t
    BY <1>2 DEF FullWidth
  <2>2. on \in BOOLEAN
    BY <1>0
  <2> HIDE DEF on
  <2>3. Maximized(s, t, on)
    BY <2>2, SetMaximizedDone
  <2>4. QED
    BY <2>1, <2>3 DEF Maximized, SameSide
<1>3. CASE ~s.tiled /\ s.want
  BY <1>3 DEF FullWidth
<1>4. QED
  BY <1>1, <1>2, <1>3

LEMMA ToggleKeeps ==
  ASSUME PresentationInv,
         \/ ToggleFullscreen \/ GiveWayToArrival \/ ToggleFullWidth
         \/ ToggleMaximizedToEdges \/ ToggleFloatingState \/ TogglePinned
  PROVE  PresentationInv'
<1>0. /\ Coherent(win) /\ win.want \in BOOLEAN /\ win.edges \in BOOLEAN /\ win.pinned \in BOOLEAN
      /\ win.tiled \in BOOLEAN
  BY DEF PresentationInv, Coherent, Shaped
<1>1. CASE ToggleFullscreen
  <2> DEFINE on == ~win.want
  <2>1. on \in BOOLEAN
    BY <1>0
  <2>2. Decide(SetFullscreen(win, on))
    BY <1>1 DEF ToggleFullscreen
  <2> HIDE DEF on
  <2>3. QED
    BY <1>0, <2>1, <2>2, SetFullscreenCoherent, DecideKeeps
<1>2. CASE GiveWayToArrival
  <2>1. Decide(SetFullscreen(win, FALSE))
    BY <1>2 DEF GiveWayToArrival
  <2>2. QED
    BY <1>0, <2>1, SetFullscreenCoherent, DecideKeeps
<1>3. CASE ToggleFullWidth
  <2> DEFINE a == WithoutEdges(win)
  <2>1. NoEdges(win, a)
    BY <1>0, WithoutEdgesDone
  <2>2. Decide(FullWidth(a))
    BY <1>3 DEF ToggleFullWidth
  <2> HIDE DEF a
  <2>3. Coherent(a) /\ ~a.edges /\ a.parked = win.parked
    BY <2>1 DEF NoEdges, SameSide
  <2>4. Coherent(FullWidth(a)) /\ (FullWidth(a).parked => win.parked)
    BY <2>3, FullWidthDone
  <2>5. QED
    BY <2>2, <2>4, DecideKeeps
<1>4. CASE ToggleMaximizedToEdges
  <2> DEFINE on == ~win.edges
  <2>1. on \in BOOLEAN
    BY <1>0
  <2>2. Decide(SetEdges(win, on))
    BY <1>4 DEF ToggleMaximizedToEdges
  <2> HIDE DEF on
  <2>3. EdgesDone(win, SetEdges(win, on), on)
    BY <1>0, <2>1, SetEdgesDone
  <2>4. QED
    BY <2>2, <2>3, DecideKeeps DEF EdgesDone
<1>5. CASE ToggleFloatingState
  <2>1. Decide(ToggleFloating(win))
    BY <1>5 DEF ToggleFloatingState
  <2>2. QED
    BY <1>0, <2>1, ToggleFloatingDone, DecideKeeps
<1>6. CASE TogglePinned
  <2> DEFINE on == ~win.pinned
  <2>1. on \in BOOLEAN
    BY <1>0
  <2>2. Decide(SetPinned(win, on))
    BY <1>6 DEF TogglePinned
  <2> HIDE DEF on
  <2>3. QED
    BY <1>0, <2>1, <2>2, SetPinnedDone, DecideKeeps
<1>7. QED
  BY <1>1, <1>2, <1>3, <1>4, <1>5, <1>6

LEMMA ResizeKeeps ==
  ASSUME PresentationInv, ResizeTile \/ ResizeFloat
  PROVE  PresentationInv'
<1>0. Coherent(win) /\ Shaped(win)
  BY DEF PresentationInv, Coherent
<1>1. CASE ResizeTile
  <2> DEFINE a == WithoutEdges(win)
  <2>1. PICK wide \in {FALSE, win.wide} : Decide(Arrange([a EXCEPT !.wide = wide, !.maxi = FALSE]))
    BY <1>1 DEF ResizeTile
  <2>2. NoEdges(win, a)
    BY <1>0, WithoutEdgesDone
  <2>3. win.tiled /\ wide \in BOOLEAN
    BY <1>0, <1>1, <2>1 DEF ResizeTile, Shaped
  <2> HIDE DEF a
  <2>4. Coherent(a) /\ a.tiled /\ ~a.edges /\ a.parked = win.parked
    BY <2>2, <2>3 DEF NoEdges, SameSide
  <2> DEFINE t == Arrange([a EXCEPT !.wide = wide, !.maxi = FALSE])
  <2>5. Coherent(t) /\ t.parked = a.parked
    BY <2>3, <2>4, WidthCoherent
  <2>6. QED
    BY <2>1, <2>4, <2>5, DecideKeeps
<1>2. CASE ResizeFloat
  <2> DEFINE dropped == [win EXCEPT !.edges = FALSE, !.floatMax = FALSE, !.reEdges = FALSE,
                                    !.maxBox = Unset, !.maxi = FALSE]
             a == IF win.edges \/ win.floatMax THEN dropped ELSE win
             b == RequestSize(a, "own")
             t == SyncMinimize(b)
  <2>1. win.tiled = FALSE /\ win.want = FALSE /\ Decide(t)
    BY <1>0, <1>2 DEF ResizeFloat, Fullscreened, Shaped
  <2>2. /\ Shaped(a) /\ SameSide(win, a) /\ a.edges = FALSE /\ a.floatMax = FALSE /\ a.maxi = FALSE
        /\ a.reEdges = FALSE /\ a.wide = win.wide /\ a.minimized = win.minimized
    <3>1. CASE win.edges \/ win.floatMax
      <4>1. a = dropped
        BY <3>1
      <4> HIDE DEF a
      <4>2. /\ Shaped(dropped) /\ SameSide(win, dropped) /\ dropped.edges = FALSE
            /\ dropped.floatMax = FALSE /\ dropped.maxi = FALSE /\ dropped.reEdges = FALSE
            /\ dropped.wide = win.wide /\ dropped.minimized = win.minimized
        BY <1>0 DEF Shaped, Fields, SameSide, Maybe
      <4> HIDE DEF dropped
      <4>3. QED
        BY <4>1, <4>2
    <3>2. CASE ~(win.edges \/ win.floatMax)
      BY <1>0, <2>1, <3>2 DEF Coherent, Shaped, Remembered, Sided, SameSide
    <3>3. QED
      BY <3>1, <3>2
  <2> HIDE DEF a
  <2>3. /\ Shaped(b) /\ SameSide(a, b) /\ SameMaximized(a, b) /\ b.minimized = a.minimized
    BY <2>2 DEF RequestSize, Shaped, Fields, SameSide, SameMaximized, Maybe, Sizes
  <2> HIDE DEF b
  <2>4. Exclusive(b) /\ Remembered(b) /\ Sided(b)
    BY <1>0, <2>1, <2>2, <2>3
       DEF Coherent, Exclusive, Remembered, Sided, SameSide, SameMaximized
  <2>5. Coherent(t) /\ SameSide(b, t)
    BY <2>3, <2>4, SyncIdle DEF Coherent
  <2> HIDE DEF t
  <2>6. t.parked = win.parked
    BY <2>2, <2>3, <2>5 DEF SameSide
  <2>7. QED
    BY <2>1, <2>5, <2>6, DecideKeeps
<1>3. QED
  BY <1>1, <1>2

LEMMA MoveKeeps ==
  ASSUME PresentationInv, DropDragged \/ MoveFloat
  PROVE  PresentationInv'
<1>0. Coherent(win)
  BY DEF PresentationInv
<1>1. CASE Decide(SetFloating(win, FALSE))
  BY <1>0, <1>1, SetFloatingDone, DecideKeeps
<1>2. CASE Decide(SetFloating(SetPinned(win, FALSE), TRUE))
  <2> DEFINE a == SetPinned(win, FALSE)
             t == SetFloating(a, TRUE)
  <2>1. Coherent(a) /\ (a.parked => win.parked)
    BY <1>0, SetPinnedDone
  <2>2. Decide(t)
    BY <1>2
  <2> HIDE DEF a
  <2>3. Coherent(t) /\ (t.parked => a.parked)
    BY <2>1, SetFloatingDone
  <2> HIDE DEF t
  <2>4. QED
    BY <2>1, <2>2, <2>3, DecideKeeps
<1>3. CASE Decide(SetPinned(win, TRUE))
  BY <1>0, <1>3, SetPinnedDone, DecideKeeps
<1>4. CASE MoveFloat /\ win.edges
  <2>1. Decide(SetEdges(win, FALSE))
    BY <1>4 DEF MoveFloat
  <2>2. EdgesDone(win, SetEdges(win, FALSE), FALSE)
    BY <1>0, SetEdgesDone
  <2>3. QED
    BY <2>1, <2>2, DecideKeeps DEF EdgesDone
<1>5. CASE MoveFloat /\ ~win.edges
  <2>1. Decide(SetMaximized(win, FALSE))
    BY <1>5 DEF MoveFloat
  <2>2. Maximized(win, SetMaximized(win, FALSE), FALSE)
    BY <1>0, <1>5, SetMaximizedDone
  <2>3. QED
    BY <2>1, <2>2, DecideKeeps DEF Maximized, SameSide
<1>6. QED
  BY <1>1, <1>2, <1>3, <1>4, <1>5 DEF DropDragged

LEMMA MinimizeKeeps ==
  ASSUME PresentationInv, Minimize \/ Unminimize
  PROVE  PresentationInv'
<1>0. Coherent(win)
  BY DEF PresentationInv
<1> DEFINE a == [win EXCEPT !.minimized = TRUE]
           b == [win EXCEPT !.minimized = FALSE]
<1>1. CASE Minimize
  <2>1. Minimizable(win) /\ Decide(a)
    BY <1>1 DEF Minimize
  <2>2. Coherent(a) /\ a.parked = win.parked
    BY <1>0, <2>1, MinimizeCoherent
  <2> HIDE DEF a
  <2>3. QED
    BY <2>1, <2>2, DecideKeeps
<1>2. CASE Unminimize
  <2>1. Decide(b)
    BY <1>2 DEF Unminimize
  <2>2. Coherent(b) /\ b.parked = win.parked
    BY <1>0, MinimizeCoherent
  <2> HIDE DEF b
  <2>3. QED
    BY <2>1, <2>2, DecideKeeps
<1>3. QED
  BY <1>1, <1>2

LEMMA ActivateKeeps ==
  ASSUME PresentationInv, Activate \/ GraceEnds
  PROVE  PresentationInv'
<1>0. Coherent(win)
  BY DEF PresentationInv
<1>1. CASE Activate
  <2> DEFINE s == [win EXCEPT !.minimized = FALSE]
             taken == [s EXCEPT !.parked = FALSE]
             left == SetFullscreen(taken, FALSE)
  <2>1. Coherent(s) /\ s.parked = win.parked
    BY <1>0, MinimizeCoherent
  <2>2. Decide(s) \/ Decide(left) \/ Decide(taken)
    BY <1>1 DEF Activate
  <2> HIDE DEF s
  <2>3. Coherent(taken) /\ taken.parked = FALSE
    BY <2>1, ParkCoherent
  <2> HIDE DEF taken
  <2>4. Coherent(left) /\ ~left.parked
    BY <2>3, SetFullscreenCoherent
  <2> HIDE DEF left
  <2>5. QED
    BY <2>1, <2>2, <2>3, <2>4, DecideKeeps
<1>2. CASE GraceEnds
  <2> DEFINE a == [win EXCEPT !.parked = FALSE]
  <2>1. Decide(a)
    BY <1>2 DEF GraceEnds
  <2>2. Coherent(a) /\ a.parked = FALSE
    BY <1>0, ParkCoherent
  <2> HIDE DEF a
  <2>3. QED
    BY <2>1, <2>2, DecideKeeps
<1>3. QED
  BY <1>1, <1>2

-----------------------------------------------------------------------------
(* The theorems *)

LEMMA InvInit == PresentationInit => PresentationInv
<1> SUFFICES ASSUME PresentationInit PROVE PresentationInv
  OBVIOUS
<1>1. PICK tiled \in BOOLEAN : win = MappedAs(tiled) /\ wish = "leave"
  BY DEF PresentationInit
<1> DEFINE s == MappedAs(tiled)
<1>2. /\ Shaped(s) /\ s.tiled = tiled /\ s.maxi = FALSE /\ s.edges = FALSE /\ s.floatMax = FALSE
      /\ s.pinned = FALSE /\ s.minimized = FALSE /\ s.parked = FALSE /\ s.repin = FALSE
      /\ s.reEdges = FALSE /\ s.reFull = FALSE /\ s.wide = FALSE /\ s.want = FALSE
      /\ s.pending = Unset /\ (s.tiled => s.asked = "tile")
  BY DEF MappedAs, Shaped, Fields, Sizes, Maybe
<1> HIDE DEF s
<1>3. Exclusive(s) /\ Remembered(s) /\ Sided(s)
  BY <1>2 DEF Exclusive, Remembered, Sided, TileSize
<1>4. QED
  BY <1>1, <1>2, <1>3 DEF PresentationInv, Coherent, s

LEMMA InvNext == PresentationInv /\ [PresentationNext]_presentationVars => PresentationInv'
<1> SUFFICES ASSUME PresentationInv, [PresentationNext]_presentationVars PROVE PresentationInv'
  OBVIOUS
<1>1. CASE Acknowledge \/ CommitContent
  BY <1>1, CommitKeeps
<1>2. CASE RequestFullscreen
  BY <1>2, RequestFullscreenKeeps
<1>3. CASE RequestMaximize
  BY <1>3, RequestMaximizeKeeps
<1>4. CASE \/ ToggleFullscreen \/ GiveWayToArrival \/ ToggleFullWidth
           \/ ToggleMaximizedToEdges \/ ToggleFloatingState \/ TogglePinned
  BY <1>4, ToggleKeeps
<1>5. CASE ResizeTile \/ ResizeFloat
  BY <1>5, ResizeKeeps
<1>6. CASE DropDragged \/ MoveFloat
  BY <1>6, MoveKeeps
<1>7. CASE Minimize \/ Unminimize
  BY <1>7, MinimizeKeeps
<1>8. CASE Activate \/ GraceEnds
  BY <1>8, ActivateKeeps
<1>9. CASE UNCHANGED presentationVars
  BY <1>9 DEF PresentationInv, presentationVars
<1>10. QED
  BY <1>1, <1>2, <1>3, <1>4, <1>5, <1>6, <1>7, <1>8, <1>9 DEF PresentationNext

\* What the window is and remembers fits together, and no parked request outlives the last word on
\* fullscreen, whatever the compositor, the user and the client ask for in whatever order
\* (view_state.cpp, view_floating.cpp, deferred_unfullscreen.h).
THEOREM Invariance == PresentationSpec => []PresentationInv
  BY InvInit, InvNext, PTL DEF PresentationSpec

\* No two modes that exclude each other hold at once and no memory outlives what it is kept for.
THEOREM ModesExclude == PresentationSpec => []ModesAgree
<1>1. PresentationInv => ModesAgree
  BY DEF PresentationInv, Coherent, Exclusive, Remembered, Shaped, ModesAgree
<1>2. QED
  BY <1>1, Invariance, PTL

\* A parked request to leave fullscreen is the last word said on it: activation, which takes it,
\* undoes nothing that was decided since (deferred_unfullscreen.h).
THEOREM ParkedIsLastWord == PresentationSpec => []ParkedIsNewest
<1>1. PresentationInv => ParkedIsNewest
  BY DEF PresentationInv, Coherent, Exclusive, ParkedIsNewest
<1>2. QED
  BY <1>1, Invariance, PTL

-----------------------------------------------------------------------------
(* Round trips *)

\* A window whose client has answered: nothing but the sizes has changed.
Settled(s, t) ==
  /\ Coherent(t) /\ SameMaximized(s, t) /\ t.geo = s.asked /\ t.shown = s.want
  /\ t.tiled = s.tiled /\ t.want = s.want /\ t.pinned = s.pinned /\ t.retile = s.retile
  /\ t.repin = s.repin /\ t.reFull = s.reFull /\ t.parked = s.parked
  /\ t.size = s.size /\ t.fullBox = s.fullBox /\ t.minimized = s.minimized

LEMMA SettleDone ==
  ASSUME NEW s, Coherent(s)
  PROVE  Settled(s, Settle(s))
<1> DEFINE a == [s EXCEPT !.geo = s.asked, !.shown = s.want]
           t == Adopt(a, TRUE)
<1>1. Settle(s) = t
  BY DEF Settle
<1>2. /\ Shaped(a) /\ SameMaximized(s, a) /\ a.tiled = s.tiled /\ a.want = s.want
      /\ a.pinned = s.pinned /\ a.repin = s.repin /\ a.reFull = s.reFull
      /\ a.parked = s.parked /\ a.minimized = s.minimized /\ a.pending = s.pending
      /\ a.maxBox = s.maxBox /\ a.asked = s.asked /\ a.geo = s.asked /\ a.shown = s.want
      /\ a.retile = s.retile /\ a.size = s.size /\ a.fullBox = s.fullBox
  BY DEF Coherent, Shaped, Fields, SameMaximized
<1> HIDE DEF a
<1>3. Exclusive(a) /\ Remembered(a) /\ Sided(a)
  BY <1>2 DEF Coherent, Exclusive, Remembered, Sided, SameMaximized, TileSize
<1>4. Adopted(a, t)
  BY <1>2, <1>3, AdoptDone DEF Coherent
<1> HIDE DEF t
<1>5. QED
  BY <1>1, <1>2, <1>4 DEF Adopted, Settled, SameSide, SameMaximized, SameSizes

\* A fullscreen window that remembers what it was before.
Covered(s, t) ==
  /\ Coherent(t) /\ t.tiled = s.tiled /\ t.wide = s.wide /\ t.pinned = FALSE /\ t.edges = FALSE
  /\ t.repin = s.pinned /\ t.reEdges = s.edges
  /\ ~s.edges => t.maxi = s.maxi /\ t.floatMax = s.floatMax
  /\ s.edges => t.floatMax = FALSE
  /\ ~s.tiled /\ ~s.edges => t.fullBox = FloatingSize(s)

LEMMA EnterCovers ==
  ASSUME NEW s, Coherent(s), ~Fullscreened(s)
  PROVE  Covered(s, EnterFullscreen(s)) /\ Covered(s, Settle(EnterFullscreen(s)))
<1> DEFINE t == EnterFullscreen(s)
<1>1. /\ Shaped(s) /\ (s.edges => ~s.want) /\ (s.minimized => Minimizable(s))
  BY DEF Coherent, Exclusive, Minimizable
<1>2. /\ t.tiled = s.tiled /\ t.wide = s.wide /\ t.pinned = FALSE /\ t.edges = FALSE
      /\ t.repin = (s.repin \/ s.pinned) /\ t.reEdges = (s.reEdges \/ s.edges)
      /\ ~s.edges => t.maxi = s.maxi /\ t.floatMax = s.floatMax
      /\ s.edges => t.floatMax = (s.tiled /\ s.floatMax)
      /\ ~s.tiled /\ ~s.edges => t.fullBox = FloatingSize(s)
  BY <1>1, EnterShape
<1>3. s.want = FALSE /\ s.repin = FALSE /\ s.reEdges = FALSE /\ (s.tiled => s.floatMax = FALSE)
  BY DEF Coherent, Exclusive, Remembered, Shaped, Fullscreened
<1>4. Coherent(t)
  BY EnterCoherent
<1> HIDE DEF t
<1>5. t.repin = s.pinned /\ t.reEdges = s.edges /\ (s.edges => t.floatMax = FALSE)
  BY <1>1, <1>2, <1>3 DEF Shaped
<1>6. Covered(s, t)
  BY <1>2, <1>4, <1>5 DEF Covered
<1>7. Settled(t, Settle(t))
  BY <1>4, SettleDone
<1>8. Covered(s, Settle(t))
  BY <1>6, <1>7 DEF Covered, Settled, SameMaximized
<1>9. QED
  BY <1>6, <1>8 DEF t

\* Fullscreen and back leaves a window as it was.
LEMMA CoverRoundTrip ==
  ASSUME NEW s, Coherent(s), ~Fullscreened(s), NEW full, Covered(s, full)
  PROVE  LET back == SetFullscreen(full, FALSE)
         IN  /\ Modes(back) = Modes(s) /\ back.wide = s.wide
             /\ ~s.tiled /\ ~s.maxi => FloatingSize(back) = FloatingSize(s)
<1> DEFINE back  == SetFullscreen(full, FALSE)
           edges == full.reEdges /\ TRUE
<1>1. back = LeaveFullscreen(full, TRUE)
  BY DEF SetFullscreen
<1>2. Left(full, back, edges)
  BY <1>1, LeaveShape DEF Covered
<1>3. edges = s.edges
  BY DEF Covered, Coherent, Shaped
<1> HIDE DEF back, edges
<1>4. /\ back.tiled = s.tiled /\ back.wide = s.wide /\ back.pinned = s.pinned
      /\ back.edges = s.edges
  BY <1>2, <1>3 DEF Left, Covered, Coherent, Shaped
<1>5. back.maxi = s.maxi /\ back.floatMax = s.floatMax
  <2>1. CASE s.edges
    <3>1. s.maxi = TRUE /\ s.floatMax = ~s.tiled
      BY <2>1 DEF Coherent, Exclusive, Sided, Shaped
    <3>2. back.maxi = TRUE /\ back.floatMax = ~s.tiled
      BY <2>1, <1>2, <1>3 DEF Left, Covered, Coherent, Shaped
    <3>3. QED
      BY <3>1, <3>2
  <2>2. CASE ~s.edges
    BY <2>2, <1>2, <1>3 DEF Left, Covered, Coherent, Shaped
  <2>3. QED
    BY <2>1, <2>2
<1>6. ~s.tiled /\ ~s.maxi => FloatingSize(back) = FloatingSize(s)
  <2> SUFFICES ASSUME ~s.tiled, ~s.maxi PROVE FloatingSize(back) = FloatingSize(s)
    OBVIOUS
  <2>1. ~s.edges
    BY DEF Coherent, Exclusive
  <2>2. full.fullBox = FloatingSize(s) /\ FloatingSize(s) # Unset
    BY <2>1, UnsetAssumption DEF Covered, FloatingSize, Coherent, Shaped
  <2>3. back.pending = full.fullBox
    BY <2>1, <2>2, <1>2, <1>3 DEF Left, Covered
  <2>4. QED
    BY <2>2, <2>3 DEF FloatingSize
<1>7. QED
  BY <1>4, <1>5, <1>6 DEF Modes, back

\* A tile floated while it is fullscreen, or not maximized, and tiled again.
LEMMA PlainTileRoundTrip ==
  ASSUME NEW s, Coherent(s), s.tiled, s.shown = s.want, ~s.maxi \/ s.want
  PROVE  LET back == ToggleFloating(Settle(ToggleFloating(s)))
         IN  /\ back.want = s.want
             /\ ~s.want => Modes(back) = Modes(s)
<1> DEFINE a == ToggleFloating(s)
           b == Settle(a)
           t == ToggleFloating(b)
<1>0. s.tiled = TRUE /\ s.want \in BOOLEAN /\ Fullscreened(s) = s.want
  BY DEF Coherent, Shaped, Fullscreened
<1>1. a = Float(s)
  <2>1. a = SetFloating(s, s.tiled)
    BY <1>0 DEF ToggleFloating
  <2>2. QED
    BY <1>0, <2>1, SetFloatingDone
<1>2. Floated(s, a)
  BY <1>1, FloatDone
<1> HIDE DEF a
<1>3. Settled(a, b)
  BY <1>2, SettleDone DEF Floated
<1> HIDE DEF b
<1>4. /\ Coherent(b) /\ b.tiled = FALSE /\ b.maxi = FALSE /\ b.want = FALSE /\ b.shown = FALSE
      /\ b.reFull = s.want
  BY <1>0, <1>2, <1>3 DEF Floated, Settled, SameMaximized
<1>5. t = Tile(b)
  <2>1. t = SetFloating(b, FALSE)
    BY <1>4 DEF ToggleFloating
  <2>2. QED
    BY <1>4, <2>1, SetFloatingDone
<1>6. Dropped(b, t)
  BY <1>4, <1>5, TileDone
<1> HIDE DEF t
<1>7. ~Fullscreened(b)
  BY <1>4 DEF Fullscreened
<1>8. t.want = s.want
  BY <1>0, <1>4, <1>6, <1>7 DEF Dropped
<1>9. ~s.want => Modes(t) = Modes(s)
  <2> SUFFICES ASSUME ~s.want PROVE Modes(t) = Modes(s)
    OBVIOUS
  <2>1. s.maxi = FALSE /\ s.edges = FALSE /\ s.floatMax = FALSE /\ s.pinned = FALSE
    BY <1>0 DEF Coherent, Exclusive, Shaped
  <2>2. QED
    BY <1>0, <1>6, <2>1 DEF Modes, Dropped
<1>10. QED
  BY <1>8, <1>9 DEF t, b, a

\* A maximized tile that is floated and tiled again.
LEMMA MaximizedTileRoundTrip ==
  ASSUME NEW s, Coherent(s), s.tiled, ~Fullscreened(s), s.maxi
  PROVE  LET back == ToggleFloating(Settle(ToggleFloating(s)))
         IN  back.want = FALSE /\ Modes(back) = Modes(s)
<1> DEFINE x == Across(s)
           a == ToggleFloating(s)
           b == Settle(a)
           y == Across(b)
           t == ToggleFloating(b)
<1>0. /\ s.tiled = TRUE /\ s.maxi = TRUE /\ s.edges \in BOOLEAN /\ s.floatMax = FALSE
      /\ s.pinned = FALSE
  BY DEF Coherent, Exclusive, Shaped
<1>1. Crossed(s, x)
  BY AcrossDone
<1>2. x.tiled = FALSE /\ x.want = FALSE /\ Coherent(x) /\ x.edges = FALSE /\ x.reFull = FALSE
  <2>1. Fullscreened(s) = FALSE
    BY DEF Fullscreened, Coherent, Shaped
  <2>2. QED
    BY <1>0, <1>1, <2>1 DEF Crossed
<1>3. Coherent(a) /\ a.tiled = FALSE /\ a.want = FALSE /\ a.maxi = TRUE /\ a.edges = s.edges
      /\ a.reFull = FALSE
  <2>1. CASE s.edges
    <3>1. a = SetEdges(x, TRUE)
      BY <1>0, <2>1 DEF ToggleFloating
    <3>2. EdgesDone(x, a, TRUE)
      BY <1>2, <3>1, SetEdgesDone
    <3> HIDE DEF x, a
    <3>3. QED
      BY <1>0, <1>2, <2>1, <3>2 DEF EdgesDone, Coherent, Shaped
  <2>2. CASE ~s.edges
    <3>1. a = SetMaximized(x, TRUE)
      BY <1>0, <2>2 DEF ToggleFloating
    <3>2. Maximized(x, a, TRUE)
      BY <1>2, <3>1, SetMaximizedDone
    <3> HIDE DEF x, a
    <3>3. QED
      BY <1>0, <1>2, <2>2, <3>2 DEF Maximized, SameSide
  <2>3. QED
    BY <2>1, <2>2
<1> HIDE DEF x, a
<1>4. Settled(a, b)
  BY <1>3, SettleDone
<1> HIDE DEF b
<1>5. /\ Coherent(b) /\ b.tiled = FALSE /\ b.want = FALSE /\ b.shown = FALSE /\ b.maxi = TRUE
      /\ b.edges = s.edges /\ b.reFull = FALSE
  BY <1>3, <1>4 DEF Settled, SameMaximized
<1>6. ~Fullscreened(b)
  BY <1>5 DEF Fullscreened
<1>7. Crossed(b, y)
  BY <1>5, AcrossDone
<1>8. Coherent(y) /\ y.tiled = TRUE /\ y.want = FALSE /\ y.edges = FALSE
  BY <1>5, <1>7 DEF Crossed
<1>9. Coherent(t) /\ t.tiled = TRUE /\ t.want = FALSE /\ t.maxi = TRUE /\ t.edges = s.edges
  <2>1. CASE s.edges
    <3>1. t = SetEdges(y, TRUE)
      BY <1>5, <1>6, <2>1 DEF ToggleFloating
    <3>2. EdgesDone(y, t, TRUE)
      BY <1>8, <3>1, SetEdgesDone
    <3> HIDE DEF y, t
    <3>3. QED
      BY <1>0, <1>8, <2>1, <3>2 DEF EdgesDone, Coherent, Shaped
  <2>2. CASE ~s.edges
    <3>1. t = SetMaximized(y, TRUE)
      BY <1>5, <1>6, <2>2 DEF ToggleFloating
    <3>2. Maximized(y, t, TRUE)
      BY <1>8, <3>1, SetMaximizedDone
    <3> HIDE DEF y, t
    <3>3. QED
      BY <1>0, <1>8, <2>2, <3>2 DEF Maximized, SameSide
  <2>3. QED
    BY <2>1, <2>2
<1> HIDE DEF t
<1>10. t.floatMax = FALSE /\ t.pinned = FALSE
  BY <1>9 DEF Coherent, Exclusive, Shaped
<1>11. QED
  BY <1>0, <1>9, <1>10 DEF Modes, t, b, a

\* A plain float that is tiled and floated again.
LEMMA PlainFloatRoundTrip ==
  ASSUME NEW s, Coherent(s), ~s.tiled, ~Fullscreened(s), ~s.maxi
  PROVE  LET back == ToggleFloating(Settle(ToggleFloating(s)))
         IN  Settle(back).geo = Fit(s.geo)
<1> DEFINE a == ToggleFloating(s)
           b == Settle(a)
           t == ToggleFloating(b)
<1>0. s.tiled = FALSE /\ s.geo \in Sizes
  BY DEF Coherent, Shaped
<1>1. a = Tile(s)
  <2>1. a = SetFloating(s, FALSE)
    BY <1>0 DEF ToggleFloating
  <2>2. QED
    BY <1>0, <2>1, SetFloatingDone
<1>2. Dropped(s, a)
  BY <1>1, TileDone
<1> HIDE DEF a
<1>3. Settled(a, b)
  BY <1>2, SettleDone DEF Dropped
<1> HIDE DEF b
<1>4. Coherent(b) /\ b.tiled = TRUE /\ b.maxi = FALSE /\ b.size = s.geo
  BY <1>2, <1>3 DEF Dropped, Settled, SameMaximized
<1>5. t = Float(b)
  <2>1. t = SetFloating(b, TRUE)
    BY <1>4 DEF ToggleFloating
  <2>2. QED
    BY <1>4, <2>1, SetFloatingDone
<1>6. Floated(b, t)
  BY <1>4, <1>5, FloatDone
<1> HIDE DEF t
<1>7. Kept(b) = Fit(s.geo)
  BY <1>0, <1>4, UnsetAssumption DEF Kept
<1>8. Settled(t, Settle(t))
  BY <1>6, SettleDone DEF Floated
<1>9. QED
  BY <1>6, <1>7, <1>8 DEF Floated, Settled, t, b, a

\* Fullscreen and back, and floating and back, leave a window as it was: its modes and the size a
\* plain float is heading for (applyFullscreenTransition, applyFloatingTransition, toggleFloating).
THEOREM ModesRoundTrip == PresentationSpec => []RoundTrips
<1>1. ASSUME PresentationInv PROVE FullscreenRoundTrip
  <2>1. Coherent(win)
    BY <1>1 DEF PresentationInv
  <2> DEFINE full == SetFullscreen(win, TRUE)
  <2>2. full = EnterFullscreen(win)
    BY DEF SetFullscreen
  <2>3. ~Fullscreened(win) => Covered(win, full) /\ Covered(win, Settle(full))
    BY <2>1, <2>2, EnterCovers
  <2> HIDE DEF full
  <2>4. ASSUME NEW f \in {full, Settle(full)}, ~Fullscreened(win)
        PROVE  LET back == SetFullscreen(f, FALSE)
               IN  /\ Modes(back) = Modes(win) /\ back.wide = win.wide
                   /\ ~win.tiled /\ ~win.maxi => FloatingSize(back) = FloatingSize(win)
    <3>1. Covered(win, f)
      BY <2>3, <2>4
    <3>2. QED
      BY <2>1, <2>4, <3>1, CoverRoundTrip
  <2>5. QED
    BY <2>4 DEF FullscreenRoundTrip, full
<1>2. ASSUME PresentationInv PROVE FloatRoundTrip
  <2>1. Coherent(win) /\ win.want \in BOOLEAN /\ win.shown \in BOOLEAN
    BY <1>2 DEF PresentationInv, Coherent, Shaped
  <2>2. SUFFICES ASSUME Settle(win) = win
                 PROVE  LET back == ToggleFloating(Settle(ToggleFloating(win)))
                        IN  /\ win.tiled => back.want = win.want
                            /\ win.tiled /\ ~win.want => Modes(back) = Modes(win)
                            /\ ~win.tiled /\ ~win.want /\ ~win.maxi =>
                                 Settle(back).geo = Fit(win.geo)
    BY DEF FloatRoundTrip
  <2>3. Settled(win, win)
    BY <2>1, <2>2, SettleDone
  <2>4. win.shown = win.want
    BY <2>3 DEF Settled
  <2>5. ~win.want => ~Fullscreened(win)
    BY <2>4 DEF Fullscreened
  <2>6. CASE win.tiled /\ (~win.maxi \/ win.want)
    BY <2>1, <2>4, <2>6, PlainTileRoundTrip
  <2>7. CASE win.tiled /\ win.maxi /\ ~win.want
    BY <2>1, <2>5, <2>7, MaximizedTileRoundTrip
  <2>8. CASE ~win.tiled
    BY <2>1, <2>5, <2>8, PlainFloatRoundTrip
  <2>9. QED
    BY <2>6, <2>7, <2>8
<1>3. PresentationInv => RoundTrips
  BY <1>1, <1>2 DEF RoundTrips
<1>4. QED
  BY <1>3, Invariance, PTL

=============================================================================
