---------------------------- MODULE Presentation ----------------------------
(***************************************************************************)
(* How one mapped window is shown: tiled or floating, and on top of either *)
(* maximized, maximized to the edges, fullscreen, pinned or minimized, with *)
(* what each mode remembers for when it ends (view_state.cpp,              *)
(* view_floating.cpp, deferred_unfullscreen.h).  Every mode is asked for by *)
(* the compositor or by the client, sent in a configure and acknowledged by *)
(* a later commit, so that scheduled and committed state differ for a      *)
(* while.  Sizes are classes: the client's own, the tile, the maximized    *)
(* area, the usable area to its edges, the whole output.                   *)
(*                                                                         *)
(* One mapping of an xdg window alone in its column on a shown tiling      *)
(* workspace; positions, regions, window rules, attachments and scratchpads *)
(* are left out.                                                           *)
(***************************************************************************)
EXTENDS Naturals

CONSTANT Unset      \* an absent size

VARIABLES win,      \* the window's modes and memories
          wish      \* history: the last word on fullscreen, "enter" or "leave"

presentationVars == <<win, wish>>

Sizes == {"own", "tile", "max", "edge", "full"}
Maybe == Sizes \cup {Unset}

ASSUME UnsetAssumption == Unset \notin Sizes

-----------------------------------------------------------------------------
(* What the code reads off the window. *)

Fullscreened(s) == s.want \/ s.shown
FloatingSize(s) == IF s.pending # Unset THEN s.pending ELSE s.geo
MaximizedArea(s) == IF s.edges THEN "edge" ELSE "max"
TileSize(s) == IF s.want THEN "full" ELSE IF s.edges THEN "edge" ELSE IF s.wide THEN "max" ELSE "tile"
Minimizable(s) == ~s.tiled /\ ~s.pinned

\* A float larger than the usable area is cut to it.
Fit(size) == IF size = "full" THEN "edge" ELSE size

\* Also stands for the arrange marked for the next frame: whatever reads a tile's size flushes it first.
Arrange(s) == IF s.tiled THEN [s EXCEPT !.asked = TileSize(s)] ELSE s
RequestSize(s, size) == [s EXCEPT !.pending = size, !.asked = size]
SyncMinimize(s) == [s EXCEPT !.minimized = @ /\ Minimizable(s)]

-----------------------------------------------------------------------------
(* Maximize. *)

\* setMaximized, for a window outside the layout.
MaximizeFloat(s, on) ==
    LET t == [s EXCEPT !.floatMax = on, !.maxi = on]
    IN  CASE on /\ ~s.maxi -> [t EXCEPT !.maxBox = FloatingSize(s), !.pending = Unset, !.asked = MaximizedArea(s)]
          [] on /\ s.maxi -> [t EXCEPT !.asked = MaximizedArea(s)]
          [] ~on /\ s.maxi /\ s.maxBox # Unset -> [RequestSize(t, s.maxBox) EXCEPT !.maxBox = Unset]
          [] OTHER -> t

\* setMaximizedToEdges, past the fullscreen it may have to leave.
EdgesHere(s, on) ==
    LET t == [s EXCEPT !.edges = on, !.reEdges = @ /\ on]
    IN  IF on = s.edges THEN t
        ELSE SyncMinimize(IF s.tiled THEN Arrange([t EXCEPT !.maxi = on \/ (~s.want /\ s.wide)])
                          ELSE MaximizeFloat(t, on))

-----------------------------------------------------------------------------
(* Fullscreen. *)

\* Mutant: the size on screen is taken for the one to come back to.
BoxOnScreen(s) == IF s.tiled \/ Fullscreened(s) THEN s ELSE [s EXCEPT !.fullBox = s.geo]
BoxRestored(s) == IF s.tiled \/ Fullscreened(s) THEN s ELSE [s EXCEPT !.fullBox = FloatingSize(s)]

\* Edges and a pin are put aside for the time of fullscreen.
EdgesAside(s) == IF s.edges THEN [EdgesHere(s, FALSE) EXCEPT !.reEdges = TRUE] ELSE s
PinAside(s)   == [s EXCEPT !.parked = FALSE, !.want = TRUE, !.pinned = FALSE, !.repin = @ \/ s.pinned,
                           !.pending = Unset]
Cover(s)      == IF s.tiled THEN Arrange(s) ELSE [s EXCEPT !.asked = "full"]
EnterFullscreen(s) == SyncMinimize(Cover(PinAside(BoxRestored(EdgesAside(s)))))

BoxBack(s) == CASE ~s.tiled /\ s.fullBox # Unset -> RequestSize(s, s.fullBox)
                [] s.tiled -> [s EXCEPT !.fullBox = Unset]
                [] OTHER -> s
EdgesBack(s, immediate) ==
    IF s.reEdges /\ immediate THEN EdgesHere([s EXCEPT !.reEdges = FALSE], TRUE)
    ELSE [s EXCEPT !.reEdges = FALSE]
PinBack(s) == [s EXCEPT !.pinned = @ \/ s.repin, !.repin = FALSE]
\* immediate: this call owns the final state; otherwise its caller does.
LeaveFullscreen(s, immediate) ==
    SyncMinimize(PinBack(Arrange(EdgesBack(
        BoxBack([s EXCEPT !.parked = FALSE, !.want = FALSE, !.reFull = FALSE]), immediate))))

SetFullscreen(s, on) == IF on THEN EnterFullscreen(s) ELSE LeaveFullscreen(s, TRUE)

SetEdges(s, on) ==
    IF on /\ ~s.edges /\ s.want THEN Arrange(EdgesHere(LeaveFullscreen(s, FALSE), TRUE)) ELSE EdgesHere(s, on)

WithoutEdges(s) == IF s.edges THEN SetEdges(s, FALSE) ELSE s
SetMaximized(s, on) ==
    IF s.tiled
    THEN Arrange([WithoutEdges(s) EXCEPT !.floatMax = FALSE, !.wide = on, !.maxi = on])
    ELSE MaximizeFloat(s, on)

-----------------------------------------------------------------------------
(* Tiled or floating. *)

\* Mutant: tiling a pinned window leaves it pinned.
PlainButPinned(s, floating) ==
    [WithoutEdges(s) EXCEPT !.floatMax = FALSE, !.minimized = @ /\ floating]

Unpinned(s) == [s EXCEPT !.minimized = FALSE, !.pinned = FALSE,
                         !.retile = @ /\ ~s.pinned, !.repin = @ /\ ~s.pinned]
\* What both directions of setFloating do first.
Plain(s, floating) ==
    IF floating THEN [WithoutEdges(s) EXCEPT !.floatMax = FALSE]
    ELSE Unpinned([WithoutEdges(s) EXCEPT !.floatMax = FALSE])

Uncover(s) == IF Fullscreened(s) THEN [LeaveFullscreen(s, FALSE) EXCEPT !.reFull = TRUE] ELSE s
OffLayout(s) == [s EXCEPT !.tiled = FALSE, !.wide = FALSE, !.maxi = @ /\ ~s.wide]
Kept(s) == Fit(IF s.size # Unset THEN s.size ELSE s.geo)
Resized(s, size) == IF s.asked = size THEN s ELSE RequestSize(s, size)
Lift(s)  == Resized(OffLayout(s), Kept(s))
Float(s) == SyncMinimize(Lift(Uncover(Plain(s, TRUE))))

OnLayout(s, full) ==
    [s EXCEPT !.size = IF full THEN @ ELSE s.geo, !.pending = Unset, !.tiled = TRUE,
              !.repin = FALSE, !.reFull = FALSE]
\* A window that left fullscreen to float takes it again as a tile.
Drop(s) == IF s.reFull /\ ~Fullscreened(s) THEN SetFullscreen(OnLayout(s, FALSE), TRUE)
           ELSE OnLayout(s, Fullscreened(s))
Tile(s) == SyncMinimize(Arrange([Drop(Plain(s, FALSE)) EXCEPT !.maxi = FALSE, !.wide = FALSE]))

SetFloating(s, floating) ==
    IF s.tiled # floating THEN s ELSE IF floating THEN Float(s) ELSE Tile(s)

\* A maximized window changes sides un-maximized, and is maximized again there.
Sized(s) == IF s.size # Unset THEN s ELSE [s EXCEPT !.size = "tile"]
Landed(s, box) ==
    CASE ~s.tiled -> RequestSize(s, s.asked)
      [] s.tiled /\ box # Unset -> [s EXCEPT !.size = box, !.maxBox = Unset]
      [] OTHER -> [s EXCEPT !.maxBox = Unset]
Across(s) ==
    Landed(SetFloating(IF s.tiled THEN Sized(SetMaximized(WithoutEdges(s), FALSE)) ELSE s, s.tiled),
           IF s.tiled THEN Unset ELSE s.maxBox)
ToggleFloating(s) ==
    CASE ~s.maxi \/ Fullscreened(s) -> SetFloating(s, s.tiled)
      [] s.maxi /\ ~Fullscreened(s) /\ s.edges -> SetEdges(Across(s), TRUE)
      [] OTHER -> SetMaximized(Across(s), TRUE)

Pin(s) == [SetFloating(s, TRUE) EXCEPT !.retile = s.tiled, !.pinned = TRUE]
SetPinned(s, on) ==
    CASE on = s.pinned \/ (on /\ Fullscreened(s)) -> s
      [] on # s.pinned /\ on /\ ~Fullscreened(s) -> SyncMinimize(Arrange(Pin(s)))
      [] OTHER -> IF s.retile THEN SetFloating([s EXCEPT !.retile = FALSE, !.pinned = FALSE], FALSE)
                  ELSE SyncMinimize(Arrange([s EXCEPT !.pinned = FALSE]))

-----------------------------------------------------------------------------
(* Configures and commits. *)

\* A mapped window, its opening configure acknowledged.
MappedAs(tiled) ==
    [tiled |-> tiled, want |-> FALSE, shown |-> FALSE, maxi |-> FALSE, wide |-> FALSE, edges |-> FALSE,
     floatMax |-> FALSE, pinned |-> FALSE, minimized |-> FALSE, retile |-> FALSE, repin |-> FALSE,
     reEdges |-> FALSE, reFull |-> FALSE, parked |-> FALSE,
     geo |-> IF tiled THEN "tile" ELSE "own", asked |-> IF tiled THEN "tile" ELSE "own",
     pending |-> Unset, size |-> Unset, maxBox |-> Unset, fullBox |-> Unset]

PresentationInit == \E tiled \in BOOLEAN : win = MappedAs(tiled) /\ wish = "leave"

\* What a commit makes of the size the client chose: adoptFloatingClientSize, applyFullscreenLayout.
Adopt(s, answers) ==
    CASE s.tiled \/ (~s.want /\ (s.maxi \/ (s.pending # Unset /\ ~answers))) -> s
      [] ~s.tiled /\ s.want -> [s EXCEPT !.asked = "full"]
      [] OTHER -> [s EXCEPT !.pending = Unset, !.asked = s.geo]

\* The client acknowledges the last configure; a plain float may choose its size.
Acknowledge ==
    /\ \E size \in {win.asked} \cup IF win.tiled \/ win.want \/ win.maxi THEN {} ELSE {"own"} :
         win' = Adopt([win EXCEPT !.geo = size, !.shown = win.want], TRUE)
    /\ UNCHANGED wish

\* A commit that acknowledges nothing.
CommitContent == win' = Adopt(win, FALSE) /\ UNCHANGED wish

-----------------------------------------------------------------------------
(* What the client asks for. *)

Word(on) == IF on THEN "enter" ELSE "leave"
\* The last word is kept for as long as a request is parked.
Say(word) == wish' = IF win'.parked THEN word ELSE "leave"

\* Mutant: a request for what already holds leaves a parked one standing.
ObserveChanges(s, on, activated) ==
    CASE on = s.want -> s
      [] on # s.want /\ ~on /\ ~activated -> [s EXCEPT !.parked = TRUE]
      [] OTHER -> SetFullscreen(s, on)

\* observeClientRequest
Observe(s, on, activated) ==
    CASE on = s.want -> [s EXCEPT !.parked = FALSE]
      [] on # s.want /\ ~on /\ ~activated -> [s EXCEPT !.parked = TRUE]
      [] OTHER -> SetFullscreen(s, on)

RequestFullscreen ==
    \E on, activated \in BOOLEAN : win' = Observe(win, on, activated) /\ Say(Word(on))

\* setMaximizedLikeClientRequest; toEdges: the workspace's client_maximize.
RequestMaximize ==
    /\ \E on, toEdges \in BOOLEAN :
         win' = CASE ~on /\ win.edges -> SetEdges(win, FALSE)
                  [] on /\ win.tiled /\ (win.edges \/ toEdges) -> SetEdges(win, TRUE)
                  [] OTHER -> SetMaximized(win, on)
    /\ Say(IF win'.want THEN wish ELSE "leave")

-----------------------------------------------------------------------------
(* What the user asks for. *)

Decide(s) == win' = s /\ Say(IF win'.want = win.want THEN wish ELSE Word(win'.want))

ToggleFullscreen == Decide(SetFullscreen(win, ~win.want))

\* exitFullscreenForIncomingView: a window that opens on the workspace takes fullscreen off this one.
GiveWayToArrival == win.want /\ Decide(SetFullscreen(win, FALSE))

\* toggleFocusedFullWidth
FullWidth(s) == CASE s.tiled -> Arrange([s EXCEPT !.wide = ~@, !.maxi = ~s.wide])
                  [] ~s.tiled /\ ~s.want -> SetMaximized(s, ~s.floatMax)
                  [] OTHER -> s
ToggleFullWidth ==
    Decide(FullWidth(WithoutEdges(win)))

ToggleMaximizedToEdges == Decide(SetEdges(win, ~win.edges))
ToggleFloatingState == Decide(ToggleFloating(win))
TogglePinned == Decide(SetPinned(win, ~win.pinned))

\* setFocusedWidth and setFocusedHeight, on a tile.
ResizeTile ==
    /\ win.tiled
    /\ \E wide \in {FALSE, win.wide} :
         Decide(Arrange([WithoutEdges(win) EXCEPT !.wide = wide, !.maxi = FALSE]))

\* resizeFloatingFractions, with the dropMaximizedForResize it makes.
ResizeFloat ==
    /\ ~win.tiled /\ ~Fullscreened(win)
    /\ LET dropped == [win EXCEPT !.edges = FALSE, !.floatMax = FALSE, !.reEdges = FALSE,
                                  !.maxBox = Unset, !.maxi = FALSE]
           t == IF win.edges \/ win.floatMax THEN dropped ELSE win
       IN  Decide(SyncMinimize(RequestSize(t, "own")))

\* applyDragTarget: a window dropped as a tile, a float or a pinned float.
DropDragged ==
    \/ Decide(SetFloating(win, FALSE))
    \/ Decide(SetFloating(SetPinned(win, FALSE), TRUE))
    \/ Decide(SetPinned(win, TRUE))

\* restoreMaximizedForMove, when a move grab passes its threshold.
MoveFloat ==
    /\ ~win.tiled /\ ~Fullscreened(win) /\ win.floatMax
    /\ Decide(IF win.edges THEN SetEdges(win, FALSE) ELSE SetMaximized(win, FALSE))

\* requestMinimize and setMinimized(false)
Minimize ==
    /\ Minimizable(win) /\ ~Fullscreened(win) /\ ~win.minimized
    /\ Decide([win EXCEPT !.minimized = TRUE])
Unminimize == win.minimized /\ Decide([win EXCEPT !.minimized = FALSE])

-----------------------------------------------------------------------------
(* Activation, and the request that waits for it. *)

\* focusView; only an activation request takes the parked one.
Activate ==
    LET s == [win EXCEPT !.minimized = FALSE]
        taken == [s EXCEPT !.parked = FALSE]
    IN  \E requested \in BOOLEAN :
          LET t == CASE ~requested -> s
                     [] requested /\ s.parked /\ Fullscreened(s) -> SetFullscreen(taken, FALSE)
                     [] OTHER -> taken
          IN  Decide(t)

\* The grace period ends; from then on activation drops the request.
GraceEnds == win.parked /\ Decide([win EXCEPT !.parked = FALSE])

PresentationNext ==
    \/ Acknowledge \/ CommitContent
    \/ RequestFullscreen \/ RequestMaximize
    \/ ToggleFullscreen \/ GiveWayToArrival \/ ToggleFullWidth \/ ToggleMaximizedToEdges
    \/ ToggleFloatingState \/ TogglePinned \/ ResizeTile \/ ResizeFloat \/ DropDragged \/ MoveFloat
    \/ Minimize \/ Unminimize \/ Activate \/ GraceEnds

PresentationSpec == PresentationInit /\ [][PresentationNext]_presentationVars

-----------------------------------------------------------------------------
(* Properties. *)

\* No two modes that exclude each other hold at once, and no memory outlives what it is kept for: a
\* pinned or minimized window floats, a pinned one is not fullscreen, the pin and the edges put aside
\* by fullscreen wait for its end and nothing else, and a tile has no fullscreen to come back to.
ModesAgree ==
    /\ win.pinned => ~win.tiled /\ ~win.want
    /\ win.minimized => ~win.tiled /\ ~win.pinned
    /\ win.repin \/ win.reEdges => win.want
    /\ win.reFull => ~win.tiled
    /\ win.edges => win.maxi /\ ~win.want
    /\ win.floatMax => ~win.tiled /\ win.maxi

\* A parked request to leave fullscreen is the last word on fullscreen and the window still is
\* fullscreen, so that activation never undoes a later decision of the client or the user.
ParkedIsNewest == win.parked => win.want /\ wish = "leave"

Modes(s) == <<s.tiled, s.edges, s.maxi, s.floatMax, s.pinned>>

\* The window once its client has acknowledged everything.
Settle(s) == Adopt([s EXCEPT !.geo = s.asked, !.shown = s.want], TRUE)

\* Whatever led there, fullscreen and back, before or after the client answers, leaves a window as
\* it was: its modes, and the size a plain float is heading for.
FullscreenRoundTrip ==
    \A full \in {SetFullscreen(win, TRUE), Settle(SetFullscreen(win, TRUE))} :
       ~Fullscreened(win) =>
          LET back == SetFullscreen(full, FALSE)
          IN  /\ Modes(back) = Modes(win) /\ back.wide = win.wide
              /\ ~win.tiled /\ ~win.maxi => FloatingSize(back) = FloatingSize(win)

\* A settled tile that is floated and tiled again keeps its fullscreen and its maximized state, and a
\* settled plain float that is tiled and floated again its size, up to what the usable area allows.
FloatRoundTrip ==
    LET there == Settle(ToggleFloating(win))
        back == ToggleFloating(there)
    IN  Settle(win) = win =>
          /\ win.tiled => back.want = win.want
          /\ win.tiled /\ ~win.want => Modes(back) = Modes(win)
          /\ ~win.tiled /\ ~win.want /\ ~win.maxi => Settle(back).geo = Fit(win.geo)

RoundTrips == FullscreenRoundTrip /\ FloatRoundTrip

\* The box a maximized float returns to is never the whole output: a request to maximize that comes
\* while the window is fullscreen does not take the fullscreen size for the window's own.
NoOutputSizedFloat == win.maxBox # "full"
=============================================================================
