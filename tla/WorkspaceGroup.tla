---------------------------- MODULE WorkspaceGroup ----------------------------
(***************************************************************************)
(* The workspace inventory of every output: WorkspaceGroup and the parts of *)
(* Workspace, View, Gestures, Overview and Server that change it.           *)
(*                                                                         *)
(* The code runs on one event loop, so a step of the model is one handler   *)
(* run to completion.  A handler is a pipeline of operators on the snapshot *)
(* record Now: each operator is one function of the source and takes and    *)
(* returns the whole state, exactly as the C++ methods call one another.    *)
(*                                                                         *)
(* A workspace is a number of Ids.  Its identity is what tokens, windows    *)
(* and the active pointer hold on to; its index (1-based here, 0-based in   *)
(* the source) is a cached attribute, as in the code.                       *)
(***************************************************************************)
EXTENDS Integers, FiniteSets, SequencesExt, TLC

CONSTANTS Outputs,   \* live outputs; each owns one WorkspaceGroup
          Views,     \* toplevel windows
          Tokens,    \* xdg-activation tokens that can be live at once
          Names,     \* declared workspace names
          MaxIds,    \* bound: workspaces that can exist in one step
          Limit,     \* kMaxWorkspaces: workspaces one output may store
          Configs,   \* configurations a reload can install
          None, Anon, Lost

Ids == 1..MaxIds

ASSUME LimitAssumption == Limit \in Nat /\ Limit >= 3
ASSUME ConfigAssumption ==
  \A c \in Configs : \A o \in Outputs :
    /\ c[o].dynamic \in BOOLEAN
    /\ c[o].emptyAbove \in BOOLEAN /\ c[o].animated \in BOOLEAN
    /\ c[o].min \in 1..Limit
    /\ c[o].names \in Seq(Names \cup {Anon}) /\ Len(c[o].names) <= Limit
    /\ c[o].dynamic => Anon \notin ToSet(c[o].names)
    /\ ~c[o].dynamic => c[o].names # <<>>

VARIABLES
  group,     \* [Outputs -> inventory, pointers and slide of one output]
  info,      \* [Ids -> name, cached index, transferred flag, displaced origin]
  view,      \* [Views -> phase, membership, pin state, launch anchor, displaced home]
  token,     \* [Tokens -> the workspace an unclaimed token recorded]
  gesture,   \* m_switchGroup: the output whose slide a swipe drives
  overview,  \* Overview::active()
  cfg        \* the committed configuration, per output

vars == <<group, info, view, token, gesture, overview, cfg>>

NoSlide == [base |-> None, prev |-> None, next |-> None, settling |-> FALSE]
Blank   == [name |-> Anon, index |-> 0, transferred |-> FALSE, origin |-> None]
NewView == [phase |-> "new", ws |-> None, pin |-> "no", launch |-> None, home |-> None]

----------------------------------------------------------------------------
(* Queries *)

Visible(s, o)  == ToSet(s.group[o].ws)
Stored(s, o)   == Visible(s, o) \cup ToSet(s.group[o].reserved)
AllStored(s)   == UNION {Stored(s, o) : o \in Outputs}
StoredCount(s, o) == Len(s.group[o].ws) + Len(s.group[o].reserved)
\* Mutant: the limit is checked with <=.
HasRoomForOneMore(s, o) == StoredCount(s, o) <= Limit
\* Mutant: the limit is checked against the retained workspaces alone.
HasRoomToRetain(s, o) == Len(s.group[o].reserved) < Limit
HasRoom(s, o)  == StoredCount(s, o) < Limit
GroupOf(s, w)  == CHOOSE o \in Outputs : w \in Stored(s, o)
Position(q, w) == CHOOSE i \in DOMAIN q : q[i] = w
Only(q, S)     == SelectSeq(q, LAMBDA x : x \in S)

\* sharesWorkspace: a mapped window that is not pinned makes a workspace occupied.
Occupied(s, w) ==
  \E v \in Views : /\ s.view[v].ws = w
                   /\ s.view[v].phase = "mapped"
                   /\ s.view[v].pin # "pinned"
HasViews(s, w)  == \E v \in Views : s.view[v].ws = w
HasMapped(s, w) == \E v \in Views : s.view[v].ws = w /\ s.view[v].phase = "mapped"
Plain(s, w)     == s.info[w].name = Anon /\ ~Occupied(s, w)
Pending(s, w)   == \E v \in Views : s.view[v].launch = w
\* The shared launch anchor: windows, tokens, and handlers that hold a workspace while they
\* move windows.
LaunchReserved(s, w) ==
  Pending(s, w) \/ w \in s.held \/ \E t \in Tokens : s.token[t] = w

\* A temporary workspace that stands in for one whose output is away.
Displaced(s, w) == s.info[w].origin # None
Natives(s, o)   == SelectSeq(s.group[o].ws, LAMBDA w : ~Displaced(s, w))

FrontPlain(s, o) == s.group[o].ws # <<>> /\ Plain(s, Head(s.group[o].ws))
BackPlain(s, o)  == s.group[o].ws # <<>> /\ Plain(s, Last(s.group[o].ws))

\* resolveWorkspacesForOutput: names that leave no room for the sentinels are omitted.
Declared(c) ==
  LET room == Limit - (IF c.emptyAbove THEN 2 ELSE 1)
  IN  SubSeq(c.names, 1, Min({Len(c.names), room}))

----------------------------------------------------------------------------
(* Inventory edits *)

Mint(s, o, n, i) ==
  LET w == Min(Ids \ s.taken)
  IN  [s EXCEPT !.taken = @ \cup {w},
                !.info[w] = [Blank EXCEPT !.name = n, !.index = i],
                !.group[o].ws = InsertAt(@, i, w)]

AppendDynamicWorkspace(s, o)  == Mint(s, o, Anon, Len(s.group[o].ws) + 1)
PrependDynamicWorkspace(s, o) == Mint(s, o, Anon, 1)

\* ~Workspace: windows detach and launch anchors are cut.
Destroy(s, gone) ==
  IF gone = {} THEN s ELSE
  [s EXCEPT
    !.info  = [w \in gone |-> Blank] @@ @,
    !.view  = [v \in {v \in Views : s.view[v].ws \in gone \/ s.view[v].launch \in gone} |->
                 [s.view[v] EXCEPT !.ws = IF @ \in gone THEN None ELSE @,
                                   !.launch = IF @ \in gone THEN Lost ELSE @]] @@ @,
    !.token = [t \in {t \in Tokens : s.token[t] \in gone} |-> Lost] @@ @]

RefreshMetadata(s, o) ==
  LET q == s.group[o].ws
  IN  [s EXCEPT
        !.info = [w \in ToSet(q) |-> [s.info[w] EXCEPT !.index = Position(q, w)]] @@ @,
        !.group[o].previous = IF @ = s.group[o].active THEN None ELSE @]

RestoreLaunchWorkspace(s, w) ==
  IF \A o \in Outputs : w \notin ToSet(s.group[o].reserved) THEN s
  ELSE LET o == GroupOf(s, w)
           i == Min({s.info[w].index, Len(s.group[o].ws) + 1})
       IN  RefreshMetadata(
             [s EXCEPT !.group[o].ws = InsertAt(@, i, w),
                       !.group[o].reserved = Only(@, Ids \ {w})], o)

InsertDynamicWorkspace(s, o, i) ==
  IF ~s.group[o].dynamic \/ ~HasRoom(s, o) THEN s
  ELSE RefreshMetadata(Mint(s, o, Anon, i), o)

SlideFinish(s, o) == [s EXCEPT !.group[o].slide = NoSlide]

\* Mutant: the back-and-forth pointer outlives its workspace.
ForgetNothing(s, o, gone) == s
ForgetPrevious(s, o, gone) ==
  [s EXCEPT !.group[o].previous = IF @ \in gone THEN None ELSE @]

AdoptPinnedViews(s, w, from) ==
  LET moving == {v \in Views : s.view[v].pin = "pinned" /\ s.view[v].ws \in from}
  IN  [s EXCEPT !.view = [v \in moving |-> [s.view[v] EXCEPT !.ws = w]] @@ @]

\* Mutant: the siblings' pinned windows are left behind.
SetActiveAlone(s, o, w) == [s EXCEPT !.group[o].active = w]
\* m_active := w followed by setActive(true), which adopts the siblings' pinned windows.
SetActive(s, o, w) ==
  IF s.group[o].active = w THEN s
  ELSE AdoptPinnedViews([s EXCEPT !.group[o].active = w], w, Visible(s, o) \ {w})

----------------------------------------------------------------------------
(* reconcileDynamic *)

\* Mutant: an unclaimed token does not hold its workspace.
DropUnclaimedReservations(s, o) ==
  LET all  == ToSet(s.group[o].reserved)
      held == {w \in all : Pending(s, w)}
  IN  Destroy([s EXCEPT !.group[o].reserved = Only(@, held)], all \ held)
DropUnheldReservations(s, o) ==
  LET all  == ToSet(s.group[o].reserved)
      held == {w \in all : LaunchReserved(s, w)}
  IN  Destroy([s EXCEPT !.group[o].reserved = Only(@, held)], all \ held)

VisibleNames(s, o) == {s.info[w].name : w \in Visible(s, o)} \ {Anon}
NativeNames(s, o)  == {s.info[w].name : w \in ToSet(Natives(s, o))} \ {Anon}

\* pruneDisplacedWorkspaces: an empty temporary workspace closes; if it was on display, a
\* native one, or else one with windows, takes its place.
PruneDisplaced(s, o) ==
  LET q    == s.group[o].ws
      gone == {w \in ToSet(q) : Displaced(s, w) /\ ~HasViews(s, w) /\ ~LaunchReserved(s, w)}
      rest == Natives(s, o) \o Only(q, ToSet(q) \ gone)
      a    == s.group[o].active
      kept == ForgetPrevious([s EXCEPT !.group[o].ws = Only(@, Ids \ gone)], o, gone)
      shown == IF a \notin gone THEN kept
               ELSE IF rest = <<>> THEN [kept EXCEPT !.group[o].active = None]
               ELSE SetActive(kept, o, Head(rest))
  IN  IF gone = {} THEN s ELSE RefreshMetadata(Destroy(shown, gone), o)

\* A name that is no longer declared, or repeats an earlier entry, becomes anonymous.
DropStaleNames(s, o, desired) ==
  LET q == Natives(s, o)
      stale(w) == /\ s.info[w].name # Anon
                  /\ ~s.info[w].transferred
                  /\ \/ s.info[w].name \notin desired
                     \/ \E i \in 1..(Position(q, w) - 1) :
                          s.info[q[i]].name = s.info[w].name
  IN  [s EXCEPT !.info = [w \in {w \in ToSet(q) : stale(w)} |->
                            [s.info[w] EXCEPT !.name = Anon]] @@ @]

\* At the limit an ordinary empty workspace takes the name; a sentinel never does.
Reusable(s, o) ==
  LET emptyAbove == s.cfg[o].emptyAbove
      q == s.group[o].ws
      sentinels == (IF emptyAbove THEN {Head(q)} ELSE {}) \cup {Last(q)}
  IN  {w \in Visible(s, o) \ sentinels :
         ~Displaced(s, w) /\ Plain(s, w) /\ ~LaunchReserved(s, w)}

\* Mutant: a name waits for room although a workspace could take it.
AddNameWithRoom(s, o, n) ==
  IF n \in NativeNames(s, o) \/ ~HasRoom(s, o) THEN s
  ELSE Mint(s, o, n, IF s.cfg[o].emptyAbove /\ FrontPlain(s, o) THEN 2 ELSE 1)
AddDeclaredName(s, o, n) ==
  IF n \in NativeNames(s, o) THEN s
  ELSE IF HasRoom(s, o)
  THEN Mint(s, o, n, IF s.cfg[o].emptyAbove /\ FrontPlain(s, o) THEN 2 ELSE 1)
  ELSE IF Reusable(s, o) = {} THEN s
  ELSE LET q == s.group[o].ws
           w == q[Min({Position(q, r) : r \in Reusable(s, o)})]
       IN  [s EXCEPT !.info[w].name = n]

ReconcileDynamicNames(s, o) ==
  LET desired == Only(Declared(s.cfg[o]), Names \ s.group[o].transferredNames)
      add(r, n) == AddDeclaredName(r, o, n)
  IN  FoldLeft(add, DropStaleNames(s, o, ToSet(desired)), Reverse(desired))

FrontKeeper(s, o) ==
  IF s.cfg[o].emptyAbove /\ FrontPlain(s, o) THEN Head(s.group[o].ws) ELSE None
ActiveKeeper(s, o) ==
  LET a == s.group[o].active IN IF a # None /\ Plain(s, a) THEN a ELSE None

\* The active empty workspace serves as the trailing sentinel unless something follows it.
BackKeeper(s, o) ==
  LET q == s.group[o].ws
      a == ActiveKeeper(s, o)
      front == FrontKeeper(s, o)
  IN  IF /\ a # None /\ a # front
         /\ \A i \in (Position(q, a) + 1)..Len(q) : Plain(s, q[i])
      THEN a
      ELSE IF BackPlain(s, o) /\ Last(q) # front THEN Last(q) ELSE None

\* Mutant: a claimed destination is pruned while its window has not mapped.
PrunableUnderLaunches(s, o, keepers) ==
  {w \in Visible(s, o) \ keepers : s.info[w].name = Anon /\ ~HasMapped(s, w)}
Prunable(s, o, keepers) ==
  {w \in Visible(s, o) \ keepers :
     s.info[w].name = Anon /\ ~Displaced(s, w) /\ ~HasMapped(s, w) /\ ~Pending(s, w)}

\* The pruning loop runs from the end and stops at the floor, so it takes the last
\* (size - minimum) of the workspaces it may remove.
Prune(s, o, keepers) ==
  LET q == s.group[o].ws
      prunable == Prunable(s, o, keepers)
      after(w) == {x \in prunable : Position(q, x) >= Position(q, w)}
      pruned == {w \in prunable : Cardinality(after(w)) <= Len(q) - s.cfg[o].min}
      held   == Only(Reverse(q), {w \in pruned : LaunchReserved(s, w)})
      kept   == [s EXCEPT !.group[o].ws = Only(@, Visible(s, o) \ pruned),
                          !.group[o].reserved = @ \o held]
  IN  IF pruned = {} THEN s
      ELSE Destroy(ForgetPrevious(kept, o, pruned), pruned \ ToSet(held))

\* Below the floor, retained workspaces return newest first, then new ones are appended.
FillToMinimum(s, o) ==
  LET back == Reverse(s.group[o].reserved)
      missing == s.cfg[o].min - Len(s.group[o].ws)
      r == FoldLeft(RestoreLaunchWorkspace, s,
                    SubSeq(back, 1, Min({Len(back), missing})))
  IN  IF missing <= 0 THEN s
      ELSE FoldLeft(LAMBDA x, i : AppendDynamicWorkspace(x, o), r,
                    [i \in 1..(s.cfg[o].min - Len(r.group[o].ws)) |-> i])

AddSentinels(s, o, front) ==
  LET b == IF /\ HasRoom(s, o)
              /\ ~BackPlain(s, o) \/ Last(s.group[o].ws) = front
           THEN AppendDynamicWorkspace(s, o) ELSE s
  IN  IF s.cfg[o].emptyAbove /\ front = None /\ HasRoom(b, o)
      THEN PrependDynamicWorkspace(b, o) ELSE b

RepairActive(s, o) ==
  IF s.group[o].active = None THEN SetActive(s, o, Head(s.group[o].ws)) ELSE s

\* The inventory behind its names: what nothing needs goes, then the floor and the
\* sentinels are filled up around what stays.
ReconcileEmpty(s, o, front) ==
  LET p == Prune(s, o, {front, ActiveKeeper(s, o), BackKeeper(s, o)})
  IN  RefreshMetadata(RepairActive(AddSentinels(FillToMinimum(p, o), o, front), o), o)
ReconcileNamed(s, o) == ReconcileEmpty(s, o, FrontKeeper(s, o))

\* A committed configuration of the other inventory type is left to ReconcileInventory.
ReconcileHeld(s, o) ==
  IF s.group[o].dynamic /\ s.cfg[o].dynamic
  THEN ReconcileNamed(ReconcileDynamicNames(s, o), o) ELSE s

\* Deferred while a slide is up.
ReconcileDynamic(s, o) ==
  IF s.group[o].slide.base # None THEN s
  ELSE ReconcileHeld(PruneDisplaced(DropUnheldReservations(s, o), o), o)

----------------------------------------------------------------------------
(* Activation and slides.  animated is the animation setting; animate is FALSE for a caller  *)
(* that asks for no slide, under the session lock and on an output without extent.          *)

\* The values of animate that make a difference.
Paces == {FALSE} \cup {cfg[o].animated : o \in Outputs}

Activate(s, o, w, animate) ==
  LET r == RestoreLaunchWorkspace(s, w)
      a == r.group[o].active
      f == SetActive(SlideFinish(r, o), o, w)
      n == IF a = None THEN f ELSE [f EXCEPT !.group[o].previous = a]
      forward == r.info[w].index > r.info[a].index
  IN  IF a = w THEN r
      ELSE IF ~animate \/ ~s.cfg[o].animated \/ a = None \/ s.overview THEN ReconcileDynamic(n, o)
      ELSE [n EXCEPT !.group[o].slide =
              [base |-> a, prev |-> IF forward THEN None ELSE w,
               next |-> IF forward THEN w ELSE None, settling |-> TRUE]]

SlideBegin(s, o, includePrev, includeNext) ==
  LET a == s.group[o].active
      q == s.group[o].ws
      i == s.info[a].index
  IN  IF a = None THEN s
      ELSE [s EXCEPT !.group[o].slide =
              [base |-> a,
               prev |-> IF includePrev /\ i > 1 THEN q[i - 1] ELSE None,
               next |-> IF includeNext /\ i < Len(q) THEN q[i + 1] ELSE None,
               settling |-> FALSE]]

SlideSettle(s, o, delta) ==
  LET sl == s.group[o].slide
      step == CASE delta < 0 -> sl.prev [] delta > 0 -> sl.next [] OTHER -> None
      target == IF step = None THEN sl.base ELSE step
      a == s.group[o].active
      n == IF target = a THEN s
           ELSE [SetActive(s, o, target) EXCEPT !.group[o].previous = a]
  IN  IF s.cfg[o].animated THEN [n EXCEPT !.group[o].slide.settling = TRUE]
      ELSE ReconcileDynamic(SlideFinish(n, o), o)

SlideFinishAll(s) == FoldLeft(SlideFinish, s, SetToSeq(Outputs))
ReconcileAll(s)   == FoldLeft(ReconcileDynamic, s, SetToSeq(Outputs))

\* Gestures::finishSwitch: a slide settled under the fingers leaves nothing to do.
FinishSwitch(s, delta) ==
  LET g == [s EXCEPT !.gesture = None]
  IN  IF s.gesture = None \/ s.group[s.gesture].slide.base = None THEN g
      ELSE SlideSettle(g, s.gesture, delta)

----------------------------------------------------------------------------
(* Window membership *)

\* A window that enters a temporary workspace takes over the home it stands in for.
TakeHome(s, v, w) ==
  IF s.view[v].home # None \/ s.view[v].pin = "pinned" \/ ~Displaced(s, w) THEN s
  ELSE [s EXCEPT !.view[v].home = [at |-> s.info[w].origin, snap |-> {}, guard |-> FALSE],
                 !.due = TRUE]

\* A pinned window is redirected to its output's active workspace.
SetWorkspace(s, v, w) ==
  LET o == GroupOf(s, w)
      old == s.view[v].ws
      a == s.group[o].active
      target == IF s.view[v].pin = "pinned" /\ a # None THEN a ELSE w
      away == TakeHome([s EXCEPT !.view[v].ws = None], v, target)
      left == IF old # None /\ GroupOf(s, old) # o
              THEN ReconcileDynamic(away, GroupOf(s, old)) ELSE away
  IN  IF old = target THEN TakeHome(s, v, target)
      ELSE ReconcileDynamic(
             [RestoreLaunchWorkspace(left, target) EXCEPT !.view[v].ws = target], o)

LeaveWorkspace(s, v) ==
  LET old == s.view[v].ws
  IN  IF old = None THEN s
      ELSE ReconcileDynamic([s EXCEPT !.view[v].ws = None], GroupOf(s, old))

\* Server::focusView shows the workspace of the window it focuses.
FocusView(s, v, animate) ==
  LET w == s.view[v].ws
  IN  IF w = None \/ s.view[v].pin = "pinned" \/ s.group[GroupOf(s, w)].active = w THEN s
      ELSE Activate(s, GroupOf(s, w), w, animate)

ClearLaunchPlacement(s, v, reconcile) ==
  LET w == s.view[v].launch
      c == [s EXCEPT !.view[v].launch = None]
  IN  IF reconcile /\ w \in Ids THEN ReconcileDynamic(c, GroupOf(s, w)) ELSE c

SetPinned(s, v) ==
  LET w == s.view[v].ws
      p == [s EXCEPT !.view[v].pin = "pinned"]
      a == IF w = None THEN None ELSE s.group[GroupOf(s, w)].active
  IN  IF a = None \/ a = w THEN p ELSE SetWorkspace(p, v, a)

----------------------------------------------------------------------------
(* reconcileInventory: a configuration change of names, count, floor or sentinels *)

RestoreAllReserved(s, o) ==
  FoldLeft(RestoreLaunchWorkspace, s, Reverse(s.group[o].reserved))

\* Mutant: the windows of a removed workspace go down with it.
HandNothingOver(s, gone, next, active) == s
\* The windows of a removed workspace move to the entry at its index, pinned ones to the
\* active workspace.
HandOver(s, gone, next, active) ==
  LET fallback(w) == next[Min({s.info[w].index, Len(next)})]
      moved(r) == [r EXCEPT !.ws = IF r.pin = "pinned" THEN active ELSE fallback(@)]
  IN  [s EXCEPT !.view = [v \in {v \in Views : s.view[v].ws \in gone} |->
                            moved(s.view[v])] @@ @]

\* A fixed list: native workspaces are matched by name, then by position; the rest are
\* created; temporary ones in use follow as far as there is room; and an active workspace
\* that goes is replaced by the entry at its index.
ReconcileStatic(s, o) ==
  LET q     == Natives(s, o)
      fixed == s.cfg[o].names
      n     == Len(fixed)
      used(w) == Displaced(s, w) /\ (HasViews(s, w) \/ LaunchReserved(s, w))
      temporary == SelectSeq(s.group[o].ws, used)
      named(i)  == {w \in ToSet(q) : fixed[i] # Anon /\ s.info[w].name = fixed[i]}
      byName(i) == IF named(i) = {} THEN None ELSE CHOOSE w \in named(i) :
                     \A x \in named(i) : Position(q, w) <= Position(q, x)
      taken == {byName(i) : i \in 1..n}
      old(i) == IF byName(i) # None THEN byName(i)
                ELSE IF i <= Len(q) /\ q[i] \notin taken THEN q[i] ELSE None
      gaps  == Only([i \in 1..n |-> i], {i \in 1..n : old(i) = None})
      fresh == SetToSortSeq(Ids \ s.taken, <)
      entry(i) == IF old(i) # None THEN old(i) ELSE fresh[Position(gaps, i)]
      next  == FoldLeft(LAMBDA r, i : Append(r, entry(i)), <<>>, [i \in 1..n |-> i])
      all   == next \o SubSeq(temporary, 1, Min({Len(temporary), Limit - n}))
      gone  == Visible(s, o) \ ToSet(all)
      a     == s.group[o].active
      active == IF a \in gone THEN next[Min({s.info[a].index, n})] ELSE a
      kept  == [HandOver(ForgetPrevious(s, o, gone), gone, next, active) EXCEPT
                  !.taken = @ \cup ToSet(next),
                  !.info  = [w \in ToSet(next) |->
                               [Blank EXCEPT !.name = fixed[Position(next, w)],
                                             !.index = Position(next, w)]] @@ @,
                  !.group[o].ws = all]
  IN  RefreshMetadata(SetActive(Destroy(kept, gone), o, active), o)

ReconcileInventory(s, o) ==
  LET r == RestoreAllReserved(SlideFinish(s, o), o)
      c == [r EXCEPT !.group[o].transferredNames = {},
                     !.group[o].dynamic = s.cfg[o].dynamic,
                     !.info = [w \in Visible(r, o) |->
                                 [r.info[w] EXCEPT !.transferred = FALSE]] @@ @]
  IN  IF s.cfg[o].dynamic THEN ReconcileDynamic(c, o) ELSE ReconcileStatic(c, o)

----------------------------------------------------------------------------
(* Explicit transfer of a workspace to another output *)

\* Mutant: the destination's names are not checked.
RejectedForRoom(s, w, d) == ~HasRoom(s, d)
TransferRejected(s, w, d) ==
  \/ ~HasRoom(s, d)
  \/ s.info[w].name # Anon /\ s.info[w].name \in VisibleNames(s, d)

\* Mutant: the source keeps listing the workspace it gave away.
StillListed(s, o, w) == s
Unlisted(s, o, w) == [s EXCEPT !.group[o].ws = Only(@, Ids \ {w})]

TransferOut(s, o, w) ==
  LET i == Position(s.group[o].ws, w)
      e == Unlisted(s, o, w)
      r == IF e.group[o].ws = <<>> THEN AppendDynamicWorkspace(e, o) ELSE e
      a == IF s.group[o].active = w THEN r.group[o].ws[Max({i - 1, 1})]
           ELSE s.group[o].active
  IN  AdoptPinnedViews(SetActive(ForgetPrevious(r, o, {w, a}), o, a), a, {w})

TransferIn(s, d, w) ==
  LET a == s.group[d].active
      i == IF a = None THEN 1 ELSE s.info[a].index + 1
      r == [s EXCEPT !.group[d].ws = InsertAt(@, i, w),
                     !.group[d].previous = IF a = None THEN @ ELSE a,
                     !.info[w].transferred = TRUE, !.info[w].origin = None,
                     !.view = [v \in {v \in Views : s.view[v].ws = w} |->
                                 [s.view[v] EXCEPT !.home = None]] @@ @]
  IN  SetActive(r, d, w)

TransferTo(s, o, w, d) ==
  LET n == s.info[w].name
      f == SlideFinish(SlideFinish(s, o), d)
      x == IF n = Anon THEN f
           ELSE [f EXCEPT !.group[o].transferredNames = @ \cup {n},
                          !.group[d].transferredNames = @ \ {n}]
      m == RefreshMetadata(RefreshMetadata(TransferIn(TransferOut(x, o, w), d, w), o), d)
  IN  [ReconcileDynamic(ReconcileDynamic(m, o), d) EXCEPT !.due = TRUE]

----------------------------------------------------------------------------
(* State, initial states and steps *)

\* Beside the variables: the ids in use, the workspaces a handler holds, and whether the
\* handler asked for displaced windows to be restored.
Now == [group |-> group, info |-> info, view |-> view, token |-> token,
        gesture |-> gesture, overview |-> overview, cfg |-> cfg,
        held |-> {}, due |-> FALSE,
        taken |-> UNION {ToSet(group[o].ws) \cup ToSet(group[o].reserved) : o \in Outputs}]

Listed(o) == ToSet(group[o].ws)
AllListed == UNION {Listed(o) : o \in Outputs}

Become(s) ==
             /\ group' = s.group       /\ info' = s.info
             /\ view' = s.view         /\ token' = s.token
             /\ gesture' = s.gesture   /\ overview' = s.overview
             /\ cfg' = s.cfg

\* WorkspaceGroup's constructor: the resolved list, its first entry active.
Resolved(c) ==
  IF ~c.dynamic THEN c.names
  ELSE LET lead == IF c.emptyAbove THEN <<Anon>> ELSE <<>>
           named == lead \o Declared(c)
           count == Max({c.min, Len(named) + 1})
       IN  named \o [i \in 1..(count - Len(named)) |-> Anon]

NewGroup(c) == [ws |-> <<>>, reserved |-> <<>>, active |-> None, previous |-> None,
                slide |-> NoSlide, dynamic |-> c.dynamic, transferredNames |-> {}]

Build(s, o) ==
  LET list == Resolved(s.cfg[o])
      g == [s EXCEPT !.group = (o :> NewGroup(s.cfg[o])) @@ @]
      r == FoldLeft(LAMBDA x, i : Mint(x, o, list[i], i), g, [i \in 1..Len(list) |-> i])
  IN  SetActive(r, o, Head(r.group[o].ws))

InitWith(present) ==
  /\ cfg \in Configs /\ gesture = None /\ overview = FALSE
  /\ view \in [Views -> {NewView}] /\ token \in [Tokens -> {None}]
  /\ \E blank \in [Ids -> {Blank}] :
       LET none == FoldLeft(LAMBDA g, o : (o :> NewGroup(cfg[o])) @@ g, <<>>, SetToSeq(Outputs))
           s == FoldLeft(Build, [group |-> none, info |-> blank, view |-> view,
                                 cfg |-> cfg, taken |-> {}, held |-> {}], SetToSeq(present))
       IN  group = s.group /\ info = s.info
Init == InitWith(Outputs)

----------------------------------------------------------------------------
(* Windows *)

\* The parts of handleMap: a remapping window finds its workspace restored and is not
\* placed again.
Mapped(s, v) == [s EXCEPT !.view[v].phase = "mapped"]
Admit(s, v, here) ==
  IF s.view[v].ws # None THEN Mapped(RestoreLaunchWorkspace(s, s.view[v].ws), v)
  ELSE IF here = None THEN Mapped(s, v) ELSE SetWorkspace(Mapped(s, v), v, here)
Arrive(s, v, arrival) == IF arrival = "plain" THEN s ELSE SetPinned(s, v)
SuspendArrival(s, v, arrival) ==
  IF arrival = "suspended" THEN [s EXCEPT !.view[v].pin = "suspended"] ELSE s
ReconcileHome(s, v) ==
  IF s.view[v].ws = None THEN s ELSE ReconcileDynamic(s, GroupOf(s, s.view[v].ws))

\* A window that reached its launch workspace is focused only if that is on display, which
\* switches nothing.
FocusArrival(s, v, focus, animate, launch) ==
  IF launch # None /\ s.view[v].ws = launch THEN ClearLaunchPlacement(s, v, FALSE)
  ELSE IF focus THEN FocusView(ClearLaunchPlacement(s, v, TRUE), v, animate)
  ELSE ClearLaunchPlacement(s, v, TRUE)

\* The workspaces a rule or the preferred output can name, when that decides.
MapTargets(v, launch) ==
  IF view[v].ws # None \/ launch # None THEN {None} ELSE AllListed

\* handleMap: admission to the launch workspace, to the rule's or preferred output's
\* workspace, or back into the workspace a remapping window kept; then pinning, focus and
\* fullscreen by rule, and one last reconciliation.
MapView(v, override, target, arrival, focus, animate) ==
  LET old    == view[v]
      launch == IF ~override /\ old.launch \in Ids THEN old.launch ELSE None
      here   == IF launch # None THEN launch ELSE target
      p      == Arrive(Admit(Now, v, here), v, arrival)
      f      == FocusArrival(p, v, focus, animate, launch)
  IN  /\ old.phase # "mapped"
      /\ override => old.launch # None
      /\ animate => focus
      /\ target \in MapTargets(v, launch)
      /\ Become(ReconcileHome(SuspendArrival(f, v, arrival), v))

\* Mutant: the workspace a window leaves is not looked at.
UnmapQuietly(v) ==
  /\ view[v].phase = "mapped"
  /\ Become([Now EXCEPT !.view[v].phase = "unmapped", !.view[v].pin = "no"])
\* handleUnmap keeps the membership and reconciles.
UnmapView(v) ==
  LET u == [Now EXCEPT !.view[v].phase = "unmapped", !.view[v].pin = "no"]
  IN  /\ view[v].phase = "mapped"
      /\ Become(ReconcileHome(u, v))

\* ~View, after the unmap a mapped window gets first.
DestroyView(v) ==
  LET gone == LeaveWorkspace(ClearLaunchPlacement(Now, v, TRUE), v)
  IN  /\ view[v].phase # "mapped" /\ view[v] # NewView
      /\ Become([gone EXCEPT !.view[v] = NewView])

\* moveViewToWorkspace: the window first, then the output follows it to the target.
MoveView(v, w, follow, animate) ==
  LET m == SetWorkspace(Now, v, w)
      o == GroupOf(m, w)
  IN  /\ view[v].phase = "mapped" /\ view[v].ws # None
      /\ w \in AllListed
      /\ w # view[v].ws \/ follow
      /\ animate => follow
      /\ Become(IF follow /\ w \in AllStored(m)
                THEN FocusView(Activate(m, o, w, animate), v, animate) ELSE m)

\* An overview card dropped between two rows opens a workspace there.
DropOnNewWorkspace(v, o, i) ==
  LET ins == InsertDynamicWorkspace(Now, o, i)
      w   == ins.group[o].ws[i]
  IN  /\ overview /\ view[v].phase = "mapped" /\ view[v].ws # None
      /\ group[o].dynamic /\ HasRoom(Now, o)
      /\ i \in 1..(Len(group[o].ws) + 1)
      /\ Become(FocusView(SetWorkspace(ins, v, w), v, FALSE))

Focus(v, animate) ==
  /\ view[v].phase = "mapped"
  /\ Become(FocusView(Now, v, animate))

WindowStep ==
  \E v \in Views : \E w \in AllListed \cup {None} : \E flag \in BOOLEAN :
    \E animate \in Paces :
      \/ \E focus \in BOOLEAN : MapView(v, flag, w, "plain", focus, animate)
      \/ MoveView(v, w, flag, animate)
CloseStep == \E v \in Views : UnmapView(v) \/ DestroyView(v)

----------------------------------------------------------------------------
(* Pinned windows *)

PinView(v) ==
  /\ view[v].phase = "mapped" /\ view[v].pin = "no"
  /\ Become(SetPinned(Now, v))

\* setPinned(false) leaves the window where it is and reconciles nothing.
UnpinView(v) ==
  /\ view[v].pin = "pinned"
  /\ Become([Now EXCEPT !.view[v].pin = "no"])

\* setFullscreen: a pinned window is unpinned for as long as it is fullscreen.
Fullscreen(v) ==
  /\ view[v].pin = "pinned"
  /\ Become([Now EXCEPT !.view[v].pin = "suspended"])
LeaveFullscreen(v) ==
  /\ view[v].pin = "suspended"
  /\ Become([Now EXCEPT !.view[v].pin = "pinned"])

PinStep == \E v \in Views :
  \/ PinView(v) \/ UnpinView(v) \/ Fullscreen(v) \/ LeaveFullscreen(v)
  \/ \E w \in AllListed \cup {None} : \E arrival \in {"pinned", "suspended"} :
       MapView(v, FALSE, w, arrival, TRUE, TRUE)

----------------------------------------------------------------------------
(* Switching *)

\* select: naming the active workspace goes back to the previous one, when so configured.
Select(o, w, animate) ==
  LET g == group[o]
      chosen == IF g.active = w /\ g.previous # None THEN g.previous ELSE w
  IN  /\ w \in Listed(o)
      /\ Become(Activate(Now, o, chosen, animate))

\* deactivate, for an output with another workspace to fall back to.
Deactivate(o) ==
  LET g == group[o]
      fallback == IF g.ws[1] = g.active THEN g.ws[2] ELSE g.ws[1]
  IN  /\ Len(g.ws) > 1 /\ g.active # None
      /\ Become(Activate(Now, o, fallback, FALSE))

\* deactivate on the only workspace leaves the output without an active one.
DeactivateOnly(o) ==
  /\ Len(group[o].ws) = 1 /\ group[o].active # None
  /\ Become([Now EXCEPT !.group[o].active = None])

CreateWorkspace(o) ==
  /\ group[o].dynamic /\ \A w \in Listed(o) : Displaced(Now, w) \/ ~Plain(Now, w)
  /\ Become(InsertDynamicWorkspace(Now, o, Len(group[o].ws) + 1))

\* moveActiveWorkspace never swaps with a sentinel.
MoveActiveWorkspace(o, direction) ==
  LET g == group[o]
      i == info[g.active].index
      j == i + direction
      f == SlideFinish(Now, o)
      swapped == [f EXCEPT !.group[o].ws[i] = g.ws[j], !.group[o].ws[j] = g.ws[i]]
  IN  /\ g.active # None
      /\ j \in 1..Len(g.ws)
      /\ g.dynamic /\ Plain(Now, g.ws[j]) =>
           IF direction > 0 THEN j # Len(g.ws) ELSE ~(cfg[o].emptyAbove /\ j = 1)
      /\ Become(IF g.dynamic THEN ReconcileDynamic(swapped, o)
                ELSE RefreshMetadata(swapped, o))

\* Mutant: the reconciliation a slide held back is forgotten.
SettleQuietly(o) == group[o].slide.settling /\ Become(SlideFinish(Now, o))
\* tickAnimations on the frame where the settle ends.
TickAnimations(o) ==
  /\ group[o].slide.settling
  /\ Become(ReconcileDynamic(SlideFinish(Now, o), o))

PickStep == \E o \in Outputs :
  TickAnimations(o) \/ \E w \in Listed(o) : \E animate \in Paces : Select(o, w, animate)
SwitchStep == PickStep \/ \E o \in Outputs :
  \/ Deactivate(o) \/ DeactivateOnly(o) \/ CreateWorkspace(o)
  \/ MoveActiveWorkspace(o, -1) \/ MoveActiveWorkspace(o, 1)

----------------------------------------------------------------------------
(* The three-finger workspace swipe *)

\* The output's active pointer is dereferenced unguarded, so it is part of the guard.
SwipeBegin(o) ==
  /\ gesture = None /\ ~overview /\ group[o].active # None
  /\ Become([SlideBegin(Now, o, TRUE, TRUE) EXCEPT !.gesture = o])

\* The next motion event finds the slide gone, or the pointer on another output.
SwipeLost ==
  /\ gesture # None
  /\ group[gesture].slide.base = None \/ Cardinality(Outputs) > 1
  /\ Become([SlideFinish(Now, gesture) EXCEPT !.gesture = None])

SwipeEnd(delta) ==
  /\ gesture # None
  /\ group[gesture].active # None
  /\ Become(FinishSwitch(Now, delta))

SwipeStep == \/ \E o \in Outputs : SwipeBegin(o)
             \/ SwipeLost
             \/ \E delta \in {-1, 0, 1} : SwipeEnd(delta)

----------------------------------------------------------------------------
(* Overview *)

\* A live swipe hands its projected step to the filmstrip, every slide is cut, and the
\* picked workspace is activated before the cards are built.
OverviewOpen(delta) ==
  LET live == gesture # None /\ group[gesture].slide.base # None
      i    == info[group[gesture].active].index + delta
      q    == group[gesture].ws
      pick == IF i \in 1..Len(q) THEN q[i] ELSE group[gesture].active
      cut  == [SlideFinishAll(Now) EXCEPT !.gesture = None]
      at   == IF live /\ group[gesture].active # None
              THEN Activate(cut, gesture, pick, FALSE) ELSE cut
  IN  /\ ~overview
      /\ Become([at EXCEPT !.overview = TRUE])

\* finishAnimation: teardown reconciles every output, a row still travelling becomes a
\* slide, and the picked window is focused.
OverviewClose(carry, focus) ==
  LET closed == ReconcileAll([Now EXCEPT !.overview = FALSE])
      carried(s, o) ==
        IF carry[o] = 0 \/ s.group[o].active = None THEN s
        ELSE SlideSettle(SlideBegin(s, o, carry[o] < 0, carry[o] > 0), o, 0)
      focused(s) == IF focus = None THEN s ELSE FocusView(s, focus, TRUE)
  IN  /\ overview
      /\ focus # None => view[focus].phase = "mapped"
      /\ Become(focused(FoldLeft(carried, closed, SetToSeq(Outputs))))

OverviewStep ==
  \/ \E delta \in {-1, 0, 1} : OverviewOpen(delta)
  \/ \E carry \in [Outputs -> {-1, 0, 1}] : \E focus \in Views \cup {None} :
       OverviewClose(carry, focus)
  \/ \E v \in Views : \E o \in Outputs : \E i \in 1..Limit : DropOnNewWorkspace(v, o, i)
  \/ \E v \in Views : \E animate \in Paces : Focus(v, animate)

----------------------------------------------------------------------------
(* Launch tokens *)

\* trackActivationToken for a compositor-issued token, or one a layer surface asked for.
TrackFromOutput(t, o) ==
  /\ token[t] = None /\ group[o].active # None
  /\ Become([Now EXCEPT !.token[t] = group[o].active])
\* trackActivationToken for a token a window's client asked for.
TrackFromView(t, v) ==
  LET w == view[v].ws
      a == group[GroupOf(Now, w)].active
  IN  /\ token[t] = None /\ view[v].phase = "mapped" /\ w # None
      /\ view[v].pin = "pinned" => a # None
      /\ Become([Now EXCEPT !.token[t] = IF view[v].pin = "pinned" THEN a ELSE w])

\* Mutant: the claimed destination stays out of sight.
LaunchIntoHidden(s, v, target) == [s EXCEPT !.view[v].launch = target]
\* assignLaunchOrigin
AssignLaunchOrigin(s, v, target) ==
  RestoreLaunchWorkspace([s EXCEPT !.view[v].launch = target], target)

\* claimLaunchOrigin: the token is consumed whether or not the window can use it.  A
\* pointer drop on another output takes that output's active workspace instead.
ClaimToken(t, v, drop) ==
  LET w      == token[t]
      source == IF w \in Ids THEN GroupOf(Now, w) ELSE None
      target == IF drop = None THEN w ELSE group[drop].active
      assign == target \in Ids /\ view[v].phase = "new" /\ view[v].launch = None
      claimed == IF ~assign THEN Now
                 ELSE AssignLaunchOrigin(Now, v, target)
      spent  == [claimed EXCEPT !.token[t] = None]
      first  == IF source = None THEN spent ELSE ReconcileDynamic(spent, source)
  IN  /\ w # None
      /\ drop # None => drop # source /\ group[drop].active # None
      /\ Become(IF drop = None THEN first ELSE ReconcileDynamic(first, drop))

\* Mutant: the retained workspace is not looked at when its token ends.
ExpireQuietly(t) == token[t] # None /\ Become([Now EXCEPT !.token[t] = None])
\* onActivationTokenDestroy of an unclaimed token: its timeout, or completeIpcLaunch.
ExpireToken(t) ==
  LET w == token[t]
      freed == [Now EXCEPT !.token[t] = None]
  IN  /\ w # None
      /\ Become(IF w \in Ids THEN ReconcileDynamic(freed, GroupOf(Now, w)) ELSE freed)

\* The launch timeout of a window that never maps, or the end of the token it claimed.
CancelLaunch(v) ==
  /\ view[v].launch # None
  /\ Become(ClearLaunchPlacement(Now, v, TRUE))

LaunchStep ==
  \/ \E t \in Tokens :
       \/ \E o \in Outputs : TrackFromOutput(t, o)
       \/ \E v \in Views : TrackFromView(t, v)
       \/ \E v \in Views : \E drop \in Outputs \cup {None} : ClaimToken(t, v, drop)
       \/ ExpireToken(t)
  \/ \E v \in Views : CancelLaunch(v)

----------------------------------------------------------------------------
(* Output-level changes *)

Transfer(o, w, d) ==
  /\ o # d /\ w \in Listed(o) /\ group[o].active # None
  /\ ~TransferRejected(Now, w, d)
  /\ Become(TransferTo(Now, o, w, d))

\* applyConfig: the swipe is cancelled and every slide cut; a changed inventory is
\* reconciled, a layout-only reload stops there.
Reload(c) ==
  LET committed == [Now EXCEPT !.cfg = c]
      cut == SlideFinishAll(FinishSwitch(committed, 0))
  IN  /\ \A o \in Outputs : group[o].active # None
      /\ Become(IF c = cfg THEN cut
                ELSE FoldLeft(ReconcileInventory, cut, SetToSeq(Outputs)))

TransferStep == \E o, d \in Outputs : \E w \in Listed(o) : Transfer(o, w, d)

\* A reload that changes the inventory; LayoutReload leaves it as it is.
InventoryReload == \E c \in Configs \ {cfg} : Reload(c)
LayoutReload    == Reload(cfg)

=============================================================================
