------------------------------ MODULE Evacuation ------------------------------
(***************************************************************************)
(* Outputs that leave and return: Server::removeOutput, the disabling and   *)
(* enabling of outputs, reassignOutputViews and restoreDisplacedViews, on   *)
(* top of the inventory of WorkspaceGroup.                                  *)
(*                                                                         *)
(* The workspaces of an output that leaves are rebuilt as temporary ones on *)
(* another output, and every window remembers the home it left.  When an    *)
(* output returns, an idle callback brings the windows home.  A home is a   *)
(* selector (output, name or position), never a pointer, so it must be      *)
(* resolved against whatever inventory the returning output then has.       *)
(*                                                                         *)
(* A layout snapshot is the set of windows it was taken of; the geometry in *)
(* it, floating windows and changes of layout mode are left out, and so are *)
(* pinned windows and scratchpads, which keep paths of their own.           *)
(***************************************************************************)
EXTENDS WorkspaceGroup

CONSTANTS Portable,      \* bound: outputs that ever leave the desktop or sleep
          MaxDepartures, \* bound: how often that happens
          MaxWaiting     \* bound: window events dispatched before a scheduled restoration

VARIABLES
  power,     \* [Outputs -> "on", "asleep" (DPMS), "off" (disabled) or "gone"]
  due,       \* m_displacedRestoreIdle: an idle callback is registered
  selection, \* m_displacedWorkspaceSelections: what an output that left was showing
  dangling,  \* a handler went on to use a workspace that had been destroyed meanwhile
  departures, \* how often an output has left
  waited     \* window events since an output changed, while a restoration is due

evacuationVars == <<vars, power, due, selection, dangling, departures, waited>>

----------------------------------------------------------------------------
(* Queries *)

Lit          == {o \in Outputs : power[o] = "on"}
On(s, o)     == s.power[o] = "on"
InOrder(S)   == Only(SetToSeq(Outputs), S)
HasHome(s, v)   == s.view[v].home # None
At(s, v)        == s.view[v].home.at
IsMapped(s, v)  == s.view[v].phase = "mapped"
Residents(s, w) == {v \in Views : s.view[v].ws = w}
Tiled(s, w)     == {v \in Residents(s, w) : IsMapped(s, v)}

\* WorkspaceGroup::workspaceNamed: a native workspace first, else the only temporary one.
WorkspaceNamed(s, o, n) ==
  LET all == {w \in Visible(s, o) : s.info[w].name = n}
      own == {w \in all : ~Displaced(s, w)}
  IN  IF own # {} THEN CHOOSE w \in own : TRUE
      ELSE IF Cardinality(all) = 1 THEN CHOOSE w \in all : TRUE ELSE None

\* A native workspace to fall back to, the active one first.
NativeFallback(s, o) ==
  LET a == s.group[o].active
      q == Natives(s, o)
  IN  IF a # None /\ ~Displaced(s, a) THEN a ELSE IF q = <<>> THEN None ELSE Head(q)

\* setWorkspace through a pointer taken earlier; the model notes when that has gone stale.
Enter(s, v, w) ==
  IF w \notin AllStored(s) THEN [s EXCEPT !.dangling = TRUE]
  ELSE SetWorkspace(s, v, w)

Hold(s, S) == [s EXCEPT !.held = S]

----------------------------------------------------------------------------
(* Snapshots and refuges *)

\* Mutant: the unmapped windows of the workspace get the new snapshot too.
RefreshEveryWindow(s, w) ==
  LET origin == s.info[w].origin
      mine   == {v \in Views : HasHome(s, v) /\ At(s, v) = origin}
  IN  IF origin = None THEN s
      ELSE [s EXCEPT !.view = [v \in mine |-> [s.view[v] EXCEPT !.home.snap = Tiled(s, w)]] @@ @]
\* refreshDisplacedWorkspace: the windows of a temporary workspace remember its present
\* layout, unless an unmapped peer still needs its slot in the old snapshot.
RefreshDisplaced(s, w) ==
  LET origin  == s.info[w].origin
      mine    == {v \in Views : HasHome(s, v) /\ At(s, v) = origin}
      awaited == \E v \in mine : ~IsMapped(s, v) /\ s.view[v].home.snap # {}
  IN  IF origin = None \/ awaited THEN s
      ELSE [s EXCEPT !.view = [v \in mine \cap Tiled(s, w) |->
                                 [s.view[v] EXCEPT !.home.snap = Tiled(s, w)]] @@ @]
RefreshGroup(s, o) == FoldLeft(RefreshDisplaced, s, s.group[o].ws)

OriginOf(s, o, w) ==
  IF Displaced(s, w) THEN s.info[w].origin
  ELSE [output |-> o, name |-> s.info[w].name, index |-> s.info[w].index]

\* rememberWorkspace: windows without a home get this workspace as theirs.  guard marks
\* native windows whose layout is about to be mixed with refugees.
RememberWorkspace(s, w, o, guard) ==
  LET tiled  == Tiled(s, w)
      marked == {v \in Residents(s, w) : ~HasHome(s, v) /\ (guard => v \in tiled)}
      home(v) == [at |-> OriginOf(s, o, w), guard |-> guard,
                  snap |-> IF v \in tiled THEN tiled ELSE {}]
  IN  [s EXCEPT !.view = [v \in marked |-> [s.view[v] EXCEPT !.home = home(v)]] @@ @]

RefugesOf(s, o, key) == {w \in Visible(s, o) : s.info[w].origin = key}

\* Mutant: the limit of the receiving output is not checked.
TakesAlways(s, o, key) == TRUE
\* displacedDestination finds the temporary workspace for this home, or opens one.
Takes(s, o, key) == RefugesOf(s, o, key) # {} \/ HasRoom(s, o)
OpenRefuge(s, o, key) ==
  IF RefugesOf(s, o, key) # {} THEN s
  ELSE LET m == Mint(s, o, key.name, Len(s.group[o].ws) + 1)
       IN  [m EXCEPT !.info[Last(m.group[o].ws)].origin = key]

\* displacedWorkspaceDestination: the preferred output, then the others.
Host(s, key, preferred, excluded) ==
  LET able == {o \in Outputs \ {excluded} : On(s, o) /\ Takes(s, o, key)}
      rest == InOrder(able \ {preferred})
  IN  IF preferred \in able THEN preferred ELSE IF rest = <<>> THEN None ELSE Head(rest)
Shelter(s, key, preferred, excluded) ==
  LET o == Host(s, key, preferred, excluded)
  IN  IF o = None THEN s ELSE OpenRefuge(s, o, key)
\* The workspace Shelter found or opened.  When every output is full the windows are merged
\* into a native workspace of the preferred one.
Refuge(s, key, preferred, excluded) ==
  LET o == Host(s, key, preferred, excluded)
  IN  IF o # None THEN CHOOSE w \in RefugesOf(s, o, key) : TRUE
      ELSE IF preferred = None THEN None ELSE NativeFallback(s, preferred)

----------------------------------------------------------------------------
(* reassignOutputViews: the windows of o go to d, or nowhere when d is None.  order is the   *)
(* order of the window registry.                                                            *)

\* invalidateLaunchReservations: every anchor into the output is cut.
InvalidateLaunches(s, o) ==
  LET all  == Stored(s, o)
      cut  == [s EXCEPT
        !.token = [t \in {t \in Tokens : s.token[t] \in all} |-> Lost] @@ @,
        !.view  = [v \in {v \in Views : s.view[v].launch \in all} |->
                     [s.view[v] EXCEPT !.launch = Lost]] @@ @]
  IN  Destroy([cut EXCEPT !.group[o].reserved = <<>>], ToSet(s.group[o].reserved))

\* What the output was showing is remembered once per absence.
RememberSelection(s, o) ==
  LET a == s.group[o].active
  IN  IF a = None \/ Displaced(s, a) \/ s.selection[o] # None THEN s
      ELSE [s EXCEPT !.selection[o] = [name |-> s.info[a].name, index |-> s.info[a].index]]

\* The first batch that is mixed with native windows protects the layout they have.
Protect(s, refuge) ==
  IF refuge = None \/ s.protected THEN s
  ELSE IF Displaced(s, refuge) THEN s
  ELSE [RememberWorkspace(s, refuge, GroupOf(s, refuge), TRUE) EXCEPT !.protected = TRUE]

Unguard(s, v) ==
  IF HasHome(s, v) THEN [s EXCEPT !.view[v].home.guard = FALSE] ELSE s

\* One source workspace: batch holds its key and its windows as first captured.
EvacuateBatch(s, batch, sources, d, o) ==
  LET opened  == Shelter(s, batch.key, d, o)
      refuge  == Refuge(opened, batch.key, d, o)
      move(r, v) == IF refuge = None THEN LeaveWorkspace(r, v)
                    ELSE Enter(Unguard(r, v), v, refuge)
  IN  FoldLeft(move, Hold(Protect(opened, refuge), sources \cup {refuge}), batch.views)

Evacuate(s, o, d, order) ==
  LET ready  == RememberSelection(InvalidateLaunches(s, o), o)
      note(r, w) == RememberWorkspace(RefreshDisplaced(r, w), w, o, FALSE)
      noted  == FoldLeft(note, ready, ready.group[o].ws)
      occupied == SelectSeq(noted.group[o].ws, LAMBDA w : HasViews(noted, w))
      batch(w) == [key |-> OriginOf(noted, o, w), views |-> Only(order, Residents(noted, w))]
      move(r, b) == EvacuateBatch(r, b, ToSet(occupied), d, o)
      batches == [i \in DOMAIN occupied |-> batch(occupied[i])]
  IN  ReconcileDynamic(Hold(FoldLeft(move, noted, batches), {}), o)

----------------------------------------------------------------------------
(* restoreDisplacedViews: f is the preferred output *)

\* A recreated dynamic group is grown until it has the remembered position.
Grow(s, o, i) ==
  IF ~s.group[o].dynamic THEN s
  ELSE FoldLeft(LAMBDA r, n : InsertDynamicWorkspace(r, o, Len(r.group[o].ws) + 1),
                s, [n \in 1..(i - Len(s.group[o].ws)) |-> n])
Entry(s, o, i) == IF i \in DOMAIN s.group[o].ws THEN s.group[o].ws[i] ELSE None

\* The workspace at an anonymous position, as hit; a named or temporary one that has taken
\* the position meanwhile is pushed back by a new one, if there is room for it.
HitEntry(s, o, i) == [s EXCEPT !.hit = Entry(s, o, i)]
MakeWay(g, o, i) ==
  LET w == Entry(g, o, i)
      taken == g.group[o].dynamic /\ w # None /\ (g.info[w].name # Anon \/ Displaced(g, w))
  IN  IF ~taken THEN [g EXCEPT !.hit = w]
      ELSE IF HasRoom(g, o) THEN HitEntry(InsertDynamicWorkspace(g, o, i), o, i)
      ELSE [g EXCEPT !.hit = None]
Materialize(s, o, i) == MakeWay(Grow(s, o, i), o, i)

\* The workspace a home selects on its returned output.
Resolve(s, at) ==
  IF at.name # Anon THEN [s EXCEPT !.hit = WorkspaceNamed(s, at.output, at.name)]
  ELSE Materialize(s, at.output, at.index)

\* The snapshot most of the windows share, the larger one first.
ExactSnapshot(s, views) ==
  LET snaps == {s.view[v].home.snap : v \in views} \ {{}}
      share(x) == Cardinality({v \in views : s.view[v].home.snap = x})
  IN  IF snaps = {} THEN {}
      ELSE CHOOSE x \in snaps : \A y \in snaps :
             \/ share(x) > share(y)
             \/ share(x) = share(y) /\ Cardinality(x) >= Cardinality(y)

\* retainHome
Retains(s, home, v, w, exact, matched, available, awaited) ==
  LET foreign == \E u \in Residents(s, w) :
                   HasHome(s, u) /\ At(s, u).output # home.at.output
  IN  \/ ~available
      \/ home.guard /\ exact # {} /\ foreign
      \/ awaited /\ home.snap = exact
      \/ ~IsMapped(s, v) /\ matched /\ home.snap # {}

\* The windows of one home enter w: first those of the exact snapshot, which may need their
\* order, then all of them in turn, and each forgets the home it has no more use for.
Settle(s, views, w, matched, available) ==
  LET all   == ToSet(views)
      exact == IF matched THEN ExactSnapshot(s, all) ELSE {}
      inExact(v) == exact # {} /\ s.view[v].home.snap = exact
      awaited == \E v \in all : inExact(v) /\ ~IsMapped(s, v)
      clear(r, v) == IF Retains(r, r.view[v].home, v, w, exact, matched, available, awaited)
                     THEN r ELSE [r EXCEPT !.view[v].home = None]
      step(r, x) == IF r.view[x.view].ws = w THEN r ELSE Enter(r, x.view, w)
      turn(r, x) == step(IF x.last THEN clear(r, x.view) ELSE r, x)
      queue(q, last) == [i \in DOMAIN q |-> [view |-> q[i], last |-> last]]
  IN  FoldLeft(turn, s, queue(SelectSeq(views, inExact), FALSE) \o queue(views, TRUE))

\* Windows whose home is still away are sheltered if they have no workspace at all.
SettleAway(s, b, views, f) ==
  LET w == Refuge(s, b.at, f, None)
      own == w # None /\ Displaced(s, w)
      homeless == SelectSeq(views, LAMBDA v : s.view[v].ws = None)
  IN  IF w = None THEN s
      ELSE Hold(Settle(Hold(s, IF own THEN {w} ELSE {}), IF own THEN views ELSE homeless,
                       w, own, FALSE), {})

SettleHome(r, b, views) ==
  LET found == IF r.hit # None /\ Displaced(r, r.hit) THEN None ELSE r.hit
      w == IF found # None THEN found ELSE NativeFallback(r, b.at.output)
  IN  IF w = None THEN r ELSE Settle(r, views, w, found # None, TRUE)

\* Mutant: the later positions are filled first.
BeforeBackwards(s, a, b) ==
  LET back(x) == On(s, x.at.output)
  IN  \/ back(a) /\ ~back(b)
      \/ back(a) = back(b) /\ a.at.index > b.at.index
\* Batches are the windows of one home; homes that are back go first, in the order of the
\* positions they ask for.
Before(s, a, b) ==
  LET back(x) == On(s, x.at.output)
      place(x) == Position(SetToSeq(Outputs), x.at.output)
      rank(x) == << IF back(x) THEN 0 ELSE 1, IF back(x) /\ x.guard THEN 1 ELSE 0,
                    place(x), x.at.index, IF x.at.name = Anon THEN 0 ELSE 1 >>
      ra == rank(a) rb == rank(b)
  IN  \E i \in 1..5 : ra[i] < rb[i] /\ \A j \in 1..(i - 1) : ra[j] = rb[j]
KeyOf(s, v) == [at |-> At(s, v), guard |-> s.view[v].home.guard]

RestoreHomes(s, f, order) ==
  LET displaced == {v \in Views : HasHome(s, v)}
      keys == SetToSortSeq({KeyOf(s, v) : v \in displaced}, LAMBDA a, b : Before(s, a, b))
      views(b) == Only(order, {v \in displaced : KeyOf(s, v) = b})
      settle(r, b) ==
        IF On(s, b.at.output) THEN SettleHome(Resolve(r, b.at), b, views(b))
        ELSE IF \A v \in ToSet(views(b)) : r.view[v].ws # None THEN r
        ELSE SettleAway(Shelter(r, b.at, f, None), b, views(b), f)
  IN  FoldLeft(settle, s, keys)

\* Mutant: a window without a workspace is not looked for.
AdoptNobody(s, f, order) == s
\* A window that mapped while every output was away never had a workspace.
AdoptOrphans(s, f, order) ==
  LET adopt(r, v) == IF IsMapped(r, v) /\ r.view[v].ws = None /\ r.group[f].active # None
                     THEN SetWorkspace(r, v, r.group[f].active) ELSE r
  IN  FoldLeft(adopt, s, order)

\* What a returned output showed is shown again.
Reselected(r, o) ==
  LET sel == r.selection[o]
      there == Entry(r, o, Min({sel.index, Len(r.group[o].ws)}))
      full  == sel.name = Anon /\ Entry(r, o, sel.index) # None
      found == IF r.hit # None THEN r.hit ELSE IF full THEN r.group[o].active ELSE there
  IN  IF found # None /\ Displaced(r, found) THEN NativeFallback(r, o) ELSE found
Reselect(r, o, w) ==
  IF w = None THEN r ELSE [Activate(r, o, w, FALSE) EXCEPT !.selection[o] = None]
ReselectIn(r, o) == Reselect(r, o, Reselected(r, o))
RestoreSelection(s, o) ==
  LET sel == s.selection[o]
  IN  IF sel = None \/ ~On(s, o) THEN s
      ELSE ReselectIn(Resolve(s, [output |-> o, name |-> sel.name, index |-> sel.index]), o)

RestoreDisplaced(s, f, order) ==
  LET fresh == FoldLeft(RefreshGroup, s, SetToSeq(Outputs))
      home  == AdoptOrphans(RestoreHomes(fresh, f, order), f, order)
  IN  FoldLeft(RestoreSelection, home, SetToSeq(Outputs))
----------------------------------------------------------------------------
(* State and steps.  hit and protected are local to a handler. *)

Whole == [power |-> power, due |-> due, selection |-> selection, dangling |-> dangling,
          departures |-> departures, hit |-> None, protected |-> FALSE] @@ Now

Settled(s) ==
  /\ Become(s)
  /\ power' = s.power /\ due' = s.due
  /\ selection' = s.selection /\ dangling' = s.dangling /\ departures' = s.departures

\* An output that is connected later has no group yet.
EvacuationInit ==
  /\ power \in [Outputs -> {"on", "gone"}]
  /\ \A o \in Portable : power[o] = "on"
  /\ InitWith(Lit)
  /\ due = FALSE /\ selection \in [Outputs -> {None}] /\ dangling = FALSE
  /\ departures = 0 /\ waited = 0

Orders == SetToSeqs(Views)
\* Another enabled output, in whatever order they were connected.
Fallbacks(o) == IF Lit \ {o} = {} THEN {None} ELSE Lit \ {o}
Schedule(s)  == [s EXCEPT !.due = TRUE]
ScheduleFor(s, v) == [s EXCEPT !.due = @ \/ view[v].home # None]
Powered(s, o, p) == [s EXCEPT !.power[o] = p]
Leaving(s, o, p) == [Powered(s, o, p) EXCEPT !.departures = @ + 1]

\* Gestures::cancelForOutput
Cancel(s, o) == IF s.gesture = o THEN FinishSwitch(s, 0) ELSE s

\* removeOutput: the windows leave, then the group is destroyed with the output.  Nothing is
\* scheduled.
DropGroup(s, o) == [Destroy(s, Stored(s, o)) EXCEPT !.group[o] = NewGroup(cfg[o])]
Disconnect(o, d, order) ==
  /\ power[o] # "gone" /\ departures < MaxDepartures
  /\ Settled(DropGroup(Evacuate(Leaving(Cancel(Whole, o), o, "gone"), o, d, order), o))

\* addOutput: a new group, which the configuration may keep off the desktop.
Connect(o, p) ==
  /\ power[o] = "gone"
  /\ Settled(Schedule(Build(Powered(Whole, o, p), o)))

\* A configuration or output-management change takes the output off the desktop; its group
\* stays.  Enabling it supersedes DPMS.
Disable(o, d, order) ==
  /\ power[o] \in {"on", "asleep"} /\ departures < MaxDepartures
  /\ Settled(Schedule(Evacuate(Leaving(Whole, o, "off"), o, d, order)))
\* Mutant: an output that is enabled again schedules no restoration.
EnableQuietly(o) == power[o] = "off" /\ Settled(Powered(Whole, o, "on"))
Enable(o) ==
  /\ power[o] = "off"
  /\ Settled(Schedule(Powered(Whole, o, "on")))

\* Output::setPowered: a sleeping output keeps its windows.
Sleep(o) ==
  /\ power[o] = "on" /\ departures < MaxDepartures
  /\ Settled(Leaving(Whole, o, "asleep"))
Wake(o)  == power[o] = "asleep" /\ Settled(Schedule(Powered(Whole, o, "on")))

\* onDisplacedRestoreIdle; f is the enabled output under the pointer, or any when the pointer
\* is over none.
Restore(f, order) ==
  LET ready == [Whole EXCEPT !.due = FALSE]
  IN  /\ due
      /\ f \in Lit \/ (f = None /\ Lit = {})
      /\ Settled(IF f = None THEN ready ELSE RestoreDisplaced(ready, f, order))

\* handleMap, as far as it places the window: on the preferred output's active workspace,
\* which takes the focus.
MapWindow(v, w) ==
  /\ view[v].phase # "mapped"
  /\ w \in (IF Lit = {} \/ view[v].ws # None THEN {None} ELSE {group[o].active : o \in Lit})
  /\ Settled(ScheduleFor(ReconcileHome(FocusView(Admit(Whole, v, w), v, FALSE), v), v))
UnmapWindow(v) ==
  LET u == [Whole EXCEPT !.view[v].phase = "unmapped"]
  IN  /\ view[v].phase = "mapped"
      /\ Settled(ScheduleFor(ReconcileHome(u, v), v))
DestroyWindow(v) ==
  /\ view[v].phase = "unmapped"
  /\ Settled(ScheduleFor([LeaveWorkspace(Whole, v) EXCEPT !.view[v] = NewView], v))

\* moveToWorkspace: a window that is sent somewhere has no other home any more.  Bound: it is
\* sent to the workspace an output shows.
MoveWindow(v, w) ==
  /\ view[v].phase = "mapped" /\ view[v].ws \notin {None, w}
  /\ w \in {group[o].active : o \in Lit}
  /\ Settled(ScheduleFor(SetWorkspace([Whole EXCEPT !.view[v].home = None], v, w), v))

\* Steps of WorkspaceGroup that concern no home.
Undisturbed == UNCHANGED <<power, due, selection, dangling, departures>>
Show(o, w)  == On(Whole, o) /\ w # group[o].active /\ Select(o, w, FALSE) /\ Undisturbed

OutputChange ==
  \/ \E o \in Portable :
    \/ \E d \in Fallbacks(o) : \E order \in Orders :
         Disconnect(o, d, order) \/ Disable(o, d, order)
    \/ Sleep(o)
  \/ \E o \in Outputs : \E p \in {"on", "off"} : Connect(o, p)
  \/ \E o \in Outputs : Enable(o) \/ Wake(o)
RestoreStep == \E f \in Outputs \cup {None} : \E order \in Orders : Restore(f, order)
WindowChange ==
  \E v \in Views :
    \/ \E w \in AllListed \cup {None} : MapWindow(v, w)
    \/ \E w \in AllListed : MoveWindow(v, w)
    \/ UnmapWindow(v) \/ DestroyWindow(v)
ShowStep == \E o \in Outputs : \E w \in Listed(o) : Show(o, w)

\* What the program does after it used a destroyed workspace is undefined.
EvacuationNext ==
  /\ ~dangling
  /\ \/ (OutputChange \/ RestoreStep) /\ waited' = 0
     \/ /\ WindowChange \/ ShowStep
        /\ due => waited < MaxWaiting
        /\ waited' = IF due THEN waited + 1 ELSE 0
EvacuationSpec == EvacuationInit /\ [][EvacuationNext]_evacuationVars

----------------------------------------------------------------------------
(* Properties *)

Keys == [output : Outputs, name : Names \cup {Anon}, index : 1..(Limit + 1)]

\* The shape of the state that WorkspaceGroup does not have.  A snapshot holds the window that
\* keeps it.
EvacuationTypeOK ==
  /\ power \in [Outputs -> {"on", "asleep", "off", "gone"}]
  /\ due \in BOOLEAN /\ dangling \in BOOLEAN
  /\ \A w \in Ids : info[w].origin \in Keys \cup {None}
  /\ \A v \in Views : view[v].home \in
       [at : Keys, guard : BOOLEAN, snap : {{}} \cup {S \in SUBSET Views : v \in S}] \cup {None}

\* No window is stranded: once the restoration has run and an output is enabled, every mapped
\* window is on an output that is on or asleep.
NothingStranded ==
  ~due /\ ~dangling /\ Lit # {} =>
    \A v \in Views : IsMapped(Whole, v) =>
      /\ view[v].ws # None
      /\ power[GroupOf(Whole, view[v].ws)] \in {"on", "asleep"}

\* Temporary workspaces come and go with the windows they shelter (or stay on display), and
\* count towards kMaxWorkspaces like any other.
RefugesInUse ==
  \A o \in Outputs :
    /\ StoredCount(Whole, o) <= Limit
    /\ \A w \in Listed(o) : Displaced(Whole, w) => HasViews(Whole, w) \/ w = group[o].active

\* Once the restoration has run, a mapped window is away from a home on an enabled output only
\* for the sake of an unmapped peer of its layout.
HomesSettled ==
  ~due /\ ~dangling => \A v \in Views :
    IsMapped(Whole, v) /\ HasHome(Whole, v) /\ On(Whole, At(Whole, v).output) =>
      \/ view[v].ws \in Stored(Whole, At(Whole, v).output)
      \/ \E u \in Views : /\ ~IsMapped(Whole, u) /\ HasHome(Whole, u)
                          /\ At(Whole, u) = At(Whole, v)

\* What the restoration owes the windows it is for: none without a screen, none kept from home.
WindowsSettled == NothingStranded /\ HomesSettled

\* No handler uses a workspace that its own calls have destroyed.
TargetsLive == ~dangling

\* Windows come back to the output they left, those of one workspace together and those of two
\* apart, unless the output has become too full for that.
ReturnTogether ==
  [][due /\ ~due' /\ ~dangling' =>
       \A u, v \in {v \in Views : IsMapped(Whole, v) /\ HasHome(Whole, v)} :
         LET at == At(Whole, u)
             back == On(Whole, at.output) /\ At(Whole, v).output = at.output
             home == ToSet(group'[at.output].ws)
         IN  back => /\ view'[u].ws \in home
                     /\ At(Whole, v) = at => view'[v].ws = view'[u].ws
                     /\ view'[v].ws = view'[u].ws =>
                          \/ At(Whole, v) = at
                          \/ /\ Cardinality(home) = Limit
                             /\ \A w \in home : info'[w].name # Anon \/ \E x \in Views : view'[x].ws = w
                 ]_evacuationVars

=============================================================================
