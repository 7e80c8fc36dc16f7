------------------------- MODULE WorkspaceProperties -------------------------
(***************************************************************************)
(* What the workspace inventory promises, as predicates on the state of     *)
(* WorkspaceGroup and on its steps.                                         *)
(***************************************************************************)
EXTENDS WorkspaceGroup

Ref == Ids \cup {None}
NameOrAnon == Names \cup {Anon}

\* The shape of the state.
TypeOK ==
  /\ \A o \in Outputs :
       LET g == group[o] IN
         /\ g.ws \in Seq(Ids) /\ g.reserved \in Seq(Ids)
         /\ g.active \in Ref /\ g.previous \in Ref
         /\ {g.slide.base, g.slide.prev, g.slide.next} \subseteq Ref
         /\ g.slide.settling \in BOOLEAN /\ g.dynamic \in BOOLEAN
         /\ g.transferredNames \subseteq Names
  /\ info \in [Ids -> [name : NameOrAnon, index : 0..(Limit + 1), transferred : BOOLEAN,
                       origin : {None}]]
  /\ view \in [Views -> [phase : {"new", "mapped", "unmapped"}, ws : Ref,
                         pin : {"no", "pinned", "suspended"}, launch : Ref \cup {Lost},
                         home : {None}]]
  /\ token \in [Tokens -> Ref \cup {Lost}]
  /\ gesture \in Outputs \cup {None} /\ overview \in BOOLEAN /\ cfg \in Configs

\* Every pointer the code keeps leads to a live workspace of the right output: the active,
\* previous and slide pointers to a visible one of their group, a window's membership and a
\* launch anchor to a stored one.  Nothing destroys a workspace and forgets a pointer to it.
PointersLive ==
  /\ \A o \in Outputs :
       LET g == group[o] IN
         {g.active, g.previous, g.slide.base, g.slide.prev, g.slide.next} \ {None}
           \subseteq Listed(o)
  /\ ({view[v].ws : v \in Views} \cup {view[v].launch : v \in Views}
        \cup {token[t] : t \in Tokens}) \ {None, Lost} \subseteq AllStored(Now)

\* One workspace has one place: it is not listed twice, not both shown and retained, and not
\* owned by two outputs after transfers and restores; and its cached index, which slides and
\* restores trust, is its position.
OnePlaceEach ==
  /\ \A o \in Outputs :
       /\ Cardinality(Stored(Now, o)) = StoredCount(Now, o)
       /\ \A i \in DOMAIN group[o].ws : info[group[o].ws[i]].index = i
  /\ \A o, d \in Outputs : o # d => Stored(Now, o) \cap Stored(Now, d) = {}

\* However often workspaces change outputs, everything that refers to one finds it, in one place.
PlacesSound == PointersLive /\ OnePlaceEach

\* Retained launch destinations count toward kMaxWorkspaces, and a dynamic output never
\* shows fewer workspaces than min_workspaces, however moves, transfers, retained
\* destinations and reloads combine.
CountInBounds ==
  \A o \in Outputs :
    /\ StoredCount(Now, o) <= Limit
    /\ group[o].dynamic /\ cfg[o].dynamic => Len(group[o].ws) >= cfg[o].min

\* A retained workspace is one nobody can see or is about to use: anonymous, without mapped
\* windows, and not awaited by a window: a claimed destination stays visible until the
\* first map.
RetainedIsQuiet ==
  \A o \in Outputs : \A w \in ToSet(group[o].reserved) :
    info[w].name = Anon /\ ~HasMapped(Now, w) /\ ~Pending(Now, w)

\* Declared names stay unique on an output through reloads and transfers.
NamesUnique ==
  \A o \in Outputs : \A i, j \in DOMAIN group[o].ws :
    /\ i # j
    /\ info[group[o].ws[i]].name # Anon
    => info[group[o].ws[i]].name # info[group[o].ws[j]].name

\* Every declared name that was not transferred away is on its output while no slide defers
\* the inventory, unless no workspace could take it.  Two cases wait for a later pass: a
\* workspace whose only window has just been pinned, as setPinned reconciles nothing, and
\* room that pruning makes after the names were placed, when a launch names a workspace.
NamesMaterialize ==
  \A o \in Outputs :
    /\ group[o].dynamic /\ cfg[o].dynamic /\ group[o].slide.base = None
    /\ \A w \in Listed(o) : ~LaunchReserved(Now, w)
    /\ HasRoom(Now, o) \/ \E w \in Reusable(Now, o) : ~HasMapped(Now, w)
    => ToSet(Declared(cfg[o])) \ group[o].transferredNames \subseteq VisibleNames(Now, o)

\* The edges of the inventory, outside a slide: while there is room the last workspace is an
\* empty anonymous one, and with empty_above so is the first, as a distinct entry.
SentinelsOutsideSlide ==
  \A o \in Outputs :
    /\ group[o].dynamic /\ cfg[o].dynamic
    /\ group[o].slide.base = None
    /\ HasRoom(Now, o)
    => /\ BackPlain(Now, o)
       /\ cfg[o].emptyAbove => FrontPlain(Now, o) /\ Len(group[o].ws) > 1

\* Outside a slide, an empty workspace nobody uses survives only as a sentinel or to keep
\* the output at min_workspaces.
NoStrays ==
  \A o \in Outputs : \A w \in Listed(o) :
    /\ group[o].dynamic /\ cfg[o].dynamic /\ group[o].slide.base = None
    /\ Plain(Now, w) /\ ~HasMapped(Now, w) /\ ~Pending(Now, w)
    /\ w \notin {group[o].active, Last(group[o].ws)}
    /\ cfg[o].emptyAbove => w # Head(group[o].ws)
    => Len(group[o].ws) <= cfg[o].min

\* Outside a slide the empty workspaces are those with a purpose: the sentinels there is room for
\* and the floor, all of them and no others.
EmptiesServe == SentinelsOutsideSlide /\ NoStrays

\* A pinned window is a member of its output's active workspace.
PinnedOnActive ==
  \A v \in Views :
    view[v].pin = "pinned" /\ view[v].ws # None
      => group[GroupOf(Now, view[v].ws)].active \in {view[v].ws, None}

----------------------------------------------------------------------------
(* What a step may never do *)

\* A window that stays mapped keeps a workspace, and its workspace survives on some output
\* unless the window itself moved: no reconciliation prunes a workspace under a window.
WindowKeepsWorkspace ==
  [][\A v \in Views :
       view[v].phase = "mapped" /\ view'[v].phase = "mapped" /\ view[v].ws # None
         => /\ view'[v].ws # None
            /\ \E o \in Outputs : view'[v].ws \in ToSet(group'[o].ws)]_vars

\* An unspent token keeps the workspace it recorded: it may be hidden or moved to another
\* output, but it is neither destroyed nor exchanged for another.
TokenKeepsWorkspace ==
  [][\A t \in Tokens :
       token[t] # None /\ token'[t] # None => token'[t] = token[t]]_vars

----------------------------------------------------------------------------
(* The abstract specification the inventory implements while its list is dynamic *)

Lifecycle == INSTANCE WorkspaceLifecycle WITH
  visible  <- [o \in Outputs |-> Listed(o)],
  retained <- [o \in Outputs |-> ToSet(group[o].reserved)],
  active   <- [o \in Outputs |-> group[o].active],
  mapped   <- {v \in Views : view[v].phase = "mapped"},
  home     <- [v \in Views |-> view[v].ws],
  launch   <- [v \in Views |-> view[v].launch]

\* Every handler is one step of WorkspaceLifecycle: in particular only a switch, a window's
\* arrival or move, or a transfer changes the workspace an output shows; no step closes a
\* workspace somebody uses or a token names; nothing is retained that no token names.
ImplementsLifecycle == Lifecycle!Spec

\* Every retained workspace is let go or comes back: a launch that never happens does not
\* keep its workspace against the limit for ever.
RetainedReleased ==
  \A o \in Outputs : \A w \in Ids :
    (w \in ToSet(group[o].reserved)) ~> (w \notin ToSet(group[o].reserved))

=============================================================================
