-------------------------- MODULE WorkspaceLifecycle --------------------------
(***************************************************************************)
(* What the workspace inventory promises its clients: windows, launch       *)
(* tokens and the user who looks at an output.                              *)
(*                                                                         *)
(* A workspace stands on one of two shelves of one output: visible, or      *)
(* retained because a launch token still names it.  A client step changes   *)
(* the demand (who lives where, what is shown, what a launch waits for);    *)
(* with it every output may tidy its shelves, by the rules of Shelve and    *)
(* Justified.  Order, names, slides and sentinels are left to WorkspaceGroup *)
(* which implements this specification.                                     *)
(***************************************************************************)
EXTENDS Integers, FiniteSets

CONSTANTS Outputs, Views, Tokens, Ids, Limit, None

ASSUME IdsAssumption == IsFiniteSet(Ids) /\ None \notin Ids /\ Limit \in Nat

VARIABLES
  visible,   \* [Outputs -> workspaces an output lists]
  retained,  \* [Outputs -> hidden workspaces kept for a launch]
  active,    \* [Outputs -> the workspace an output shows]
  mapped,    \* the windows on screen
  home,      \* [Views -> the workspace a window belongs to]
  launch,    \* [Views -> the workspace an unmapped window was launched for]
  token      \* [Tokens -> the workspace an unspent launch token recorded]

vars == <<visible, retained, active, mapped, home, launch, token>>

Ref       == Ids \cup {None}
Stored(o) == visible[o] \cup retained[o]
AllStored == UNION {Stored(o) : o \in Outputs}
Shown     == UNION {visible[o] : o \in Outputs}

InUse(w) == \/ \E o \in Outputs : active[o] = w
            \/ \E v \in mapped : home[v] = w
            \/ \E v \in Views : launch[v] = w
Held(w)  == \E t \in Tokens : token[t] = w

----------------------------------------------------------------------------
(* Tidying.  before is the visible shelf of each output once a transfer has moved its       *)
(* workspace; it is visible itself in every other step.                                     *)

Opened(before, o) == visible'[o] \ (before[o] \cup retained[o])
Closed(before, o) == before[o] \ visible'[o]

\* What an output opens is new.
OpenNew(before) ==
  /\ visible' \in [Outputs -> SUBSET Ids]
  /\ \A o \in Outputs : Opened(before, o) \cap AllStored = {}
  /\ \A o, d \in Outputs : o # d => Opened(before, o) \cap Opened(before, d) = {}

\* Mutant: a restored workspace stays on the list of retained ones.
RetainTwice(before) ==
  /\ retained' \in [Outputs -> SUBSET Ids]
  /\ \A o \in Outputs : retained'[o] \subseteq retained[o] \cup Closed(before, o)
\* A workspace is retained when it leaves the visible shelf, and only then.
Retain(before) ==
  /\ retained' \in [Outputs -> SUBSET Ids]
  /\ \A o \in Outputs :
       retained'[o] \subseteq (retained[o] \cup Closed(before, o)) \ visible'[o]

\* Workspaces open only while there is room for them and the retained ones.
Room(before) ==
  \A o \in Outputs :
    Opened(before, o) # {} => Cardinality(visible'[o] \cup retained'[o]) <= Limit

Shelve(before) == OpenNew(before) /\ Retain(before) /\ Room(before)


\* Only an unused workspace closes, into retention if a token names it; a retained workspace
\* is let go only when no token does.
Justified(before) ==
  \A o \in Outputs :
    /\ \A w \in Closed(before, o) : ~InUse(w)' /\ (Held(w)' <=> w \in retained'[o])
    /\ \A w \in retained[o] \ (visible'[o] \cup retained'[o]) : ~Held(w)'

\* A window that is not the subject of a step keeps its home, follows its output's active
\* workspace if it is pinned, or, unmapped, loses a home that is closed for good.
Rehome(others) ==
  /\ home' \in [Views -> Ref]
  /\ \A v \in others :
       IF v \in mapped
       THEN \/ home'[v] = home[v]
            \/ \E o \in Outputs : /\ home[v] \in visible[o]
                                  /\ home'[v] = active'[o] /\ home'[v] # None
       ELSE home'[v] = IF home[v] \in AllStored' THEN home[v] ELSE None

\* What an output shows is changed by nothing but a switch.
Stay   == /\ active' \in [Outputs -> Ref]
          /\ \A o \in Outputs : \/ active'[o] = active[o]
                                \/ active[o] = None /\ active'[o] \in visible'[o]
Switch == /\ active' \in [Outputs -> Ref]
          /\ \A o \in Outputs :
               active'[o] \in {active[o], None} \/ active'[o] \in visible'[o]

----------------------------------------------------------------------------
(* Steps *)

Init ==
  /\ visible \in [Outputs -> SUBSET Ids]
  /\ \A o \in Outputs : Cardinality(visible[o]) <= Limit
  /\ \A o, d \in Outputs : o # d => visible[o] \cap visible[d] = {}
  /\ active \in [Outputs -> Ids]
  /\ \A o \in Outputs : active[o] \in visible[o]
  /\ retained = [o \in Outputs |-> {}] /\ mapped = {}
  /\ home = [v \in Views |-> None] /\ launch = [v \in Views |-> None]
  /\ token = [t \in Tokens |-> None]

Unlaunched(v) == launch' = [launch EXCEPT ![v] = None]
Spent(t)      == token' = [token EXCEPT ![t] = None]

\* A window maps into a visible workspace, which ends its launch, and may be shown.
MapView(v) ==
  /\ v \notin mapped /\ mapped' = mapped \cup {v} /\ Unlaunched(v) /\ token' = token
  /\ Shelve(visible) /\ Switch /\ Rehome(Views \ {v}) /\ home'[v] \in Shown'
  /\ Justified(visible)

UnmapView(v) ==
  /\ v \in mapped /\ mapped' = mapped \ {v} /\ UNCHANGED <<launch, token>>
  /\ Shelve(visible) /\ Stay /\ Rehome(Views \ {v})
  /\ home'[v] = IF home[v] \in AllStored' THEN home[v] ELSE None
  /\ Justified(visible)

DestroyView(v) ==
  /\ v \notin mapped /\ Unlaunched(v) /\ UNCHANGED <<mapped, token>>
  /\ Shelve(visible) /\ Stay /\ Rehome(Views \ {v}) /\ home'[v] = None
  /\ Justified(visible)

\* A window moves to a visible workspace, which the move may show.
MoveView(v) ==
  /\ v \in mapped /\ UNCHANGED <<mapped, launch, token>>
  /\ Shelve(visible) /\ Switch /\ Rehome(Views \ {v}) /\ home'[v] \in Shown'
  /\ Justified(visible)

\* A switch, the end of a slide, a workspace created on request, or nothing but tidying.
SwitchWorkspace ==
  /\ UNCHANGED <<mapped, launch, token>>
  /\ Shelve(visible) /\ Switch /\ Rehome(Views) /\ Justified(visible)

\* A token records what its output shows or where its window lives.
TrackToken(t) ==
  /\ token[t] = None
  /\ \E w \in {active[o] : o \in Outputs} \cup {home[v] : v \in mapped} :
       w # None /\ token' = [token EXCEPT ![t] = w]
  /\ UNCHANGED <<visible, retained, active, mapped, home, launch>>

\* A window claims a token and waits for the recorded workspace, or for the one an output
\* shows; it is visible from then on.
ClaimToken(t, v) ==
  /\ token[t] # None /\ Spent(t) /\ UNCHANGED mapped
  /\ Shelve(visible) /\ Stay /\ Rehome(Views)
  /\ \/ launch' = launch
     \/ \E w \in {token[t]} \cup {active[o] : o \in Outputs} :
          /\ v \notin mapped /\ launch[v] = None
          /\ w \in Shown' /\ launch' = [launch EXCEPT ![v] = w]
  /\ Justified(visible)

ExpireToken(t) ==
  /\ token[t] # None /\ Spent(t) /\ UNCHANGED <<mapped, launch>>
  /\ Shelve(visible) /\ Stay /\ Rehome(Views) /\ Justified(visible)

CancelLaunch(v) ==
  /\ launch[v] # None /\ Unlaunched(v) /\ UNCHANGED <<mapped, token>>
  /\ Shelve(visible) /\ Stay /\ Rehome(Views) /\ Justified(visible)

\* A workspace and its windows move to another output with room, which shows it; the source
\* shows another one.
Transfer(o, w, d) ==
  LET before == [visible EXCEPT ![o] = @ \ {w}, ![d] = @ \cup {w}]
  IN  /\ o # d /\ w \in visible[o] /\ Cardinality(Stored(d)) < Limit
      /\ UNCHANGED <<mapped, launch, token>>
      /\ Shelve(before) /\ Switch /\ active'[o] # w /\ active'[d] = w
      /\ Rehome(Views) /\ Justified(before)

Next ==
  \/ \E v \in Views : MapView(v) \/ UnmapView(v) \/ DestroyView(v) \/ MoveView(v)
                      \/ CancelLaunch(v)
  \/ SwitchWorkspace
  \/ \E t \in Tokens : TrackToken(t) \/ ExpireToken(t) \/ \E v \in Views : ClaimToken(t, v)
  \/ \E o, d \in Outputs : \E w \in Ids : Transfer(o, w, d)

Spec == Init /\ [][Next]_vars

----------------------------------------------------------------------------
(* The promises *)

\* The shape of the state.
TypeOK ==
  /\ visible \in [Outputs -> SUBSET Ids] /\ retained \in [Outputs -> SUBSET Ids]
  /\ active \in [Outputs -> Ref] /\ mapped \subseteq Views
  /\ home \in [Views -> Ref] /\ launch \in [Views -> Ref] /\ token \in [Tokens -> Ref]

\* A workspace stands on one shelf of one output: reconcileDynamic and transferTo move
\* ownership between m_workspaces, m_launchReservations and another group's list.
OneShelf ==
  /\ \A o \in Outputs : visible[o] \cap retained[o] = {}
  /\ \A o, d \in Outputs : o # d => Stored(o) \cap Stored(d) = {}

\* Retained workspaces count toward the limit (storedWorkspaceCount).
WithinLimit == \A o \in Outputs : Cardinality(Stored(o)) <= Limit

\* What somebody uses is on a visible shelf: never closed under a window, a launch that
\* waits for it, or the output that shows it.
UsedIsVisible ==
  /\ \A o \in Outputs : active[o] # None => active[o] \in visible[o]
  /\ \A v \in mapped : home[v] # None => home[v] \in Shown
  /\ \A v \in Views : launch[v] # None => launch[v] \in Shown

\* What somebody may still come back to exists: a token's workspace until the token is spent,
\* an unmapped window's home until it is let go.
RememberedIsStored ==
  /\ \A t \in Tokens : token[t] # None => token[t] \in AllStored
  /\ \A v \in Views : home[v] # None => home[v] \in AllStored

\* A retained workspace is nobody's: no window is on it, no output shows it, no launch that
\* was claimed waits for it.
RetainedIsIdle ==
  \A o \in Outputs : \A w \in retained[o] : ~InUse(w)

\* All of it at once: no promise is ever broken.  RetainedIsIdle follows from the others.
ShelvesKept == TypeOK /\ OneShelf /\ WithinLimit /\ UsedIsVisible /\ RememberedIsStored

=============================================================================
