----------------------- MODULE WorkspaceLifecycleProofs -----------------------
(***************************************************************************)
(* WorkspaceLifecycle keeps its promises for any number of outputs,         *)
(* windows, tokens and workspaces and for any limit.                        *)
(*                                                                         *)
(* Every step is a demand of a client followed by tidying.  Demanded says   *)
(* what all demands have in common; Tidied shows once that tidying after    *)
(* such a demand restores the inductive invariant, and one lemma per action *)
(* shows that the action makes such a demand.                               *)
(***************************************************************************)
EXTENDS WorkspaceLifecycle, FiniteSetTheorems, TLAPS

\* The visible shelves a step starts to tidy: those of the state before it, but for a
\* transferred workspace, which has found its new place.
Placed(before) ==
  /\ before \in [Outputs -> SUBSET Ids]
  /\ UNION {before[o] : o \in Outputs} = Shown
  /\ \A o \in Outputs : before[o] \cap retained[o] = {}
  /\ \A o, d \in Outputs : o # d =>
       (before[o] \cup retained[o]) \cap (before[d] \cup retained[d]) = {}
  /\ \A o \in Outputs : Cardinality(before[o] \cup retained[o]) <= Limit

\* What a step's new demand may refer to: something visible before or after it, a token
\* and an unmapped window also something stored.
Demanded(before) ==
  /\ mapped' \subseteq Views
  /\ active' \in [Outputs -> Ref] /\ home' \in [Views -> Ref]
  /\ launch' \in [Views -> Ref] /\ token' \in [Tokens -> Ref]
  /\ \A o \in Outputs : active'[o] # None => active'[o] \in before[o] \cup visible'[o]
  /\ \A v \in mapped' : home'[v] # None => home'[v] \in Shown \cup Shown'
  /\ \A v \in Views : launch'[v] # None => launch'[v] \in Shown \cup Shown'
  /\ \A v \in Views \ mapped' : home'[v] # None => home'[v] \in AllStored'
  /\ \A t \in Tokens : token'[t] # None => token'[t] \in AllStored

----------------------------------------------------------------------------
(* Tidying *)

LEMMA ShelvesStayApart ==
  ASSUME NEW STATE before, Placed(before), TypeOK, Shelve(before)
  PROVE  OneShelf' /\ visible' \in [Outputs -> SUBSET Ids] /\ retained' \in [Outputs -> SUBSET Ids]
<1> DEFINE old(o) == before[o] \cup retained[o]
<1>1. /\ visible' \in [Outputs -> SUBSET Ids]
      /\ retained' \in [Outputs -> SUBSET Ids]
  BY DEF Shelve, OpenNew, Retain
<1>2. \A o \in Outputs : visible'[o] \cap retained'[o] = {}
  BY DEF Shelve, Retain
<1>3. \A o \in Outputs : Stored(o)' \subseteq old(o) \cup Opened(before, o)
  BY DEF Shelve, Retain, Closed, Opened, Stored
<1>4. \A o \in Outputs : before[o] \subseteq AllStored /\ retained[o] \subseteq AllStored
  BY DEF Placed, Shown, AllStored, Stored
<1>5. \A o, d \in Outputs : Opened(before, o) \cap old(d) = {}
  BY <1>4 DEF Shelve, OpenNew
<1>6. \A o, d \in Outputs : o # d => Stored(o)' \cap Stored(d)' = {}
  BY <1>3, <1>5 DEF Shelve, OpenNew, Placed
<1>7. QED
  BY <1>1, <1>2, <1>6 DEF OneShelf

LEMMA ShelvesStayWithinLimit ==
  ASSUME NEW STATE before, Placed(before), TypeOK, Shelve(before)
  PROVE  WithinLimit'
<1> SUFFICES ASSUME NEW o \in Outputs PROVE Cardinality(Stored(o)') <= Limit
  BY DEF WithinLimit
<1>1. CASE Opened(before, o) # {}
  BY <1>1 DEF Shelve, Room, Stored
<1>2. CASE Opened(before, o) = {}
  <2>1. Stored(o)' \subseteq before[o] \cup retained[o]
    BY <1>2 DEF Shelve, Retain, Closed, Opened, Stored
  <2>2. IsFiniteSet(before[o] \cup retained[o])
    <3>1. before[o] \cup retained[o] \subseteq Ids
      BY DEF Placed, TypeOK
    <3>2. QED
      BY <3>1, IdsAssumption, FS_Subset
  <2>3. /\ Cardinality(Stored(o)') \in Nat
        /\ Cardinality(Stored(o)') <= Cardinality(before[o] \cup retained[o])
        /\ Cardinality(before[o] \cup retained[o]) \in Nat
    BY <2>1, <2>2, FS_Subset, FS_CardinalityType
  <2>4. Cardinality(before[o] \cup retained[o]) <= Limit
    BY DEF Placed
  <2>5. QED
    BY <2>3, <2>4, IdsAssumption
<1>3. QED
  BY <1>1, <1>2

\* What is used after a step was not closed by it.
LEMMA UsedStaysVisible ==
  ASSUME NEW STATE before, Placed(before), Justified(before),
         NEW w, InUse(w)', NEW o \in Outputs, w \in before[o]
  PROVE  w \in visible'[o]
BY DEF Justified, Closed

\* What a token names after a step was not let go by it.
LEMMA HeldStaysStored ==
  ASSUME NEW STATE before, Placed(before), Justified(before), Shelve(before),
         NEW w, Held(w)', w \in AllStored
  PROVE  w \in AllStored'
<1>1. PICK o \in Outputs : w \in before[o] \/ w \in retained[o]
  BY DEF Placed, AllStored, Stored, Shown
<1>2. w \in visible'[o] \cup retained'[o]
  BY <1>1 DEF Justified, Closed
<1>3. QED
  BY <1>2 DEF AllStored, Stored

LEMMA Tidied ==
  ASSUME NEW STATE before, Placed(before), TypeOK,
         Shelve(before), Justified(before), Demanded(before)
  PROVE  ShelvesKept'
<1>1. OneShelf' /\ TypeOK'
  BY ShelvesStayApart DEF Demanded, TypeOK
<1>2. WithinLimit'
  BY ShelvesStayWithinLimit
<1>3. ASSUME NEW w, InUse(w)', w \in Shown \cup Shown'
      PROVE  w \in Shown'
  <2>1. CASE w \in Shown
    <3>1. PICK o \in Outputs : w \in before[o]
      BY <2>1 DEF Placed
    <3>2. w \in visible'[o]
      BY <1>3, <3>1, UsedStaysVisible
    <3>3. QED
      BY <3>2 DEF Shown
  <2>2. QED
    BY <1>3, <2>1
<1>4. UsedIsVisible'
  <2>1. ASSUME NEW o \in Outputs, active'[o] # None
        PROVE  active'[o] \in visible'[o]
    <3>1. InUse(active[o])'
      BY DEF InUse
    <3>2. active'[o] \in before[o] \cup visible'[o]
      BY <2>1 DEF Demanded
    <3>3. QED
      BY <3>1, <3>2, UsedStaysVisible
  <2>2. ASSUME NEW v \in mapped', home'[v] # None
        PROVE  home'[v] \in Shown'
    <3>1. InUse(home[v])'
      BY <2>2 DEF InUse
    <3>2. QED
      BY <1>3, <2>2, <3>1 DEF Demanded
  <2>3. ASSUME NEW v \in Views, launch'[v] # None
        PROVE  launch'[v] \in Shown'
    <3>1. InUse(launch[v])'
      BY DEF InUse
    <3>2. QED
      BY <1>3, <2>3, <3>1 DEF Demanded
  <2>4. QED
    BY <2>1, <2>2, <2>3 DEF UsedIsVisible
<1>5. RememberedIsStored'
  <2>1. ASSUME NEW t \in Tokens, token'[t] # None
        PROVE  token'[t] \in AllStored'
    <3>1. Held(token[t])'
      BY DEF Held
    <3>2. token'[t] \in AllStored
      BY <2>1 DEF Demanded
    <3>3. QED
      BY <3>1, <3>2, HeldStaysStored
  <2>2. ASSUME NEW v \in Views, home'[v] # None
        PROVE  home'[v] \in AllStored'
    <3>1. CASE v \in mapped'
      <4>1. home'[v] \in Shown'
        BY <1>4, <2>2, <3>1 DEF UsedIsVisible
      <4>2. QED
        BY <4>1 DEF Shown, AllStored, Stored
    <3>2. CASE v \notin mapped'
      BY <2>2, <3>2 DEF Demanded
    <3>3. QED
      BY <3>1, <3>2
  <2>3. QED
    BY <2>1, <2>2 DEF RememberedIsStored
<1>6. QED
  BY <1>1, <1>2, <1>4, <1>5 DEF ShelvesKept

----------------------------------------------------------------------------
(* What the actions have in common *)

LEMMA PlacedAsTheyAre ==
  ASSUME ShelvesKept
  PROVE  Placed(visible)
BY DEF ShelvesKept, TypeOK, OneShelf, WithinLimit, Placed, Shown, Stored

LEMMA StayDemands ==
  ASSUME ShelvesKept, Stay \/ Switch
  PROVE  /\ active' \in [Outputs -> Ref]
         /\ \A o \in Outputs : active'[o] # None => active'[o] \in visible[o] \cup visible'[o]
<1>1. \A o \in Outputs : active[o] # None => active[o] \in visible[o]
  BY DEF ShelvesKept, UsedIsVisible
<1>2. CASE Stay
  BY <1>1, <1>2 DEF Stay
<1>3. CASE Switch
  BY <1>1, <1>3 DEF Switch
<1>4. QED
  BY <1>2, <1>3

LEMMA RehomeDemands ==
  ASSUME NEW STATE before, ShelvesKept, Placed(before), NEW others, others \subseteq Views,
         Rehome(others),
         \A o \in Outputs : active'[o] # None => active'[o] \in before[o] \cup visible'[o]
  PROVE  /\ home' \in [Views -> Ref]
         /\ \A v \in others \cap mapped : home'[v] # None => home'[v] \in Shown \cup Shown'
         /\ \A v \in others \ mapped : home'[v] # None => home'[v] \in AllStored'
<1>1. home' \in [Views -> Ref]
  BY DEF Rehome
<1>2. ASSUME NEW v \in others \cap mapped, home'[v] # None
      PROVE  home'[v] \in Shown \cup Shown'
  <2>1. CASE home'[v] = home[v]
    BY <1>2, <2>1 DEF ShelvesKept, UsedIsVisible
  <2>2. ASSUME NEW o \in Outputs, home'[v] = active'[o]
        PROVE  home'[v] \in Shown \cup Shown'
    <3>1. home'[v] \in before[o] \cup visible'[o]
      BY <1>2, <2>2
    <3>2. before[o] \subseteq Shown /\ visible'[o] \subseteq Shown'
      BY DEF Placed, Shown
    <3>3. QED
      BY <3>1, <3>2
  <2>3. QED
    BY <1>2, <2>1, <2>2 DEF Rehome
<1>3. ASSUME NEW v \in others \ mapped, home'[v] # None
      PROVE  home'[v] \in AllStored'
  BY <1>3 DEF Rehome
<1>4. QED
  BY <1>1, <1>2, <1>3

\* Launches and tokens that are only given up keep referring to what they referred to.
LEMMA GivenUpIsFine ==
  ASSUME ShelvesKept
  PROVE  /\ \A v \in Views : launch[v] # None => launch[v] \in Shown
         /\ \A t \in Tokens : token[t] # None => token[t] \in AllStored
         /\ launch \in [Views -> Ref] /\ token \in [Tokens -> Ref]
         /\ \A v \in Views : Unlaunched(v) =>
              /\ launch' \in [Views -> Ref]
              /\ \A u \in Views : launch'[u] # None => launch'[u] \in Shown
         /\ \A t \in Tokens : Spent(t) =>
              /\ token' \in [Tokens -> Ref]
              /\ \A u \in Tokens : token'[u] # None => token'[u] \in AllStored
<1>1. /\ \A v \in Views : launch[v] # None => launch[v] \in Shown
      /\ \A t \in Tokens : token[t] # None => token[t] \in AllStored
      /\ launch \in [Views -> Ref] /\ token \in [Tokens -> Ref]
  BY DEF ShelvesKept, TypeOK, UsedIsVisible, RememberedIsStored
<1>2. None \in Ref
  BY DEF Ref
<1>3. QED
  BY <1>1, <1>2 DEF Unlaunched, Spent

\* A step that switches nothing or something, and lets everybody but its subjects be.
LEMMA OthersDemand ==
  ASSUME ShelvesKept, NEW others, others \subseteq Views, Stay \/ Switch, Rehome(others)
  PROVE  /\ Placed(visible) /\ mapped \subseteq Views
         /\ active' \in [Outputs -> Ref] /\ home' \in [Views -> Ref]
         /\ \A o \in Outputs : active'[o] # None => active'[o] \in visible[o] \cup visible'[o]
         /\ \A v \in others \cap mapped : home'[v] # None => home'[v] \in Shown \cup Shown'
         /\ \A v \in others \ mapped : home'[v] # None => home'[v] \in AllStored'
<1>1. Placed(visible) /\ mapped \subseteq Views
  BY PlacedAsTheyAre DEF ShelvesKept, TypeOK
<1>2. /\ active' \in [Outputs -> Ref]
      /\ \A o \in Outputs : active'[o] # None => active'[o] \in visible[o] \cup visible'[o]
  BY StayDemands
<1>3. QED
  BY <1>1, <1>2, RehomeDemands

----------------------------------------------------------------------------
(* One lemma per action *)

LEMMA MapViewKeeps == ASSUME ShelvesKept, NEW v \in Views, MapView(v) PROVE ShelvesKept'
<1>1. Demanded(visible)
  BY OthersDemand, GivenUpIsFine DEF MapView, Demanded
<1>2. QED
  BY <1>1, PlacedAsTheyAre, Tidied DEF MapView, ShelvesKept

LEMMA UnmapViewKeeps == ASSUME ShelvesKept, NEW v \in Views, UnmapView(v) PROVE ShelvesKept'
<1>1. Demanded(visible)
  BY OthersDemand, GivenUpIsFine DEF UnmapView, Demanded
<1>2. QED
  BY <1>1, PlacedAsTheyAre, Tidied DEF UnmapView, ShelvesKept

LEMMA DestroyViewKeeps == ASSUME ShelvesKept, NEW v \in Views, DestroyView(v) PROVE ShelvesKept'
<1>1. Demanded(visible)
  BY OthersDemand, GivenUpIsFine DEF DestroyView, Demanded
<1>2. QED
  BY <1>1, PlacedAsTheyAre, Tidied DEF DestroyView, ShelvesKept

LEMMA MoveViewKeeps == ASSUME ShelvesKept, NEW v \in Views, MoveView(v) PROVE ShelvesKept'
<1>1. Demanded(visible)
  BY OthersDemand, GivenUpIsFine DEF MoveView, Demanded
<1>2. QED
  BY <1>1, PlacedAsTheyAre, Tidied DEF MoveView, ShelvesKept

LEMMA SwitchWorkspaceKeeps == ASSUME ShelvesKept, SwitchWorkspace PROVE ShelvesKept'
<1>1. Demanded(visible)
  BY OthersDemand, GivenUpIsFine DEF SwitchWorkspace, Demanded
<1>2. QED
  BY <1>1, PlacedAsTheyAre, Tidied DEF SwitchWorkspace, ShelvesKept

\* A token may only record something visible; nothing is tidied.
LEMMA TrackTokenKeeps == ASSUME ShelvesKept, NEW t \in Tokens, TrackToken(t) PROVE ShelvesKept'
<1>1. PICK w \in {active[o] : o \in Outputs} \cup {home[v] : v \in mapped} :
        w # None /\ token' = [token EXCEPT ![t] = w]
  BY DEF TrackToken
<1>2. w \in AllStored /\ w \in Ref
  BY <1>1 DEF ShelvesKept, TypeOK, UsedIsVisible, RememberedIsStored, AllStored, Stored
<1>3. /\ token' \in [Tokens -> Ref]
      /\ \A u \in Tokens : token'[u] # None => token'[u] \in AllStored
  BY <1>1, <1>2, GivenUpIsFine
<1>4. UNCHANGED <<visible, retained, active, mapped, home, launch>>
  BY DEF TrackToken
<1>5. QED
  BY <1>3, <1>4 DEF ShelvesKept, TypeOK, OneShelf, WithinLimit, UsedIsVisible,
     RememberedIsStored, Stored, AllStored, Shown

LEMMA ClaimTokenKeeps ==
  ASSUME ShelvesKept, NEW t \in Tokens, NEW v \in Views, ClaimToken(t, v) PROVE ShelvesKept'
<1>1. /\ launch' \in [Views -> Ref]
      /\ \A u \in Views : launch'[u] # None => launch'[u] \in Shown \cup Shown'
  <2>1. CASE launch' = launch
    BY <2>1, GivenUpIsFine
  <2>2. ASSUME NEW w \in Shown', launch' = [launch EXCEPT ![v] = w]
        PROVE  /\ launch' \in [Views -> Ref]
               /\ \A u \in Views : launch'[u] # None => launch'[u] \in Shown \cup Shown'
    <3>1. w \in Ref
      BY <2>2 DEF ClaimToken, Shelve, OpenNew, Shown, Ref
    <3>2. QED
      BY <2>2, <3>1, GivenUpIsFine
  <2>3. QED
    BY <2>1, <2>2 DEF ClaimToken
<1>2. Demanded(visible)
  BY <1>1, OthersDemand, GivenUpIsFine DEF ClaimToken, Demanded
<1>3. QED
  BY <1>2, PlacedAsTheyAre, Tidied DEF ClaimToken, ShelvesKept

LEMMA ExpireTokenKeeps == ASSUME ShelvesKept, NEW t \in Tokens, ExpireToken(t) PROVE ShelvesKept'
<1>1. Demanded(visible)
  BY OthersDemand, GivenUpIsFine DEF ExpireToken, Demanded
<1>2. QED
  BY <1>1, PlacedAsTheyAre, Tidied DEF ExpireToken, ShelvesKept

LEMMA CancelLaunchKeeps == ASSUME ShelvesKept, NEW v \in Views, CancelLaunch(v) PROVE ShelvesKept'
<1>1. Demanded(visible)
  BY OthersDemand, GivenUpIsFine DEF CancelLaunch, Demanded
<1>2. QED
  BY <1>1, PlacedAsTheyAre, Tidied DEF CancelLaunch, ShelvesKept

\* A transferred workspace changes shelves but is on one at any time, and there is room.
LEMMA TransferPlaces ==
  ASSUME ShelvesKept, NEW o \in Outputs, NEW d \in Outputs, o # d, NEW w \in visible[o],
         Cardinality(Stored(d)) < Limit
  PROVE  Placed([visible EXCEPT ![o] = @ \ {w}, ![d] = @ \cup {w}])
<1> DEFINE before == [visible EXCEPT ![o] = @ \ {w}, ![d] = @ \cup {w}]
<1>1. /\ visible \in [Outputs -> SUBSET Ids] /\ retained \in [Outputs -> SUBSET Ids]
      /\ OneShelf /\ WithinLimit
  BY DEF ShelvesKept, TypeOK
<1>2. /\ before \in [Outputs -> SUBSET Ids]
      /\ before[o] = visible[o] \ {w} /\ before[d] = visible[d] \cup {w}
      /\ \A e \in Outputs \ {o, d} : before[e] = visible[e]
  BY <1>1
<1> HIDE DEF before
<1>3. UNION {before[e] : e \in Outputs} = Shown
  BY <1>2 DEF Shown
<1>4. \A e \in Outputs : before[e] \cap retained[e] = {}
  BY <1>1, <1>2 DEF OneShelf, Stored
<1>5. \A e, f \in Outputs : e # f =>
        (before[e] \cup retained[e]) \cap (before[f] \cup retained[f]) = {}
  BY <1>1, <1>2 DEF OneShelf, Stored
<1>6. ASSUME NEW e \in Outputs
      PROVE  Cardinality(before[e] \cup retained[e]) <= Limit
  <2>1. IsFiniteSet(Stored(e)) /\ Cardinality(Stored(e)) \in Nat
    <3>1. Stored(e) \subseteq Ids
      BY <1>1 DEF Stored
    <3>2. QED
      BY <3>1, IdsAssumption, FS_Subset, FS_CardinalityType
  <2>2. CASE e = d
    <3>1. before[e] \cup retained[e] = Stored(e) \cup {w}
      BY <1>2, <2>2 DEF Stored
    <3>2. \/ Cardinality(Stored(e) \cup {w}) = Cardinality(Stored(e))
          \/ Cardinality(Stored(e) \cup {w}) = Cardinality(Stored(e)) + 1
      BY <2>1, FS_AddElement
    <3>3. Cardinality(Stored(e)) < Limit
      BY <2>2
    <3>4. \A k, n \in Nat : k < Limit /\ (n = k \/ n = k + 1) => n <= Limit
      BY IdsAssumption
    <3>5. Cardinality(Stored(e) \cup {w}) \in Nat
      BY <2>1, <3>2
    <3>6. Cardinality(Stored(e) \cup {w}) <= Limit
      BY <2>1, <3>2, <3>3, <3>4, <3>5
    <3>7. QED
      BY <3>1, <3>6
  <2>3. CASE e # d
    <3>1. before[e] \cup retained[e] \subseteq Stored(e)
      BY <1>2, <2>3 DEF Stored
    <3>2. /\ Cardinality(before[e] \cup retained[e]) <= Cardinality(Stored(e))
          /\ Cardinality(before[e] \cup retained[e]) \in Nat
      BY <2>1, <3>1, FS_Subset, FS_CardinalityType
    <3>3. Cardinality(Stored(e)) <= Limit
      BY <1>1 DEF WithinLimit
    <3>4. QED
      BY <2>1, <3>2, <3>3, IdsAssumption
  <2>4. QED
    BY <2>2, <2>3
<1>7. Placed(before)
  BY <1>2, <1>3, <1>4, <1>5, <1>6 DEF Placed
<1>8. QED
  BY <1>7 DEF before

LEMMA TransferKeeps ==
  ASSUME ShelvesKept, NEW o \in Outputs, NEW w \in Ids, NEW d \in Outputs, Transfer(o, w, d)
  PROVE  ShelvesKept'
<1> DEFINE before == [visible EXCEPT ![o] = @ \ {w}, ![d] = @ \cup {w}]
<1>1. /\ o # d /\ w \in visible[o] /\ Cardinality(Stored(d)) < Limit
      /\ UNCHANGED <<mapped, launch, token>>
      /\ Shelve(before) /\ Switch /\ active'[o] # w /\ active'[d] = w
      /\ Rehome(Views) /\ Justified(before)
  BY DEF Transfer
<1>2. Placed(before)
  BY <1>1, TransferPlaces
<1>3. /\ active' \in [Outputs -> Ref]
      /\ \A e \in Outputs : active'[e] # None => active'[e] \in visible[e] \cup visible'[e]
  BY <1>1, StayDemands
<1>4. \A e \in Outputs : active'[e] # None => active'[e] \in before[e] \cup visible'[e]
  <2>1. \A e \in Outputs : visible[e] \ {w} \subseteq before[e]
    BY DEF ShelvesKept, TypeOK
  <2>2. w \in before[d]
    BY <1>1 DEF ShelvesKept, TypeOK
  <2>3. ASSUME NEW e \in Outputs, e # d, active'[e] = w, w \notin visible'[e]
        PROVE  FALSE
    <3>1. w \in visible[e]
      BY <1>3, <2>3, <1>1, IdsAssumption DEF ShelvesKept, TypeOK
    <3>2. e = o
      BY <1>1, <3>1 DEF ShelvesKept, OneShelf, Stored
    <3>3. QED
      BY <1>1, <2>3, <3>2
  <2>4. QED
    BY <1>1, <1>3, <2>1, <2>2, <2>3
<1> HIDE DEF before
<1>5. Demanded(before)
  <2>1. /\ home' \in [Views -> Ref]
        /\ \A v \in Views \cap mapped : home'[v] # None => home'[v] \in Shown \cup Shown'
        /\ \A v \in Views \ mapped : home'[v] # None => home'[v] \in AllStored'
    BY <1>1, <1>2, <1>4, RehomeDemands
  <2>2. mapped \subseteq Views
    BY DEF ShelvesKept, TypeOK
  <2>3. QED
    BY <1>1, <1>3, <1>4, <2>1, <2>2, GivenUpIsFine DEF Demanded
<1>6. QED
  BY <1>1, <1>2, <1>5, Tidied DEF ShelvesKept

----------------------------------------------------------------------------
(* The theorems *)

\* No promise of the invariant is ever broken: it holds initially and every step keeps it.
THEOREM Invariance == Spec => []ShelvesKept
<1>1. Init => ShelvesKept
  <2> SUFFICES ASSUME Init PROVE ShelvesKept
    OBVIOUS
  <2>1. TypeOK
    BY DEF Init, TypeOK, Ref
  <2>2. OneShelf /\ WithinLimit
    BY DEF Init, OneShelf, WithinLimit, Stored
  <2>3. UsedIsVisible /\ RememberedIsStored
    BY DEF Init, UsedIsVisible, RememberedIsStored
  <2>4. QED
    BY <2>1, <2>2, <2>3 DEF ShelvesKept
<1>2. ShelvesKept /\ [Next]_vars => ShelvesKept'
  <2> SUFFICES ASSUME ShelvesKept, [Next]_vars PROVE ShelvesKept'
    OBVIOUS
  <2>1. ASSUME NEW v \in Views,
               MapView(v) \/ UnmapView(v) \/ DestroyView(v) \/ MoveView(v) \/ CancelLaunch(v)
        PROVE  ShelvesKept'
    BY <2>1, MapViewKeeps, UnmapViewKeeps, DestroyViewKeeps, MoveViewKeeps, CancelLaunchKeeps
  <2>2. CASE SwitchWorkspace
    BY <2>2, SwitchWorkspaceKeeps
  <2>3. ASSUME NEW t \in Tokens,
               TrackToken(t) \/ ExpireToken(t) \/ \E v \in Views : ClaimToken(t, v)
        PROVE  ShelvesKept'
    BY <2>3, TrackTokenKeeps, ExpireTokenKeeps, ClaimTokenKeeps
  <2>4. ASSUME NEW o \in Outputs, NEW d \in Outputs, NEW w \in Ids, Transfer(o, w, d)
        PROVE  ShelvesKept'
    BY <2>4, TransferKeeps
  <2>5. CASE UNCHANGED vars
    BY <2>5 DEF vars, ShelvesKept, TypeOK, OneShelf, WithinLimit, UsedIsVisible,
       RememberedIsStored, Stored, AllStored, Shown
  <2>6. QED
    BY <2>1, <2>2, <2>3, <2>4, <2>5 DEF Next
<1>3. QED
  BY <1>1, <1>2, PTL DEF Spec

\* The state keeps its shape, whatever windows, tokens and switches do.
THEOREM TypeCorrect == Spec => []TypeOK
<1>1. ShelvesKept => TypeOK
  BY DEF ShelvesKept
<1>2. QED
  BY <1>1, Invariance, PTL

\* Reconciliations, restores and transfers never leave a workspace on two shelves.
THEOREM OneShelfAlways == Spec => []OneShelf
<1>1. ShelvesKept => OneShelf
  BY DEF ShelvesKept
<1>2. QED
  BY <1>1, Invariance, PTL

\* No output ever stores more workspaces than the limit, retained ones included.
THEOREM LimitHolds == Spec => []WithinLimit
<1>1. ShelvesKept => WithinLimit
  BY DEF ShelvesKept
<1>2. QED
  BY <1>1, Invariance, PTL

\* What a window, an output or a claimed launch uses is never closed.
THEOREM NothingUsedCloses == Spec => []UsedIsVisible
<1>1. ShelvesKept => UsedIsVisible
  BY DEF ShelvesKept
<1>2. QED
  BY <1>1, Invariance, PTL

\* What a token or an unmapped window remembers exists until it is let go.
THEOREM NothingRememberedIsLost == Spec => []RememberedIsStored
<1>1. ShelvesKept => RememberedIsStored
  BY DEF ShelvesKept
<1>2. QED
  BY <1>1, Invariance, PTL

\* A retained workspace is nobody's: what is used is visible, and shelves are apart.
THEOREM NothingRetainedIsUsed == Spec => []RetainedIsIdle
<1>1. ShelvesKept => RetainedIsIdle
  <2> SUFFICES ASSUME ShelvesKept, NEW o \in Outputs, NEW w \in retained[o], InUse(w)
               PROVE  FALSE
    BY DEF RetainedIsIdle
  <2>1. w # None
    BY IdsAssumption DEF ShelvesKept, TypeOK
  <2>2. w \notin Shown
    BY DEF ShelvesKept, OneShelf, Stored, Shown
  <2>3. w \in Shown
    BY <2>1 DEF ShelvesKept, UsedIsVisible, InUse, Shown
  <2>4. QED
    BY <2>2, <2>3
<1>2. QED
  BY <1>1, Invariance, PTL
=============================================================================
