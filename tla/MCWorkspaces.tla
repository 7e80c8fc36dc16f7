---------------------------- MODULE MCWorkspaces ----------------------------
(***************************************************************************)
(* Instances of WorkspaceGroup for TLC.  Workspace ids are interchangeable, *)
(* so states are compared by CanonicalView, which renames each id to its    *)
(* place in the inventories.                                                *)
(***************************************************************************)
EXTENDS WorkspaceProperties

Dynamic(names, min, above) ==
  [dynamic |-> TRUE, names |-> names, min |-> min, emptyAbove |-> above, animated |-> TRUE]
Fixed(names) ==
  [dynamic |-> FALSE, names |-> names, min |-> 1, emptyAbove |-> FALSE, animated |-> FALSE]
Still(c) == [c EXCEPT !.animated = FALSE]

CONSTANT n1
Everywhere(c) == [o \in Outputs |-> c]
Framed   == {Everywhere(Dynamic(<<n1>>, 1, TRUE))}
Plainest == {Everywhere(Dynamic(<<>>, 1, FALSE))}
Crowded  == Framed \cup {Everywhere(Fixed(<<Anon, Anon, Anon, Anon>>))}
Launched == Plainest \cup Framed
Sharing  == Plainest \cup {Everywhere(Still(Dynamic(<<n1>>, 1, FALSE)))}
Reloads  == {Everywhere(Dynamic(<<n1>>, 2, FALSE)), Everywhere(Fixed(<<Anon, n1>>))}

Refs(w) == <<{v \in Views : view[v].ws = w}, {v \in Views : view[v].launch = w},
             {t \in Tokens : token[t] = w}>>
Marks(o, w) == <<group[o].active = w, group[o].previous = w, group[o].slide.base = w,
                 group[o].slide.prev = w, group[o].slide.next = w>>
Entry(o, w) == IF w \in Ids THEN <<info[w], Marks(o, w), Refs(w)>> ELSE <<Marks(o, w), Refs(w)>>
CanonicalView ==
  << [o \in Outputs |->
        <<[i \in DOMAIN group[o].ws |-> Entry(o, group[o].ws[i])],
          [i \in DOMAIN group[o].reserved |-> Entry(o, group[o].reserved[i])],
          Marks(o, None), group[o].slide.settling, group[o].dynamic,
          group[o].transferredNames>>],
     Refs(None), Refs(Lost), [v \in Views |-> <<view[v].phase, view[v].pin>>],
     gesture, overview, cfg >>

ViewSymmetry == Permutations(Views)

\* One output: windows, switches and swipes.
InventoryNext == WindowStep \/ CloseStep \/ SwitchStep \/ SwipeStep \/ InventoryReload
InventorySpec == Init /\ [][InventoryNext]_vars

\* One output: launches among windows and switches.  The source times a token out after ten
\* seconds, and the frame clock ends every settle.
LaunchNext == WindowStep \/ CloseStep \/ PickStep \/ LaunchStep
LaunchFairness ==
  /\ \A t \in Tokens : []<>(token[t] = None)
  /\ \A o \in Outputs : []<>(~group[o].slide.settling)
LaunchSpec == Init /\ [][LaunchNext]_vars /\ LaunchFairness

\* Two outputs: transfers, pinned windows, windows moving between outputs.
OutputsNext == WindowStep \/ CloseStep \/ PickStep \/ TransferStep
  \/ \E o \in Outputs : DeactivateOnly(o)
  \/ \E v \in Views : PinView(v) \/ UnpinView(v)
OutputsSpec == Init /\ [][OutputsNext]_vars

\* One output, everything at once, and the configuration changes under it.
ReloadNext == WindowStep \/ CloseStep \/ PinStep \/ SwitchStep \/ SwipeStep \/ OverviewStep
  \/ LaunchStep \/ InventoryReload \/ LayoutReload
ReloadSpec == Init /\ [][ReloadNext]_vars

\* Pinned windows that turn fullscreen, among switches.
PinnedNext == WindowStep \/ CloseStep \/ PickStep \/ PinStep
PinnedSpec == Init /\ [][PinnedNext]_vars

=============================================================================
