------------------------------- MODULE MCLaunch -------------------------------
(***************************************************************************)
(* Instances of two components that share no state: launches in the         *)
(* inventory of workspaces, and the tiled windows.  A behaviour chooses its *)
(* subject at the start and is a behaviour of that component; the other     *)
(* stays as it began, with nothing the fairness of launches would have to   *)
(* do.                                                                      *)
(***************************************************************************)
EXTENDS MCWorkspaces, Tiling

CONSTANTS Subjects,   \* \subseteq {"launch", "tiles"}
          Main        \* the workspace that may hold every window

VARIABLE subject

tileVars == <<strip, home, kind, focused, hidden, members, unsettled, grab>>
subjectVars == <<subject, vars, tileVars>>

\* What distinguishes two states; the rest is as it was at the start, is set before it is read
\* again, or hides no window.
Distinct ==
  IF subject = "launch" THEN <<subject, vars>>
  ELSE <<subject, strip, [v \in Windows |-> IF kind[v] = "closed" THEN Nowhere ELSE home[v]],
         kind, focused, hidden, [w \in Workspaces |-> members[w] \cap hidden], unsettled, grab>>

\* Sound with the temporal properties of launches: no step of theirs knows these windows.
Interchangeable == Permutations(Windows)

----------------------------------------------------------------------------
(* Bounds of the tiles *)

\* Two steps of the code lose a tile or a hidden tab; behaviours end where one has.
NothingLost ==
  /\ TilesInStrip
  /\ \A v \in hidden : \/ v \in members[home[v]] \/ v \in ToSet(grab.lifted)
                       \/ HiddenTab(strip[home[v]], v)

\* A dragged window stays out of the strips, and the press that starts a drag keeps the focus.
PlainDrag ==
  /\ Dragging => \A v \in {grab.view} \cup ToSet(grab.lifted) : ~InStrip(strip[home[v]], v)
  /\ grab.pending => focused[home[grab.view]] = grab.view

\* Three windows tile one workspace, which is arranged when a drag starts; one of two may float.
FewWindows ==
  /\ Cardinality(Open) > 2 => /\ \A v \in Open : home[v] = Main
                               /\ unsettled \subseteq IF grab.pending THEN {} ELSE {Main}
  /\ Cardinality({v \in Windows : kind[v] = "floating"}) <= IF Cardinality(Open) > 2 THEN 0 ELSE 1

Within == subject = "tiles" => NothingLost /\ PlainDrag /\ FewWindows

----------------------------------------------------------------------------

SubjectInit == subject \in Subjects /\ Init /\ TilingInit

OfLaunch == subject = "launch" /\ LaunchNext /\ UNCHANGED <<subject, tileVars>>
OfTiles  == subject = "tiles" /\ TilingNext /\ UNCHANGED <<subject, vars>>

SubjectNext == OfLaunch \/ OfTiles
SubjectSpec == SubjectInit /\ [][SubjectNext]_subjectVars /\ LaunchFairness

=============================================================================
