------------------------------ MODULE Scratchpad ------------------------------
(***************************************************************************)
(* ScratchpadManager: windows set aside in named pads, shown on demand.     *)
(*                                                                         *)
(* A pad keeps raw pointers to the window it focused last and to the one it *)
(* shows alone, and its windows remember where they came from, an output    *)
(* and workspace that may be gone when they go back.  Outputs leave and     *)
(* return under the pads, and the configuration may drop a pad that is in   *)
(* use.                                                                     *)
(*                                                                         *)
(* A workspace is known by its output and, for the temporary workspace of   *)
(* an output that left, by that output; Evacuation has the inventory in     *)
(* full.  Geometry, fades, the backdrop and the spawn of a first window are *)
(* left out; of the keyboard focus, only what the pads decide.              *)
(***************************************************************************)
EXTENDS Integers, Sequences, FiniteSets, FiniteSetsExt, SequencesExt

CONSTANTS Screens,   \* the outputs
          Unsteady,  \* bound: the outputs that leave
          Windows,   \* windows that are placed on their own (attached dialogs are not)
          Pads,      \* scratchpad names the configuration may define
          Nobody,    \* no output, no window, no workspace
          Unmapped   \* the place of a window that is not mapped
\* Workspaces, where a window came from, and the pads.
Places == [on : Screens, for : Screens \cup {Nobody}]
Homes  == [to : Places \cup {Nobody}, held : BOOLEAN]
Entries == [view : Windows, pad : Pads, home : Homes]
PadRecords == [output : Screens \cup {Nobody}, visible : BOOLEAN, active : BOOLEAN,
               last : Windows \cup {Nobody}, solo : Windows \cup {Nobody},
               away : Screens \cup {Nobody}]
ASSUME ScreenAssumption ==
  /\ Screens # {} /\ Unsteady \subseteq Screens
  /\ Nobody \notin Screens \cup Windows /\ Unmapped # Nobody
  /\ Nobody \notin Places \cup PadRecords /\ Unmapped \notin Places
ASSUME FinitenessAssumption == IsFiniteSet(Windows) /\ IsFiniteSet(Pads)

VARIABLES
  pads,    \* m_scratchpads; Nobody for a name that is not defined
  members, \* m_entries
  noted,   \* m_focusedView
  focus,   \* the window of a pad that has the keyboard focus
  shown,   \* windows with View::onActiveWorkspace
  place,   \* [Windows -> workspace, Nobody (mapped, on none) or Unmapped]
  owner,   \* View::shellParent
  lit,     \* outputs on the desktop
  restoring, \* the displaced restoration is scheduled
  overviewOpen
padVars == <<pads, members, noted, focus, shown, place, owner, lit, restoring, overviewOpen>>

PadsNow == [pads |-> pads, members |-> members, noted |-> noted, focus |-> focus,
            shown |-> shown, place |-> place, owner |-> owner, lit |-> lit,
            restoring |-> restoring]
PadsBecome(s) ==
  /\ pads' = s.pads /\ members' = s.members /\ noted' = s.noted /\ focus' = s.focus
  /\ shown' = s.shown /\ place' = s.place /\ owner' = s.owner
  /\ lit' = s.lit /\ restoring' = s.restoring

NewPad == [output |-> Nobody, visible |-> FALSE, active |-> FALSE, last |-> Nobody,
           solo |-> Nobody, away |-> Nobody]
Native(o) == [on |-> o, for |-> Nobody]
RefugeOn(o, f) == [on |-> o, for |-> f]

----------------------------------------------------------------------------
(* Queries *)

Defined(s)      == {p \in Pads : s.pads[p] # Nobody}
EntriesOf(s, p) == {i \in DOMAIN s.members : s.members[i].pad = p}
MembersOf(s, p) == {s.members[i].view : i \in EntriesOf(s, p)}
InPad(s, v)     == \E i \in DOMAIN s.members : s.members[i].view = v
EntryOf(s, v)   == s.members[CHOOSE i \in DOMAIN s.members : s.members[i].view = v]
PadOf(s, v)     == EntryOf(s, v).pad

\* The windows a window is a dialog of, itself included: what every set that has it, and with a
\* dialog its parent, has.  Dialogs nest less deep than kMaxParentDepth.
Upward(s) == {S \in SUBSET Windows : \A u \in S : s.owner[u] # Nobody => s.owner[u] \in S}
Ancestors(s, v) == {u \in Windows : \A S \in Upward(s) : v \in S => u \in S}

\* presents
Presents(s, p, v) ==
  /\ s.pads[p].visible /\ s.pads[p].output # Nobody
  /\ s.pads[p].solo = Nobody \/ s.pads[p].solo \in Ancestors(s, v)
VisibleOn(s, o) == {p \in Defined(s) : s.pads[p].visible /\ s.pads[p].output = o}
RidesWithParent(s, v, p) ==
  LET w == s.owner[v] IN w # Nobody /\ InPad(s, w) /\ PadOf(s, w) = p
\* memberFor climbs kMaxParentDepth steps at most; Depth is as good.
Depth == Cardinality(Windows)
MemberFor(s, v, p) ==
  LET climb[n \in 0..Depth] == IF n = 0 THEN v
        ELSE IF RidesWithParent(s, climb[n - 1], p) THEN s.owner[climb[n - 1]] ELSE climb[n - 1]
  IN  climb[Depth]

\* Mutant: the window focused last is looked for among all windows of the pad.
ForgetLater(s, p, v) == s
\* forgetLastFocused hands over to the nearest ancestor in the same pad.
ForgetLastFocused(s, p, v) ==
  LET heirs == {u \in Ancestors(s, v) \ {v} : InPad(s, u) /\ PadOf(s, u) = p}
      near  == {u \in heirs : Ancestors(s, v) \cap heirs \subseteq Ancestors(s, u)}
  IN  IF s.pads[p].last # v THEN s
      ELSE [s EXCEPT !.pads[p].last = IF near = {} THEN Nobody ELSE CHOOSE u \in near : TRUE]

ActiveOn(s, o) == {p \in VisibleOn(s, o) : s.pads[p].active}
DeactivateOn(s, o) ==
  [s EXCEPT !.pads = [p \in Pads |-> IF p \in Defined(s) /\ s.pads[p].output = o
                                     THEN [s.pads[p] EXCEPT !.active = FALSE] ELSE s.pads[p]]]

\* focused(name)
Focused(s, p) ==
  LET r == s.pads[p]
  IN  IF ~r.visible \/ r.output = Nobody THEN Nobody
      ELSE IF r.last \in MembersOf(s, p) /\ Presents(s, p, r.last) THEN r.last
      ELSE IF r.solo # Nobody THEN r.solo
      ELSE IF MembersOf(s, p) = {} THEN Nobody ELSE s.members[Min(EntriesOf(s, p))].view

----------------------------------------------------------------------------
(* Showing and moving pads *)

PresentedBy(s, p) == {v \in MembersOf(s, p) : Presents(s, p, v)}

\* Exactly the members that p presents are on screen.
Present(s, p) == [s EXCEPT !.shown = (@ \ MembersOf(s, p)) \cup PresentedBy(s, p)]

Turned(r, visible) == [r EXCEPT !.visible = visible, !.solo = IF visible THEN @ ELSE Nobody,
                                !.active = visible /\ @]
SetVisible(s, p, visible) == Present([s EXCEPT !.pads[p] = Turned(@, visible)], p)

\* Mutant: a pad that is moved does not make room for itself.
CrowdIn(s, p, o) == s
\* Another pad that shows on o gives way.
GiveWay(s, p, o) ==
  LET rivals == VisibleOn(s, o) \ {p}
  IN  IF o = Nobody \/ rivals = {} THEN s
      ELSE SetVisible(s, CHOOSE q \in rivals : TRUE, FALSE)

MoveScratchpad(s, p, o, clear) ==
  LET clean(r) == IF clear THEN [r EXCEPT !.pads[p].away = Nobody] ELSE r
      made  == IF s.pads[p].visible THEN GiveWay(s, p, o) ELSE s
      there == clean([made EXCEPT !.pads[p].output = o])
  IN  IF s.pads[p].output = o THEN clean(s)
      ELSE IF s.pads[p].visible THEN Present(there, p) ELSE there

----------------------------------------------------------------------------
(* Focus *)

NoteFocus(s, v) ==
  IF InPad(s, v)
  THEN [s EXCEPT !.noted = v,
                 !.pads[PadOf(s, v)] = [@ EXCEPT !.active = TRUE, !.last = v]]
  ELSE DeactivateOn([s EXCEPT !.noted = Nobody],
                    IF s.place[v] \in {Nobody, Unmapped} THEN Nobody ELSE s.place[v].on)
FocusWindow(s, v) ==
  IF v \notin s.shown THEN s
  ELSE [NoteFocus(s, v) EXCEPT !.focus = IF InPad(s, v) THEN v ELSE Nobody]

\* refocusActive, when a pad is active on o; then whatever workspace window o has.
RefocusActive(s, p) ==
  IF Focused(s, p) # Nobody THEN FocusWindow(s, Focused(s, p)) ELSE [s EXCEPT !.focus = Nobody]
RefocusExplicit(s, o) ==
  LET d == DeactivateOn(s, o)
      here == {v \in s.shown : s.place[v] # Nobody /\ s.place[v].on = o}
  IN  [d EXCEPT !.focus = Nobody, !.noted = IF here = {} THEN @ ELSE Nobody]
HasFocusOn(s, o) ==
  /\ s.focus \in s.shown /\ InPad(s, s.focus)
  /\ s.pads[PadOf(s, s.focus)].output = o
Refocus(s, o) ==
  IF o # Nobody /\ HasFocusOn(s, o) THEN s
  ELSE IF ActiveOn(s, o) # {} THEN RefocusActive(s, CHOOSE p \in ActiveOn(s, o) : TRUE)
  ELSE RefocusExplicit(s, o)

----------------------------------------------------------------------------
(* Windows enter pads *)

\* A temporary workspace is held by an anchor; a place nowhere leaves the output to restore.
ReturnPlace(w, o) ==
  IF w # Nobody THEN [to |-> w, held |-> w.for # Nobody]
  ELSE [to |-> IF o = Nobody THEN Nobody ELSE Native(o), held |-> FALSE]

\* The entries of m, without those of the windows in gone.
Without(m, gone) ==
  LET keep[n \in 0..Len(m)] == IF n = 0 THEN <<>>
        ELSE IF m[n].view \in gone THEN keep[n - 1] ELSE Append(keep[n - 1], m[n])
  IN  keep[Len(m)]

\* admit, for a window that is in no pad.  dialog: it joins with its parent on its own.
AdmitNew(s, v, p, o, interactive, home) ==
  LET moved == IF ~s.pads[p].visible \/ s.pads[p].output = Nobody
               THEN MoveScratchpad(s, p, o, TRUE) ELSE s
      source == IF s.place[v] = Nobody THEN Nobody ELSE s.place[v].on
      in  == [moved EXCEPT !.members = Append(@, [view |-> v, pad |-> p, home |-> home]),
                           !.place[v] = Nobody]
      solo == IF in.pads[p].solo # Nobody /\ interactive
              THEN [in EXCEPT !.pads[p].solo = MemberFor(in, v, p)] ELSE in
      set == SetVisible(solo, p, solo.pads[p].visible)
  IN  IF interactive \/ (s.focus = v /\ ~Presents(set, p, v)) THEN Refocus(set, source) ELSE set

\* Mutant: the pad a window is taken from goes on showing.
LeavePadOpen(s, q, soloLeft) == s
\* A pad that lost the window it showed alone hides; so does an empty one.
CloseIfBereft(s, q, soloLeft) ==
  IF soloLeft \/ MembersOf(s, q) = {} THEN SetVisible(s, q, FALSE) ELSE s

\* admit, when a rule moves a window from one pad to another.
TransferMember(s, v, p, o) ==
  LET q == PadOf(s, v)
      soloLeft == s.pads[q].solo = v
      i == CHOOSE i \in DOMAIN s.members : s.members[i].view = v
      forgot == ForgetLastFocused(s, q, v)
      out == [forgot EXCEPT !.pads[q].solo = IF soloLeft THEN Nobody ELSE @,
                            !.members[i].pad = p]
      moved == IF ~out.pads[p].visible \/ out.pads[p].output = Nobody
               THEN MoveScratchpad(out, p, o, TRUE) ELSE out
      set == CloseIfBereft(SetVisible(moved, p, moved.pads[p].visible), q, soloLeft)
  IN  IF s.focus = v /\ ~Presents(set, p, v) THEN Refocus(set, s.pads[q].output) ELSE set

----------------------------------------------------------------------------
(* Pads show and hide *)

\* summon; member is a window asked for, or Nobody.
Summon(s, p, o, member) ==
  LET m == IF member = Nobody THEN Nobody ELSE MemberFor(s, member, p)
      swap == m # Nobody /\ s.pads[p].solo # Nobody /\ s.pads[p].solo # m
      r == IF swap THEN [s EXCEPT !.pads[p].solo = m] ELSE s
      here == r.pads[p].output = o
      there == LET g == GiveWay(r, p, o) IN IF here THEN g ELSE MoveScratchpad(g, p, o, TRUE)
  IN  IF swap /\ here THEN SetVisible(r, p, TRUE)
      ELSE IF r.pads[p].visible /\ here THEN r
      ELSE IF there.pads[p].visible THEN there ELSE SetVisible(there, p, TRUE)

ToggleOn(s, p, o) ==
  LET up == [Summon(s, p, o, Nobody) EXCEPT !.pads[p].active = TRUE]
  IN  IF s.pads[p].visible /\ s.pads[p].output = o
      THEN Refocus(SetVisible(s, p, FALSE), o)
      ELSE RefocusActive(up, CHOOSE q \in ActiveOn(up, o) : TRUE)

\* showStep, with the windows that can be stepped to and the place of the one on show.
StepTarget(s, p, o, direction) ==
  LET steps == {i \in EntriesOf(s, p) : ~RidesWithParent(s, s.members[i].view, p)}
      at(v) == IF v = Nobody THEN {} ELSE {i \in steps : s.members[i].view = MemberFor(s, v, p)}
      here == s.pads[p].visible /\ s.pads[p].output = o
      from == at(IF here THEN Focused(s, p) ELSE s.pads[p].last)
      i == Min(IF from = {} THEN steps ELSE from)
      ahead  == {j \in steps : i < j}
      behind == {j \in steps : j < i}
      next == IF direction = 1 THEN Min(IF ahead = {} THEN steps ELSE ahead)
                               ELSE Max(IF behind = {} THEN steps ELSE behind)
  IN  IF steps = {} THEN Nobody ELSE s.members[IF here THEN next ELSE i].view
ShowStepOn(s, p, o, direction) ==
  LET target == StepTarget(s, p, o, direction)
      solo == [s EXCEPT !.pads[p].solo = target]
      here == s.pads[p].visible /\ s.pads[p].output = o
      set  == IF here THEN SetVisible(solo, p, TRUE) ELSE Summon(solo, p, o, Nobody)
  IN  FocusWindow(set, target)

----------------------------------------------------------------------------
(* Windows leave pads *)

\* The workspace a window goes back to.  The home of a window from a temporary workspace is the
\* output that one stood in for, else the workspace if its anchor still holds it, else a
\* temporary workspace opened anew.
ReturnTo(s, home, o) ==
  LET w == home.to
      out == IF w # Nobody /\ w.on \in s.lit THEN w.on ELSE o
      any == IF s.lit = {} THEN Nobody ELSE CHOOSE x \in s.lit : TRUE
      host == IF out \in s.lit THEN out ELSE any
  IN  IF w = Nobody \/ w.for = Nobody THEN (IF out = Nobody THEN Nobody ELSE Native(out))
      ELSE IF w.for \in s.lit THEN Native(w.for)
      ELSE IF home.held /\ w.on \in s.lit THEN w
      ELSE IF host = Nobody THEN Nobody ELSE RefugeOn(host, w.for)

\* Without the window it showed alone a pad hides.
HideBereft(s, p, soloLeft, emptied) ==
  IF (soloLeft \/ emptied) /\ s.pads[p].visible THEN SetVisible(s, p, FALSE) ELSE s

\* restoreView; target is a workspace or Nobody.
RestoreWindow(s, v, focused, target) ==
  LET e == EntryOf(s, v)
      p == e.pad
      o == s.pads[p].output
      w == IF target # Nobody THEN target ELSE ReturnTo(s, e.home, o)
      forgot == ForgetLastFocused(s, p, v)
      out == [forgot EXCEPT !.members = Without(@, {v}), !.place[v] = w,
                            !.noted = IF @ = v THEN Nobody ELSE @,
                            !.shown = IF w = Nobody THEN @ \ {v} ELSE @ \cup {v},
                            !.restoring = @ \/ (w # Nobody /\ w.for # Nobody)]
      hid == HideBereft(out, p, s.pads[p].solo = v, MembersOf(out, p) = {})
  IN  IF focused THEN FocusWindow(hid, v) ELSE hid

\* Mutant: the manager goes on pointing at the window.
RemoveButNote(s, v) ==
  LET p == PadOf(s, v)
      forgot == ForgetLastFocused(s, p, v)
  IN  HideBereft([forgot EXCEPT !.members = Without(@, {v})], p, s.pads[p].solo = v, FALSE)
\* remove, for a window that unmaps.
RemoveWindow(s, v) ==
  LET p == PadOf(s, v)
      forgot == ForgetLastFocused(s, p, v)
      out == [forgot EXCEPT !.members = Without(@, {v}), !.noted = IF @ = v THEN Nobody ELSE @]
  IN  HideBereft(out, p, s.pads[p].solo = v, FALSE)

----------------------------------------------------------------------------
(* Outputs under the pads *)

PadsOn(s, o) == {p \in Defined(s) : s.pads[p].output = o}

\* The pads of moving go where to says, one after another.
MoveEach(s, moving, to) ==
  LET order == SetToSeq(moving)
      move[n \in 0..Len(order)] == IF n = 0 THEN s
        ELSE MoveScratchpad(move[n - 1], order[n], to[order[n]], FALSE)
  IN  move[Len(order)]
\* s with the outputs the pads are away from.
AwayFrom(s, away) ==
  [s EXCEPT !.pads = [p \in Pads |-> IF p \in Defined(s) THEN [s.pads[p] EXCEPT !.away = away[p]]
                                     ELSE s.pads[p]]]

\* moveOutput: the pads of an output that leaves remember it.
MoveOutput(s, o, d) ==
  LET away == [p \in Defined(s) |-> IF p \in PadsOn(s, o) /\ s.pads[p].away = Nobody THEN o
                                    ELSE s.pads[p].away]
  IN  MoveEach(AwayFrom(s, away), PadsOn(s, o), [p \in Pads |-> d])
\* releaseOutput: what is on it still belongs nowhere.
ReleaseOutput(s, o) ==
  LET seen == {p \in PadsOn(s, o) : s.pads[p].visible}
  IN  [s EXCEPT !.pads = [p \in Pads |-> IF p \in PadsOn(s, o)
                                         THEN [s.pads[p] EXCEPT !.output = Nobody] ELSE s.pads[p]],
                !.shown = @ \ UNION {MembersOf(s, p) : p \in seen}]

\* Mutant: a pad that was released from its output is not given another.
RestoreMoved(s, f) ==
  LET home == {p \in Defined(s) : s.pads[p].away \in s.lit}
      still == [p \in Defined(s) |-> IF p \in home THEN Nobody ELSE s.pads[p].away]
  IN  AwayFrom(MoveEach(s, home, [p \in home |-> s.pads[p].away]), still)
\* restoreDisplaced: a pad goes back to the output it is away from, and one without an output to f.
RestorePads(s, f) ==
  LET home   == {p \in Defined(s) : s.pads[p].away \in s.lit}
      adrift == {p \in Defined(s) : s.pads[p].output = Nobody}
      to == [p \in Defined(s) |-> IF p \in home THEN s.pads[p].away ELSE f]
      still == [p \in Defined(s) |-> IF p \in home THEN Nobody ELSE s.pads[p].away]
  IN  AwayFrom(MoveEach(s, home \cup adrift, to), still)

\* The workspaces of o are rebuilt on d; anchors into o are cut.
EvacuateTo(s, o, d) ==
  LET mine == {v \in Windows : s.place[v] \notin {Nobody, Unmapped} /\ s.place[v].on = o}
      new(v) == IF d = Nobody THEN Nobody
                ELSE IF s.place[v].for # Nobody THEN RefugeOn(d, s.place[v].for)
                ELSE RefugeOn(d, o)
      gone == IF d = Nobody THEN mine ELSE {}
  IN  [s EXCEPT !.place = [v \in Windows |-> IF v \in mine THEN new(v) ELSE @[v]],
                !.shown = @ \ gone,
                !.members = [i \in DOMAIN @ |->
                   IF @[i].home.to # Nobody /\ @[i].home.to.on = o
                   THEN [@[i] EXCEPT !.home.held = FALSE] ELSE @[i]]]
\* Windows of temporary workspaces go home, and windows without a workspace are taken in.
BringHome(s, f) ==
  LET home == {v \in Windows : /\ s.place[v] \notin {Nobody, Unmapped}
                               /\ s.place[v].for \in s.lit}
      back == [s EXCEPT !.place = [v \in Windows |-> IF v \in home THEN Native(@[v].for) ELSE @[v]]]
      padded == RestorePads(back, f)
      lost == {v \in Windows : padded.place[v] = Nobody /\ ~InPad(padded, v)}
  IN  [padded EXCEPT !.place = [v \in Windows |-> IF v \in lost THEN Native(f) ELSE @[v]],
                     !.shown = @ \cup lost, !.restoring = FALSE]

----------------------------------------------------------------------------
(* Steps *)

ScratchpadInit ==
  /\ pads = [p \in Pads |-> NewPad] /\ members = <<>>
  /\ noted = Nobody /\ focus = Nobody
  /\ shown = {}
  /\ place = [v \in Windows |-> Unmapped] /\ owner = [v \in Windows |-> Nobody]
  /\ lit \in {Screens, Unsteady} /\ restoring = FALSE /\ overviewOpen = FALSE

\* A window that maps takes an enabled output's active workspace.
Placed(v, o, parent) ==
  [PadsNow EXCEPT !.place[v] = IF o = Nobody THEN Nobody ELSE Native(o), !.owner[v] = parent,
                  !.shown = IF o = Nobody THEN @ ELSE @ \cup {v}]
MapAnywhere == IF lit = {} THEN {Nobody} ELSE lit
Parents(v)  == {Nobody} \cup {u \in Windows \ {v} : place[u] # Unmapped}

\* inheritScratchpadFromParent: a dialog joins the pad its parent is shown in.
Joins(v, parent) == InPad(PadsNow, parent) /\ parent \in shown
MapWindowOn(v, o, parent, focused) ==
  LET s == Placed(v, o, parent)
      p == PadOf(s, parent)
      in == IF parent # Nobody /\ Joins(v, parent)
            THEN AdmitNew(s, v, p, s.pads[p].output, FALSE, ReturnPlace(s.place[v], Nobody))
            ELSE s
  IN  /\ place[v] = Unmapped
      /\ PadsBecome(IF focused THEN FocusWindow(in, v) ELSE in)

\* A rule sends the window to a pad as it maps; a rule that also focuses it shows the pad.
MapIntoPad(v, o, p, focused) ==
  LET in == AdmitNew(Placed(v, o, Nobody), v, p, o, FALSE, ReturnPlace(Native(o), Nobody))
  IN  /\ place[v] = Unmapped /\ o \in lit
      /\ PadsBecome(IF focused /\ ~overviewOpen THEN FocusWindow(Summon(in, p, o, v), v) ELSE in)

\* handleUnmap; its dialogs become those of its parent.
UnmapFrom(v) ==
  LET s == IF InPad(PadsNow, v) THEN RemoveWindow(PadsNow, v) ELSE PadsNow
  IN  /\ place[v] # Unmapped
      /\ PadsBecome([s EXCEPT !.place[v] = Unmapped, !.shown = @ \ {v},
                              !.focus = IF @ = v THEN Nobody ELSE @,
                              !.owner = [u \in Windows |-> IF u = v THEN Nobody
                                           ELSE IF @[u] = v THEN @[v] ELSE @[u]]])

MoveToPad(v, p, o) ==
  /\ place[v] # Unmapped /\ ~InPad(PadsNow, v) /\ o \in lit /\ pads[p] # Nobody
  /\ PadsBecome(AdmitNew(PadsNow, v, p, o, TRUE, ReturnPlace(place[v], Nobody)))

\* A rule that starts to match sends a window of one pad to another, or its own pad elsewhere.
RuleMovesToPad(v, p, o) ==
  /\ InPad(PadsNow, v) /\ o \in lit /\ pads[p] # Nobody
  /\ \/ PadOf(PadsNow, v) # p /\ PadsBecome(TransferMember(PadsNow, v, p, o))
     \/ /\ PadOf(PadsNow, v) = p /\ ~pads[p].visible /\ pads[p].output # o
        /\ PadsBecome(MoveScratchpad(PadsNow, p, o, TRUE))

TogglePad(p, o) ==
  /\ pads[p] # Nobody /\ o \in lit /\ ~overviewOpen
  /\ PadsBecome(ToggleOn(PadsNow, p, o))
\* An empty pad is toggled.
StepPad(p, o, direction) ==
  /\ pads[p] # Nobody /\ o \in lit /\ ~overviewOpen /\ MembersOf(PadsNow, p) # {}
  /\ StepTarget(PadsNow, p, o, direction) # Nobody
  /\ PadsBecome(ShowStepOn(PadsNow, p, o, direction))

FocusOn(v) == v \in shown /\ PadsBecome(FocusWindow(PadsNow, v))
\* Focusing a member that is out of sight by its id shows it.
FocusById(v, o) ==
  /\ InPad(PadsNow, v) /\ v \notin shown /\ ~overviewOpen /\ o \in lit
  /\ PadsBecome(FocusWindow(Summon(PadsNow, PadOf(PadsNow, v), o, v), v))
\* The workspace of an output is focused explicitly.
FocusDesktop(o) == o \in lit /\ PadsBecome(RefocusExplicit(PadsNow, o))

RestoreFocused(p) ==
  /\ pads[p] # Nobody /\ Focused(PadsNow, p) # Nobody
  /\ PadsBecome(RestoreWindow(PadsNow, Focused(PadsNow, p), TRUE, Nobody))
SendToWorkspace(v, o) ==
  /\ InPad(PadsNow, v) /\ o \in lit
  /\ PadsBecome(RestoreWindow(PadsNow, v, FALSE, Native(o)))

\* A drag ends on another output.
DropOn(v, o) ==
  LET p == PadOf(PadsNow, v)
  IN  /\ InPad(PadsNow, v) /\ v \in shown /\ o \in lit /\ pads[p].output # o
      /\ PadsBecome(MoveScratchpad(PadsNow, p, o, TRUE))

\* hideAll
HideAll(s) ==
  LET on == {p \in Defined(s) : s.pads[p].visible}
  IN  [s EXCEPT !.pads = [p \in Pads |-> IF p \in on THEN Turned(s.pads[p], FALSE) ELSE s.pads[p]],
                !.shown = @ \ UNION {MembersOf(s, p) : p \in on}]
ToggleOverview ==
  /\ overviewOpen' = ~overviewOpen
  /\ PadsBecome(IF overviewOpen THEN PadsNow ELSE HideAll(PadsNow))

\* reconcileConfig: the pads of a removed definition are emptied, and their windows go home.
DropPads(s, removed) ==
  LET gone == UNION {MembersOf(s, p) : p \in removed}
      home(v) == ReturnTo(s, EntryOf(s, v).home, s.pads[PadOf(s, v)].output)
      housed == {v \in gone : home(v) # Nobody}
  IN  [s EXCEPT !.pads = [p \in Pads |-> IF p \in removed THEN Nobody ELSE s.pads[p]],
                !.members = Without(@, gone),
                !.place = [v \in Windows |-> IF v \in gone THEN home(v) ELSE @[v]],
                !.noted = IF @ \in gone THEN Nobody ELSE @,
                !.shown = (@ \ gone) \cup housed,
                !.restoring = @ \/ \E v \in housed : home(v).for # Nobody]
ReloadPads(desired, o) ==
  LET removed == Defined(PadsNow) \ desired
      out == DropPads(PadsNow, removed)
      new == [out EXCEPT !.pads = [p \in Pads |-> IF p \in desired /\ pads[p] = Nobody THEN NewPad
                                                  ELSE out.pads[p]]]
      busy == \E p \in removed : pads[p].visible \/ MembersOf(PadsNow, p) # {}
  IN  /\ desired # {} /\ desired # Defined(PadsNow)
      /\ o \in MapAnywhere
      /\ PadsBecome(IF busy /\ o # Nobody THEN Refocus(new, o) ELSE new)

\* removeOutput and the disabling of an output; d takes its windows.
LoseScreen(o, d) ==
  /\ o \in lit \cap Unsteady /\ d \in (IF lit = {o} THEN {Nobody} ELSE lit \ {o})
  /\ LET gone == [PadsNow EXCEPT !.lit = @ \ {o}]
     IN  PadsBecome(ReleaseOutput(MoveOutput(EvacuateTo(gone, o, d), o, d), o))
RegainScreen(o) ==
  /\ o \in Screens \ lit
  /\ PadsBecome([PadsNow EXCEPT !.lit = @ \cup {o}, !.restoring = TRUE])
RestoreScreens(f) ==
  /\ restoring /\ f \in lit
  /\ PadsBecome(Refocus(BringHome(PadsNow, f), f))

WindowAction(v) ==
  \/ \E o \in MapAnywhere, parent \in Parents(v), focused \in BOOLEAN :
       MapWindowOn(v, o, parent, focused)
  \/ \E o \in lit, p \in Defined(PadsNow), focused \in BOOLEAN : MapIntoPad(v, o, p, focused)
  \/ UnmapFrom(v) \/ FocusOn(v)
  \/ \E p \in Defined(PadsNow), o \in lit : MoveToPad(v, p, o) \/ RuleMovesToPad(v, p, o)
  \/ \E o \in lit : FocusById(v, o) \/ SendToWorkspace(v, o) \/ DropOn(v, o)
PadAction ==
  \/ \E p \in Pads, o \in lit : TogglePad(p, o) \/ \E d \in {1, -1} : StepPad(p, o, d)
  \/ \E p \in Pads : RestoreFocused(p)
  \/ \E o \in lit : FocusDesktop(o)
ScreenAction ==
  \/ \E o \in Screens : RegainScreen(o) \/ RestoreScreens(o)
                        \/ \E d \in Screens \cup {Nobody} : LoseScreen(o, d)
  \/ \E desired \in SUBSET Pads, o \in Screens \cup {Nobody} : ReloadPads(desired, o)

ScratchpadNext ==
  \/ ((\E v \in Windows : WindowAction(v)) \/ PadAction \/ ScreenAction)
     /\ UNCHANGED overviewOpen
  \/ ToggleOverview
ScratchpadSpec == ScratchpadInit /\ [][ScratchpadNext]_padVars

----------------------------------------------------------------------------
(* Properties *)

\* Every reference is to something there is; a window is in one pad at most, and while it is in
\* one it is mapped and on no workspace.
ScratchpadTypeOK ==
  /\ \A p \in Defined(PadsNow) : /\ {pads[p].output, pads[p].away} \subseteq Screens \cup {Nobody}
                                /\ {pads[p].last, pads[p].solo} \subseteq Windows \cup {Nobody}
                                /\ {pads[p].visible, pads[p].active} \subseteq BOOLEAN
  /\ \A i \in DOMAIN members : /\ members[i].pad \in Defined(PadsNow)
                               /\ place[members[i].view] = Nobody
                               /\ \A j \in DOMAIN members : members[i].view = members[j].view => i = j
  /\ noted # Nobody => InPad(PadsNow, noted)
  /\ \A v \in Windows : /\ v \in shown => place[v] # Unmapped
                        /\ owner[v] # Nobody => place[v] # Unmapped /\ place[owner[v]] # Unmapped

\* One pad shows per output, and exactly the members it presents are on screen.
PadsShowApart ==
  /\ \A o \in Screens : Cardinality(VisibleOn(PadsNow, o)) <= 1
  /\ \A i \in DOMAIN members :
       members[i].view \in shown <=> Presents(PadsNow, members[i].pad, members[i].view)

\* The windows the manager points at are members of the pad in question, and a pad that shows
\* one window alone is visible.
PadPointersLive ==
  /\ \A p \in Defined(PadsNow) : LET r == pads[p] IN
       /\ {r.last, r.solo} \ {Nobody} \subseteq MembersOf(PadsNow, p)
       /\ r.solo # Nobody => r.visible
       /\ r.active => r.visible

\* What the manager shows and points at is so at once, whatever moved a window or a pad last.
PadsInOrder == PadsShowApart /\ PadPointersLive

\* Once the restoration has run no window is stranded: it is on a workspace of an output that is
\* on, or in a pad that is.
PadsFollowOutputs ==
  ~restoring /\ lit # {} => \A v \in Windows :
    \/ place[v] = Unmapped
    \/ place[v] # Nobody /\ place[v].on \in lit
    \/ InPad(PadsNow, v) /\ pads[PadOf(PadsNow, v)].output \in lit

\* A pad that showed one window alone never shows all of them for want of that one.
SoloNeverSpreads ==
  [][\A p \in Pads : /\ pads[p] # Nobody /\ pads'[p] # Nobody
                     /\ pads[p].solo # Nobody /\ pads'[p].solo = Nobody
                     => ~pads'[p].visible]_padVars

=============================================================================
