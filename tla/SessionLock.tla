----------------------------- MODULE SessionLock -----------------------------
(***************************************************************************)
(* ext-session-lock: SessionLock and LockSurface, with the parts of Server, *)
(* Output and FocusManager they drive.                                      *)
(*                                                                         *)
(* A lock waits until every active output has a mapped lock surface or its  *)
(* deadline passes, covers the desktop, and is confirmed once a covered     *)
(* frame of every active output has been presented.  Between a commit and   *)
(* its presentation outputs come, go and change mode, surfaces come and go, *)
(* presentations are discarded, and the client can die.                     *)
(*                                                                         *)
(* A handler is a pipeline on the record Now; the frames on their way to an *)
(* output are changed by the actions themselves.                            *)
(***************************************************************************)
EXTENDS Integers, FiniteSets, SequencesExt

CONSTANTS Outputs,
          Depths,      \* frames an output's backend can have in flight: 1 for DRM, more if nested
          Animated,    \* depths at which clients may redraw without end
          MaxChanges,  \* bound: output changes, lock surfaces closed, bounded redraws
          None

ASSUME FrameAssumption ==
  /\ Depths \subseteq Nat \ {0} /\ Animated \subseteq Depths
  /\ MaxChanges \in Nat

VARIABLES
  phase,       \* m_phase, "none" without a SessionLock
  secured,     \* Server::m_sessionLocked: the blank covers every output
  remembered,  \* Server::m_lockFocusOutput
  focus,       \* keyboard focus: the desktop or the lock surface of an output
  surfaces,    \* outputs with a lock surface, in the order of m_surfaces
  mapped,      \* outputs whose lock surface is mapped
  entry,       \* m_outputPresentations
  power,       \* [Outputs -> {"absent", "off", "on"}]
  wants,       \* outputs with a frame scheduled
  flight,      \* [Outputs -> frames committed and not yet presented, oldest first]
  screen,      \* [Outputs -> what is on display]
  depth,       \* frames in flight the backend of this session allows
  changes      \* the bounded changes so far

vars == <<phase, secured, remembered, focus, surfaces, mapped, entry, power, wants,
          flight, screen, depth, changes>>

Desktop(o) == [on |-> "desktop", output |-> o]
Lock(o)    == [on |-> "lock", output |-> o]
Nobody     == [on |-> "nobody", output |-> None]

Now == [phase |-> phase, secured |-> secured, remembered |-> remembered, focus |-> focus,
        surfaces |-> surfaces, mapped |-> mapped, entry |-> entry, power |-> power,
        wants |-> wants]

Become(s) == /\ phase' = s.phase           /\ secured' = s.secured
             /\ remembered' = s.remembered /\ focus' = s.focus
             /\ surfaces' = s.surfaces     /\ mapped' = s.mapped
             /\ entry' = s.entry           /\ power' = s.power
             /\ wants' = s.wants

----------------------------------------------------------------------------
(* SessionLock's functions *)

Active(s)        == {o \in Outputs : s.power[o] = "on"}
SurfacesReady(s) == Active(s) \subseteq s.mapped

ScheduleFullFrame(s, S) == [s EXCEPT !.wants = @ \cup S]

SyncOutputPresentations(s) ==
  [s EXCEPT !.entry = [o \in Outputs |->
     IF o \notin Active(s) THEN "none" ELSE IF @[o] = "none" THEN "idle" ELSE @[o]]]

\* The first mapped surface of an active output.
FocusMappedSurface(s) ==
  LET usable == {i \in DOMAIN s.surfaces : s.surfaces[i] \in s.mapped \cap Active(s)}
  IN  [s EXCEPT !.focus = IF usable = {} THEN Nobody ELSE Lock(s.surfaces[Min(usable)])]

MaybeSendLocked(s) ==
  LET r == SyncOutputPresentations(s)
  IN  IF s.phase # "presenting" THEN s
      ELSE IF \A o \in Active(r) : r.entry[o] = "presented" THEN [r EXCEPT !.phase = "locked"]
      ELSE r

\* Mutant: a second lock of a locked session asks again who had the focus.
ActivateAgain(s) ==
  [s EXCEPT !.secured = TRUE, !.focus = Nobody,
            !.remembered = IF s.focus.on = "desktop" THEN s.focus.output ELSE None]
ActivateSessionLock(s) ==
  IF s.secured THEN s
  ELSE [s EXCEPT !.secured = TRUE, !.focus = Nobody,
                 !.remembered = IF s.focus.on = "desktop" THEN s.focus.output ELSE None]

BeginPresenting(s) ==
  LET r == SyncOutputPresentations(ActivateSessionLock([s EXCEPT !.phase = "presenting"]))
  IN  MaybeSendLocked(FocusMappedSurface(ScheduleFullFrame(r, Active(r))))

PresentIfReady(s) ==
  IF s.phase = "waiting" /\ SurfacesReady(s) THEN BeginPresenting(s) ELSE s

\* A modeset drops what the output has presented so far.
HandleOutputStateChanged(s, o) ==
  LET r == SyncOutputPresentations(s)
      again == IF o \notin Active(r) THEN r
               ELSE ScheduleFullFrame([r EXCEPT !.entry[o] = "idle"], {o})
  IN  CASE s.phase = "waiting"    -> PresentIfReady(s)
        [] s.phase = "locked"     -> FocusMappedSurface(s)
        [] s.phase = "presenting" -> FocusMappedSurface(MaybeSendLocked(again))
        [] OTHER                  -> s

OutputsChanged(s) ==
  LET r == SyncOutputPresentations(s)
      idle == {o \in Outputs : r.entry[o] = "idle"}
  IN  CASE s.phase = "waiting"    -> PresentIfReady(s)
        [] s.phase = "locked"     -> FocusMappedSurface(s)
        [] s.phase = "presenting" ->
             FocusMappedSurface(MaybeSendLocked(ScheduleFullFrame(r, idle)))
        [] OTHER                  -> s

HandleOutputCommit(s, o) ==
  LET r == SyncOutputPresentations(s)
  IN  IF s.phase # "presenting" \/ o \notin Active(s) THEN s
      ELSE IF r.entry[o] = "presented" THEN r
      ELSE [r EXCEPT !.entry[o] = "committed"]

\* Mutant: the presentation of an earlier frame counts.
PresentAny(s, o, awaited, ok) ==
  IF s.phase # "presenting" \/ s.entry[o] # "committed" THEN s
  ELSE IF ~ok THEN ScheduleFullFrame([s EXCEPT !.entry[o] = "idle"], {o})
  ELSE MaybeSendLocked([s EXCEPT !.entry[o] = "presented"])
\* Mutant: a discarded frame counts as shown.
PresentDiscarded(s, o, awaited, ok) ==
  IF s.phase # "presenting" \/ s.entry[o] # "committed" \/ ~awaited THEN s
  ELSE MaybeSendLocked([s EXCEPT !.entry[o] = "presented"])
\* Mutant: a discarded frame is not replaced.
PresentOnce(s, o, awaited, ok) ==
  IF s.phase # "presenting" \/ s.entry[o] # "committed" \/ ~awaited THEN s
  ELSE IF ~ok THEN [s EXCEPT !.entry[o] = "idle"]
  ELSE MaybeSendLocked([s EXCEPT !.entry[o] = "presented"])
HandleOutputPresent(s, o, awaited, ok) ==
  IF s.phase # "presenting" \/ s.entry[o] # "committed" \/ ~awaited THEN s
  ELSE IF ~ok THEN ScheduleFullFrame([s EXCEPT !.entry[o] = "idle"], {o})
  ELSE MaybeSendLocked([s EXCEPT !.entry[o] = "presented"])

----------------------------------------------------------------------------
(* The client *)

Init ==
  /\ phase = "none" /\ secured = FALSE /\ remembered = None /\ focus = Nobody
  /\ surfaces = <<>> /\ mapped = {} /\ entry = [o \in Outputs |-> "none"]
  /\ power \in [Outputs -> {"absent", "on"}]
  /\ wants = {} /\ flight = [o \in Outputs |-> <<>>]
  /\ screen = [o \in Outputs |-> IF power[o] = "on" THEN "desktop" ELSE "dark"]
  /\ depth \in Depths /\ changes = 0

NoFrame == UNCHANGED <<flight, screen, depth>>
Change  == changes < MaxChanges /\ changes' = changes + 1

\* beginSessionLock and start; a timer that cannot be armed counts as expired.  A lock
\* beside another one is denied.
RequestLock(armed) ==
  LET s == [Now EXCEPT !.phase = "waiting"]
  IN  /\ phase = "none"
      /\ Become(IF armed THEN PresentIfReady(s) ELSE BeginPresenting(s))
      /\ NoFrame /\ UNCHANGED changes

SurfaceDeadline ==
  /\ phase = "waiting" /\ Become(BeginPresenting(Now))
  /\ NoFrame /\ UNCHANGED changes

NewSurface(o) ==
  /\ phase # "none" /\ power[o] # "absent" /\ o \notin ToSet(surfaces)
  /\ Become([Now EXCEPT !.surfaces = Append(@, o)])
  /\ NoFrame /\ UNCHANGED changes

\* handleMap focuses the new surface, whatever its output's state.
MapSurface(o) ==
  LET s == PresentIfReady(ScheduleFullFrame([Now EXCEPT !.mapped = @ \cup {o}], {o}))
  IN  /\ o \in ToSet(surfaces) \ mapped
      /\ Become(IF s.phase = "waiting" THEN s ELSE [s EXCEPT !.focus = Lock(o)])
      /\ NoFrame /\ UNCHANGED changes

\* Mutant: the focus stays where it was.
UnmapUnfocused(o) ==
  /\ o \in mapped /\ Change
  /\ Become(ScheduleFullFrame([Now EXCEPT !.mapped = @ \ {o}], {o}))
  /\ NoFrame
UnmapSurface(o) ==
  LET s == ScheduleFullFrame([Now EXCEPT !.mapped = @ \ {o}], {o})
  IN  /\ o \in mapped /\ Change
      /\ Become(IF phase = "waiting" THEN s ELSE FocusMappedSurface(s))
      /\ NoFrame

\* Mutant: a destroyed surface goes on counting as mapped.
StillMapped(s, o) ==
  LET r == [s EXCEPT !.surfaces = RemoveFirst(@, o)]
  IN  IF s.phase \in {"none", "waiting"} THEN r ELSE FocusMappedSurface(r)
WithoutSurface(s, o) ==
  LET r == [s EXCEPT !.surfaces = RemoveFirst(@, o), !.mapped = @ \ {o}]
  IN  IF s.phase \in {"none", "waiting"} THEN r ELSE FocusMappedSurface(r)

DestroySurface(o) ==
  /\ o \in ToSet(surfaces) /\ Change
  /\ Become(ScheduleFullFrame(WithoutSurface(Now, o), {o}))
  /\ NoFrame

\* The lock object goes, its surfaces first; the session stays secured unless unlocked.
Gone(s) == [s EXCEPT !.phase = "none", !.surfaces = <<>>, !.mapped = {},
                     !.entry = [o \in Outputs |-> "none"], !.wants = @ \cup Active(s)]

\* handleUnlock: the desktop gets the focus back, on the remembered output if it is still
\* there.  The surfaces destroyed after it leave the focus alone.
Unlock ==
  LET back == IF remembered # None /\ power[remembered] # "absent"
              THEN {remembered, None} ELSE Active(Now) \cup {None}
  IN  /\ phase = "locked"
      /\ \E f \in {Desktop(o) : o \in back} \cup {Nobody} :
           Become([Gone(Now) EXCEPT !.secured = FALSE, !.remembered = None, !.focus = f])
      /\ NoFrame /\ UNCHANGED changes

\* The client destroys its lock or dies.
Abandon ==
  /\ phase # "none"
  /\ Become([Gone(Now) EXCEPT !.focus = IF @.on = "lock" THEN Nobody ELSE @])
  /\ NoFrame /\ UNCHANGED changes

\* focusView and the layers' focus, refused while the session is locked.
FocusDesktop(o) ==
  /\ ~secured /\ focus # Desktop(o)
  /\ o \in {None} \cup {p \in Outputs : power[p] # "absent"}
  /\ Become([Now EXCEPT !.focus = Desktop(o)])
  /\ NoFrame /\ UNCHANGED changes

----------------------------------------------------------------------------
(* Frames *)

Content == IF secured THEN "opaque" ELSE "desktop"
\* A new frame; its commit_seq becomes the awaited one if the lock records it.
Send(o, content, recorded) ==
  LET old == [i \in DOMAIN flight[o] |->
                IF recorded THEN [flight[o][i] EXCEPT !.awaited = FALSE] ELSE flight[o][i]]
  IN  flight' = [flight EXCEPT ![o] =
                   Append(old, [content |-> content, awaited |-> recorded])]

\* Something on the output is redrawn.
Redraw(o) ==
  /\ power[o] = "on" /\ o \notin wants
  /\ IF depth \in Animated THEN UNCHANGED changes ELSE Change
  /\ Become(ScheduleFullFrame(Now, {o})) /\ NoFrame

\* handleFrame: the scene is built and committed.
Frame(o) ==
  LET s == HandleOutputCommit([Now EXCEPT !.wants = @ \ {o}], o)
  IN  /\ o \in wants /\ power[o] = "on" /\ Len(flight[o]) < depth
      /\ Send(o, Content, s.entry[o] = "committed")
      /\ Become(s)
      /\ UNCHANGED <<screen, depth, changes>>

\* handlePresent for the oldest frame in flight, presented or discarded.
Present(o, ok) ==
  LET f == Head(flight[o])
  IN  /\ flight[o] # <<>>
      /\ flight' = [flight EXCEPT ![o] = Tail(@)]
      /\ screen' = IF ok THEN [screen EXCEPT ![o] = f.content] ELSE screen
      /\ Become(HandleOutputPresent(Now, o, f.awaited, ok))
      /\ UNCHANGED <<depth, changes>>

----------------------------------------------------------------------------
(* Outputs *)

\* A mode or format change commits a frame of its own, unless the commit fails.  While the
\* session is locked the frame is built under an opaque mask.
Modeset(o, committed) ==
  /\ power[o] = "on" /\ Change /\ Len(flight[o]) <= depth
  /\ IF committed THEN Send(o, Content, FALSE) ELSE UNCHANGED flight
  /\ Become(HandleOutputStateChanged(ScheduleFullFrame(Now, {o}), o))
  /\ UNCHANGED <<screen, depth>>

\* setPowered(false), or disabled: what was in flight is never shown, and feedback for it
\* would find no entry that awaits it.
PowerOff(o) ==
  /\ power[o] = "on" /\ Change
  /\ flight' = [flight EXCEPT ![o] = <<>>]
  /\ screen' = [screen EXCEPT ![o] = "dark"]
  /\ Become(HandleOutputStateChanged([Now EXCEPT !.power[o] = "off", !.wants = @ \ {o}], o))
  /\ UNCHANGED depth

PowerOn(o) ==
  /\ power[o] = "off" /\ Change /\ Len(flight[o]) <= depth
  /\ Send(o, Content, FALSE)
  /\ Become(HandleOutputStateChanged(
              ScheduleFullFrame([Now EXCEPT !.power[o] = "on"], {o}), o))
  /\ UNCHANGED <<screen, depth>>

\* addOutput; the constructor's own commit is masked, as the output is not in the layout yet.
AddOutput(o) ==
  /\ power[o] = "absent" /\ Change
  /\ Send(o, "opaque", FALSE)
  /\ Become(OutputsChanged(ScheduleFullFrame([Now EXCEPT !.power[o] = "on"], {o})))
  /\ UNCHANGED <<screen, depth>>

\* The output's lock surface is destroyed with it; its windows move to another output.
RemoveOutput(o) ==
  LET rest == {p \in Outputs \ {o} : power[p] # "absent"}
      moved == IF focus # Desktop(o) THEN {focus}
               ELSE {Nobody} \cup {Desktop(p) : p \in rest \cup {None}}
  IN  /\ power[o] # "absent" /\ Change
      /\ flight' = [flight EXCEPT ![o] = <<>>]
      /\ screen' = [screen EXCEPT ![o] = "dark"]
      /\ \E f \in moved :
           LET s == [Now EXCEPT !.power[o] = "absent", !.wants = @ \ {o},
                                 !.entry[o] = "none", !.focus = f]
           IN  Become(OutputsChanged(WithoutSurface(s, o)))
      /\ UNCHANGED depth

----------------------------------------------------------------------------

ClientStep == \/ \E armed \in BOOLEAN : RequestLock(armed)
              \/ Unlock \/ Abandon
              \/ \E o \in Outputs : \/ NewSurface(o) \/ MapSurface(o)
                                    \/ UnmapSurface(o) \/ DestroySurface(o)
DesktopStep == \/ \E o \in Outputs \cup {None} : FocusDesktop(o)
               \/ \E o \in Outputs : Redraw(o)
FrameStep   == \E o \in Outputs : Frame(o) \/ Present(o, TRUE) \/ Present(o, FALSE)
OutputStep  == \E o \in Outputs :
  \/ Modeset(o, TRUE) \/ Modeset(o, FALSE)
  \/ PowerOff(o) \/ PowerOn(o) \/ AddOutput(o) \/ RemoveOutput(o)

Next == ClientStep \/ DesktopStep \/ SurfaceDeadline \/ FrameStep \/ OutputStep

\* The deadline is a timer, a scheduled frame comes, and every frame in flight gets its
\* presentation feedback; of the frames sent for ever some are shown.
Fairness ==
  /\ WF_vars(SurfaceDeadline)
  /\ \A o \in Outputs : /\ WF_vars(Frame(o))
                        /\ WF_vars(Present(o, TRUE) \/ Present(o, FALSE))
                        /\ SF_vars(Present(o, TRUE))

Spec == Init /\ [][Next]_vars /\ Fairness

----------------------------------------------------------------------------
(* Properties *)

Frames == [content : {"desktop", "opaque"}, awaited : BOOLEAN]

\* The shape of the state.
TypeOK ==
  /\ phase \in {"none", "waiting", "presenting", "locked"} /\ secured \in BOOLEAN
  /\ remembered \in Outputs \cup {None}
  /\ focus \in {Desktop(o) : o \in Outputs \cup {None}} \cup {Lock(o) : o \in Outputs}
               \cup {Nobody}
  /\ surfaces \in Seq(Outputs) /\ mapped \subseteq ToSet(surfaces)
  /\ entry \in [Outputs -> {"none", "idle", "committed", "presented"}]
  /\ power \in [Outputs -> {"absent", "off", "on"}] /\ wants \subseteq Outputs
  /\ \A o \in Outputs : flight[o] \in Seq(Frames)
  /\ screen \in [Outputs -> {"dark", "desktop", "opaque"}]
  /\ depth \in Depths /\ changes \in 0..MaxChanges

\* Once the client has been told the session is locked, no output shows the desktop, whatever
\* was in flight, whichever output was plugged in, switched on or reconfigured meanwhile.
LockedIsCovered ==
  phase = "locked" => \A o \in Outputs : screen[o] # "desktop"

\* The keyboard of a secured session never types into the desktop, and while an active output
\* has a lock surface to type into, some mapped lock surface has the keyboard.
LockHoldsFocus ==
  secured =>
    /\ focus.on # "desktop"
    /\ phase \in {"presenting", "locked"} /\ (mapped \cap Active(Now)) # {}
       => focus \in {Lock(o) : o \in mapped}

\* The lock is confirmed only when every active output displays a covered frame.
ConfirmedAfterCover ==
  [][phase # "locked" /\ phase' = "locked"
       => \A o \in Outputs : power'[o] = "on" => screen'[o] = "opaque"]_vars

\* Unlocking goes back to the output that had the keyboard when the session was secured,
\* also when a second lock client took over from one that died.
UnlockRestoresFocus ==
  [][/\ ~secured /\ secured' /\ (\E o \in Outputs : focus = Desktop(o) /\ power'[o] # "absent")
          => remembered' = focus.output
     /\ secured /\ secured' => remembered' = remembered
     /\ secured /\ ~secured' /\ remembered # None /\ focus'.on = "desktop"
          => focus'.output \in {remembered, None} \/ power[remembered] = "absent"]_vars

\* A lock request is answered: the session is confirmed as locked, or the lock is gone.
LockAnswered ==
  (phase \in {"waiting", "presenting"}) ~> (phase \in {"none", "locked"})

=============================================================================
