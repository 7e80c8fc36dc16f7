---------------------------- MODULE InputCapture ----------------------------
(***************************************************************************)
(* InputCapture, and the confirmation it shares with quitting, screencasts  *)
(* and emulated input.                                                      *)
(*                                                                         *)
(* A session of a remote-desktop portal asks the user, connects, draws      *)
(* barriers and is armed; a pointer crossing a barrier hands it the input   *)
(* until it lets go or is suspended.  One dialog asks every question, one   *)
(* at a time, and the session lock, the loss of the seat, a closing client  *)
(* or a failing device may interrupt at any point.                          *)
(*                                                                         *)
(* One key and one button stand for all.  Barriers are drawn on current     *)
(* zones or fail; a crossing may meet any session's barrier.  Which grants  *)
(* are stored is left out, so any session may be restored or revoked;       *)
(* rendering never fails, and emulated input, which a capture dialog        *)
(* ignores, is left out.                                                    *)
(***************************************************************************)
EXTENDS Naturals, FiniteSets

CONSTANTS Sessions,   \* capture sessions that exist at a time
          Typing,     \* sessions that ask for the keyboard
          Pointing,   \* sessions that ask for the pointer; every session asks for one
          Emulators,  \* X11 clients that ask to emulate input, each by its own name
          MaxParties, \* bound: sessions, emulating clients and screencasts at a time
          NoOne       \* no session or client

\* A session asks for the keyboard, the pointer or both, and a value is one thing only.
ASSUME PartyAssumption ==
  /\ Typing \cup Pointing = Sessions
  /\ NoOne \notin Sessions \cup Emulators

VARIABLES
  sess,     \* m_sessions
  holder,   \* the session that has the input
  key,      \* a keyboard key: pressed, consumed, told to the remote, told to the local focus
  button,   \* a pointer button: pressed, told to the remote, told to the local focus
  dialog,   \* QuitConfirm: the kind shown, "none" when it is not visible
  asking,   \* m_pendingCaptureId
  emu,      \* clients of EisInput
  emulating,\* m_pendingInputId
  verdict,  \* m_allowedInputNames, m_deniedInputNames
  cast,     \* m_screenCastActive, m_screenCastDynamicConfirmed, m_pendingScreenCastCommand
  lock,     \* m_sessionLock and m_sessionLocked
  vt        \* m_session->active
captureVars == <<sess, holder, key, button, dialog, asking, emu, emulating, verdict, cast, lock, vt>>

\* The EIS connection, up to its devices; "bound" has lost the pointer it needs.
Links  == {"none", "issued", "client", "bound", "ready"}
Absent == [exists |-> FALSE, attempted |-> FALSE, pending |-> FALSE, approved |-> FALSE,
           closed |-> FALSE, enabled |-> FALSE, barriers |-> FALSE,
           link |-> "none"]

NoKey    == [down |-> FALSE, consumed |-> FALSE, sent |-> FALSE, local |-> FALSE]
NoButton == [down |-> FALSE, sent |-> FALSE, local |-> FALSE]

InputNow == [sess |-> sess, holder |-> holder, key |-> key, button |-> button, dialog |-> dialog,
             asking |-> asking, emu |-> emu, emulating |-> emulating, verdict |-> verdict,
             cast |-> cast, lock |-> lock, vt |-> vt]
InputBecomes(s) ==
  /\ sess' = s.sess /\ holder' = s.holder /\ key' = s.key /\ button' = s.button
  /\ dialog' = s.dialog /\ asking' = s.asking /\ emu' = s.emu /\ emulating' = s.emulating
  /\ verdict' = s.verdict /\ cast' = s.cast /\ lock' = s.lock /\ vt' = s.vt

Parties == Cardinality({c \in Sessions : sess[c].exists}) + (IF cast.active THEN 1 ELSE 0)
           + Cardinality({e \in Emulators : emu[e] # "gone"})

Blocked(s)     == s.lock # "open" \/ ~s.vt
Usable(s, c)   == s.sess[c].approved /\ ~s.sess[c].closed /\ ~Blocked(s)
KeysTaken(s)   == s.holder \in Typing
PointerTaken(s) == s.holder \in Pointing

----------------------------------------------------------------------------
(* Sessions *)

\* The answer to a start request, a started event.
Started(s, c, allowed) == [s EXCEPT !.sess[c].pending = FALSE, !.sess[c].approved = allowed]

\* Mutant: keys still held when the capture ends go on as if nothing had happened.
HandBack(s) == [s EXCEPT !.holder = NoOne, !.key.sent = FALSE, !.button.sent = FALSE,
                         !.key.local = @ \/ (KeysTaken(s) /\ s.key.down /\ ~s.key.consumed)]
\* Session::deactivate and inputCaptureStateChanged: the remote lets go of everything, and a key
\* still held is consumed before focus returns.
Deactivate(s) ==
  IF s.holder = NoOne THEN s
  ELSE [s EXCEPT !.holder = NoOne, !.button.sent = FALSE,
                 !.key.sent = FALSE, !.key.consumed = @ \/ (KeysTaken(s) /\ s.key.down)]

\* Session::disable, for one session and for several
Disarm(s, c) == [(IF s.holder = c THEN Deactivate(s) ELSE s) EXCEPT !.sess[c].enabled = FALSE]
DisarmAll(s, cs) == [(IF s.holder \in cs THEN Deactivate(s) ELSE s)
                       EXCEPT !.sess = [c \in Sessions |-> IF c \in cs
                                THEN [s.sess[c] EXCEPT !.enabled = FALSE] ELSE s.sess[c]]]

\* cancelInputCapture
CancelInputCapture(s, c) ==
  IF s.asking # c THEN s
  ELSE [s EXCEPT !.asking = NoOne, !.dialog = IF @ = "capture" THEN "none" ELSE @]

\* Session::close: a session that still waits for an answer gets one.
Close(s, c) ==
  LET off == [Disarm(s, c) EXCEPT !.sess[c].closed = TRUE, !.sess[c].link = "none"]
  IN  IF s.sess[c].closed THEN s
      ELSE IF s.sess[c].pending
           THEN Started(CancelInputCapture(off, c), c, FALSE)
           ELSE off

\* Mutant: only the session that has the input is stopped.
SuspendActive(s) == IF s.holder = NoOne THEN s ELSE Disarm(s, s.holder)
\* InputCapture::suspend; at most one session waits for an answer.
Suspend(s) ==
  LET off == DisarmAll(s, Sessions)
      waiting == {c \in Sessions : s.sess[c].pending}
  IN  IF waiting = {} THEN off
      ELSE LET c == CHOOSE w \in waiting : TRUE
           IN  Started(CancelInputCapture(off, c), c, FALSE)

\* authorizeSession; remembering it may fail, which refuses it.
AuthorizeSession(s, c, allowed) ==
  IF ~s.sess[c].pending THEN s
  ELSE Started(s, c, allowed /\ ~Blocked(s))

----------------------------------------------------------------------------
(* The dialog *)

\* EisInput::authorizeClient
AuthorizeClient(s, e, allowed) ==
  IF s.emu[e] # "waiting" THEN s
  ELSE [s EXCEPT !.emu[e] = IF allowed /\ s.lock # "locked" THEN "approved" ELSE "gone"]

\* QuitConfirm::show
Show(s, kind) == [(IF s.holder # NoOne THEN Suspend(s) ELSE s) EXCEPT !.dialog = kind]

\* Mutant: the capture that waits is not answered.
DismissSilently(s) ==
  LET input == IF s.emulating = NoOne THEN s
               ELSE AuthorizeClient([s EXCEPT !.emulating = NoOne, !.verdict[s.emulating] = "denied"],
                                    s.emulating, FALSE)
  IN  [input EXCEPT !.asking = NoOne, !.dialog = "none",
                    !.cast.pending = @ /\ s.dialog # "cast"]
DismissConfirmation(s) ==
  LET capture == IF s.asking = NoOne THEN s
                 ELSE AuthorizeSession([s EXCEPT !.asking = NoOne], s.asking, FALSE)
      input == IF s.emulating = NoOne THEN capture
               ELSE AuthorizeClient([capture EXCEPT !.emulating = NoOne,
                                                    !.verdict[s.emulating] = "denied"],
                                    s.emulating, FALSE)
  IN  [input EXCEPT !.dialog = "none", !.cast.pending = @ /\ s.dialog # "cast"]

\* setScreenCastActive
SetScreenCastActive(s, on) ==
  IF s.cast.active = on THEN s
  ELSE [s EXCEPT !.cast = [active |-> on, confirmed |-> FALSE, pending |-> FALSE],
                 !.dialog = IF @ = "cast" THEN "none" ELSE @]

ConfirmCast(s) ==
  IF ~s.cast.active \/ ~s.cast.pending THEN DismissConfirmation(s)
  ELSE [s EXCEPT !.cast.pending = FALSE, !.cast.confirmed = TRUE, !.dialog = "none"]

\* requestScreenCastCommand
RequestCastCommand(s) ==
  IF ~s.cast.active THEN s
  ELSE IF s.cast.confirmed THEN IF s.dialog = "cast" THEN DismissConfirmation(s) ELSE s
  ELSE IF s.lock = "locked" \/ s.dialog \notin {"none", "cast"} THEN s
  ELSE IF s.dialog = "cast" THEN ConfirmCast([s EXCEPT !.cast.pending = TRUE])
  ELSE Show([s EXCEPT !.cast.pending = TRUE], "cast")

\* requestInputEmulation
RequestInputEmulation(s, e) ==
  IF s.verdict[e] = "allowed" /\ s.lock # "locked" THEN AuthorizeClient(s, e, TRUE)
  ELSE IF s.lock = "locked" \/ s.verdict[e] = "denied" \/ s.dialog # "none"
       THEN AuthorizeClient(s, e, FALSE)
  ELSE Show([s EXCEPT !.emulating = e], "emulation")

ConfirmInputEmulation(s) ==
  IF s.emulating = NoOne \/ s.lock = "locked" THEN DismissConfirmation(s)
  ELSE AuthorizeClient([s EXCEPT !.emulating = NoOne, !.verdict[s.emulating] = "allowed",
                                 !.dialog = "none"], s.emulating, TRUE)

CancelInputEmulation(s, e) ==
  IF s.emulating # e THEN s
  ELSE [s EXCEPT !.emulating = NoOne, !.dialog = IF @ = "emulation" THEN "none" ELSE @]

RequestInputCapture(s, c) ==
  IF Blocked(s) \/ s.dialog # "none" \/ s.holder # NoOne THEN AuthorizeSession(s, c, FALSE)
  ELSE Show([s EXCEPT !.asking = c], "capture")

\* confirmInputCapture; an approval that is to be remembered and cannot be is none.
ConfirmInputCapture(s, allowed) ==
  IF s.asking = NoOne \/ Blocked(s) THEN DismissConfirmation(s)
  ELSE AuthorizeSession([s EXCEPT !.asking = NoOne, !.dialog = "none"], s.asking, allowed)

----------------------------------------------------------------------------
(* Requests of a session's client *)

CreateSession(c) ==
  /\ ~sess[c].exists /\ Parties < MaxParties
  /\ InputBecomes([InputNow EXCEPT !.sess[c].exists = TRUE])

\* ~Session: the destroyed session needs no answer.
DestroySession(c) ==
  /\ sess[c].exists
  /\ LET off == IF holder = c THEN Deactivate(InputNow) ELSE InputNow
         free == IF sess[c].pending THEN CancelInputCapture(off, c) ELSE off
     IN  InputBecomes([free EXCEPT !.sess[c] = Absent])

\* Session::start; a valid token restores the approval, otherwise the user is asked.
Start(c, restored) ==
  /\ sess[c].exists /\ ~sess[c].attempted /\ ~sess[c].closed /\ ~Blocked(InputNow)
  /\ LET asked == [InputNow EXCEPT !.sess[c].attempted = TRUE]
     IN  IF restored THEN InputBecomes(Started(asked, c, TRUE))
         ELSE InputBecomes(RequestInputCapture([asked EXCEPT !.sess[c].pending = TRUE], c))

\* set_persistence after start or with bad arguments, and expireScope.
SetPersistence(c) == sess[c].exists /\ InputBecomes(Close(InputNow, c))
ClearBarriers(c) ==
  /\ sess[c].exists
  /\ InputBecomes([Disarm(InputNow, c) EXCEPT !.sess[c].barriers = FALSE])
CommitBarriers(c, current) ==
  /\ sess[c].exists
  /\ InputBecomes([Disarm(InputNow, c) EXCEPT !.sess[c].barriers = current /\ Usable(InputNow, c)])
ConnectEis(c) ==
  /\ sess[c].exists /\ Usable(InputNow, c) /\ sess[c].link = "none"
  /\ InputBecomes([InputNow EXCEPT !.sess[c].link = "issued"])
EnableSession(c) ==
  /\ sess[c].exists /\ Usable(InputNow, c) /\ sess[c].link # "none"
  /\ InputBecomes([InputNow EXCEPT !.sess[c].enabled = TRUE])
DisableSession(c) == sess[c].exists /\ InputBecomes(Disarm(InputNow, c))
ReleaseSession(c) == holder = c /\ InputBecomes(Deactivate(InputNow))

\* handleEiEvent
EiConnect(c) ==
  /\ sess[c].link = "issued"
  /\ \/ InputBecomes([InputNow EXCEPT !.sess[c].link = "client"])
     \/ InputBecomes(Close(InputNow, c))
EiDisconnect(c) == sess[c].link \notin {"none", "issued"} /\ InputBecomes(Close(InputNow, c))
SeatBind(c, devices) ==
  /\ sess[c].link \notin {"none", "issued"}
  /\ LET off == IF holder = c THEN Disarm(InputNow, c) ELSE InputNow
     IN  InputBecomes([off EXCEPT !.sess[c].link = IF devices THEN "ready" ELSE "client"])
\* A closed pointer leaves a session that needs it unready; keyboards come and go.
DeviceClosed(c) ==
  /\ sess[c].link = "ready"
  /\ \E link \in {"ready"} \cup {l \in {"bound"} : c \in Pointing} :
       InputBecomes([Disarm(InputNow, c) EXCEPT !.sess[c].link = link])
\* revokePermission, of a session approved with a grant.
RevokePermission(c) == sess[c].approved /\ InputBecomes(Close(InputNow, c))

----------------------------------------------------------------------------
(* Devices and outputs *)

\* captureMotion and Session::activate, when canCaptureInput: the keys that are held go over.
CrossBarrier(c) ==
  /\ holder = NoOne /\ ~button.local /\ dialog = "none" /\ ~Blocked(InputNow)
  /\ sess[c].enabled /\ Usable(InputNow, c) /\ sess[c].link = "ready" /\ sess[c].barriers
  /\ InputBecomes([InputNow EXCEPT !.holder = c,
        !.key = IF c \in Typing THEN [@ EXCEPT !.local = FALSE, !.sent = key.down /\ ~key.consumed]
                ELSE @])

UpdateOutputs ==
  LET off == DisarmAll(InputNow, Sessions)
  IN  InputBecomes([off EXCEPT
        !.sess = [c \in Sessions |-> [off.sess[c] EXCEPT !.barriers = FALSE,
                                     !.link = IF @ = "bound" THEN "ready" ELSE @]]])
\* removeKeyboard, whose keys are released first, and updateKeymap.
ReplaceKeyboard ==
  InputBecomes(DisarmAll(InputNow, {c \in Typing : sess[c].link \in {"bound", "ready"}}))
\* onPointerDestroy, and touch or tablet input.
SuspendOnDevice == holder # NoOne /\ InputBecomes(Suspend(InputNow))

\* handleButton; a press anywhere dismisses the dialog.
PressButton ==
  /\ vt /\ ~button.down
  /\ InputBecomes(IF PointerTaken(InputNow)
                  THEN [InputNow EXCEPT !.button.down = TRUE, !.button.sent = TRUE]
                  ELSE [(IF dialog = "none" THEN InputNow ELSE DismissConfirmation(InputNow))
                          EXCEPT !.button.down = TRUE, !.button.local = TRUE])
ReleaseButton ==
  /\ button.down
  /\ InputBecomes([InputNow EXCEPT !.button = NoButton])

\* Keyboard::handleKey
Answer(s, meaning) ==
  CASE meaning = "enter" /\ s.dialog = "cast"      -> ConfirmCast(s)
    [] meaning = "enter" /\ s.dialog = "emulation" -> ConfirmInputEmulation(s)
    [] meaning = "enter" /\ s.dialog = "capture"   -> ConfirmInputCapture(s, TRUE)
    [] OTHER                                       -> DismissConfirmation(s)
Swallowed(s) == [s EXCEPT !.key = [down |-> TRUE, consumed |-> TRUE, sent |-> FALSE, local |-> FALSE]]
PressKey(meaning) ==
  /\ vt /\ ~key.down
  /\ LET down == [InputNow EXCEPT !.key.down = TRUE]
     IN  IF holder # NoOne /\ meaning = "escape" THEN InputBecomes(Swallowed(Suspend(down)))
         ELSE IF KeysTaken(InputNow)
              THEN InputBecomes([down EXCEPT !.key.consumed = TRUE, !.key.sent = TRUE])
         ELSE IF dialog # "none" /\ meaning # "modifier"
              THEN /\ ~(meaning = "enter" /\ dialog = "quit")
                   /\ \/ InputBecomes(Swallowed(Answer(down, meaning)))
                      \/ /\ meaning = "other" /\ dialog = "capture"  \* the R key, if it is offered
                         /\ \E saved \in BOOLEAN :
                              InputBecomes(Swallowed(ConfirmInputCapture(down, saved)))
         ELSE \/ meaning = "bound" /\ InputBecomes(Swallowed(down))
              \/ meaning # "bound" /\ InputBecomes([down EXCEPT !.key.local = TRUE])
ReleaseKey ==
  /\ key.down
  /\ InputBecomes([InputNow EXCEPT !.key = NoKey])

----------------------------------------------------------------------------
(* The rest of the compositor *)

SessionQuit == dialog = "none" /\ lock # "locked" /\ InputBecomes(Show(InputNow, "quit"))
CastChanges ==
  \/ /\ cast.active \/ Parties < MaxParties
     /\ InputBecomes(SetScreenCastActive(InputNow, ~cast.active))
  \/ InputBecomes(RequestCastCommand(InputNow))
  \* clearScreenCastTarget, stopFollowingScreenCast
  \/ dialog = "cast" /\ InputBecomes(DismissConfirmation(InputNow))

\* EisInput::requestClient, and its client going away
EmulatorConnects(e) ==
  /\ emu[e] = "gone" /\ lock # "locked" /\ Parties < MaxParties
  /\ InputBecomes(RequestInputEmulation([InputNow EXCEPT !.emu[e] = "waiting"], e))
EmulatorLeaves(e) ==
  /\ emu[e] # "gone"
  /\ LET left == [InputNow EXCEPT !.emu[e] = "gone"]
     IN  InputBecomes(IF emu[e] = "waiting" THEN CancelInputEmulation(left, e) ELSE left)

\* beginSessionLock; a second client is denied, but not before that.
BeginSessionLock ==
  LET quiet == Suspend(InputNow)
      told  == IF quiet.asking # NoOne THEN DismissConfirmation(quiet) ELSE quiet
  IN  InputBecomes([told EXCEPT !.lock = IF @ = "open" THEN "locking" ELSE @])
SecureSession ==
  /\ lock = "locking"
  /\ LET quiet == Suspend(DismissConfirmation(InputNow))
         waiting == {e \in Emulators : quiet.emu[e] = "waiting"}
     IN  InputBecomes([quiet EXCEPT !.lock = "locked",
           !.emu = [e \in Emulators |-> IF e \in waiting THEN "gone" ELSE @[e]],
           !.key.local = key.down /\ ~quiet.key.consumed])
EndSessionLock ==
  /\ lock # "open"
  /\ InputBecomes([InputNow EXCEPT !.lock = "open"])

\* onSessionActive, on the way out; the keys that are held are released elsewhere.
LoseSeat ==
  /\ vt
  /\ LET quiet == Suspend([InputNow EXCEPT !.vt = FALSE])
         told  == IF quiet.asking # NoOne THEN DismissConfirmation(quiet) ELSE quiet
     IN  InputBecomes([told EXCEPT
           !.key = NoKey, !.button = NoButton])
RegainSeat == ~vt /\ InputBecomes([InputNow EXCEPT !.vt = TRUE])

----------------------------------------------------------------------------

CaptureInit ==
  /\ sess = [c \in Sessions |-> Absent] /\ holder = NoOne
  /\ key = NoKey /\ button = NoButton
  /\ dialog = "none" /\ asking = NoOne
  /\ emu = [e \in Emulators |-> "gone"] /\ emulating = NoOne
  /\ verdict = [e \in Emulators |-> "none"]
  /\ cast = [active |-> FALSE, confirmed |-> FALSE, pending |-> FALSE]
  /\ lock = "open" /\ vt = TRUE

SessionRequest(c) ==
  \/ CreateSession(c) \/ DestroySession(c) \/ SetPersistence(c) \/ ClearBarriers(c)
  \/ ConnectEis(c) \/ EnableSession(c) \/ DisableSession(c) \/ ReleaseSession(c)
  \/ \E restored \in BOOLEAN : Start(c, restored)
  \/ \E current \in BOOLEAN : CommitBarriers(c, current)
  \/ EiConnect(c) \/ EiDisconnect(c) \/ DeviceClosed(c)
  \/ \E devices \in BOOLEAN : SeatBind(c, devices)
Meanings == {"enter", "escape", "bound", "modifier", "other"}
CaptureNext ==
  \/ \E c \in Sessions : SessionRequest(c) \/ RevokePermission(c) \/ CrossBarrier(c)
  \/ UpdateOutputs \/ ReplaceKeyboard \/ SuspendOnDevice
  \/ PressButton \/ ReleaseButton \/ ReleaseKey
  \/ \E meaning \in Meanings : PressKey(meaning)
  \/ SessionQuit \/ CastChanges
  \/ \E e \in Emulators : EmulatorConnects(e) \/ EmulatorLeaves(e)
  \/ BeginSessionLock \/ SecureSession \/ EndSessionLock \/ LoseSeat \/ RegainSeat
CaptureSpec == CaptureInit /\ [][CaptureNext]_captureVars

----------------------------------------------------------------------------
(* Properties *)

\* The dialog on the screen asks for exactly the one request that is pending, whatever ended
\* others before it: nobody's request waits unseen, and no answer can reach another's.
SoleDialog ==
  /\ {c \in Sessions : sess[c].pending} = {asking} \ {NoOne}  \* pending: not answered yet
  /\ {e \in Emulators : emu[e] = "waiting"} = {emulating} \ {NoOne}
  /\ dialog = "capture" <=> asking # NoOne
  /\ dialog = "emulation" <=> emulating # NoOne
  /\ dialog = "cast" <=> cast.pending
  /\ cast.pending \/ cast.confirmed => cast.active

\* Input is handed over, and stays armed to be, only in an approved session that can take it, on
\* an unlocked seat, with no dialog waiting for keys.
CaptureYields ==
  /\ \A c \in Sessions : sess[c].enabled => Usable(InputNow, c) /\ sess[c].link # "none"
  /\ holder # NoOne => sess[holder].enabled /\ sess[holder].link = "ready" /\ dialog = "none"
  /\ button.sent => PointerTaken(InputNow)

\* A held key belongs to one side, the remote, the focused surface or nobody, and its release
\* reaches the side that saw its press; one the remote has seen never reaches a surface.
HeldKeyHasOneOwner ==
  [][/\ key'.sent => holder' \in Typing /\ key'.down /\ ~key'.local
     /\ key'.local => key'.down
     /\ key'.down => (key'.local <=> ~key'.consumed /\ ~key'.sent)
     /\ key.sent /\ key'.down => ~key'.local]_captureVars

=============================================================================
