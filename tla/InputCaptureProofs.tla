------------------------- MODULE InputCaptureProofs -------------------------
(***************************************************************************)
(* The dialog asks for the one request that is pending, input is captured   *)
(* only while it may be, and a held key belongs to one side, for any number *)
(* of capture sessions and emulating clients.                               *)
(*                                                                         *)
(* As the handlers of InputCapture are pipelines on a record, so is the     *)
(* inductive invariant stated of a record s: Proper of each session, Held   *)
(* of the key and the button, Asks of the dialog.  A lemma says what each   *)
(* stage of a pipeline keeps, one for each action that it keeps them all.   *)
(***************************************************************************)
EXTENDS InputCapture, TLAPS

Fields == {"sess", "holder", "key", "button", "dialog", "asking", "emu", "emulating", "verdict",
           "cast", "lock", "vt"}
SessionFields == {"exists", "attempted", "pending", "approved", "closed", "enabled", "barriers",
                  "link"}

Shaped(s) ==
  /\ DOMAIN s = Fields
  /\ DOMAIN s.sess = Sessions /\ \A c \in Sessions : DOMAIN s.sess[c] = SessionFields
  /\ s.holder \in Sessions \cup {NoOne} /\ s.asking \in Sessions \cup {NoOne}
  /\ DOMAIN s.key = {"down", "consumed", "sent", "local"}
  /\ DOMAIN s.button = {"down", "sent", "local"}
  /\ DOMAIN s.emu = Emulators /\ s.emulating \in Emulators \cup {NoOne}
  /\ DOMAIN s.verdict = Emulators
  /\ DOMAIN s.cast = {"active", "confirmed", "pending"}

\* A session waits for an answer exactly while it is asked about.
Waits(s, c) ==
  /\ s.sess[c].pending <=> s.asking = c
  /\ s.sess[c].pending => s.sess[c].attempted /\ ~s.sess[c].approved
  /\ s.sess[c].approved => s.sess[c].attempted

\* A session that is armed may be, and one that has the input is armed.
Armed(s, c) ==
  /\ s.sess[c].enabled => Usable(s, c) /\ s.sess[c].link # "none"
  /\ s.holder = c => s.sess[c].enabled /\ s.sess[c].link = "ready"

Proper(s, c) == Waits(s, c) /\ Armed(s, c)

\* A press belongs to one side: the remote, the focused surface or nobody.
KeyHeld(s) ==
  /\ s.key.sent => KeysTaken(s) /\ s.key.down
  /\ KeysTaken(s) => ~s.key.local
  /\ s.key.local => s.key.down
  /\ s.key.down => (s.key.local <=> ~s.key.consumed /\ ~s.key.sent)
  /\ ~s.key.down => ~s.key.consumed
ButtonHeld(s) == s.button.sent => PointerTaken(s)

\* The dialog on the screen asks the one question that is pending.
Asks(s) ==
  /\ \A e \in Emulators : s.emu[e] = "waiting" <=> s.emulating = e
  /\ s.dialog = "capture" <=> s.asking # NoOne
  /\ s.dialog = "emulation" <=> s.emulating # NoOne
  /\ s.dialog = "cast" <=> s.cast.pending
  /\ s.cast.pending \/ s.cast.confirmed => s.cast.active
  /\ s.holder # NoOne => s.dialog = "none"

Sane(s) == /\ Shaped(s) /\ (\A c \in Sessions : Proper(s, c))
           /\ ButtonHeld(s) /\ Asks(s)

\* The inductive invariant.
IInv == Sane(InputNow) /\ KeyHeld(InputNow)

----------------------------------------------------------------------------
(* What a stage does *)

\* A stage that keeps the invariant and brings no press back to the surfaces.
Keeps(s, t) == /\ Sane(t) /\ (KeyHeld(s) => KeyHeld(t))
               /\ t.key.local => s.key.local

SameDialog(s, t) ==
  /\ t.dialog = s.dialog /\ t.asking = s.asking /\ t.emu = s.emu /\ t.emulating = s.emulating
  /\ t.verdict = s.verdict /\ t.cast = s.cast
SameSeat(s, t) == t.lock = s.lock /\ t.vt = s.vt
SameHands(s, t) == t.holder = s.holder /\ t.key = s.key /\ t.button = s.button

\* A press goes on where it was, or is over for both sides.
PressKept(s, t) == /\ t.key.down = s.key.down
                   /\ KeyHeld(s) /\ s.key.sent => t.key.sent \/ t.key.consumed

\* Only whether it is enabled differs.
SameButEnabled(s, t, c) ==
  /\ t.sess[c].attempted = s.sess[c].attempted /\ t.sess[c].pending = s.sess[c].pending
  /\ t.sess[c].approved = s.sess[c].approved   /\ t.sess[c].closed = s.sess[c].closed
  /\ t.sess[c].link = s.sess[c].link

\* The input is taken from the sessions cs, and they are disarmed.
Disarmed(s, t, cs) ==
  /\ Shaped(t) /\ SameDialog(s, t) /\ SameSeat(s, t)
  /\ \A c \in Sessions : SameButEnabled(s, t, c)
  /\ \A c \in Sessions : IF c \in cs THEN ~t.sess[c].enabled ELSE t.sess[c] = s.sess[c]
  /\ t.holder = NoOne \/ (t.holder = s.holder /\ t.holder \notin cs)
  /\ PressKept(s, t)
  /\ KeyHeld(s) => KeyHeld(t)
  /\ ButtonHeld(s) => ButtonHeld(t)
  /\ t.key.local => s.key.local

LEMMA NobodyTakes ==
  NoOne \notin Sessions /\ NoOne \notin Typing /\ NoOne \notin Pointing
  /\ NoOne \notin Emulators /\ Typing \subseteq Sessions /\ Pointing \subseteq Sessions
BY PartyAssumption

----------------------------------------------------------------------------
(* Letting go *)

LEMMA DeactivateShape ==
  ASSUME NEW s, Shaped(s)
  PROVE  LET t == Deactivate(s)
         IN  /\ Shaped(t) /\ t.holder = NoOne /\ t.sess = s.sess
             /\ SameDialog(s, t) /\ SameSeat(s, t) /\ PressKept(s, t)
             /\ KeyHeld(s) => KeyHeld(t)
             /\ ButtonHeld(s) => ButtonHeld(t)
             /\ t.key.local => s.key.local
<1> DEFINE t == [s EXCEPT !.holder = NoOne, !.button.sent = FALSE, !.key.sent = FALSE,
                          !.key.consumed = @ \/ (KeysTaken(s) /\ s.key.down)]
<1>1. CASE s.holder = NoOne
  BY <1>1 DEF Deactivate, SameDialog, SameSeat, PressKept
<1>2. CASE s.holder # NoOne
  <2>1. /\ DOMAIN t = Fields /\ t.holder = NoOne /\ t.sess = s.sess
        /\ SameDialog(s, t) /\ SameSeat(s, t)
    BY DEF Shaped, Fields, SameDialog, SameSeat
  <2>2. /\ DOMAIN t.key = DOMAIN s.key /\ ~t.key.sent
        /\ t.key.consumed <=> s.key.consumed \/ (KeysTaken(s) /\ s.key.down)
        /\ t.key.local = s.key.local /\ t.key.down = s.key.down
        /\ DOMAIN t.button = DOMAIN s.button /\ ~t.button.sent
    BY DEF Shaped, Fields
  <2>3. t = Deactivate(s)
    BY <1>2 DEF Deactivate
  <2> HIDE DEF t
  <2>4. Shaped(t)
    BY <2>1, <2>2 DEF Shaped, SameDialog
  <2>5. (KeyHeld(s) => KeyHeld(t)) /\ ButtonHeld(t) /\ PressKept(s, t)
    BY <2>1, <2>2, NobodyTakes DEF KeyHeld, ButtonHeld, KeysTaken, PointerTaken, PressKept
  <2>6. QED
    BY <2>1, <2>2, <2>3, <2>4, <2>5
<1>3. QED
  BY <1>1, <1>2

LEMMA DisarmDisarms ==
  ASSUME NEW s, NEW c \in Sessions, Shaped(s)
  PROVE  Disarmed(s, Disarm(s, c), {c})
<1> DEFINE d == IF s.holder = c THEN Deactivate(s) ELSE s
           t == [d EXCEPT !.sess[c].enabled = FALSE]
<1>1. /\ Shaped(d) /\ d.sess = s.sess /\ SameDialog(s, d) /\ SameSeat(s, d)
      /\ PressKept(s, d)
      /\ d.holder = NoOne \/ (d.holder = s.holder /\ d.holder # c)
      /\ KeyHeld(s) => KeyHeld(d)
      /\ ButtonHeld(s) => ButtonHeld(d)
      /\ d.key.local => s.key.local
  BY DeactivateShape DEF SameDialog, SameSeat, PressKept
<1> HIDE DEF d
<1>2. /\ DOMAIN t = Fields /\ SameDialog(d, t) /\ SameSeat(d, t) /\ SameHands(d, t)
      /\ t.sess = [d.sess EXCEPT ![c].enabled = FALSE]
  BY <1>1 DEF Shaped, Fields, SameDialog, SameSeat, SameHands
<1>3. t = Disarm(s, c)
  BY DEF Disarm, d
<1> HIDE DEF t
<1>4. /\ DOMAIN t.sess = Sessions
      /\ \A p \in Sessions : p # c => t.sess[p] = d.sess[p]
      /\ DOMAIN t.sess[c] = SessionFields /\ ~t.sess[c].enabled /\ SameButEnabled(d, t, c)
  <2>1. /\ DOMAIN d.sess = Sessions /\ DOMAIN d.sess[c] = SessionFields
        /\ t.sess = [d.sess EXCEPT ![c] = [d.sess[c] EXCEPT !.enabled = FALSE]]
    BY <1>1, <1>2 DEF Shaped
  <2>2. /\ t.sess[c] = [d.sess[c] EXCEPT !.enabled = FALSE] /\ DOMAIN t.sess = Sessions
        /\ \A p \in Sessions : p # c => t.sess[p] = d.sess[p]
    BY <2>1
  <2>3. QED
    BY <2>1, <2>2 DEF SessionFields, SameButEnabled
<1>5. Shaped(t)
  BY <1>1, <1>2, <1>4 DEF Shaped, SameDialog, SameHands
<1>6. \A p \in Sessions : SameButEnabled(s, t, p)
  BY <1>1, <1>4 DEF SameButEnabled
<1>7. \A p \in Sessions : IF p \in {c} THEN ~t.sess[p].enabled ELSE t.sess[p] = s.sess[p]
  BY <1>1, <1>4
<1>8. /\ KeyHeld(s) => KeyHeld(t)
      /\ ButtonHeld(s) => ButtonHeld(t)
      /\ t.key.local => s.key.local
      /\ PressKept(s, t)
  BY <1>1, <1>2 DEF SameHands, KeyHeld, ButtonHeld, KeysTaken, PointerTaken, PressKept
<1>9. QED
  BY <1>1, <1>2, <1>3, <1>5, <1>6, <1>7, <1>8 DEF Disarmed, SameDialog, SameSeat, SameHands

LEMMA DisarmAllDisarms ==
  ASSUME NEW s, NEW cs, cs \subseteq Sessions, Shaped(s)
  PROVE  Disarmed(s, DisarmAll(s, cs), cs)
<1> DEFINE d == IF s.holder \in cs THEN Deactivate(s) ELSE s
           t == [d EXCEPT !.sess = [c \in Sessions |->
                   IF c \in cs THEN [s.sess[c] EXCEPT !.enabled = FALSE] ELSE s.sess[c]]]
<1>1. /\ Shaped(d) /\ d.sess = s.sess /\ SameDialog(s, d) /\ SameSeat(s, d)
      /\ PressKept(s, d)
      /\ d.holder = NoOne \/ (d.holder = s.holder /\ d.holder \notin cs)
      /\ KeyHeld(s) => KeyHeld(d)
      /\ ButtonHeld(s) => ButtonHeld(d)
      /\ d.key.local => s.key.local
  BY DeactivateShape DEF SameDialog, SameSeat, PressKept
<1> HIDE DEF d
<1>2. /\ DOMAIN t = Fields /\ SameDialog(d, t) /\ SameSeat(d, t) /\ SameHands(d, t)
      /\ t.sess = [c \in Sessions |->
                   IF c \in cs THEN [s.sess[c] EXCEPT !.enabled = FALSE] ELSE s.sess[c]]
  BY <1>1 DEF Shaped, Fields, SameDialog, SameSeat, SameHands
<1>3. t = DisarmAll(s, cs)
  BY DEF DisarmAll, d
<1> HIDE DEF t
<1>4. /\ DOMAIN t.sess = Sessions
      /\ \A p \in Sessions : /\ DOMAIN t.sess[p] = SessionFields /\ SameButEnabled(s, t, p)
                             /\ IF p \in cs THEN ~t.sess[p].enabled ELSE t.sess[p] = s.sess[p]
  BY <1>2 DEF Shaped, SessionFields, SameButEnabled
<1>5. Shaped(t)
  BY <1>1, <1>2, <1>4 DEF Shaped, SameDialog, SameHands
<1>6. QED
  BY <1>1, <1>2, <1>3, <1>4, <1>5, ZenonT(60) DEF Disarmed, SameDialog, SameSeat, SameHands,
     KeyHeld, ButtonHeld, KeysTaken, PointerTaken, PressKept

\* Taking the input away and disarming sessions is always right.
LEMMA DisarmedKeeps ==
  ASSUME NEW s, NEW t, NEW cs, Sane(s), Disarmed(s, t, cs)
  PROVE  Keeps(s, t)
<1>1. \A c \in Sessions : Proper(t, c)
  BY NobodyTakes DEF Sane, Disarmed, Proper, Waits, Armed, SameButEnabled, SameDialog, SameSeat,
     Usable, Blocked
<1>2. Asks(t)
  BY DEF Sane, Disarmed, Asks, SameDialog
<1>3. QED
  BY <1>1, <1>2 DEF Sane, Disarmed, Keeps

----------------------------------------------------------------------------
(* One session changes *)

\* What one session's change leaves alone: the others, and whether they are asked about.
OnlySession(s, t, c) ==
  /\ Shaped(t) /\ SameHands(s, t) /\ SameSeat(s, t)
  /\ \A d \in Sessions \ {c} : t.sess[d] = s.sess[d] /\ (t.asking = d <=> s.asking = d)

LEMMA OneSessionProper ==
  ASSUME NEW s, NEW t, NEW c \in Sessions, \A d \in Sessions : Proper(s, d),
         OnlySession(s, t, c), Proper(t, c)
  PROVE  \A d \in Sessions : Proper(t, d)
<1>1. ASSUME NEW d \in Sessions \ {c} PROVE Proper(t, d)
  BY <1>1 DEF OnlySession, Proper, Waits, Armed, SameHands, SameSeat, Usable, Blocked
<1>2. QED
  BY <1>1

LEMMA SameHandsHeld ==
  ASSUME NEW s, NEW t, SameHands(s, t)
  PROVE  /\ KeyHeld(s) => KeyHeld(t)
         /\ ButtonHeld(s) => ButtonHeld(t)
         /\ t.key.local => s.key.local
BY DEF SameHands, KeyHeld, ButtonHeld, KeysTaken, PointerTaken

\* One session changes, and no question is asked or answered.
LEMMA OneSessionKeeps ==
  ASSUME NEW s, NEW t, NEW c \in Sessions, Sane(s), OnlySession(s, t, c), SameDialog(s, t),
         Proper(t, c)
  PROVE  Keeps(s, t)
<1>1. Asks(t)
  BY DEF Sane, Asks, SameDialog, OnlySession, SameHands
<1>2. QED
  BY <1>1, OneSessionProper, SameHandsHeld DEF Sane, OnlySession, Keeps

\* A record r replaces the session c, and the question about it may go.
LEMMA SessionReplaced ==
  ASSUME NEW s, NEW t, NEW c \in Sessions, NEW r, Shaped(s),
         DOMAIN t = Fields, SameHands(s, t), SameSeat(s, t), SameDialog(s, t),
         t.sess = [s.sess EXCEPT ![c] = r], DOMAIN r = SessionFields
  PROVE  OnlySession(s, t, c) /\ t.sess[c] = r
<1>1. /\ DOMAIN t.sess = Sessions /\ t.sess[c] = r
      /\ \A d \in Sessions : d # c => t.sess[d] = s.sess[d]
  BY DEF Shaped
<1>2. \A d \in Sessions : DOMAIN t.sess[d] = SessionFields
  BY <1>1 DEF Shaped
<1>3. QED
  BY <1>1, <1>2 DEF OnlySession, Shaped, SameHands, SameDialog

\* The answer a session has been given.
Answered(s, t, c, allowed) ==
  /\ ~t.sess[c].pending /\ (t.sess[c].approved <=> allowed)
  /\ t.sess[c].attempted = s.sess[c].attempted /\ t.sess[c].enabled = s.sess[c].enabled
  /\ t.sess[c].closed = s.sess[c].closed /\ t.sess[c].link = s.sess[c].link

LEMMA StartedShape ==
  ASSUME NEW s, NEW c \in Sessions, NEW allowed, Shaped(s)
  PROVE  LET t == Started(s, c, allowed)
         IN  OnlySession(s, t, c) /\ SameDialog(s, t) /\ Answered(s, t, c, allowed)
<1> DEFINE t == Started(s, c, allowed)
           r == [s.sess[c] EXCEPT !.pending = FALSE, !.approved = allowed]
<1>1. /\ DOMAIN t = Fields /\ SameHands(s, t) /\ SameSeat(s, t) /\ SameDialog(s, t)
      /\ t.sess = [s.sess EXCEPT ![c] = r]
  BY DEF Started, Shaped, Fields, SameDialog, SameSeat, SameHands
<1>2. /\ DOMAIN r = SessionFields /\ ~r.pending /\ (r.approved <=> allowed)
      /\ r.attempted = s.sess[c].attempted /\ r.enabled = s.sess[c].enabled
      /\ r.closed = s.sess[c].closed /\ r.link = s.sess[c].link
  BY DEF Shaped, SessionFields
<1> HIDE DEF t, r
<1>3. OnlySession(s, t, c) /\ t.sess[c] = r
  BY <1>1, <1>2, SessionReplaced, ZenonT(60)
<1>4. QED
  BY <1>1, <1>2, <1>3 DEF Answered, t

\* The question about a session is withdrawn, and it is refused.
Refused(s, c) == Started(CancelInputCapture(s, c), c, FALSE)

LEMMA RefusedShape ==
  ASSUME NEW s, NEW c \in Sessions, Shaped(s), s.asking = c
  PROVE  LET t == Refused(s, c)
         IN  /\ OnlySession(s, t, c) /\ Answered(s, t, c, FALSE) /\ t.asking = NoOne
             /\ t.dialog = (IF s.dialog = "capture" THEN "none" ELSE s.dialog)
             /\ t.emu = s.emu /\ t.emulating = s.emulating /\ t.verdict = s.verdict
             /\ t.cast = s.cast
<1> DEFINE k == CancelInputCapture(s, c)
<1>1. /\ Shaped(k) /\ SameHands(s, k) /\ SameSeat(s, k) /\ k.sess = s.sess /\ k.asking = NoOne
      /\ k.dialog = (IF s.dialog = "capture" THEN "none" ELSE s.dialog)
      /\ k.emu = s.emu /\ k.emulating = s.emulating /\ k.verdict = s.verdict /\ k.cast = s.cast
  BY DEF CancelInputCapture, Shaped, Fields, SameSeat, SameHands
<1> HIDE DEF k
<1>2. LET t == Started(k, c, FALSE)
      IN  OnlySession(k, t, c) /\ SameDialog(k, t) /\ Answered(k, t, c, FALSE)
  BY <1>1, StartedShape
<1> DEFINE t == Started(k, c, FALSE)
<1>3. Answered(s, t, c, FALSE)
  BY <1>1, <1>2 DEF Answered
<1>4. OnlySession(s, t, c)
  BY <1>1, <1>2, NobodyTakes, ZenonT(60) DEF OnlySession, SameDialog, SameHands, SameSeat
<1>5. QED
  BY <1>1, <1>2, <1>3, <1>4 DEF Refused, k, SameDialog

----------------------------------------------------------------------------
(* Closing and suspending *)

LEMMA DisarmKeeps ==
  ASSUME NEW s, NEW c \in Sessions, Sane(s)
  PROVE  /\ Keeps(s, Disarm(s, c)) /\ ~Disarm(s, c).sess[c].enabled
         /\ Disarm(s, c).holder # c /\ SameButEnabled(s, Disarm(s, c), c)
<1>1. Disarmed(s, Disarm(s, c), {c})
  BY DisarmDisarms DEF Sane
<1>2. QED
  BY <1>1, DisarmedKeeps, NobodyTakes DEF Keeps, Disarmed

LEMMA DisarmAllKeeps ==
  ASSUME NEW s, NEW cs, cs \subseteq Sessions, Sane(s)
  PROVE  Keeps(s, DisarmAll(s, cs))
<1>1. Disarmed(s, DisarmAll(s, cs), cs)
  BY DisarmAllDisarms DEF Sane
<1>2. QED
  BY <1>1, DisarmedKeeps DEF Keeps, Disarmed

\* The refusal of a session that is asked about, and is not armed, is right.
LEMMA RefusedKeeps ==
  ASSUME NEW s, NEW c \in Sessions, Sane(s), s.asking = c
  PROVE  Keeps(s, Refused(s, c))
<1> DEFINE t == Refused(s, c)
<1>1. /\ OnlySession(s, t, c) /\ Answered(s, t, c, FALSE) /\ t.asking = NoOne
      /\ t.dialog = (IF s.dialog = "capture" THEN "none" ELSE s.dialog)
      /\ t.emu = s.emu /\ t.emulating = s.emulating /\ t.verdict = s.verdict /\ t.cast = s.cast
  BY RefusedShape DEF Sane
<1> HIDE DEF t
<1>2. Proper(t, c)
  BY <1>1, NobodyTakes DEF Sane, Proper, Waits, Armed, Answered, Usable, OnlySession, SameHands
<1>3. Asks(t)
  BY <1>1, NobodyTakes DEF Sane, Asks, OnlySession, SameHands
<1>4. QED
  BY <1>1, <1>2, <1>3, OneSessionProper, SameHandsHeld DEF Sane, Keeps, OnlySession, t

LEMMA CloseKeeps ==
  ASSUME NEW s, NEW c \in Sessions, Sane(s)
  PROVE  Keeps(s, Close(s, c))
<1> DEFINE d == Disarm(s, c)
           off == [d EXCEPT !.sess[c].closed = TRUE, !.sess[c].link = "none"]
           r == [d.sess[c] EXCEPT !.closed = TRUE, !.link = "none"]
<1>1. Keeps(s, d) /\ ~d.sess[c].enabled /\ d.holder # c /\ SameButEnabled(s, d, c)
  BY DisarmKeeps
<1> HIDE DEF d
<1>2. /\ DOMAIN off = Fields /\ SameHands(d, off) /\ SameSeat(d, off) /\ SameDialog(d, off)
      /\ off.sess = [d.sess EXCEPT ![c] = r]
  BY <1>1 DEF Keeps, Sane, Shaped, Fields, SameDialog, SameSeat, SameHands
<1>3. /\ DOMAIN r = SessionFields /\ r.pending = d.sess[c].pending
      /\ r.approved = d.sess[c].approved /\ r.attempted = d.sess[c].attempted
      /\ r.enabled = d.sess[c].enabled
  BY <1>1 DEF Keeps, Sane, Shaped, SessionFields
<1>4. \/ Close(s, c) \in {s, off}
      \/ s.sess[c].pending /\ Close(s, c) = Refused(off, c)
  BY DEF Close, Refused, d, off
<1> HIDE DEF off, r
<1>5. OnlySession(d, off, c) /\ off.sess[c] = r
  <2>1. Shaped(d)
    BY <1>1 DEF Keeps, Sane
  <2>2. DOMAIN r = SessionFields /\ DOMAIN off = Fields
    BY <1>2, <1>3
  <2>3. SameHands(d, off) /\ SameSeat(d, off) /\ SameDialog(d, off)
    BY <1>2
  <2>4. off.sess = [d.sess EXCEPT ![c] = r]
    BY <1>2
  <2>5. QED
    BY <2>1, <2>2, <2>3, <2>4, SessionReplaced
<1>6. Proper(off, c)
  BY <1>1, <1>2, <1>3, <1>5 DEF Keeps, Sane, Proper, Waits, Armed, SameDialog, SameHands
<1>7. Keeps(s, off) /\ Sane(off)
  BY <1>1, <1>2, <1>5, <1>6, OneSessionKeeps, SameHandsHeld DEF Keeps
<1>8. s.sess[c].pending => off.asking = c
  BY <1>1, <1>3, <1>5, <1>6 DEF Proper, Waits, SameButEnabled
<1>9. CASE Close(s, c) \in {s, off}
  BY <1>7, <1>9 DEF Keeps
<1>10. CASE s.sess[c].pending /\ Close(s, c) = Refused(off, c)
  <2>1. Keeps(off, Refused(off, c))
    BY <1>7, <1>8, <1>10, RefusedKeeps
  <2>2. QED
    BY <1>7, <1>10, <2>1 DEF Keeps
<1>11. QED
  BY <1>4, <1>9, <1>10

\* What suspending leaves: no session is armed, asked about or holds the input.
Suspended(s, t) ==
  /\ Shaped(t) /\ SameSeat(s, t) /\ t.holder = NoOne /\ t.asking = NoOne
  /\ \A c \in Sessions : Waits(t, c) /\ ~t.sess[c].enabled
  /\ t.dialog = (IF s.asking # NoOne /\ s.dialog = "capture" THEN "none" ELSE s.dialog)
  /\ t.emu = s.emu /\ t.emulating = s.emulating /\ t.verdict = s.verdict /\ t.cast = s.cast
  /\ PressKept(s, t)
  /\ KeyHeld(s) => KeyHeld(t)
  /\ ButtonHeld(s) => ButtonHeld(t)
  /\ t.key.local => s.key.local

LEMMA ChosenIsMember ==
  ASSUME NEW S, S # {}
  PROVE  (CHOOSE w \in S : TRUE) \in S
OBVIOUS

\* It needs to know of a session only whether it waits: the lock may have closed already.
LEMMA SuspendShape ==
  ASSUME NEW s, Shaped(s), \A c \in Sessions : Waits(s, c)
  PROVE  Suspended(s, Suspend(s))
<1> DEFINE off == DisarmAll(s, Sessions)
           waiting == {c \in Sessions : s.sess[c].pending}
           c == CHOOSE w \in waiting : TRUE
<1>1. Disarmed(s, off, Sessions)
  BY DisarmAllDisarms
<1>2. waiting = {} => s.asking = NoOne
  BY DEF Shaped, Waits
<1>3. waiting # {} => c \in Sessions /\ s.asking = c
  <2>1. waiting # {} => c \in waiting
    BY ChosenIsMember
  <2>2. QED
    BY <2>1 DEF Waits
<1>4. Suspend(s) = IF waiting = {} THEN off ELSE Refused(off, c)
  BY DEF Suspend, Refused
<1> HIDE DEF off, waiting, c
<1>5. /\ Shaped(off) /\ SameSeat(s, off) /\ off.holder = NoOne /\ SameDialog(s, off)
      /\ \A d \in Sessions : Waits(off, d) /\ ~off.sess[d].enabled
      /\ PressKept(s, off)
      /\ KeyHeld(s) => KeyHeld(off)
      /\ ButtonHeld(s) => ButtonHeld(off)
      /\ off.key.local => s.key.local
  <2>1. off.holder = NoOne
    BY <1>1 DEF Disarmed, Shaped
  <2>2. \A d \in Sessions : Waits(off, d) /\ ~off.sess[d].enabled
    BY <1>1 DEF Disarmed, Waits, SameButEnabled, SameDialog
  <2>3. QED
    BY <1>1, <2>1, <2>2 DEF Disarmed
<1>6. CASE waiting = {}
  BY <1>2, <1>4, <1>5, <1>6 DEF Suspended, SameDialog
<1>7. CASE waiting # {}
  <2> DEFINE t == Refused(off, c)
  <2>1. c \in Sessions /\ off.asking = c
    BY <1>3, <1>5, <1>7 DEF SameDialog
  <2>2. /\ OnlySession(off, t, c) /\ Answered(off, t, c, FALSE) /\ t.asking = NoOne
        /\ t.dialog = (IF off.dialog = "capture" THEN "none" ELSE off.dialog)
        /\ t.emu = off.emu /\ t.emulating = off.emulating /\ t.verdict = off.verdict
        /\ t.cast = off.cast
    BY <1>5, <2>1, RefusedShape
  <2> HIDE DEF t
  <2>3. \A d \in Sessions : Waits(t, d) /\ ~t.sess[d].enabled
    <3>1. Waits(t, c) /\ ~t.sess[c].enabled
      BY <1>5, <2>1, <2>2, NobodyTakes DEF Waits, Answered
    <3>2. ASSUME NEW d \in Sessions \ {c} PROVE Waits(t, d) /\ ~t.sess[d].enabled
      BY <1>5, <2>1, <2>2, <3>2 DEF Waits, OnlySession
    <3>3. QED
      BY <3>1, <3>2
  <2>4. /\ Shaped(t) /\ SameSeat(s, t) /\ t.holder = NoOne /\ PressKept(s, t)
        /\ KeyHeld(s) => KeyHeld(t)
        /\ ButtonHeld(s) => ButtonHeld(t)
        /\ t.key.local => s.key.local
    BY <1>5, <2>2, SameHandsHeld DEF OnlySession, SameHands, SameSeat, PressKept
  <2>5. t.dialog = (IF s.asking # NoOne /\ s.dialog = "capture" THEN "none" ELSE s.dialog)
    BY <1>5, <2>1, <2>2, NobodyTakes DEF SameDialog
  <2>6. Suspend(s) = t
    BY <1>4, <1>7 DEF t
  <2>7. QED
    BY <1>5, <2>2, <2>3, <2>4, <2>5, <2>6 DEF Suspended, SameDialog
<1>8. QED
  BY <1>6, <1>7

\* After it any lock will do.
LEMMA SuspendedKeeps ==
  ASSUME NEW s, NEW t, Suspended(s, t), ButtonHeld(s), Asks(s)
  PROVE  Keeps(s, t)
<1>1. \A c \in Sessions : Proper(t, c)
  BY NobodyTakes DEF Suspended, Proper, Armed
<1>2. Asks(t)
  BY DEF Suspended, Asks
<1>3. QED
  BY <1>1, <1>2 DEF Suspended, Keeps, Sane

----------------------------------------------------------------------------
(* The dialog's stages *)

\* Nothing but the dialog, its questions and the emulating clients differ.
OnlyDialog(s, t) == Shaped(t) /\ SameHands(s, t) /\ SameSeat(s, t) /\ t.sess = s.sess

LEMMA OnlyDialogKeeps ==
  ASSUME NEW s, NEW t, Sane(s), OnlyDialog(s, t), t.asking = s.asking, Asks(t)
  PROVE  Keeps(s, t)
<1>1. \A c \in Sessions : Proper(t, c)
  BY DEF Sane, OnlyDialog, Proper, Waits, Armed, SameHands, SameSeat, Usable, Blocked
<1>2. QED
  BY <1>1, SameHandsHeld DEF Sane, OnlyDialog, Keeps

\* The pending question about c has an answer.
Settled(s, t) ==
  /\ Shaped(t) /\ SameHands(s, t) /\ SameSeat(s, t) /\ \A c \in Sessions : Proper(t, c)

\* k is s with the question withdrawn.
LEMMA AuthorizeSettles ==
  ASSUME NEW s, NEW k, NEW allowed, Shaped(s), \A c \in Sessions : Proper(s, c),
         s.asking # NoOne, OnlyDialog(s, k), k.asking = NoOne
  PROVE  LET t == AuthorizeSession(k, s.asking, allowed)
         IN  Settled(s, t) /\ SameDialog(k, t)
<1> DEFINE c == s.asking
           yes == allowed /\ ~Blocked(k)
           t == Started(k, c, yes)
<1>1. /\ c \in Sessions /\ k.sess = s.sess /\ Shaped(k)
      /\ s.sess[c].pending /\ s.sess[c].attempted /\ ~s.sess[c].enabled /\ s.holder # c
  BY DEF Shaped, Proper, Waits, Armed, Usable, OnlyDialog
<1>2. t = AuthorizeSession(k, c, allowed)
  BY <1>1 DEF AuthorizeSession
<1> HIDE DEF yes
<1>3. OnlySession(k, t, c) /\ SameDialog(k, t) /\ Answered(k, t, c, yes)
  BY <1>1, StartedShape
<1> HIDE DEF t
<1>4. Proper(t, c)
  BY <1>1, <1>3, NobodyTakes DEF Proper, Waits, Armed, Answered, SameDialog, OnlySession,
     OnlyDialog, SameHands
<1>5. ASSUME NEW d \in Sessions \ {c} PROVE Proper(t, d)
  <2>1. t.sess[d] = s.sess[d] /\ t.asking = NoOne /\ t.holder = s.holder
        /\ t.lock = s.lock /\ t.vt = s.vt
    BY <1>1, <1>3, <1>5 DEF OnlySession, OnlyDialog, SameHands, SameSeat, SameDialog
  <2>2. Proper(s, d) /\ s.asking # d
    BY <1>5
  <2>3. QED
    BY <2>1, <2>2, <1>5, NobodyTakes DEF Proper, Waits, Armed, Usable, Blocked
<1>6. SameHands(s, t) /\ SameSeat(s, t)
  BY <1>3 DEF OnlySession, OnlyDialog, SameHands, SameSeat
<1>7. QED
  BY <1>2, <1>3, <1>4, <1>5, <1>6 DEF Settled, OnlySession, t

LEMMA AuthorizeClientShape ==
  ASSUME NEW s, NEW e \in Emulators, NEW allowed, Shaped(s)
  PROVE  LET t == AuthorizeClient(s, e, allowed)
         IN  /\ OnlyDialog(s, t) /\ t.dialog = s.dialog /\ t.asking = s.asking
             /\ t.emulating = s.emulating /\ t.verdict = s.verdict /\ t.cast = s.cast
             /\ t.emu[e] # "waiting"
             /\ \A f \in Emulators \ {e} : t.emu[f] = s.emu[f]
<1> DEFINE answer == IF allowed /\ s.lock # "locked" THEN "approved" ELSE "gone"
           t == [s EXCEPT !.emu[e] = answer]
<1>1. CASE s.emu[e] # "waiting"
  BY <1>1 DEF AuthorizeClient, OnlyDialog, SameHands, SameSeat
<1>2. CASE s.emu[e] = "waiting"
  <2>1. AuthorizeClient(s, e, allowed) = t
    BY <1>2 DEF AuthorizeClient
  <2>2. answer # "waiting"
    OBVIOUS
  <2> HIDE DEF answer
  <2>3. /\ DOMAIN t = Fields /\ SameHands(s, t) /\ SameSeat(s, t) /\ t.sess = s.sess
        /\ t.dialog = s.dialog /\ t.asking = s.asking
        /\ t.emulating = s.emulating /\ t.verdict = s.verdict /\ t.cast = s.cast
        /\ t.emu = [s.emu EXCEPT ![e] = answer]
    BY DEF Shaped, Fields, SameHands, SameSeat
  <2>4. DOMAIN s.emu = Emulators
    BY DEF Shaped
  <2> HIDE DEF t
  <2>5. /\ DOMAIN t.emu = Emulators /\ t.emu[e] # "waiting"
        /\ \A f \in Emulators \ {e} : t.emu[f] = s.emu[f]
    BY <2>2, <2>3, <2>4
  <2>6. Shaped(t)
    BY <2>3, <2>5 DEF Shaped, SameHands
  <2>7. QED
    BY <2>1, <2>3, <2>5, <2>6 DEF OnlyDialog
<1>3. QED
  BY <1>1, <1>2

\* After a dismissal nothing is asked.
LEMMA DismissKeeps ==
  ASSUME NEW s, Sane(s)
  PROVE  LET t == DismissConfirmation(s)
         IN  /\ Keeps(s, t) /\ SameHands(s, t) /\ SameSeat(s, t)
             /\ t.dialog = "none" /\ t.asking = NoOne /\ t.emulating = NoOne
<1> DEFINE k == [s EXCEPT !.asking = NoOne]
           a == IF s.asking = NoOne THEN s ELSE AuthorizeSession(k, s.asking, FALSE)
           e == s.emulating
           m == [a EXCEPT !.emulating = NoOne, !.verdict[e] = "denied"]
           i == IF e = NoOne THEN a ELSE AuthorizeClient(m, e, FALSE)
           t == [i EXCEPT !.dialog = "none", !.cast.pending = @ /\ s.dialog # "cast"]
<1>1. t = DismissConfirmation(s)
  BY DEF DismissConfirmation
<1>2. /\ Settled(s, a) /\ a.asking = NoOne /\ a.emu = s.emu /\ a.emulating = s.emulating
      /\ a.cast = s.cast
  <2>1. CASE s.asking = NoOne
    BY <2>1 DEF Settled, Sane, SameHands, SameSeat
  <2>2. CASE s.asking # NoOne
    <3>1. /\ OnlyDialog(s, k) /\ k.asking = NoOne /\ k.emu = s.emu /\ k.emulating = s.emulating
          /\ k.cast = s.cast
      BY DEF Sane, Shaped, Fields, OnlyDialog, SameHands, SameSeat
    <3> HIDE DEF k
    <3>2. LET r == AuthorizeSession(k, s.asking, FALSE) IN Settled(s, r) /\ SameDialog(k, r)
      BY <2>2, <3>1, AuthorizeSettles DEF Sane
    <3>3. QED
      BY <2>2, <3>1, <3>2 DEF SameDialog
  <2>3. QED
    BY <2>1, <2>2
<1> HIDE DEF a, k
<1>3. /\ OnlyDialog(a, i) /\ i.asking = NoOne /\ i.emulating = NoOne /\ i.cast = s.cast
      /\ \A f \in Emulators : i.emu[f] # "waiting"
  <2>1. CASE e = NoOne
    BY <1>2, <2>1, NobodyTakes DEF Settled, OnlyDialog, SameHands, SameSeat, Sane, Asks
  <2>2. CASE e # NoOne
    <3>1. e \in Emulators
      BY <2>2 DEF Sane, Shaped
    <3>2. /\ OnlyDialog(a, m) /\ m.asking = NoOne /\ m.emulating = NoOne /\ m.cast = s.cast
          /\ m.emu = s.emu
      BY <1>2, <3>1 DEF Settled, Shaped, Fields, OnlyDialog, SameHands, SameSeat
    <3> HIDE DEF m
    <3> DEFINE no == FALSE
               u  == AuthorizeClient(m, e, no)
    <3>3. /\ OnlyDialog(m, u) /\ u.dialog = m.dialog /\ u.asking = m.asking
          /\ u.emulating = m.emulating /\ u.verdict = m.verdict /\ u.cast = m.cast
          /\ u.emu[e] # "waiting"
          /\ \A f \in Emulators \ {e} : u.emu[f] = m.emu[f]
      <4>1. Shaped(m)
        BY <3>2 DEF OnlyDialog
      <4> HIDE DEF e, no
      <4>2. QED
        BY <3>1, <4>1, AuthorizeClientShape
    <3> HIDE DEF u
    <3>4. \A f \in Emulators \ {e} : s.emu[f] # "waiting"
      BY DEF Sane, Asks
    <3>5. i = u
      BY <2>2 DEF u
    <3>6. \A f \in Emulators : i.emu[f] # "waiting"
      BY <3>2, <3>3, <3>4, <3>5, ZenonT(60)
    <3>7. OnlyDialog(a, i)
      BY <3>2, <3>3, <3>5 DEF OnlyDialog, SameHands, SameSeat
    <3>8. QED
      BY <3>2, <3>3, <3>5, <3>6, <3>7
  <2>3. QED
    BY <2>1, <2>2
<1> HIDE DEF i
<1>4. /\ OnlyDialog(i, t) /\ t.asking = NoOne /\ t.emulating = NoOne /\ t.dialog = "none"
      /\ t.emu = i.emu
  BY <1>3 DEF OnlyDialog, Shaped, Fields, SameHands, SameSeat
<1>5. ~t.cast.pending /\ (t.cast.confirmed => t.cast.active)
  <2>1. /\ t.cast.pending <=> s.cast.pending /\ s.dialog # "cast"
        /\ t.cast.confirmed = s.cast.confirmed /\ t.cast.active = s.cast.active
    BY <1>3 DEF OnlyDialog, Shaped, Fields
  <2>2. QED
    BY <2>1 DEF Sane, Asks
<1> HIDE DEF t
<1>6. SameHands(s, t) /\ SameSeat(s, t)
  BY <1>2, <1>3, <1>4 DEF Settled, OnlyDialog, SameHands, SameSeat
<1>7. \A c \in Sessions : Proper(t, c)
  BY <1>2, <1>3, <1>4, <1>6 DEF Settled, OnlyDialog, Proper, Waits, Armed, Usable, Blocked,
     SameHands, SameSeat
<1>8. Asks(t)
  BY <1>3, <1>4, <1>5, NobodyTakes DEF Asks
<1>9. Shaped(t)
  BY <1>4 DEF OnlyDialog
<1>10. Keeps(s, t)
  BY <1>6, <1>7, <1>8, <1>9, SameHandsHeld DEF Keeps, Sane
<1>11. QED
  BY <1>1, <1>4, <1>6, <1>10

\* Showing the dialog takes the input away; it is shown for a question already asked.
Shown(s, t, kind) ==
  /\ Shaped(t) /\ (\A c \in Sessions : Proper(t, c)) /\ t.holder = NoOne
  /\ t.dialog = kind /\ t.asking = s.asking
  /\ t.emu = s.emu /\ t.emulating = s.emulating /\ t.verdict = s.verdict /\ t.cast = s.cast
  /\ ButtonHeld(t)
  /\ KeyHeld(s) => KeyHeld(t)
  /\ t.key.local => s.key.local

LEMMA ShowShape ==
  ASSUME NEW s, NEW kind, Shaped(s), \A c \in Sessions : Proper(s, c), ButtonHeld(s),
         s.holder # NoOne => s.asking = NoOne
  PROVE  Shown(s, Show(s, kind), kind)
<1> DEFINE q == IF s.holder # NoOne THEN Suspend(s) ELSE s
           t == [q EXCEPT !.dialog = kind]
<1>1. t = Show(s, kind)
  BY DEF Show
<1>2. /\ Shaped(q) /\ (\A c \in Sessions : Proper(q, c)) /\ q.holder = NoOne
      /\ q.asking = s.asking
      /\ q.emu = s.emu /\ q.emulating = s.emulating /\ q.verdict = s.verdict /\ q.cast = s.cast
      /\ ButtonHeld(q)
      /\ KeyHeld(s) => KeyHeld(q)
      /\ q.key.local => s.key.local
  <2>1. CASE s.holder = NoOne
    BY <2>1
  <2>2. CASE s.holder # NoOne
    <3> DEFINE u == Suspend(s)
    <3>1. Suspended(s, u)
      <4>1. \A c \in Sessions : Waits(s, c)
        BY DEF Proper
      <4>2. QED
        BY <4>1, SuspendShape
    <3>2. q = u
      BY <2>2
    <3> HIDE DEF u, q
    <3>3. \A c \in Sessions : Proper(u, c)
      BY <3>1, NobodyTakes DEF Suspended, Proper, Armed
    <3>4. QED
      BY <2>2, <3>1, <3>2, <3>3 DEF Suspended
  <2>3. QED
    BY <2>1, <2>2
<1> HIDE DEF q
<1>3. /\ OnlyDialog(q, t) /\ t.dialog = kind /\ t.asking = q.asking
      /\ t.emu = q.emu /\ t.emulating = q.emulating /\ t.verdict = q.verdict /\ t.cast = q.cast
  BY <1>2 DEF OnlyDialog, Shaped, Fields, SameHands, SameSeat
<1> HIDE DEF t
<1>4. \A c \in Sessions : Proper(t, c)
  BY <1>2, <1>3 DEF OnlyDialog, Proper, Waits, Armed, SameHands, SameSeat, Usable, Blocked
<1>5. QED
  BY <1>1, <1>2, <1>3, <1>4, SameHandsHeld DEF Shown, OnlyDialog, SameHands

LEMMA ShownKeeps ==
  ASSUME NEW s, NEW k, NEW t, NEW kind, SameHands(s, k), Shown(k, t, kind), Asks(t)
  PROVE  Keeps(s, t)
BY SameHandsHeld DEF Shown, Keeps, Sane

----------------------------------------------------------------------------
(* Screencasts *)

LEMMA SetScreenCastActiveKeeps ==
  ASSUME NEW s, NEW on, on \in BOOLEAN, Sane(s)
  PROVE  Keeps(s, SetScreenCastActive(s, on))
<1> DEFINE new == [active |-> on, confirmed |-> FALSE, pending |-> FALSE]
           t == [s EXCEPT !.cast = new, !.dialog = IF @ = "cast" THEN "none" ELSE @]
<1>1. CASE s.cast.active = on
  BY <1>1 DEF SetScreenCastActive, Keeps
<1>2. CASE s.cast.active # on
  <2>1. t = SetScreenCastActive(s, on)
    BY <1>2 DEF SetScreenCastActive
  <2>2. /\ DOMAIN new = {"active", "confirmed", "pending"} /\ ~new.confirmed /\ ~new.pending
    OBVIOUS
  <2> HIDE DEF new
  <2>3. /\ OnlyDialog(s, t) /\ t.asking = s.asking /\ t.emu = s.emu /\ t.emulating = s.emulating
        /\ t.cast = new /\ t.dialog = IF s.dialog = "cast" THEN "none" ELSE s.dialog
    BY <2>2 DEF Sane, Shaped, Fields, OnlyDialog, SameHands, SameSeat
  <2> HIDE DEF t
  <2>4. Asks(t)
    BY <2>2, <2>3 DEF Sane, Asks, OnlyDialog, SameHands
  <2>5. QED
    BY <2>1, <2>3, <2>4, OnlyDialogKeeps
<1>3. QED
  BY <1>1, <1>2

LEMMA ConfirmCastKeeps ==
  ASSUME NEW s, Sane(s)
  PROVE  Keeps(s, ConfirmCast(s))
<1> DEFINE t == [s EXCEPT !.cast.pending = FALSE, !.cast.confirmed = TRUE, !.dialog = "none"]
<1>1. CASE ~s.cast.active \/ ~s.cast.pending
  BY <1>1, DismissKeeps DEF ConfirmCast
<1>2. CASE s.cast.active /\ s.cast.pending
  <2>1. t = ConfirmCast(s)
    BY <1>2 DEF ConfirmCast
  <2>2. /\ OnlyDialog(s, t) /\ t.asking = s.asking /\ t.emu = s.emu /\ t.emulating = s.emulating
        /\ ~t.cast.pending /\ t.cast.active = s.cast.active /\ t.dialog = "none"
    BY DEF Sane, Shaped, Fields, OnlyDialog, SameHands, SameSeat
  <2> HIDE DEF t
  <2>3. Asks(t)
    BY <1>2, <2>2 DEF Sane, Asks, OnlyDialog, SameHands
  <2>4. QED
    BY <2>1, <2>2, <2>3, OnlyDialogKeeps
<1>3. QED
  BY <1>1, <1>2

LEMMA RequestCastCommandKeeps ==
  ASSUME NEW s, Sane(s)
  PROVE  Keeps(s, RequestCastCommand(s))
<1> DEFINE k == [s EXCEPT !.cast.pending = TRUE]
           t == Show(k, "cast")
<1>1. /\ OnlyDialog(s, k) /\ k.asking = s.asking /\ k.emu = s.emu /\ k.emulating = s.emulating
      /\ k.cast.pending /\ k.cast.active = s.cast.active /\ k.dialog = s.dialog
  BY DEF Sane, Shaped, Fields, OnlyDialog, SameHands, SameSeat
<1>2. Keeps(s, s) /\ Keeps(s, DismissConfirmation(s))
  BY DismissKeeps DEF Keeps
<1>3. CASE s.cast.active /\ s.dialog = "cast"
  <2> HIDE DEF k
  <2>1. Asks(k)
    BY <1>1, <1>3 DEF Sane, Asks, OnlyDialog, SameHands
  <2>2. Keeps(s, k)
    BY <1>1, <2>1, OnlyDialogKeeps
  <2>3. Keeps(k, ConfirmCast(k))
    BY <2>2, ConfirmCastKeeps DEF Keeps
  <2>4. Keeps(s, ConfirmCast(k))
    BY <2>2, <2>3 DEF Keeps
  <2>5. RequestCastCommand(s) \in {s, DismissConfirmation(s), ConfirmCast(k)}
    BY <1>3 DEF RequestCastCommand, k
  <2>6. QED
    BY <1>2, <2>4, <2>5
<1>4. CASE s.cast.active /\ s.dialog = "none"
  <2> HIDE DEF k
  <2>1. /\ Shaped(k) /\ (\A c \in Sessions : Proper(k, c)) /\ ButtonHeld(k)
        /\ k.asking = NoOne /\ SameHands(s, k)
    BY <1>1, <1>4, SameHandsHeld DEF Sane, Asks, OnlyDialog, SameHands, SameSeat, Proper, Waits,
       Armed, Usable, Blocked
  <2>2. Shown(k, t, "cast")
    BY <2>1, ShowShape
  <2> HIDE DEF t
  <2>3. Asks(t)
    BY <1>1, <1>4, <2>2, ZenonT(60) DEF Sane, Asks, Shown
  <2>4. Keeps(s, t)
    BY <2>1, <2>2, <2>3, ShownKeeps
  <2>5. RequestCastCommand(s) \in {s, t}
    BY <1>4 DEF RequestCastCommand, k, t
  <2>6. QED
    BY <1>2, <2>4, <2>5
<1>5. CASE ~s.cast.active \/ s.dialog \notin {"none", "cast"}
  BY <1>2, <1>5 DEF RequestCastCommand
<1>6. QED
  BY <1>3, <1>4, <1>5

----------------------------------------------------------------------------
(* Emulated input *)

\* A client that waited and was not asked about, or no longer is, gets its answer.
LEMMA ClientAnswered ==
  ASSUME NEW s, NEW k, NEW e \in Emulators, NEW allowed, Sane(s), OnlyDialog(s, k),
         k.asking = s.asking, k.cast = s.cast,
         \A f \in Emulators \ {e} : k.emu[f] = s.emu[f],
         \/ k.emulating = s.emulating /\ s.emulating # e /\ k.dialog = s.dialog
         \/ k.emulating = NoOne /\ s.emulating = e /\ k.dialog = "none"
  PROVE  Keeps(s, AuthorizeClient(k, e, allowed))
<1> DEFINE t == AuthorizeClient(k, e, allowed)
<1>1. Shaped(k)
  BY DEF OnlyDialog
<1>2. /\ OnlyDialog(k, t) /\ t.dialog = k.dialog /\ t.asking = k.asking
      /\ t.emulating = k.emulating /\ t.verdict = k.verdict /\ t.cast = k.cast
      /\ t.emu[e] # "waiting"
      /\ \A f \in Emulators \ {e} : t.emu[f] = k.emu[f]
  BY <1>1, AuthorizeClientShape
<1> HIDE DEF t
<1>3. OnlyDialog(s, t)
  BY <1>2 DEF OnlyDialog, SameHands, SameSeat
<1>4. \A f \in Emulators : t.emu[f] = "waiting" <=> t.emulating = f
  <2>1. t.emulating # e
    BY <1>2, NobodyTakes
  <2>2. \A f \in Emulators \ {e} : s.emulating = f <=> t.emulating = f
    BY <1>2, NobodyTakes
  <2>3. \A f \in Emulators \ {e} : t.emu[f] = "waiting" <=> s.emulating = f
    BY <1>2 DEF Sane, Asks
  <2>4. QED
    BY <1>2, <2>1, <2>2, <2>3
<1>5. Asks(t)
  BY <1>2, <1>3, <1>4, NobodyTakes DEF Sane, Asks, OnlyDialog, SameHands
<1>6. QED
  BY <1>2, <1>3, <1>5, OnlyDialogKeeps DEF t

LEMMA ConfirmInputEmulationKeeps ==
  ASSUME NEW s, Sane(s)
  PROVE  Keeps(s, ConfirmInputEmulation(s))
<1> DEFINE e   == s.emulating
           k   == [s EXCEPT !.emulating = NoOne, !.verdict[e] = "allowed", !.dialog = "none"]
           yes == TRUE
<1>1. CASE e = NoOne \/ s.lock = "locked"
  BY <1>1, DismissKeeps DEF ConfirmInputEmulation
<1>2. CASE e # NoOne /\ s.lock # "locked"
  <2>1. ConfirmInputEmulation(s) = AuthorizeClient(k, e, yes)
    BY <1>2 DEF ConfirmInputEmulation
  <2>2. e \in Emulators
    BY <1>2 DEF Sane, Shaped
  <2>3. /\ OnlyDialog(s, k) /\ k.asking = s.asking /\ k.cast = s.cast /\ k.emu = s.emu
        /\ k.emulating = NoOne /\ k.dialog = "none"
    BY <2>2 DEF Sane, Shaped, Fields, OnlyDialog, SameHands, SameSeat
  <2>4. s.emulating = e
    OBVIOUS
  <2> HIDE DEF k, e, yes
  <2>5. QED
    BY <2>1, <2>2, <2>3, <2>4, ClientAnswered
<1>3. QED
  BY <1>1, <1>2

LEMMA EmulatorConnectsKeeps ==
  ASSUME NEW s, NEW e \in Emulators, Sane(s), s.emu[e] = "gone"
  PROVE  Keeps(s, RequestInputEmulation([s EXCEPT !.emu[e] = "waiting"], e))
<1> DEFINE w == [s EXCEPT !.emu[e] = "waiting"]
           k == [w EXCEPT !.emulating = e]
           t == Show(k, "emulation")
           yes == TRUE
           no == FALSE
<1>1. /\ OnlyDialog(s, w) /\ w.asking = s.asking /\ w.cast = s.cast
      /\ w.emulating = s.emulating /\ w.dialog = s.dialog
      /\ w.emu = [s.emu EXCEPT ![e] = "waiting"]
  BY DEF Sane, Shaped, Fields, OnlyDialog, SameHands, SameSeat
<1>2. w.emu[e] = "waiting" /\ \A f \in Emulators \ {e} : w.emu[f] = s.emu[f]
  BY <1>1 DEF Sane, Shaped
<1>3. s.emulating # e
  BY DEF Sane, Asks
<1>4. \/ RequestInputEmulation(w, e) \in {AuthorizeClient(w, e, yes), AuthorizeClient(w, e, no)}
      \/ s.dialog = "none" /\ RequestInputEmulation(w, e) = t
  BY <1>1 DEF RequestInputEmulation
<1> HIDE DEF w, yes, no
<1>5. Keeps(s, AuthorizeClient(w, e, yes)) /\ Keeps(s, AuthorizeClient(w, e, no))
  BY <1>1, <1>2, <1>3, ClientAnswered
<1>6. CASE s.dialog = "none"
  <2>1. /\ OnlyDialog(w, k) /\ k.asking = w.asking /\ k.emu = w.emu /\ k.emulating = e
        /\ k.cast = w.cast
    BY <1>1 DEF Shaped, Fields, OnlyDialog, SameHands, SameSeat
  <2> HIDE DEF k
  <2>2. /\ Shaped(k) /\ (\A c \in Sessions : Proper(k, c)) /\ ButtonHeld(k)
        /\ k.asking = NoOne /\ SameHands(s, k)
    BY <1>1, <1>6, <2>1, SameHandsHeld DEF Sane, Asks, OnlyDialog, SameHands, SameSeat, Proper,
       Waits, Armed, Usable, Blocked
  <2>3. Shown(k, t, "emulation")
    BY <2>2, ShowShape
  <2> HIDE DEF t
  <2>4. \A f \in Emulators : t.emu[f] = "waiting" <=> t.emulating = f
    BY <1>1, <1>2, <1>6, <2>1, <2>3, NobodyTakes DEF Shown, Sane, Asks
  <2>5. Asks(t)
    BY <1>1, <1>6, <2>1, <2>2, <2>3, <2>4, NobodyTakes DEF Sane, Asks, Shown
  <2>6. Keeps(s, t)
    BY <2>2, <2>3, <2>5, ShownKeeps
  <2>7. QED
    BY <1>4, <1>5, <2>6 DEF w
<1>7. QED
  BY <1>4, <1>5, <1>6 DEF w

LEMMA EmulatorLeavesKeeps ==
  ASSUME NEW s, NEW e \in Emulators, Sane(s)
  PROVE  LET left == [s EXCEPT !.emu[e] = "gone"]
         IN  Keeps(s, IF s.emu[e] = "waiting" THEN CancelInputEmulation(left, e) ELSE left)
<1> DEFINE left == [s EXCEPT !.emu[e] = "gone"]
           k == [left EXCEPT !.emulating = NoOne, !.dialog = IF @ = "emulation" THEN "none" ELSE @]
<1>1. /\ OnlyDialog(s, left) /\ left.asking = s.asking /\ left.cast = s.cast
      /\ left.emulating = s.emulating /\ left.dialog = s.dialog
      /\ left.emu = [s.emu EXCEPT ![e] = "gone"]
  BY DEF Sane, Shaped, Fields, OnlyDialog, SameHands, SameSeat
<1>2. left.emu[e] # "waiting" /\ \A f \in Emulators \ {e} : left.emu[f] = s.emu[f]
  BY <1>1 DEF Sane, Shaped
<1>3. CASE s.emu[e] = "waiting"
  <2>1. s.emulating = e
    BY <1>3 DEF Sane, Asks
  <2>2. CancelInputEmulation(left, e) = k
    BY <1>1, <2>1 DEF CancelInputEmulation
  <2> HIDE DEF left
  <2>3. /\ OnlyDialog(left, k) /\ k.asking = left.asking /\ k.cast = left.cast
        /\ k.emulating = NoOne /\ k.emu = left.emu
        /\ k.dialog = IF left.dialog = "emulation" THEN "none" ELSE left.dialog
    BY <1>1 DEF OnlyDialog, Shaped, Fields, SameHands, SameSeat
  <2> HIDE DEF k
  <2>4. OnlyDialog(s, k)
    BY <1>1, <2>3 DEF OnlyDialog, SameHands, SameSeat
  <2>5. \A f \in Emulators : k.emu[f] # "waiting"
    BY <1>2, <2>1, <2>3 DEF Sane, Asks
  <2>6. Asks(k)
    BY <1>1, <2>1, <2>3, <2>4, <2>5, NobodyTakes DEF Sane, Asks, OnlyDialog, SameHands
  <2>7. Keeps(s, k)
    BY <1>1, <2>3, <2>4, <2>6, OnlyDialogKeeps
  <2>8. QED
    BY <1>3, <2>2, <2>7 DEF left
<1>4. CASE s.emu[e] # "waiting"
  <2> HIDE DEF left
  <2>1. s.emulating # e
    BY <1>4 DEF Sane, Asks
  <2>2. \A f \in Emulators : left.emu[f] = "waiting" <=> left.emulating = f
    BY <1>1, <1>2, <2>1 DEF Sane, Asks
  <2>3. Asks(left)
    BY <1>1, <2>2 DEF Sane, Asks, OnlyDialog, SameHands
  <2>4. QED
    BY <1>1, <1>4, <2>3, OnlyDialogKeeps DEF left
<1>5. QED
  BY <1>3, <1>4

----------------------------------------------------------------------------
(* Asking for the input *)

LEMMA ConfirmInputCaptureKeeps ==
  ASSUME NEW s, NEW allowed, Sane(s)
  PROVE  Keeps(s, ConfirmInputCapture(s, allowed))
<1> DEFINE k == [s EXCEPT !.asking = NoOne, !.dialog = "none"]
           t == AuthorizeSession(k, s.asking, allowed)
<1>1. CASE s.asking = NoOne \/ Blocked(s)
  BY <1>1, DismissKeeps DEF ConfirmInputCapture
<1>2. CASE s.asking # NoOne /\ ~Blocked(s)
  <2>1. ConfirmInputCapture(s, allowed) = t
    BY <1>2 DEF ConfirmInputCapture
  <2>2. /\ OnlyDialog(s, k) /\ k.asking = NoOne /\ k.cast = s.cast /\ k.emu = s.emu
        /\ k.emulating = s.emulating /\ k.dialog = "none"
    BY DEF Sane, Shaped, Fields, OnlyDialog, SameHands, SameSeat
  <2> HIDE DEF k
  <2>3. Settled(s, t) /\ SameDialog(k, t)
    BY <1>2, <2>2, AuthorizeSettles DEF Sane
  <2> HIDE DEF t
  <2>4. Asks(t)
    BY <1>2, <2>2, <2>3 DEF Sane, Asks, Settled, SameDialog, SameHands
  <2>5. Keeps(s, t)
    BY <2>3, <2>4, SameHandsHeld DEF Sane, Settled, Keeps
  <2>6. QED
    BY <2>1, <2>5
<1>3. QED
  BY <1>1, <1>2

\* A session that has not been started asks nothing and is not armed.
LEMMA NotStarted ==
  ASSUME NEW s, NEW c \in Sessions, Sane(s), ~s.sess[c].attempted
  PROVE  /\ ~s.sess[c].pending /\ ~s.sess[c].approved /\ ~s.sess[c].enabled
         /\ s.asking # c /\ s.holder # c
BY DEF Sane, Proper, Waits, Armed, Usable

\* The session c, with its record r, has been started; its question may be pending.
LEMMA AskedShape ==
  ASSUME NEW s, NEW w, NEW c \in Sessions, NEW r, Sane(s), ~s.sess[c].attempted,
         DOMAIN w = Fields, SameHands(s, w), SameSeat(s, w), SameDialog(s, w),
         w.sess = [s.sess EXCEPT ![c] = r], DOMAIN r = SessionFields,
         r.attempted, r.approved = s.sess[c].approved, r.enabled = s.sess[c].enabled
  PROVE  /\ OnlySession(s, w, c) /\ w.sess[c] = r
         /\ ~w.sess[c].approved /\ ~w.sess[c].enabled /\ w.sess[c].attempted
<1>1. Shaped(s)
  BY DEF Sane
<1>2. OnlySession(s, w, c) /\ w.sess[c] = r
  BY <1>1, SessionReplaced
<1>3. QED
  BY <1>2, NotStarted

\* A started session that is given its answer is armed by none.
LEMMA StartAnswered ==
  ASSUME NEW s, NEW w, NEW c \in Sessions, NEW allowed, Sane(s),
         ~s.sess[c].attempted, OnlySession(s, w, c), SameDialog(s, w),
         ~w.sess[c].enabled, w.sess[c].attempted
  PROVE  Keeps(s, Started(w, c, allowed))
<1> DEFINE t == Started(w, c, allowed)
<1>1. Shaped(w)
  BY DEF OnlySession
<1>2. OnlySession(w, t, c) /\ SameDialog(w, t) /\ Answered(w, t, c, allowed)
  BY <1>1, StartedShape
<1> HIDE DEF t
<1>3. OnlySession(s, t, c) /\ SameDialog(s, t)
  BY <1>2 DEF OnlySession, SameDialog, SameHands, SameSeat
<1>4. s.asking # c /\ s.holder # c
  BY NotStarted
<1>5. Proper(t, c)
  BY <1>2, <1>3, <1>4 DEF Proper, Waits, Armed, Answered, OnlySession, SameHands, SameDialog
<1>6. QED
  BY <1>3, <1>5, OneSessionKeeps DEF t

LEMMA StartKeeps ==
  ASSUME NEW s, NEW c \in Sessions, NEW restored \in BOOLEAN, Sane(s),
         ~s.sess[c].attempted, ~Blocked(s)
  PROVE  LET asked == [s EXCEPT !.sess[c].attempted = TRUE]
         IN  Keeps(s, IF restored THEN Started(asked, c, TRUE)
                      ELSE RequestInputCapture([asked EXCEPT !.sess[c].pending = TRUE], c))
<1> DEFINE asked == [s EXCEPT !.sess[c].attempted = TRUE]
           w  == [asked EXCEPT !.sess[c].pending = TRUE]
           r  == [s.sess[c] EXCEPT !.attempted = TRUE]
           rw == [s.sess[c] EXCEPT !.attempted = TRUE, !.pending = TRUE]
           k  == [w EXCEPT !.asking = c]
           t  == Show(k, "capture")
           no == FALSE
<1>1. DOMAIN s = Fields /\ DOMAIN s.sess = Sessions /\ DOMAIN s.sess[c] = SessionFields
  BY DEF Sane, Shaped
<1>2. /\ DOMAIN asked = Fields /\ SameHands(s, asked) /\ SameSeat(s, asked)
      /\ SameDialog(s, asked) /\ asked.sess = [s.sess EXCEPT ![c] = r]
  BY <1>1 DEF Fields, SameHands, SameSeat, SameDialog
<1>3. /\ DOMAIN r = SessionFields /\ r.attempted /\ r.approved = s.sess[c].approved
      /\ r.enabled = s.sess[c].enabled
  BY <1>1 DEF SessionFields
<1>4. /\ DOMAIN w = Fields /\ SameHands(s, w) /\ SameSeat(s, w)
      /\ SameDialog(s, w) /\ w.sess = [s.sess EXCEPT ![c] = rw]
  BY <1>1 DEF Fields, SameHands, SameSeat, SameDialog
<1>5. /\ DOMAIN rw = SessionFields /\ rw.attempted /\ rw.approved = s.sess[c].approved
      /\ rw.enabled = s.sess[c].enabled /\ rw.pending
  BY <1>1 DEF SessionFields
<1>6. /\ restored => Started(asked, c, TRUE) = Started(asked, c, restored)
      /\ RequestInputCapture(w, c) \in {AuthorizeSession(w, c, FALSE), t}
      /\ RequestInputCapture(w, c) = AuthorizeSession(w, c, FALSE)
         \/ (w.dialog = "none" /\ w.holder = NoOne /\ RequestInputCapture(w, c) = t)
  BY DEF RequestInputCapture
<1> HIDE DEF asked, w, r, rw
<1>7. /\ OnlySession(s, asked, c) /\ ~asked.sess[c].enabled /\ asked.sess[c].attempted
  BY <1>2, <1>3, AskedShape
<1>8. /\ OnlySession(s, w, c) /\ w.sess[c] = rw
      /\ ~w.sess[c].approved /\ ~w.sess[c].enabled /\ w.sess[c].attempted
  BY <1>4, <1>5, AskedShape
<1>9. Keeps(s, Started(asked, c, restored))
  BY <1>2, <1>7, StartAnswered
<1>10. Keeps(s, AuthorizeSession(w, c, FALSE))
  <2>1. AuthorizeSession(w, c, FALSE) = Started(w, c, no)
    BY <1>5, <1>8 DEF AuthorizeSession
  <2> HIDE DEF no
  <2>2. Keeps(s, Started(w, c, no))
    BY <1>4, <1>8, StartAnswered
  <2>3. QED
    BY <2>1, <2>2
<1>11. ASSUME w.dialog = "none", w.holder = NoOne PROVE Keeps(s, t)
  <2>1. /\ OnlyDialog(w, k) /\ k.asking = c /\ k.emu = w.emu /\ k.emulating = w.emulating
        /\ k.cast = w.cast /\ k.dialog = w.dialog
    BY <1>8 DEF OnlySession, OnlyDialog, Shaped, Fields, SameHands, SameSeat
  <2> HIDE DEF k
  <2>2. s.dialog = "none" /\ s.asking = NoOne /\ s.emulating = NoOne /\ s.holder = NoOne
        /\ ~s.cast.pending
    BY <1>4, <1>11 DEF SameDialog, SameHands, Sane, Asks
  <2>3. Proper(k, c)
    BY <1>5, <1>8, <1>11, <2>1, NobodyTakes DEF Proper, Waits, Armed, OnlyDialog, SameHands
  <2>4. ASSUME NEW d \in Sessions \ {c} PROVE Proper(k, d)
    <3>1. k.sess[d] = s.sess[d] /\ k.asking # d /\ k.holder = s.holder
          /\ k.lock = s.lock /\ k.vt = s.vt
      BY <1>8, <2>1, <2>4 DEF OnlySession, OnlyDialog, SameHands, SameSeat
    <3>2. Proper(s, d) /\ s.asking # d
      BY <2>2, <2>4, NobodyTakes DEF Sane
    <3>3. QED
      BY <3>1, <3>2 DEF Proper, Waits, Armed, Usable, Blocked
  <2>5. SameHands(s, k) /\ Shaped(k) /\ k.holder = NoOne
    BY <1>4, <1>11, <2>1 DEF OnlyDialog, SameHands
  <2>6. ButtonHeld(k)
    BY <2>5, SameHandsHeld DEF Sane
  <2>7. Shown(k, t, "capture")
    <3>1. \A d \in Sessions : Proper(k, d)
      BY <2>3, <2>4
    <3>2. QED
      BY <2>5, <2>6, <3>1, ShowShape
  <2> HIDE DEF t
  <2>8. Asks(t)
    BY <1>4, <2>1, <2>2, <2>7, NobodyTakes DEF Sane, Asks, Shown, SameDialog
  <2>9. QED
    BY <2>5, <2>7, <2>8, ShownKeeps DEF t
<1>12. CASE restored
  BY <1>6, <1>9, <1>12 DEF asked
<1>13. CASE ~restored
  BY <1>6, <1>10, <1>11, <1>13 DEF asked, w
<1>14. QED
  BY <1>12, <1>13

----------------------------------------------------------------------------
(* The steps of a session *)

\* What the step HeldKeyHasOneOwner adds to the invariant.
OwnerKept == key.sent /\ key'.down => ~key'.local
Right == IInv' /\ OwnerKept

LEMMA NowShape ==
  ASSUME NEW t, Sane(t), KeyHeld(t), InputBecomes(t)
  PROVE  IInv'
<1> DEFINE n == InputNow'
<1>1. /\ DOMAIN n = Fields /\ n.sess = t.sess /\ n.holder = t.holder /\ n.key = t.key
      /\ n.button = t.button /\ n.dialog = t.dialog /\ n.asking = t.asking /\ n.emu = t.emu
      /\ n.emulating = t.emulating /\ n.verdict = t.verdict /\ n.cast = t.cast
      /\ n.lock = t.lock /\ n.vt = t.vt
  BY DEF InputNow, InputBecomes, Fields
<1> HIDE DEF n
<1>2. Shaped(n)
  BY <1>1 DEF Sane, Shaped
<1>3. \A c \in Sessions : Proper(n, c)
  BY <1>1 DEF Sane, Proper, Waits, Armed, Usable, Blocked
<1>4. KeyHeld(n) /\ ButtonHeld(n)
  BY <1>1 DEF Sane, KeyHeld, ButtonHeld, KeysTaken, PointerTaken
<1>5. Asks(n)
  BY <1>1 DEF Sane, Asks
<1>6. Sane(n) /\ KeyHeld(n)
  BY <1>2, <1>3, <1>4, <1>5 DEF Sane
<1>7. QED
  BY <1>6 DEF IInv, n

LEMMA KeepsIsRight ==
  ASSUME NEW t, IInv, Keeps(InputNow, t), InputBecomes(t)
  PROVE  Right
<1>1. Sane(t) /\ KeyHeld(t)
  BY DEF IInv, Keeps
<1>2. IInv'
  BY <1>1, NowShape
<1>3. key'.local => key.local
  BY DEF Keeps, InputBecomes, InputNow
<1>4. key.sent => ~key.local
  BY DEF IInv, KeyHeld, InputNow
<1>5. QED
  BY <1>2, <1>3, <1>4 DEF Right, OwnerKept

LEMMA ReplacedShape ==
  ASSUME NEW s, NEW c \in Sessions, NEW r, Shaped(s), DOMAIN r = SessionFields
  PROVE  LET t == [s EXCEPT !.sess[c] = r]
         IN  OnlySession(s, t, c) /\ SameDialog(s, t) /\ t.sess[c] = r
<1> DEFINE t == [s EXCEPT !.sess[c] = r]
<1>1. /\ DOMAIN t = Fields /\ SameHands(s, t) /\ SameSeat(s, t) /\ SameDialog(s, t)
      /\ t.sess = [s.sess EXCEPT ![c] = r]
  BY DEF Shaped, Fields, SameHands, SameSeat, SameDialog
<1> HIDE DEF t
<1>2. OnlySession(s, t, c) /\ t.sess[c] = r
  BY <1>1, SessionReplaced
<1>3. QED
  BY <1>1, <1>2 DEF t

\* A record r replaces the session c and changes only what it is armed for.
LEMMA ReplaceKeeps ==
  ASSUME NEW s, NEW c \in Sessions, NEW r, Sane(s), DOMAIN r = SessionFields,
         r.pending = s.sess[c].pending, r.attempted = s.sess[c].attempted,
         r.approved = s.sess[c].approved,
         r.enabled => s.sess[c].approved /\ ~r.closed /\ ~Blocked(s) /\ r.link # "none",
         s.holder = c => r.enabled /\ r.link = "ready"
  PROVE  Keeps(s, [s EXCEPT !.sess[c] = r])
<1> DEFINE t == [s EXCEPT !.sess[c] = r]
<1>1. OnlySession(s, t, c) /\ SameDialog(s, t) /\ t.sess[c] = r
  BY ReplacedShape DEF Sane
<1> HIDE DEF t
<1>2. t.asking = s.asking /\ t.holder = s.holder /\ (Blocked(t) => Blocked(s))
  BY <1>1 DEF OnlySession, SameDialog, SameHands, SameSeat, Blocked
<1>3. Waits(t, c)
  BY <1>1, <1>2 DEF Sane, Proper, Waits
<1>4. Armed(t, c)
  BY <1>1, <1>2 DEF Armed, Usable
<1>5. QED
  BY <1>1, <1>3, <1>4, OneSessionKeeps DEF t, Proper

LEMMA NowSane ==
  ASSUME IInv
  PROVE  Sane(InputNow) /\ KeyHeld(InputNow) /\ Keeps(InputNow, InputNow)
BY DEF IInv, Keeps

LEMMA KeepsTwice ==
  ASSUME NEW s, NEW t, NEW u, Keeps(s, t), Keeps(t, u)
  PROVE  Keeps(s, u)
BY DEF Keeps

LEMMA CreateSessionRight ==
  ASSUME IInv, NEW c \in Sessions, CreateSession(c)
  PROVE  Right
<1> DEFINE s == InputNow
           r == [s.sess[c] EXCEPT !.exists = TRUE]
           t == [s EXCEPT !.sess[c] = r]
<1>1. InputBecomes(t)
  BY DEF CreateSession
<1> HIDE DEF s
<1>2. Sane(s)
  BY NowSane DEF s
<1>3. /\ DOMAIN r = SessionFields /\ r.pending = s.sess[c].pending
      /\ r.attempted = s.sess[c].attempted /\ r.approved = s.sess[c].approved
      /\ r.enabled = s.sess[c].enabled /\ r.closed = s.sess[c].closed
      /\ r.link = s.sess[c].link
  BY <1>2 DEF Sane, Shaped, SessionFields
<1> HIDE DEF r
<1>4. Keeps(s, t)
  BY <1>2, <1>3, ReplaceKeeps DEF Sane, Proper, Armed, Usable
<1>5. QED
  BY <1>1, <1>4, KeepsIsRight DEF s

\* A session that loses the input and is disarmed may change in what it is armed for.
LEMMA DisarmedReplaceKeeps ==
  ASSUME NEW s, NEW c \in Sessions, NEW r, Sane(s), DOMAIN r = SessionFields,
         LET d == Disarm(s, c)
         IN  /\ r.pending = d.sess[c].pending /\ r.attempted = d.sess[c].attempted
             /\ r.approved = d.sess[c].approved /\ r.enabled = d.sess[c].enabled
  PROVE  Keeps(s, [Disarm(s, c) EXCEPT !.sess[c] = r])
<1> DEFINE d == Disarm(s, c)
<1>1. Keeps(s, d) /\ ~d.sess[c].enabled /\ d.holder # c
  BY DisarmKeeps
<1>2. /\ r.pending = d.sess[c].pending /\ r.attempted = d.sess[c].attempted
      /\ r.approved = d.sess[c].approved /\ r.enabled = d.sess[c].enabled
  OBVIOUS
<1> HIDE DEF d
<1>3. Keeps(d, [d EXCEPT !.sess[c] = r])
  BY <1>1, <1>2, ReplaceKeeps DEF Keeps
<1>4. QED
  BY <1>1, <1>3, KeepsTwice DEF d

LEMMA BarriersRight ==
  ASSUME IInv, NEW c \in Sessions, NEW current,
         ClearBarriers(c) \/ CommitBarriers(c, current)
  PROVE  Right
<1> DEFINE s == InputNow
           d == Disarm(s, c)
           r(b) == [d.sess[c] EXCEPT !.barriers = b]
           t(b) == [d EXCEPT !.sess[c] = r(b)]
           drawn == current /\ Usable(InputNow, c)
<1>1. InputBecomes(t(FALSE)) \/ InputBecomes(t(drawn))
  BY DEF ClearBarriers, CommitBarriers
<1> HIDE DEF s, drawn
<1>2. Sane(s)
  BY NowSane DEF s
<1>3. ASSUME NEW b PROVE Keeps(s, t(b))
  <2>1. Shaped(d)
    BY <1>2, DisarmDisarms DEF Sane, Disarmed
  <2>2. /\ DOMAIN r(b) = SessionFields /\ r(b).pending = d.sess[c].pending
        /\ r(b).attempted = d.sess[c].attempted /\ r(b).approved = d.sess[c].approved
        /\ r(b).enabled = d.sess[c].enabled
    BY <2>1 DEF Shaped, SessionFields
  <2> HIDE DEF r
  <2>3. QED
    BY <1>2, <2>2, DisarmedReplaceKeeps
<1>4. QED
  BY <1>1, <1>3, KeepsIsRight DEF s

LEMMA ConnectEisRight ==
  ASSUME IInv, NEW c \in Sessions, ConnectEis(c)
  PROVE  Right
<1> DEFINE s == InputNow
           r == [s.sess[c] EXCEPT !.link = "issued"]
           t == [s EXCEPT !.sess[c] = r]
<1>1. InputBecomes(t) /\ s.sess[c].link = "none"
  BY DEF ConnectEis, InputNow
<1> HIDE DEF s
<1>2. Sane(s)
  BY NowSane DEF s
<1>3. /\ DOMAIN r = SessionFields /\ r.pending = s.sess[c].pending
      /\ r.attempted = s.sess[c].attempted /\ r.approved = s.sess[c].approved
      /\ r.enabled = s.sess[c].enabled
  BY <1>2 DEF Sane, Shaped, SessionFields
<1> HIDE DEF r
<1>4. ~r.enabled /\ s.holder # c
  BY <1>1, <1>2, <1>3 DEF Sane, Proper, Armed
<1>5. Keeps(s, t)
  BY <1>2, <1>3, <1>4, ReplaceKeeps
<1>6. QED
  BY <1>1, <1>5, KeepsIsRight DEF s

LEMMA EnableSessionRight ==
  ASSUME IInv, NEW c \in Sessions, EnableSession(c)
  PROVE  Right
<1> DEFINE s == InputNow
           r == [s.sess[c] EXCEPT !.enabled = TRUE]
           t == [s EXCEPT !.sess[c] = r]
<1>1. InputBecomes(t) /\ s.sess[c].link # "none" /\ Usable(s, c)
  BY DEF EnableSession, InputNow
<1> HIDE DEF s
<1>2. Sane(s)
  BY NowSane DEF s
<1>3. /\ DOMAIN r = SessionFields /\ r.pending = s.sess[c].pending
      /\ r.attempted = s.sess[c].attempted /\ r.approved = s.sess[c].approved
      /\ r.closed = s.sess[c].closed /\ r.link = s.sess[c].link /\ r.enabled
  BY <1>2 DEF Sane, Shaped, SessionFields
<1> HIDE DEF r
<1>4. s.holder = c => r.link = "ready"
  BY <1>2, <1>3 DEF Sane, Proper, Armed
<1>5. s.sess[c].approved /\ ~r.closed /\ ~Blocked(s) /\ r.link # "none"
  BY <1>1, <1>3 DEF Usable
<1>6. Keeps(s, t)
  BY <1>2, <1>3, <1>4, <1>5, ReplaceKeeps
<1>7. QED
  BY <1>1, <1>6, KeepsIsRight DEF s

\* Letting the input go leaves every session as it is.
LEMMA DeactivateKeeps ==
  ASSUME NEW s, Sane(s)
  PROVE  Keeps(s, Deactivate(s))
<1> DEFINE t == Deactivate(s)
<1>1. /\ Shaped(t) /\ t.holder = NoOne /\ t.sess = s.sess
      /\ SameDialog(s, t) /\ SameSeat(s, t)
      /\ KeyHeld(s) => KeyHeld(t)
      /\ ButtonHeld(s) => ButtonHeld(t)
      /\ t.key.local => s.key.local
  BY DeactivateShape DEF Sane
<1> HIDE DEF t
<1>2. \A c \in Sessions : Proper(t, c)
  BY <1>1, NobodyTakes DEF Sane, Proper, Waits, Armed, Usable, Blocked, SameDialog, SameSeat
<1>3. Asks(t)
  BY <1>1 DEF Sane, Asks, SameDialog
<1>4. QED
  BY <1>1, <1>2, <1>3 DEF Sane, Keeps, t

LEMMA LettingGoRight ==
  ASSUME IInv, NEW c \in Sessions,
         DisableSession(c) \/ ReleaseSession(c) \/ SetPersistence(c) \/ EiDisconnect(c)
           \/ RevokePermission(c)
  PROVE  Right
<1> DEFINE s == InputNow
<1>1. \/ InputBecomes(Disarm(s, c)) \/ InputBecomes(Deactivate(s)) \/ InputBecomes(Close(s, c))
  BY DEF DisableSession, ReleaseSession, SetPersistence, EiDisconnect, RevokePermission
<1>2. Keeps(s, Disarm(s, c)) /\ Keeps(s, Deactivate(s)) /\ Keeps(s, Close(s, c))
  BY NowSane, DisarmKeeps, DeactivateKeeps, CloseKeeps
<1>3. QED
  BY <1>1, <1>2, KeepsIsRight

LEMMA EiConnectRight ==
  ASSUME IInv, NEW c \in Sessions, EiConnect(c)
  PROVE  Right
<1> DEFINE s == InputNow
           r == [s.sess[c] EXCEPT !.link = "client"]
           t == [s EXCEPT !.sess[c] = r]
<1>1. (InputBecomes(t) \/ InputBecomes(Close(s, c))) /\ s.sess[c].link = "issued"
  BY DEF EiConnect, InputNow
<1> HIDE DEF s
<1>2. Sane(s)
  BY NowSane DEF s
<1>3. /\ DOMAIN r = SessionFields /\ r.pending = s.sess[c].pending
      /\ r.attempted = s.sess[c].attempted /\ r.approved = s.sess[c].approved
      /\ r.enabled = s.sess[c].enabled /\ r.closed = s.sess[c].closed /\ r.link = "client"
  BY <1>2 DEF Sane, Shaped, SessionFields
<1> HIDE DEF r
<1>4. s.holder # c /\ (r.enabled => s.sess[c].approved /\ ~r.closed /\ ~Blocked(s))
  BY <1>1, <1>2, <1>3 DEF Sane, Proper, Armed, Usable
<1>5. Keeps(s, t) /\ Keeps(s, Close(s, c))
  BY <1>2, <1>3, <1>4, ReplaceKeeps, CloseKeeps
<1>6. QED
  BY <1>1, <1>5, KeepsIsRight DEF s

LEMMA SeatBindRight ==
  ASSUME IInv, NEW c \in Sessions, NEW devices, SeatBind(c, devices)
  PROVE  Right
<1> DEFINE s == InputNow
           off == IF s.holder = c THEN Disarm(s, c) ELSE s
           to == IF devices THEN "ready" ELSE "client"
           r == [off.sess[c] EXCEPT !.link = to]
           t == [off EXCEPT !.sess[c] = r]
<1>1. InputBecomes(t)
  BY DEF SeatBind, InputNow
<1>2. Keeps(s, off) /\ off.holder # c
  BY NowSane, DisarmKeeps
<1>3. to # "none"
  OBVIOUS
<1> HIDE DEF s, off, to
<1>4. Sane(off)
  BY <1>2 DEF Keeps
<1>5. /\ DOMAIN r = SessionFields /\ r.pending = off.sess[c].pending
      /\ r.attempted = off.sess[c].attempted /\ r.approved = off.sess[c].approved
      /\ r.enabled = off.sess[c].enabled /\ r.closed = off.sess[c].closed /\ r.link = to
  BY <1>4 DEF Sane, Shaped, SessionFields
<1> HIDE DEF r
<1>6. r.enabled => off.sess[c].approved /\ ~r.closed /\ ~Blocked(off)
  BY <1>4, <1>5 DEF Sane, Proper, Armed, Usable
<1>7. Keeps(off, t)
  BY <1>2, <1>3, <1>4, <1>5, <1>6, ReplaceKeeps
<1>8. QED
  BY <1>1, <1>2, <1>7, KeepsTwice, KeepsIsRight DEF s

LEMMA DeviceClosedRight ==
  ASSUME IInv, NEW c \in Sessions, DeviceClosed(c)
  PROVE  Right
<1> DEFINE s == InputNow
           d == Disarm(s, c)
           r(l) == [d.sess[c] EXCEPT !.link = l]
           t(l) == [d EXCEPT !.sess[c] = r(l)]
<1>1. PICK link : InputBecomes(t(link))
  BY DEF DeviceClosed
<1> HIDE DEF s
<1>2. Sane(s)
  BY NowSane DEF s
<1>3. Shaped(d)
  BY <1>2, DisarmDisarms DEF Sane, Disarmed
<1>4. /\ DOMAIN r(link) = SessionFields /\ r(link).pending = d.sess[c].pending
      /\ r(link).attempted = d.sess[c].attempted /\ r(link).approved = d.sess[c].approved
      /\ r(link).enabled = d.sess[c].enabled
  BY <1>3 DEF Shaped, SessionFields
<1> HIDE DEF r
<1>5. Keeps(s, t(link))
  BY <1>2, <1>4, DisarmedReplaceKeeps
<1>6. QED
  BY <1>1, <1>5, KeepsIsRight DEF s

LEMMA StartRight ==
  ASSUME IInv, NEW c \in Sessions, NEW restored \in BOOLEAN, Start(c, restored)
  PROVE  Right
<1> DEFINE s == InputNow
           asked == [s EXCEPT !.sess[c].attempted = TRUE]
           t == IF restored THEN Started(asked, c, TRUE)
                ELSE RequestInputCapture([asked EXCEPT !.sess[c].pending = TRUE], c)
<1>1. InputBecomes(t) /\ ~s.sess[c].attempted /\ ~Blocked(s)
  BY DEF Start, InputNow
<1> HIDE DEF s
<1>2. Sane(s)
  BY NowSane DEF s
<1>3. Keeps(s, t)
  BY <1>1, <1>2, StartKeeps
<1> HIDE DEF t
<1>4. QED
  BY <1>1, <1>3, KeepsIsRight DEF s

\* The dying session gets no answer, and its question goes with it.
LEMMA DestroySessionRight ==
  ASSUME IInv, NEW c \in Sessions, DestroySession(c)
  PROVE  Right
<1> DEFINE s == InputNow
           off == IF s.holder = c THEN Deactivate(s) ELSE s
           free == IF s.sess[c].pending THEN CancelInputCapture(off, c) ELSE off
           t == [free EXCEPT !.sess[c] = Absent]
<1>1. InputBecomes(t)
  BY DEF DestroySession, InputNow
<1> HIDE DEF s
<1>2. Sane(s) /\ Keeps(s, s)
  BY NowSane DEF s
<1>3. Keeps(s, off) /\ off.holder # c /\ off.sess = s.sess /\ off.asking = s.asking
  BY <1>2, DeactivateKeeps, DeactivateShape, NobodyTakes DEF Sane, SameDialog
<1> HIDE DEF off
<1>4. Sane(off) /\ (s.sess[c].pending <=> off.asking = c)
  BY <1>2, <1>3 DEF Keeps, Sane, Proper, Waits
<1>5. /\ Shaped(free) /\ SameHands(off, free) /\ SameSeat(off, free) /\ free.sess = off.sess
      /\ free.asking = (IF off.asking = c THEN NoOne ELSE off.asking)
      /\ free.dialog = (IF off.asking = c THEN "none" ELSE off.dialog)
      /\ free.emu = off.emu /\ free.emulating = off.emulating
      /\ free.verdict = off.verdict /\ free.cast = off.cast
  <2>1. CASE off.asking = c
    <3>1. free = [off EXCEPT !.asking = NoOne, !.dialog = IF @ = "capture" THEN "none" ELSE @]
      BY <1>4, <2>1 DEF CancelInputCapture
    <3>2. off.dialog = "capture"
      BY <1>4, <2>1, NobodyTakes DEF Sane, Asks
    <3> HIDE DEF free
    <3>3. QED
      BY <1>4, <2>1, <3>1, <3>2 DEF Sane, Shaped, Fields, SameHands, SameSeat
  <2>2. CASE off.asking # c
    BY <1>4, <2>2 DEF Sane, SameHands, SameSeat
  <2>3. QED
    BY <2>1, <2>2
<1> HIDE DEF free
<1>6. OnlySession(free, t, c) /\ SameDialog(free, t) /\ t.sess[c] = Absent
  <2>1. DOMAIN Absent = SessionFields
    BY DEF Absent, SessionFields
  <2> HIDE DEF t
  <2>2. QED
    BY <1>5, <2>1, ReplacedShape DEF t
<1> HIDE DEF t
<1>7. OnlySession(off, t, c)
  BY <1>5, <1>6, NobodyTakes DEF OnlySession, SameDialog, SameHands, SameSeat
<1>8. Proper(t, c)
  BY <1>3, <1>5, <1>6, NobodyTakes DEF Proper, Waits, Armed, Absent, OnlySession, SameHands,
     SameDialog
<1>9. Asks(t)
  <2>1. /\ t.asking = free.asking /\ t.dialog = free.dialog /\ t.emu = off.emu
        /\ t.emulating = off.emulating /\ t.cast = off.cast /\ t.holder = off.holder
    BY <1>5, <1>6 DEF OnlySession, SameDialog, SameHands
  <2>2. QED
    BY <1>4, <1>5, <2>1, NobodyTakes DEF Sane, Asks
<1>10. Keeps(off, t)
  BY <1>4, <1>7, <1>8, <1>9, OneSessionProper, SameHandsHeld DEF Sane, Keeps, OnlySession
<1>11. QED
  BY <1>1, <1>3, <1>10, KeepsTwice, KeepsIsRight DEF s

----------------------------------------------------------------------------
(* The steps of devices and outputs *)

\* A step that may change what a key press belongs to.
LEMMA SaneIsRight ==
  ASSUME NEW t, Sane(t), KeyHeld(t), InputBecomes(t),
         key.sent => ~t.key.down \/ ~t.key.local
  PROVE  Right
<1>1. IInv'
  BY NowShape
<1>2. key' = t.key
  BY DEF InputBecomes
<1>3. QED
  BY <1>1, <1>2 DEF Right, OwnerKept

\* The keys that are held go over to the remote, which has seen none before.
LEMMA CrossBarrierRight ==
  ASSUME IInv, NEW c \in Sessions, CrossBarrier(c)
  PROVE  Right
<1> DEFINE s == InputNow
           over == [s.key EXCEPT !.local = FALSE, !.sent = s.key.down /\ ~s.key.consumed]
           t == [s EXCEPT !.holder = c, !.key = IF c \in Typing THEN over ELSE s.key]
<1>1. /\ InputBecomes(t) /\ s.holder = NoOne /\ s.dialog = "none" /\ s.sess[c].enabled
      /\ s.sess[c].link = "ready" /\ s.key = key
  BY DEF CrossBarrier, InputNow
<1> HIDE DEF s
<1>2. Sane(s) /\ KeyHeld(s)
  BY NowSane DEF s
<1>3. /\ DOMAIN over = DOMAIN s.key /\ ~over.local /\ (over.sent <=> s.key.down /\ ~s.key.consumed)
      /\ over.down = s.key.down /\ over.consumed = s.key.consumed
  BY <1>2 DEF Sane, Shaped
<1> HIDE DEF over
<1>4. /\ DOMAIN t = Fields /\ t.sess = s.sess /\ SameDialog(s, t) /\ SameSeat(s, t)
      /\ t.holder = c /\ t.button = s.button
      /\ t.key = IF c \in Typing THEN over ELSE s.key
  BY <1>2 DEF Sane, Shaped, Fields, SameDialog, SameSeat
<1> HIDE DEF t
<1>5. Shaped(t)
  BY <1>2, <1>3, <1>4 DEF Sane, Shaped, SameDialog
<1>6. \A d \in Sessions : Proper(t, d)
  BY <1>1, <1>2, <1>4 DEF Sane, Proper, Waits, Armed, SameDialog, SameSeat, Usable, Blocked
<1>7. ~s.key.sent /\ ~s.button.sent
  BY <1>1, <1>2, NobodyTakes DEF Sane, KeyHeld, ButtonHeld, KeysTaken, PointerTaken
<1>8. KeyHeld(t)
  <2>1. CASE c \in Typing
    BY <1>3, <1>4, <1>2, <2>1 DEF KeyHeld, KeysTaken
  <2>2. CASE c \notin Typing
    BY <1>4, <1>2, <1>7, <2>2 DEF KeyHeld, KeysTaken
  <2>3. QED
    BY <2>1, <2>2
<1>9. ButtonHeld(t) /\ Asks(t)
  BY <1>1, <1>2, <1>4, <1>7 DEF Sane, ButtonHeld, Asks, SameDialog
<1>10. Sane(t) /\ ~key.sent
  BY <1>1, <1>5, <1>6, <1>7, <1>9 DEF Sane
<1>11. QED
  BY <1>1, <1>8, <1>10, SaneIsRight

LEMMA UpdateOutputsRight ==
  ASSUME IInv, UpdateOutputs
  PROVE  Right
<1> DEFINE s == InputNow
           d == DisarmAll(s, Sessions)
           r(c) == [d.sess[c] EXCEPT !.barriers = FALSE,
                                     !.link = IF @ = "bound" THEN "ready" ELSE @]
           t == [d EXCEPT !.sess = [c \in Sessions |-> r(c)]]
<1>1. InputBecomes(t)
  BY DEF UpdateOutputs
<1> HIDE DEF s
<1>2. Sane(s)
  BY NowSane DEF s
<1>3. Keeps(s, d) /\ Disarmed(s, d, Sessions)
  BY <1>2, DisarmAllKeeps, DisarmAllDisarms DEF Sane
<1> HIDE DEF d
<1>4. Sane(d) /\ d.holder = NoOne /\ \A c \in Sessions : ~d.sess[c].enabled
  BY <1>3 DEF Keeps, Sane, Shaped, Disarmed
<1>5. \A c \in Sessions : /\ DOMAIN r(c) = SessionFields /\ r(c).pending = d.sess[c].pending
                          /\ r(c).attempted = d.sess[c].attempted
                          /\ r(c).approved = d.sess[c].approved /\ ~r(c).enabled
  BY <1>4 DEF Sane, Shaped, SessionFields
<1> HIDE DEF r
<1>6. /\ DOMAIN t = Fields /\ SameHands(d, t) /\ SameDialog(d, t) /\ SameSeat(d, t)
      /\ t.sess = [c \in Sessions |-> r(c)]
  BY <1>4 DEF Sane, Shaped, Fields, SameHands, SameDialog, SameSeat
<1> HIDE DEF t
<1>7. DOMAIN t.sess = Sessions /\ \A c \in Sessions : t.sess[c] = r(c)
  BY <1>6
<1>8. Shaped(t)
  BY <1>4, <1>5, <1>6, <1>7 DEF Sane, Shaped, SameHands, SameDialog
<1>9. \A c \in Sessions : Proper(t, c)
  BY <1>4, <1>5, <1>6, <1>7, NobodyTakes DEF Sane, Proper, Waits, Armed, SameHands, SameDialog
<1>10. Asks(t)
  BY <1>4, <1>6 DEF Sane, Asks, SameHands, SameDialog
<1>11. Keeps(d, t)
  BY <1>4, <1>6, <1>8, <1>9, <1>10, SameHandsHeld DEF Sane, Keeps
<1>12. QED
  BY <1>1, <1>3, <1>11, KeepsTwice, KeepsIsRight DEF s

LEMMA SuspendKeeps ==
  ASSUME NEW s, Sane(s)
  PROVE  Keeps(s, Suspend(s))
<1>1. Suspended(s, Suspend(s))
  BY SuspendShape DEF Sane, Proper
<1>2. QED
  BY <1>1, SuspendedKeeps DEF Sane

LEMMA DeviceGoneRight ==
  ASSUME IInv, ReplaceKeyboard \/ SuspendOnDevice
  PROVE  Right
<1> DEFINE s == InputNow
           typists == {c \in Typing : sess[c].link \in {"bound", "ready"}}
<1>1. InputBecomes(DisarmAll(s, typists)) \/ InputBecomes(Suspend(s))
  BY DEF ReplaceKeyboard, SuspendOnDevice
<1>2. typists \subseteq Sessions
  BY NobodyTakes
<1> HIDE DEF typists
<1>3. Keeps(s, DisarmAll(s, typists)) /\ Keeps(s, Suspend(s))
  BY <1>2, NowSane, DisarmAllKeeps, SuspendKeeps
<1>4. QED
  BY <1>1, <1>3, KeepsIsRight

----------------------------------------------------------------------------
(* The steps of keys and buttons *)

\* Only what is pressed differs.
LEMMA PressedShape ==
  ASSUME NEW s, NEW t, Sane(s), DOMAIN t = Fields, t.sess = s.sess, t.holder = s.holder,
         SameDialog(s, t), SameSeat(s, t), DOMAIN t.key = DOMAIN s.key,
         DOMAIN t.button = DOMAIN s.button, ButtonHeld(t)
  PROVE  Sane(t)
<1>1. Shaped(t)
  BY DEF Sane, Shaped, SameDialog
<1>2. \A c \in Sessions : Proper(t, c)
  BY DEF Sane, Proper, Waits, Armed, SameDialog, SameSeat, Usable, Blocked
<1>3. Asks(t)
  BY DEF Sane, Asks, SameDialog
<1>4. QED
  BY <1>1, <1>2, <1>3 DEF Sane

LEMMA PressButtonRight ==
  ASSUME IInv, PressButton
  PROVE  Right
<1> DEFINE s == InputNow
           d == IF s.dialog = "none" THEN s ELSE DismissConfirmation(s)
           sent == [s EXCEPT !.button.down = TRUE, !.button.sent = TRUE]
           own == [d EXCEPT !.button.down = TRUE, !.button.local = TRUE]
<1>1. \/ PointerTaken(s) /\ InputBecomes(sent)
      \/ InputBecomes(own)
  BY DEF PressButton, InputNow
<1> HIDE DEF s
<1>2. Sane(s) /\ Keeps(s, s)
  BY NowSane DEF s
<1>3. Keeps(s, d) /\ Sane(d)
  BY <1>2, DismissKeeps DEF Keeps
<1> HIDE DEF d
<1>4. CASE PointerTaken(s) /\ InputBecomes(sent)
  <2>1. /\ DOMAIN sent = Fields /\ sent.sess = s.sess /\ sent.holder = s.holder
        /\ SameDialog(s, sent) /\ SameSeat(s, sent) /\ sent.key = s.key
        /\ DOMAIN sent.button = DOMAIN s.button
    BY <1>2 DEF Sane, Shaped, Fields, SameDialog, SameSeat
  <2> HIDE DEF sent
  <2>2. Sane(sent)
    BY <1>2, <1>4, <2>1, PressedShape DEF ButtonHeld, PointerTaken
  <2>3. Keeps(s, sent)
    BY <2>1, <2>2 DEF Keeps, KeyHeld, KeysTaken
  <2>4. QED
    BY <1>4, <2>3, KeepsIsRight DEF s
<1>5. CASE InputBecomes(own)
  <2>1. /\ DOMAIN own = Fields /\ own.sess = d.sess /\ own.holder = d.holder
        /\ SameDialog(d, own) /\ SameSeat(d, own) /\ own.key = d.key
        /\ DOMAIN own.button = DOMAIN d.button /\ own.button.sent = d.button.sent
    BY <1>3 DEF Sane, Shaped, Fields, SameDialog, SameSeat
  <2> HIDE DEF own
  <2>2. Sane(own)
    BY <1>3, <2>1, PressedShape DEF Sane, ButtonHeld, PointerTaken
  <2>3. Keeps(d, own)
    BY <2>1, <2>2 DEF Keeps, KeyHeld, KeysTaken
  <2>4. QED
    BY <1>3, <1>5, <2>3, KeepsTwice, KeepsIsRight DEF s
<1>6. QED
  BY <1>1, <1>4, <1>5

\* The key, or the button, is a record r.
LEMMA HandReplaced ==
  ASSUME NEW s, NEW r, Sane(s)
  PROVE  /\ DOMAIN r = DOMAIN s.key => Sane([s EXCEPT !.key = r])
         /\ DOMAIN r = DOMAIN s.button /\ ~r.sent => Keeps(s, [s EXCEPT !.button = r])
<1> DEFINE t == [s EXCEPT !.key = r]
           u == [s EXCEPT !.button = r]
<1>1. /\ DOMAIN t = Fields /\ t.sess = s.sess /\ t.holder = s.holder
      /\ SameDialog(s, t) /\ SameSeat(s, t) /\ t.key = r /\ t.button = s.button
  BY DEF Sane, Shaped, Fields, SameDialog, SameSeat
<1>2. /\ DOMAIN u = Fields /\ u.sess = s.sess /\ u.holder = s.holder
      /\ SameDialog(s, u) /\ SameSeat(s, u) /\ u.key = s.key /\ u.button = r
  BY DEF Sane, Shaped, Fields, SameDialog, SameSeat
<1> HIDE DEF t, u
<1>3. DOMAIN r = DOMAIN s.key => Sane(t)
  <2>1. ButtonHeld(t)
    BY <1>1 DEF Sane, ButtonHeld, PointerTaken
  <2>2. QED
    BY <1>1, <2>1, PressedShape
<1>4. DOMAIN r = DOMAIN s.button /\ ~r.sent => Keeps(s, u)
  <2>1. DOMAIN r = DOMAIN s.button /\ ~r.sent => Sane(u)
    BY <1>2, PressedShape DEF ButtonHeld
  <2>2. QED
    BY <1>2, <2>1 DEF Keeps, KeyHeld, KeysTaken
<1>5. QED
  BY <1>3, <1>4 DEF t, u

LEMMA ReleaseRight ==
  ASSUME IInv, ReleaseButton \/ ReleaseKey
  PROVE  Right
<1> DEFINE s == InputNow
           u == [s EXCEPT !.button = NoButton]
           t == [s EXCEPT !.key = NoKey]
<1>1. InputBecomes(u) \/ InputBecomes(t)
  BY DEF ReleaseButton, ReleaseKey
<1> HIDE DEF s
<1>2. Sane(s) /\ KeyHeld(s)
  BY NowSane DEF s
<1>3. Keeps(s, u)
  BY <1>2, HandReplaced DEF NoButton, Sane, Shaped
<1>4. Sane(t)
  BY <1>2, HandReplaced DEF NoKey, Sane, Shaped
<1>5. ~t.key.down /\ KeyHeld(t)
  <2>1. t.key = NoKey
    BY <1>2 DEF Sane, Shaped, Fields
  <2>2. QED
    BY <2>1 DEF KeyHeld, NoKey
<1> HIDE DEF t, u
<1>6. QED
  BY <1>1, <1>3, <1>4, <1>5, KeepsIsRight, SaneIsRight DEF s

\* A press that a grab or a binding consumes is over for both sides.
LEMMA SwallowedRight ==
  ASSUME IInv, NEW q, Sane(q), InputBecomes(Swallowed(q))
  PROVE  Right
<1> DEFINE r == [down |-> TRUE, consumed |-> TRUE, sent |-> FALSE, local |-> FALSE]
           t == [q EXCEPT !.key = r]
<1>1. Sane(t)
  BY HandReplaced DEF Sane, Shaped
<1>2. t.key = r
  BY DEF Sane, Shaped, Fields
<1>3. KeyHeld(t) /\ ~t.key.local
  BY <1>2 DEF KeyHeld
<1>4. InputBecomes(t)
  BY DEF Swallowed
<1> HIDE DEF t
<1>5. QED
  BY <1>1, <1>3, <1>4, SaneIsRight

LEMMA AnswerKeeps ==
  ASSUME NEW s, NEW meaning, Sane(s)
  PROVE  Keeps(s, Answer(s, meaning))
<1> DEFINE yes == TRUE
<1>1. Answer(s, meaning) \in {ConfirmCast(s), ConfirmInputEmulation(s),
                              ConfirmInputCapture(s, yes), DismissConfirmation(s)}
  BY DEF Answer
<1> HIDE DEF yes
<1>2. /\ Keeps(s, ConfirmCast(s)) /\ Keeps(s, ConfirmInputEmulation(s))
      /\ Keeps(s, ConfirmInputCapture(s, yes)) /\ Keeps(s, DismissConfirmation(s))
  BY ConfirmCastKeeps, ConfirmInputEmulationKeeps, ConfirmInputCaptureKeeps, DismissKeeps
<1>3. QED
  BY <1>1, <1>2

LEMMA PressKeyRight ==
  ASSUME IInv, NEW meaning, PressKey(meaning)
  PROVE  Right
<1> DEFINE s == InputNow
           down == [s EXCEPT !.key.down = TRUE]
           sent == [down EXCEPT !.key.consumed = TRUE, !.key.sent = TRUE]
           own  == [down EXCEPT !.key.local = TRUE]
<1>1. /\ ~s.key.down
      /\ \/ InputBecomes(Swallowed(Suspend(down)))
         \/ KeysTaken(s) /\ InputBecomes(sent)
         \/ InputBecomes(Swallowed(Answer(down, meaning)))
         \/ \E saved \in BOOLEAN : InputBecomes(Swallowed(ConfirmInputCapture(down, saved)))
         \/ InputBecomes(Swallowed(down))
         \/ ~KeysTaken(s) /\ InputBecomes(own)
  BY DEF PressKey, InputNow
<1> HIDE DEF s
<1>2. Sane(s) /\ KeyHeld(s)
  BY NowSane DEF s
<1>3. /\ DOMAIN s.key = {"down", "consumed", "sent", "local"}
      /\ ~s.key.sent /\ ~s.key.local /\ ~s.key.consumed /\ ~key.sent
  BY <1>1, <1>2 DEF Sane, Shaped, KeyHeld, s, InputNow
<1>4. Sane(down)
  BY <1>2, <1>3, HandReplaced
<1>5. Sane(Suspend(down)) /\ Sane(Answer(down, meaning))
      /\ \A saved \in BOOLEAN : Sane(ConfirmInputCapture(down, saved))
  BY <1>4, SuspendKeeps, AnswerKeeps, ConfirmInputCaptureKeeps DEF Keeps
<1>6. CASE KeysTaken(s) /\ InputBecomes(sent)
  <2>1. /\ DOMAIN sent = Fields /\ sent.sess = s.sess /\ sent.holder = s.holder
        /\ SameDialog(s, sent) /\ SameSeat(s, sent) /\ sent.button = s.button
        /\ DOMAIN sent.key = DOMAIN s.key
        /\ sent.key.down /\ sent.key.consumed /\ sent.key.sent /\ sent.key.local = s.key.local
    BY <1>2 DEF Sane, Shaped, Fields, SameDialog, SameSeat
  <2> HIDE DEF sent
  <2>2. Sane(sent)
    BY <1>2, <2>1, PressedShape DEF Sane, ButtonHeld, PointerTaken
  <2>3. KeyHeld(sent)
    BY <1>2, <1>3, <1>6, <2>1 DEF KeyHeld, KeysTaken
  <2>4. QED
    BY <1>3, <1>6, <2>2, <2>3, SaneIsRight
<1>7. CASE ~KeysTaken(s) /\ InputBecomes(own)
  <2>1. /\ DOMAIN own = Fields /\ own.sess = s.sess /\ own.holder = s.holder
        /\ SameDialog(s, own) /\ SameSeat(s, own) /\ own.button = s.button
        /\ DOMAIN own.key = DOMAIN s.key
        /\ own.key.down /\ own.key.consumed = s.key.consumed /\ own.key.sent = s.key.sent /\ own.key.local
    BY <1>2 DEF Sane, Shaped, Fields, SameDialog, SameSeat
  <2> HIDE DEF own
  <2>2. Sane(own)
    BY <1>2, <2>1, PressedShape DEF Sane, ButtonHeld, PointerTaken
  <2>3. KeyHeld(own)
    BY <1>3, <1>7, <2>1 DEF KeyHeld, KeysTaken
  <2>4. QED
    BY <1>3, <1>7, <2>2, <2>3, SaneIsRight
<1>8. CASE ~(KeysTaken(s) /\ InputBecomes(sent)) /\ ~(~KeysTaken(s) /\ InputBecomes(own))
  <2> HIDE DEF down, sent, own
  <2>1. QED
    BY <1>1, <1>4, <1>5, <1>8, SwallowedRight
<1>9. QED
  BY <1>6, <1>7, <1>8

----------------------------------------------------------------------------
(* The steps of the compositor *)

LEMMA SessionQuitRight ==
  ASSUME IInv, SessionQuit
  PROVE  Right
<1> DEFINE s == InputNow
           t == Show(s, "quit")
<1>1. InputBecomes(t) /\ s.dialog = "none"
  BY DEF SessionQuit, InputNow
<1> HIDE DEF s
<1>2. Sane(s)
  BY NowSane DEF s
<1>3. Shown(s, t, "quit")
  BY <1>1, <1>2, ShowShape DEF Sane, Asks
<1> HIDE DEF t
<1>4. Asks(t)
  BY <1>1, <1>2, <1>3 DEF Sane, Asks, Shown
<1>5. Keeps(s, t)
  BY <1>3, <1>4, ShownKeeps DEF SameHands
<1>6. QED
  BY <1>1, <1>5, KeepsIsRight DEF s

LEMMA CastChangesRight ==
  ASSUME IInv, CastChanges
  PROVE  Right
<1> DEFINE s == InputNow
           on == ~cast.active
<1>1. \/ InputBecomes(SetScreenCastActive(s, on)) \/ InputBecomes(RequestCastCommand(s))
      \/ InputBecomes(DismissConfirmation(s))
  BY DEF CastChanges
<1>2. on \in BOOLEAN
  OBVIOUS
<1> HIDE DEF on
<1>3. /\ Keeps(s, SetScreenCastActive(s, on)) /\ Keeps(s, RequestCastCommand(s))
      /\ Keeps(s, DismissConfirmation(s))
  BY <1>2, NowSane, SetScreenCastActiveKeeps, RequestCastCommandKeeps, DismissKeeps
<1>4. QED
  BY <1>1, <1>3, KeepsIsRight

LEMMA EmulatorRight ==
  ASSUME IInv, NEW e \in Emulators, EmulatorConnects(e) \/ EmulatorLeaves(e)
  PROVE  Right
<1> DEFINE s == InputNow
           left == [s EXCEPT !.emu[e] = "gone"]
           t == RequestInputEmulation([s EXCEPT !.emu[e] = "waiting"], e)
           u == IF s.emu[e] = "waiting" THEN CancelInputEmulation(left, e) ELSE left
<1>1. \/ s.emu[e] = "gone" /\ InputBecomes(t)
      \/ InputBecomes(u)
  BY DEF EmulatorConnects, EmulatorLeaves, InputNow
<1> HIDE DEF s
<1>2. Sane(s)
  BY NowSane DEF s
<1>3. (s.emu[e] = "gone" => Keeps(s, t)) /\ Keeps(s, u)
  BY <1>2, EmulatorConnectsKeeps, EmulatorLeavesKeeps
<1> HIDE DEF t, u
<1>4. QED
  BY <1>1, <1>3, KeepsIsRight DEF s

\* With no session armed, the lock and the seat may change.
LEMMA SeatKeeps ==
  ASSUME NEW s, NEW t, Sane(s), DOMAIN t = Fields, t.sess = s.sess, SameHands(s, t),
         SameDialog(s, t),
         Blocked(t) /\ ~Blocked(s) => s.holder = NoOne /\ \A c \in Sessions : ~s.sess[c].enabled
  PROVE  Keeps(s, t)
<1>1. Shaped(t) /\ Asks(t)
  BY DEF Sane, Shaped, Asks, SameHands, SameDialog
<1>2. \A c \in Sessions : Proper(t, c)
  BY NobodyTakes DEF Sane, Proper, Waits, Armed, Usable, SameHands, SameDialog
<1>3. QED
  BY <1>1, <1>2, SameHandsHeld DEF Sane, Keeps

LEMMA BlockedLess ==
  ASSUME IInv, EndSessionLock \/ RegainSeat
  PROVE  Right
<1> DEFINE s == InputNow
           t == [s EXCEPT !.lock = "open"]
           u == [s EXCEPT !.vt = TRUE]
<1>1. InputBecomes(t) \/ InputBecomes(u)
  BY DEF EndSessionLock, RegainSeat
<1> HIDE DEF s
<1>2. Sane(s)
  BY NowSane DEF s
<1>3. /\ DOMAIN t = Fields /\ t.sess = s.sess /\ SameHands(s, t) /\ SameDialog(s, t)
      /\ t.lock = "open" /\ t.vt = s.vt
  BY <1>2 DEF Sane, Shaped, Fields, SameHands, SameDialog
<1>4. /\ DOMAIN u = Fields /\ u.sess = s.sess /\ SameHands(s, u) /\ SameDialog(s, u)
      /\ u.lock = s.lock /\ u.vt
  BY <1>2 DEF Sane, Shaped, Fields, SameHands, SameDialog
<1> HIDE DEF t, u
<1>5. Keeps(s, t) /\ Keeps(s, u)
  BY <1>2, <1>3, <1>4, SeatKeeps DEF Blocked
<1>6. QED
  BY <1>1, <1>5, KeepsIsRight DEF s

\* Suspending leaves no question about a session to dismiss.
LEMMA BeginSessionLockRight ==
  ASSUME IInv, BeginSessionLock
  PROVE  Right
<1> DEFINE s == InputNow
           q == Suspend(s)
           t == [q EXCEPT !.lock = IF @ = "open" THEN "locking" ELSE @]
<1>1. Sane(s)
  BY NowSane
<1>2. Suspended(s, q) /\ Keeps(s, q)
  BY <1>1, SuspendShape, SuspendKeeps DEF Sane, Proper
<1>3. InputBecomes(t)
  BY <1>2 DEF BeginSessionLock, Suspended
<1> HIDE DEF q, s
<1>4. DOMAIN t = Fields /\ t.sess = q.sess /\ SameHands(q, t) /\ SameDialog(q, t)
  BY <1>2 DEF Suspended, Shaped, Fields, SameHands, SameDialog
<1> HIDE DEF t
<1>5. Keeps(q, t)
  BY <1>2, <1>4, SeatKeeps DEF Keeps, Suspended
<1>6. QED
  BY <1>2, <1>3, <1>5, KeepsTwice, KeepsIsRight DEF s

\* What is held when the lock closes goes to its surface, unless a remote has seen it.
LEMMA SecureSessionRight ==
  ASSUME IInv, SecureSession
  PROVE  Right
<1> DEFINE s == InputNow
           d == DismissConfirmation(s)
           q == Suspend(d)
           local == s.key.down /\ ~q.key.consumed
           waiting == {e \in Emulators : q.emu[e] = "waiting"}
           emus == [e \in Emulators |-> IF e \in waiting THEN "gone" ELSE q.emu[e]]
           t == [q EXCEPT !.lock = "locked", !.emu = emus, !.key.local = local]
<1>1. InputBecomes(t)
  BY DEF SecureSession, InputNow
<1>2. s.key = key
  BY DEF InputNow
<1> HIDE DEF s
<1>3. Sane(s) /\ KeyHeld(s)
  BY NowSane DEF s
<1>4. Keeps(s, d) /\ SameHands(s, d) /\ d.emulating = NoOne
  BY <1>3, DismissKeeps
<1> HIDE DEF d
<1>5. Sane(d) /\ KeyHeld(d)
  BY <1>3, <1>4 DEF Keeps
<1>6. Suspended(d, q) /\ Keeps(d, q)
  BY <1>5, SuspendShape, SuspendKeeps DEF Sane, Proper
<1> HIDE DEF q
<1>7. Sane(q) /\ KeyHeld(q) /\ ~q.key.sent
  BY <1>5, <1>6, NobodyTakes DEF Keeps, Suspended, KeyHeld, KeysTaken
<1>8. q.emulating = NoOne /\ \A e \in Emulators : q.emu[e] # "waiting"
  BY <1>4, <1>6, <1>7, NobodyTakes DEF Suspended, Sane, Asks
<1>9. /\ DOMAIN t = Fields /\ t.sess = q.sess /\ t.holder = NoOne /\ t.button = q.button
      /\ t.dialog = q.dialog /\ t.asking = q.asking /\ t.emu = emus
      /\ t.emulating = NoOne /\ t.verdict = q.verdict /\ t.cast = q.cast
      /\ DOMAIN t.key = DOMAIN q.key /\ (t.key.local <=> local) /\ t.key.down = q.key.down
      /\ t.key.consumed = q.key.consumed /\ t.key.sent = q.key.sent
  BY <1>6, <1>8 DEF Suspended, Shaped, Fields
<1>10. DOMAIN emus = Emulators /\ \A e \in Emulators : emus[e] # "waiting"
  BY <1>8
<1> HIDE DEF emus, t
<1>11. Shaped(t)
  BY <1>7, <1>9, <1>10 DEF Sane, Shaped
<1>12. \A c \in Sessions : Proper(t, c)
  BY <1>6, <1>9, NobodyTakes DEF Suspended, Proper, Waits, Armed
<1>13. ButtonHeld(t)
  BY <1>6, <1>7, <1>9 DEF Suspended, Sane, ButtonHeld, PointerTaken
<1>14. Asks(t)
  BY <1>7, <1>8, <1>9, <1>10, NobodyTakes DEF Sane, Asks
<1>15. Sane(t)
  BY <1>11, <1>12, <1>13, <1>14 DEF Sane
<1>16. q.key.down = s.key.down /\ (s.key.sent => q.key.consumed)
  BY <1>4, <1>5, <1>6, <1>7 DEF Suspended, PressKept, SameHands
<1>17. KeyHeld(t)
  BY <1>7, <1>9, <1>16, NobodyTakes DEF KeyHeld, KeysTaken
<1>18. key.sent => ~t.key.local
  BY <1>2, <1>9, <1>16
<1>19. QED
  BY <1>1, <1>15, <1>17, <1>18, SaneIsRight

LEMMA LoseSeatRight ==
  ASSUME IInv, LoseSeat
  PROVE  Right
<1> DEFINE s == InputNow
           d == [s EXCEPT !.vt = FALSE]
           q == Suspend(d)
           t == [q EXCEPT !.key = NoKey, !.button = NoButton]
<1>1. Sane(s)
  BY NowSane
<1>2. LoseSeat => InputBecomes([(IF q.asking # NoOne THEN DismissConfirmation(q) ELSE q)
                                  EXCEPT !.key = NoKey, !.button = NoButton])
  BY DEF LoseSeat
<1> HIDE DEF s
<1>3. DOMAIN d = Fields /\ d.sess = s.sess /\ SameHands(s, d) /\ SameDialog(s, d)
  BY <1>1 DEF Sane, Shaped, Fields, SameHands, SameDialog
<1> HIDE DEF d
<1>4. Shaped(d) /\ ButtonHeld(d) /\ Asks(d) /\ \A c \in Sessions : Waits(d, c)
  BY <1>1, <1>3 DEF Sane, Shaped, ButtonHeld, PointerTaken, Asks, Proper, Waits, SameHands,
     SameDialog
<1>5. Suspended(d, q)
  BY <1>4, SuspendShape
<1> HIDE DEF q
<1>6. Sane(q)
  BY <1>4, <1>5, SuspendedKeeps DEF Keeps
<1>7. InputBecomes(t)
  BY <1>2, <1>5 DEF Suspended
<1>8. /\ DOMAIN t = Fields /\ t.sess = q.sess /\ t.holder = q.holder /\ SameDialog(q, t)
      /\ SameSeat(q, t) /\ t.key = NoKey /\ t.button = NoButton
  BY <1>6 DEF Sane, Shaped, Fields, SameDialog, SameSeat
<1> HIDE DEF t
<1>9. DOMAIN NoKey = DOMAIN q.key /\ DOMAIN NoButton = DOMAIN q.button
  BY <1>6 DEF Sane, Shaped, NoKey, NoButton
<1>10. ButtonHeld(t) /\ KeyHeld(t) /\ ~t.key.down
  BY <1>5, <1>8, NobodyTakes DEF Suspended, ButtonHeld, KeyHeld, KeysTaken, NoKey, NoButton
<1>11. Sane(t)
  BY <1>6, <1>8, <1>9, <1>10, PressedShape
<1>12. QED
  BY <1>7, <1>10, <1>11, SaneIsRight

----------------------------------------------------------------------------
(* The theorems *)

LEMMA InitIInv ==
  ASSUME CaptureInit
  PROVE  IInv
<1> DEFINE n == InputNow
<1>1. /\ DOMAIN n = Fields /\ n.sess = [c \in Sessions |-> Absent] /\ n.holder = NoOne
      /\ n.key = NoKey /\ n.button = NoButton /\ n.dialog = "none" /\ n.asking = NoOne
      /\ n.emu = [e \in Emulators |-> "gone"] /\ n.emulating = NoOne
      /\ n.verdict = [e \in Emulators |-> "none"]
      /\ n.cast = [active |-> FALSE, confirmed |-> FALSE, pending |-> FALSE]
  BY DEF CaptureInit, InputNow, Fields
<1> HIDE DEF n
<1>2. Shaped(n)
  BY <1>1 DEF Shaped, SessionFields, Absent, NoKey, NoButton
<1>3. \A c \in Sessions : Proper(n, c)
  BY <1>1, NobodyTakes DEF Proper, Waits, Armed, Absent
<1>4. KeyHeld(n) /\ ButtonHeld(n)
  BY <1>1, NobodyTakes DEF KeyHeld, ButtonHeld, KeysTaken, PointerTaken, NoKey, NoButton
<1>5. Asks(n)
  BY <1>1, NobodyTakes DEF Asks
<1>6. QED
  BY <1>2, <1>3, <1>4, <1>5 DEF IInv, Sane, n

LEMMA StepRight ==
  ASSUME IInv, [CaptureNext]_captureVars
  PROVE  Right
<1>1. CASE UNCHANGED captureVars
  <2>1. InputBecomes(InputNow)
    BY <1>1 DEF captureVars, InputBecomes, InputNow
  <2>2. QED
    BY <2>1, NowSane, KeepsIsRight
<1>2. ASSUME NEW c \in Sessions, SessionRequest(c) PROVE Right
  BY <1>2, CreateSessionRight, DestroySessionRight, LettingGoRight, BarriersRight,
     ConnectEisRight, EnableSessionRight, StartRight, EiConnectRight, DeviceClosedRight,
     SeatBindRight DEF SessionRequest
<1>3. ASSUME NEW c \in Sessions, RevokePermission(c) \/ CrossBarrier(c) PROVE Right
  BY <1>3, LettingGoRight, CrossBarrierRight
<1>4. CASE \/ UpdateOutputs \/ ReplaceKeyboard \/ SuspendOnDevice
           \/ PressButton \/ ReleaseButton \/ ReleaseKey
  BY <1>4, UpdateOutputsRight, DeviceGoneRight, PressButtonRight, ReleaseRight
<1>5. ASSUME NEW meaning \in Meanings, PressKey(meaning) PROVE Right
  BY <1>5, PressKeyRight
<1>6. ASSUME NEW e \in Emulators, EmulatorConnects(e) \/ EmulatorLeaves(e) PROVE Right
  BY <1>6, EmulatorRight
<1>7. CASE \/ SessionQuit \/ CastChanges \/ BeginSessionLock \/ SecureSession
           \/ EndSessionLock \/ LoseSeat \/ RegainSeat
  BY <1>7, SessionQuitRight, CastChangesRight, BeginSessionLockRight, SecureSessionRight,
     BlockedLess, LoseSeatRight
<1>8. QED
  BY <1>1, <1>2, <1>3, <1>4, <1>5, <1>6, <1>7 DEF CaptureNext

\* The inductive invariant holds always.
THEOREM Invariance == CaptureSpec => []IInv
<1>1. CaptureInit => IInv
  BY InitIInv
<1>2. IInv /\ [CaptureNext]_captureVars => IInv'
  BY StepRight DEF Right
<1>3. QED
  BY <1>1, <1>2, PTL DEF CaptureSpec

\* Whatever ends a request, the dialog asks for exactly the one that is pending.
THEOREM DialogIsTheOnlyQuestion == CaptureSpec => []SoleDialog
<1>1. IInv => SoleDialog
  <2> SUFFICES ASSUME IInv PROVE SoleDialog
    OBVIOUS
  <2> DEFINE n == InputNow
  <2>1. /\ n.sess = sess /\ n.asking = asking /\ n.emu = emu /\ n.emulating = emulating
        /\ n.dialog = dialog /\ n.cast = cast
    BY DEF InputNow
  <2> HIDE DEF n
  <2>2. Sane(n)
    BY DEF IInv, n
  <2>3. asking \in Sessions \cup {NoOne} /\ emulating \in Emulators \cup {NoOne}
    BY <2>1, <2>2 DEF Sane, Shaped
  <2>4. \A c \in Sessions : sess[c].pending <=> asking = c
    BY <2>1, <2>2 DEF Sane, Proper, Waits
  <2>5. {c \in Sessions : sess[c].pending} = {asking} \ {NoOne}
    BY <2>3, <2>4, NobodyTakes
  <2>6. {e \in Emulators : emu[e] = "waiting"} = {emulating} \ {NoOne}
    BY <2>1, <2>2, <2>3, NobodyTakes DEF Sane, Asks
  <2>7. QED
    BY <2>1, <2>2, <2>5, <2>6 DEF Sane, Asks, SoleDialog
<1>2. QED
  BY <1>1, Invariance, PTL

\* Input is captured, and can be, only in an approved session, on an unlocked seat, with no
\* dialog on the screen.
THEOREM CaptureIsYielded == CaptureSpec => []CaptureYields
<1>1. IInv => CaptureYields
  <2> SUFFICES ASSUME IInv PROVE CaptureYields
    OBVIOUS
  <2> DEFINE n == InputNow
  <2>1. n.sess = sess /\ n.holder = holder /\ n.button = button /\ n.dialog = dialog
    BY DEF InputNow
  <2> HIDE DEF n
  <2>2. Sane(n)
    BY DEF IInv, n
  <2>3. \A c \in Sessions : sess[c].enabled => Usable(n, c) /\ sess[c].link # "none"
    BY <2>1, <2>2 DEF Sane, Proper, Armed
  <2>4. holder # NoOne => sess[holder].enabled /\ sess[holder].link = "ready" /\ dialog = "none"
    BY <2>1, <2>2 DEF Sane, Shaped, Proper, Armed, Asks
  <2>5. button.sent => PointerTaken(n)
    BY <2>1, <2>2 DEF Sane, ButtonHeld
  <2>6. QED
    BY <2>3, <2>4, <2>5 DEF CaptureYields, n
<1>2. QED
  BY <1>1, Invariance, PTL

\* A held key belongs to the remote, to the focused surface or to nobody, and a surface never
\* gets one that the remote has seen.
THEOREM KeyHasOneOwner == CaptureSpec => HeldKeyHasOneOwner
<1> DEFINE Owned == /\ key'.sent => holder' \in Typing /\ key'.down /\ ~key'.local
                    /\ key'.local => key'.down
                    /\ key'.down => (key'.local <=> ~key'.consumed /\ ~key'.sent)
                    /\ key.sent /\ key'.down => ~key'.local
<1>1. IInv /\ [CaptureNext]_captureVars => Owned
  <2> SUFFICES ASSUME IInv, [CaptureNext]_captureVars PROVE Owned
    OBVIOUS
  <2> DEFINE n == InputNow'
  <2>1. Right
    BY StepRight
  <2>2. n.key = key' /\ n.holder = holder'
    BY DEF InputNow
  <2> HIDE DEF n
  <2>3. KeyHeld(n)
    BY <2>1 DEF Right, IInv, n
  <2>4. QED
    BY <2>1, <2>2, <2>3 DEF Right, OwnerKept, KeyHeld, KeysTaken
<1>2. QED
  BY <1>1, Invariance, PTL DEF CaptureSpec, HeldKeyHasOneOwner

=============================================================================
