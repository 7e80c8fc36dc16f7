-------------------------- MODULE SessionLockProofs --------------------------
(***************************************************************************)
(* A confirmed session lock covers every output, for any number of outputs  *)
(* and of frames in flight.                                                 *)
(*                                                                         *)
(* The handlers of SessionLock are pipelines on a record, so the inductive  *)
(* invariant is stated of a record: Safe says of a state s of the lock that *)
(* it is right for the frames fl on their way and the screens sc.  One      *)
(* lemma shows for each stage of the pipelines that it keeps Safe, one for  *)
(* each action that it does, with the frames and screens it leaves.         *)
(*                                                                         *)
(* The second part is about the keyboard: a secured session keeps it away   *)
(* from the desktop, the output that had it is remembered until the session *)
(* is unlocked, and the lock is confirmed only when every active output     *)
(* displays a covered frame.  There the invariant is about the surfaces,    *)
(* the focus and the entries: Good says what every stage of a pipeline      *)
(* keeps, Held and Tidy what is right again when a handler ends, and        *)
(* Remembers relates a state to an earlier one.                             *)
(***************************************************************************)
EXTENDS SessionLock, SequenceTheorems, WellFoundedInduction, TLAPS

Fields == {"phase", "secured", "remembered", "focus", "surfaces", "mapped", "entry", "power",
           "wants"}

Shaped(s) ==
  /\ DOMAIN s = Fields
  /\ s.phase \in {"none", "waiting", "presenting", "locked"} /\ s.secured \in BOOLEAN
  /\ s.entry \in [Outputs -> {"none", "idle", "committed", "presented"}]
  /\ s.power \in [Outputs -> {"absent", "off", "on"}]

FramesShaped(fl, sc) ==
  /\ fl \in [Outputs -> Seq(Frames)]
  /\ sc \in [Outputs -> {"dark", "desktop", "opaque"}]

\* From the i-th frame on, everything on its way is covered.
OpaqueFrom(frames, i) ==
  \A j \in DOMAIN frames : j >= i => frames[j].content = "opaque"

\* The output shows no desktop and will show none.
Covered(o, fl, sc) == sc[o] # "desktop" /\ OpaqueFrom(fl[o], 1)

\* A frame the lock waits for is covered, and so is everything sent after it.
AwaitedAreOpaque(frames) ==
  \A i \in DOMAIN frames : frames[i].awaited => OpaqueFrom(frames, i)

\* What an entry of m_outputPresentations promises of its output.
EntryHolds(s, o, fl, sc) ==
  /\ s.entry[o] = "presented" => Covered(o, fl, sc)
  /\ s.entry[o] = "committed" => AwaitedAreOpaque(fl[o])

Safe(s, fl, sc) ==
  /\ Shaped(s) /\ FramesShaped(fl, sc)
  /\ s.phase \in {"presenting", "locked"} => s.secured
  /\ s.phase \in {"none", "waiting"} => \A o \in Outputs : s.entry[o] \in {"none", "idle"}
  /\ \A o \in Outputs : s.power[o] # "on" => sc[o] = "dark" /\ fl[o] = <<>>
  /\ s.phase = "presenting" => \A o \in Outputs : EntryHolds(s, o, fl, sc)
  /\ s.phase = "locked" => \A o \in Outputs : Covered(o, fl, sc)

\* The inductive invariant.
IInv == Safe(Now, flight, screen)

----------------------------------------------------------------------------
(* The stages of the pipelines *)

\* Only these four fields matter.
LEMMA SameLockSafe ==
  ASSUME NEW s, NEW t, NEW fl, NEW sc, Safe(s, fl, sc), DOMAIN t = Fields,
         t.phase = s.phase, t.secured = s.secured, t.entry = s.entry, t.power = s.power
  PROVE  Safe(t, fl, sc)
BY DEF Safe, Shaped, EntryHolds

LEMMA ScheduleSafe ==
  ASSUME NEW s, NEW fl, NEW sc, NEW S, Safe(s, fl, sc)
  PROVE  Safe(ScheduleFullFrame(s, S), fl, sc)
<1> DEFINE t == ScheduleFullFrame(s, S)
<1>1. /\ DOMAIN t = Fields /\ t.phase = s.phase /\ t.secured = s.secured
      /\ t.entry = s.entry /\ t.power = s.power
  BY DEF Safe, Shaped, Fields, ScheduleFullFrame
<1>2. QED
  BY <1>1, SameLockSafe

LEMMA FocusSafe ==
  ASSUME NEW s, NEW fl, NEW sc, Safe(s, fl, sc)
  PROVE  Safe(FocusMappedSurface(s), fl, sc)
<1> DEFINE t == FocusMappedSurface(s)
<1>1. /\ DOMAIN t = Fields /\ t.phase = s.phase /\ t.secured = s.secured
      /\ t.entry = s.entry /\ t.power = s.power
  BY DEF Safe, Shaped, Fields, FocusMappedSurface
<1>2. QED
  BY <1>1, SameLockSafe

\* Synchronising forgets entries and starts new ones, and promises nothing new.
LEMMA SyncSafe ==
  ASSUME NEW s, NEW fl, NEW sc, Safe(s, fl, sc)
  PROVE  LET t == SyncOutputPresentations(s)
         IN  /\ Safe(t, fl, sc)
             /\ t.phase = s.phase /\ t.secured = s.secured /\ t.power = s.power
             /\ \A o \in Outputs : s.power[o] # "on" => t.entry[o] = "none"
<1> DEFINE t == SyncOutputPresentations(s)
<1>1. /\ DOMAIN t = Fields /\ t.phase = s.phase /\ t.secured = s.secured /\ t.power = s.power
      /\ t.entry = [o \in Outputs |-> IF o \notin Active(s) THEN "none"
                                      ELSE IF s.entry[o] = "none" THEN "idle" ELSE s.entry[o]]
  BY DEF Safe, Shaped, Fields, SyncOutputPresentations
<1>2. \A o \in Outputs : /\ t.entry[o] \in {"none", "idle", s.entry[o]}
                         /\ s.power[o] # "on" => t.entry[o] = "none"
  BY <1>1 DEF Active
<1>3. Shaped(t)
  BY <1>1 DEF Safe, Shaped
<1>4. s.phase = "presenting" => \A o \in Outputs : EntryHolds(t, o, fl, sc)
  BY <1>2 DEF Safe, EntryHolds
<1>5. Safe(t, fl, sc)
  BY <1>1, <1>2, <1>3, <1>4 DEF Safe
<1>6. QED
  BY <1>1, <1>2, <1>5

\* Confirming is safe: an active output has presented, and the others are dark.
LEMMA MaybeSendLockedSafe ==
  ASSUME NEW s, NEW fl, NEW sc, Safe(s, fl, sc)
  PROVE  Safe(MaybeSendLocked(s), fl, sc)
<1> DEFINE r == SyncOutputPresentations(s)
           t == [r EXCEPT !.phase = "locked"]
<1>1. Safe(r, fl, sc) /\ r.phase = s.phase
  BY SyncSafe
<1>2. ASSUME s.phase = "presenting", \A o \in Active(r) : r.entry[o] = "presented"
      PROVE  Safe(t, fl, sc)
  <2> HIDE DEF r
  <2>1. /\ Shaped(t) /\ t.phase = "locked" /\ t.secured = r.secured
        /\ t.entry = r.entry /\ t.power = r.power
    BY <1>1 DEF Safe, Shaped, Fields
  <2>2. ASSUME NEW o \in Outputs PROVE Covered(o, fl, sc)
    <3>1. CASE o \in Active(r)
      BY <1>1, <1>2, <3>1 DEF Safe, EntryHolds
    <3>2. CASE o \notin Active(r)
      BY <1>1, <3>2 DEF Safe, Active, Covered, OpaqueFrom
    <3>3. QED
      BY <3>1, <3>2
  <2>3. QED
    BY <1>1, <1>2, <2>1, <2>2 DEF Safe
<1>3. QED
  BY <1>1, <1>2 DEF MaybeSendLocked

\* Presenting starts with no entry presented or committed, under the blank.
LEMMA BeginPresentingSafe ==
  ASSUME NEW s, NEW fl, NEW sc, Safe(s, fl, sc), s.phase = "waiting"
  PROVE  Safe(BeginPresenting(s), fl, sc)
<1> DEFINE a == ActivateSessionLock([s EXCEPT !.phase = "presenting"])
           r == SyncOutputPresentations(a)
<1>1. /\ DOMAIN a = Fields /\ a.phase = "presenting" /\ a.secured = TRUE
      /\ a.entry = s.entry /\ a.power = s.power
  BY DEF Safe, Shaped, Fields, ActivateSessionLock
<1>2. Safe(a, fl, sc)
  <2> HIDE DEF a
  <2>1. Shaped(a)
    BY <1>1 DEF Safe, Shaped
  <2>2. \A o \in Outputs : EntryHolds(a, o, fl, sc)
    BY <1>1 DEF Safe, EntryHolds
  <2>3. QED
    BY <1>1, <2>1, <2>2 DEF Safe
<1>3. QED
  <2> HIDE DEF a
  <2>1. Safe(r, fl, sc)
    BY <1>2, SyncSafe
  <2>2. Safe(FocusMappedSurface(ScheduleFullFrame(r, Active(r))), fl, sc)
    BY <2>1, ScheduleSafe, FocusSafe
  <2>3. Safe(MaybeSendLocked(FocusMappedSurface(ScheduleFullFrame(r, Active(r)))), fl, sc)
    BY <2>2, MaybeSendLockedSafe
  <2>4. QED
    BY <2>3 DEF BeginPresenting, a

LEMMA PresentIfReadySafe ==
  ASSUME NEW s, NEW fl, NEW sc, Safe(s, fl, sc)
  PROVE  Safe(PresentIfReady(s), fl, sc)
BY BeginPresentingSafe DEF PresentIfReady

\* Forgetting what an output has presented is always safe.
LEMMA RestartSafe ==
  ASSUME NEW s, NEW fl, NEW sc, NEW o \in Outputs, Safe(s, fl, sc)
  PROVE  Safe([s EXCEPT !.entry[o] = "idle"], fl, sc)
<1> DEFINE t == [s EXCEPT !.entry[o] = "idle"]
<1>1. /\ DOMAIN t = Fields /\ t.phase = s.phase /\ t.secured = s.secured
      /\ t.power = s.power /\ t.entry = [s.entry EXCEPT ![o] = "idle"]
  BY DEF Safe, Shaped, Fields
<1>2. /\ t.entry \in [Outputs -> {"none", "idle", "committed", "presented"}]
      /\ \A p \in Outputs : t.entry[p] \in {"idle", s.entry[p]}
  BY <1>1 DEF Safe, Shaped
<1> HIDE DEF t
<1>3. Shaped(t)
  BY <1>1, <1>2 DEF Safe, Shaped
<1>4. \A p \in Outputs : EntryHolds(s, p, fl, sc) => EntryHolds(t, p, fl, sc)
  BY <1>2 DEF EntryHolds
<1>5. Safe(t, fl, sc)
  BY <1>1, <1>2, <1>3, <1>4 DEF Safe
<1>6. QED
  BY <1>5 DEF t

LEMMA StateChangedSafe ==
  ASSUME NEW s, NEW fl, NEW sc, NEW o \in Outputs, Safe(s, fl, sc)
  PROVE  Safe(HandleOutputStateChanged(s, o), fl, sc)
<1> DEFINE r == SyncOutputPresentations(s)
           again == IF o \notin Active(r) THEN r
                    ELSE ScheduleFullFrame([r EXCEPT !.entry[o] = "idle"], {o})
<1>1. Safe(r, fl, sc)
  BY SyncSafe
<1>2. Safe(again, fl, sc)
  <2> HIDE DEF r
  <2>1. QED
    BY <1>1, RestartSafe, ScheduleSafe
<1>3. Safe(FocusMappedSurface(MaybeSendLocked(again)), fl, sc)
  <2> HIDE DEF again
  <2>1. QED
    BY <1>2, MaybeSendLockedSafe, FocusSafe
<1>4. Safe(PresentIfReady(s), fl, sc) /\ Safe(FocusMappedSurface(s), fl, sc)
  BY PresentIfReadySafe, FocusSafe
<1>5. QED
  BY <1>3, <1>4 DEF HandleOutputStateChanged

LEMMA OutputsChangedSafe ==
  ASSUME NEW s, NEW fl, NEW sc, Safe(s, fl, sc)
  PROVE  Safe(OutputsChanged(s), fl, sc)
<1> DEFINE r == SyncOutputPresentations(s)
           idle == {o \in Outputs : r.entry[o] = "idle"}
<1>1. Safe(ScheduleFullFrame(r, idle), fl, sc)
  BY SyncSafe, ScheduleSafe
<1>2. Safe(FocusMappedSurface(MaybeSendLocked(ScheduleFullFrame(r, idle))), fl, sc)
  BY <1>1, MaybeSendLockedSafe, FocusSafe
<1>3. Safe(PresentIfReady(s), fl, sc) /\ Safe(FocusMappedSurface(s), fl, sc)
  BY PresentIfReadySafe, FocusSafe
<1>4. QED
  BY <1>2, <1>3 DEF OutputsChanged

LEMMA WithoutSurfaceSafe ==
  ASSUME NEW s, NEW fl, NEW sc, NEW o, Safe(s, fl, sc)
  PROVE  Safe(WithoutSurface(s, o), fl, sc)
<1> DEFINE r == [s EXCEPT !.surfaces = RemoveFirst(@, o), !.mapped = @ \ {o}]
<1>1. /\ DOMAIN r = Fields /\ r.phase = s.phase /\ r.secured = s.secured
      /\ r.entry = s.entry /\ r.power = s.power
  BY DEF Safe, Shaped, Fields
<1>2. Safe(r, fl, sc)
  BY <1>1, SameLockSafe
<1>3. QED
  <2> HIDE DEF r
  <2>1. Safe(FocusMappedSurface(r), fl, sc)
    BY <1>2, FocusSafe
  <2>2. QED
    BY <1>2, <2>1 DEF WithoutSurface, r

\* Without a lock nothing is promised, whether the session stays secured or not.
LEMMA GoneSafe ==
  ASSUME NEW s, NEW t, NEW fl, NEW sc, Safe(s, fl, sc), DOMAIN t = Fields,
         t.phase = "none", t.secured \in BOOLEAN, t.power = s.power,
         t.entry = [o \in Outputs |-> "none"]
  PROVE  Safe(t, fl, sc)
BY DEF Safe, Shaped
----------------------------------------------------------------------------
(* Frames *)

LEMMA BecomeSafe ==
  ASSUME NEW s, Safe(s, flight', screen'), Become(s)
  PROVE  IInv'
<1>1. /\ DOMAIN Now' = Fields /\ Now'.phase = s.phase /\ Now'.secured = s.secured
      /\ Now'.entry = s.entry /\ Now'.power = s.power
  BY DEF Become, Now, Fields
<1>2. QED
  BY <1>1, SameLockSafe DEF IInv

Contents == {"desktop", "opaque"}

\* What Send makes of the frames on their way.
Older(frames, recorded) ==
  [i \in DOMAIN frames |->
     IF recorded THEN [frames[i] EXCEPT !.awaited = FALSE] ELSE frames[i]]
Sent(frames, content, recorded) ==
  Append(Older(frames, recorded), [content |-> content, awaited |-> recorded])

\* The older frames stay in place, awaited at most as before.
LEMMA OlderFrames ==
  ASSUME NEW frames \in Seq(Frames), NEW recorded \in BOOLEAN
  PROVE  LET old == Older(frames, recorded)
         IN  /\ old \in Seq(Frames) /\ Len(old) = Len(frames)
             /\ \A i \in 1..Len(frames) :
                  /\ old[i].content = frames[i].content
                  /\ old[i].awaited => ~recorded /\ frames[i].awaited
<1> DEFINE old == Older(frames, recorded)
<1>1. /\ DOMAIN frames = 1..Len(frames) /\ Len(frames) \in Nat
      /\ \A i \in 1..Len(frames) : frames[i] \in Frames
  OBVIOUS
<1>2. /\ DOMAIN old = 1..Len(frames)
      /\ old = [i \in DOMAIN frames |-> old[i]]
  BY <1>1 DEF Older
<1>3. \A i \in 1..Len(frames) : /\ old[i] \in Frames
                                /\ old[i].content = frames[i].content
                                /\ old[i].awaited => ~recorded /\ frames[i].awaited
  BY <1>1 DEF Older, Frames
<1>4. QED
  <2> HIDE DEF old
  <2>1. old \in [1..Len(frames) -> Frames]
    BY <1>1, <1>2, <1>3
  <2>2. old \in Seq(Frames)
    BY <1>1, <2>1, SeqDef
  <2>3. Len(old) = Len(frames)
    BY <1>1, <1>2, <2>2, LenProperties
  <2>4. QED
    BY <1>3, <2>2, <2>3 DEF old

LEMMA SentFrames ==
  ASSUME NEW frames \in Seq(Frames), NEW content \in Contents, NEW recorded \in BOOLEAN
  PROVE  LET all == Sent(frames, content, recorded)  n == Len(frames)
         IN  /\ all \in Seq(Frames) /\ n \in Nat
             /\ DOMAIN frames = 1..n /\ DOMAIN all = 1..(n + 1)
             /\ \A i \in 1..n : /\ all[i].content = frames[i].content
                                /\ all[i].awaited => ~recorded /\ frames[i].awaited
             /\ all[n + 1].content = content /\ (all[n + 1].awaited => recorded)
<1> DEFINE old == Older(frames, recorded)
           new == [content |-> content, awaited |-> recorded]
           n == Len(frames)
<1>1. new \in Frames /\ new.content = content /\ (new.awaited => recorded)
  BY DEF Frames, Contents
<1>2. /\ old \in Seq(Frames) /\ Len(old) = n
      /\ \A i \in 1..n : /\ old[i].content = frames[i].content
                         /\ old[i].awaited => ~recorded /\ frames[i].awaited
  BY OlderFrames
<1>3. n \in Nat /\ DOMAIN frames = 1..n
  OBVIOUS
<1>4. QED
  <2> HIDE DEF old, new
  <2>1. /\ Append(old, new) \in Seq(Frames)
        /\ DOMAIN Append(old, new) = 1..(n + 1)
        /\ \A i \in 1..n : Append(old, new)[i] = old[i]
        /\ Append(old, new)[n + 1] = new
    BY <1>1, <1>2, <1>3, AppendProperties
  <2>2. Sent(frames, content, recorded) = Append(old, new)
    BY DEF Sent, old, new
  <2>3. QED
    BY <1>1, <1>2, <1>3, <2>1, <2>2

\* Covered frames stay covered when a covered one follows, and what follows an awaited
\* one is covered.
LEMMA SentCovers ==
  ASSUME NEW frames \in Seq(Frames), NEW recorded \in BOOLEAN
  PROVE  LET all == Sent(frames, "opaque", recorded)
         IN  /\ OpaqueFrom(frames, 1) => OpaqueFrom(all, 1)
             /\ AwaitedAreOpaque(frames) => AwaitedAreOpaque(all)
             /\ recorded => AwaitedAreOpaque(all)
<1> DEFINE all == Sent(frames, "opaque", recorded)
           n == Len(frames)
<1>1. /\ n \in Nat /\ DOMAIN frames = 1..n /\ DOMAIN all = 1..(n + 1)
      /\ \A i \in 1..n : /\ all[i].content = frames[i].content
                         /\ all[i].awaited => ~recorded /\ frames[i].awaited
      /\ all[n + 1].content = "opaque"
  BY SentFrames DEF Contents
<1> HIDE DEF all, n
<1>2. \A i \in 1..n : OpaqueFrom(frames, i) => OpaqueFrom(all, i)
  BY <1>1 DEF OpaqueFrom
<1>3. OpaqueFrom(all, n + 1)
  BY <1>1 DEF OpaqueFrom
<1>4. OpaqueFrom(frames, 1) => OpaqueFrom(all, 1)
  BY <1>1 DEF OpaqueFrom
<1>5. AwaitedAreOpaque(frames) => AwaitedAreOpaque(all)
  BY <1>1, <1>2, <1>3 DEF AwaitedAreOpaque
<1>6. recorded => AwaitedAreOpaque(all)
  BY <1>1, <1>3 DEF AwaitedAreOpaque
<1>7. QED
  BY <1>4, <1>5, <1>6 DEF all

\* While the lock presents or is confirmed, only covered frames are sent.
LEMMA SendSafe ==
  ASSUME NEW s, NEW o \in Outputs, NEW content \in Contents, NEW recorded \in BOOLEAN,
         Safe(s, flight, screen), s.power[o] = "on",
         s.phase \in {"presenting", "locked"} => content = "opaque",
         Send(o, content, recorded)
  PROVE  /\ Safe(s, flight', screen)
         /\ recorded /\ content = "opaque" => AwaitedAreOpaque(flight'[o])
<1>1. flight' = [flight EXCEPT ![o] = Sent(@, content, recorded)]
  BY DEF Send, Sent, Older
<1>2. flight \in [Outputs -> Seq(Frames)]
  BY DEF Safe, FramesShaped
<1>3. Sent(flight[o], content, recorded) \in Seq(Frames)
  BY <1>2, SentFrames
<1>4. /\ flight' \in [Outputs -> Seq(Frames)]
      /\ flight'[o] = Sent(flight[o], content, recorded)
      /\ \A p \in Outputs \ {o} : flight'[p] = flight[p]
  BY <1>1, <1>2, <1>3
<1>5. content = "opaque" => /\ OpaqueFrom(flight[o], 1) => OpaqueFrom(flight'[o], 1)
                            /\ AwaitedAreOpaque(flight[o]) => AwaitedAreOpaque(flight'[o])
                            /\ recorded => AwaitedAreOpaque(flight'[o])
  BY <1>2, <1>4, SentCovers
<1>6. CASE s.phase \in {"presenting", "locked"}
  <2>1. \A p \in Outputs :
          /\ Covered(p, flight, screen) => Covered(p, flight', screen)
          /\ EntryHolds(s, p, flight, screen) => EntryHolds(s, p, flight', screen)
    BY <1>4, <1>5, <1>6 DEF EntryHolds, Covered
  <2>2. QED
    BY <1>4, <1>5, <1>6, <2>1 DEF Safe, FramesShaped
<1>7. CASE s.phase \in {"none", "waiting"}
  BY <1>4, <1>5, <1>7 DEF Safe, FramesShaped
<1>8. QED
  BY <1>6, <1>7 DEF Safe, Shaped

\* The entry of the output o becomes committed.
Commits(r, t, o) ==
  /\ DOMAIN t = Fields /\ t.phase = r.phase /\ t.secured = r.secured /\ t.power = r.power
  /\ t.entry = [r.entry EXCEPT ![o] = "committed"]

\* An output's entry becomes committed, or the lock is as safe as before.
LEMMA CommitCases ==
  ASSUME NEW s, NEW fl, NEW sc, NEW o \in Outputs, Safe(s, fl, sc)
  PROVE  LET t == HandleOutputCommit(s, o)
             r == SyncOutputPresentations(s)
         IN  /\ t.phase = s.phase /\ t.secured = s.secured /\ t.power = s.power
             /\ \/ Safe(t, fl, sc)
                \/ /\ r.phase = "presenting" /\ Safe(r, fl, sc) /\ Commits(r, t, o)
                   /\ t.entry[o] = "committed"
<1> DEFINE r == SyncOutputPresentations(s)
           t == [r EXCEPT !.entry[o] = "committed"]
<1>1. Safe(r, fl, sc) /\ r.phase = s.phase /\ r.secured = s.secured /\ r.power = s.power
  BY SyncSafe
<1>2. Commits(r, t, o) /\ t.entry[o] = "committed"
  <2> HIDE DEF r
  <2>1. QED
    BY <1>1 DEF Commits, Safe, Shaped, Fields
<1>3. QED
  <2> HIDE DEF t
  <2>1. HandleOutputCommit(s, o) \in {s, r, t}
    BY DEF HandleOutputCommit, t
  <2>2. HandleOutputCommit(s, o) = t => s.phase = "presenting" \/ t \in {s, r}
    BY DEF HandleOutputCommit, t
  <2>3. QED
    BY <1>1, <1>2, <2>1, <2>2 DEF Commits

\* A committed entry awaits the frame just sent, which is covered.
LEMMA FrameSafe ==
  ASSUME NEW o \in Outputs, IInv, Frame(o)
  PROVE  IInv'
<1> DEFINE n == [Now EXCEPT !.wants = @ \ {o}]
           s == HandleOutputCommit(n, o)
           r == SyncOutputPresentations(n)
           recorded == s.entry[o] = "committed"
<1>1. /\ Safe(n, flight, screen)
      /\ n.secured = secured /\ n.power = power /\ n.phase = phase
  <2>1. /\ DOMAIN n = Fields /\ n.phase = Now.phase /\ n.secured = Now.secured
        /\ n.entry = Now.entry /\ n.power = Now.power
    BY DEF Now, Fields
  <2>2. QED
    BY <2>1, SameLockSafe DEF IInv, Now
<1>2. power[o] = "on" /\ Send(o, Content, recorded) /\ Become(s) /\ screen' = screen
  BY DEF Frame
<1>3. Content \in Contents /\ (phase \in {"presenting", "locked"} => Content = "opaque")
  BY <1>1 DEF Content, Contents, Safe
<1> HIDE DEF n
<1>4. /\ s.phase = phase /\ s.secured = secured /\ s.power = power
      /\ \/ Safe(s, flight, screen)
         \/ /\ r.phase = "presenting" /\ Safe(r, flight, screen) /\ Commits(r, s, o)
            /\ recorded
  <2>1. /\ s.phase = n.phase /\ s.secured = n.secured /\ s.power = n.power
        /\ \/ Safe(s, flight, screen)
           \/ /\ r.phase = "presenting" /\ Safe(r, flight, screen) /\ Commits(r, s, o)
              /\ s.entry[o] = "committed"
    BY <1>1, CommitCases
  <2> HIDE DEF s, r
  <2>2. QED
    BY <1>1, <2>1
<1>5. recorded \in BOOLEAN
  OBVIOUS
<1> HIDE DEF s, r, recorded
<1>6. CASE Safe(s, flight, screen)
  <2>1. Safe(s, flight', screen)
    BY <1>2, <1>3, <1>4, <1>5, <1>6, SendSafe
  <2>2. QED
    BY <1>2, <2>1, BecomeSafe
<1>7. CASE ~Safe(s, flight, screen)
  <2>1. r.phase = "presenting" /\ Safe(r, flight, screen) /\ Commits(r, s, o) /\ recorded
    BY <1>4, <1>7
  <2>2. /\ DOMAIN s = Fields /\ s.phase = r.phase /\ s.secured = r.secured
        /\ s.power = r.power /\ s.entry = [r.entry EXCEPT ![o] = "committed"]
    BY <2>1 DEF Commits
  <2>3. /\ Safe(r, flight', screen)
        /\ AwaitedAreOpaque(flight'[o])
    BY <1>2, <1>3, <1>4, <1>5, <2>1, <2>2, SendSafe
  <2>4. Shaped(s)
    BY <2>2, <2>3 DEF Safe, Shaped
  <2>5. \A p \in Outputs : EntryHolds(s, p, flight', screen)
    BY <2>1, <2>2, <2>3 DEF Safe, EntryHolds, Shaped
  <2>6. Safe(s, flight', screen)
    BY <2>1, <2>2, <2>3, <2>4, <2>5 DEF Safe
  <2>7. QED
    BY <1>2, <2>6, BecomeSafe
<1>8. QED
  BY <1>6, <1>7
\* The frame a committed entry awaits is covered, and so is all that follows it.
LEMMA PresentSafe ==
  ASSUME NEW o \in Outputs, NEW ok \in BOOLEAN, IInv, Present(o, ok)
  PROVE  IInv'
<1> DEFINE f == Head(flight[o])
           t == HandleOutputPresent(Now, o, f.awaited, ok)
           shown == [Now EXCEPT !.entry[o] = "presented"]
<1>1. /\ flight[o] \in Seq(Frames) /\ flight[o] # <<>>
      /\ flight' = [flight EXCEPT ![o] = Tail(@)]
      /\ screen' = IF ok THEN [screen EXCEPT ![o] = f.content] ELSE screen
      /\ Become(t)
  BY DEF Present, IInv, Safe, FramesShaped
<1>2. /\ Tail(flight[o]) \in Seq(Frames) /\ f \in Frames /\ f = flight[o][1]
      /\ 1 \in DOMAIN flight[o]
      /\ \A i \in DOMAIN Tail(flight[o]) : /\ i \in Nat \ {0} /\ i + 1 \in DOMAIN flight[o]
                                           /\ Tail(flight[o])[i] = flight[o][i + 1]
  BY <1>1, HeadTailProperties
<1>3. /\ FramesShaped(flight', screen')
      /\ flight'[o] = Tail(flight[o]) /\ screen'[o] \in {screen[o], f.content}
      /\ ok => screen'[o] = f.content
      /\ \A p \in Outputs \ {o} : flight'[p] = flight[p] /\ screen'[p] = screen[p]
  BY <1>1, <1>2 DEF FramesShaped, Frames, IInv, Safe
<1>4. OpaqueFrom(flight[o], 1) => OpaqueFrom(flight'[o], 1) /\ f.content = "opaque"
  BY <1>2, <1>3 DEF OpaqueFrom
<1>5. AwaitedAreOpaque(flight[o]) => AwaitedAreOpaque(flight'[o])
  BY <1>2, <1>3 DEF AwaitedAreOpaque, OpaqueFrom
<1>6. \A p \in Outputs : /\ Covered(p, flight, screen) => Covered(p, flight', screen')
                         /\ EntryHolds(Now, p, flight, screen)
                            => EntryHolds(Now, p, flight', screen')
  BY <1>3, <1>4, <1>5 DEF Covered, EntryHolds
<1>7. Safe(Now, flight', screen')
  BY <1>1, <1>3, <1>6 DEF IInv, Safe
<1>8. ASSUME phase = "presenting", entry[o] = "committed", f.awaited, ok
      PROVE  Safe(shown, flight', screen')
  <2>1. AwaitedAreOpaque(flight[o])
    BY <1>8 DEF IInv, Safe, EntryHolds, Now
  <2>2. OpaqueFrom(flight[o], 1)
    BY <1>2, <1>8, <2>1 DEF AwaitedAreOpaque
  <2>3. Covered(o, flight', screen')
    BY <1>3, <1>4, <1>8, <2>2 DEF Covered
  <2>4. /\ DOMAIN shown = Fields /\ shown.phase = "presenting" /\ shown.secured = Now.secured
        /\ shown.power = Now.power /\ shown.entry = [Now.entry EXCEPT ![o] = "presented"]
    BY <1>8 DEF Now, Fields
  <2> HIDE DEF shown
  <2>5. Shaped(shown)
    BY <1>7, <2>4 DEF Safe, Shaped
  <2>6. \A p \in Outputs : EntryHolds(shown, p, flight', screen')
    <3>1. Now.phase = "presenting"
      BY <1>8 DEF Now
    <3>2. QED
      BY <1>7, <2>3, <2>4, <3>1 DEF Safe, Shaped, EntryHolds
  <2>7. QED
    BY <1>7, <1>8, <2>4, <2>5, <2>6 DEF Safe, Now
<1>9. Safe(t, flight', screen')
  <2>1. CASE phase # "presenting" \/ entry[o] # "committed" \/ ~f.awaited
    BY <1>7, <2>1 DEF HandleOutputPresent, Now
  <2>2. CASE phase = "presenting" /\ entry[o] = "committed" /\ f.awaited /\ ~ok
    <3>1. t = ScheduleFullFrame([Now EXCEPT !.entry[o] = "idle"], {o})
      BY <2>2 DEF HandleOutputPresent, Now
    <3>2. QED
      BY <1>7, <3>1, RestartSafe, ScheduleSafe
  <2>3. CASE phase = "presenting" /\ entry[o] = "committed" /\ f.awaited /\ ok
    <3>1. t = MaybeSendLocked(shown)
      BY <2>3 DEF HandleOutputPresent, Now
    <3>2. QED
      BY <1>8, <2>3, <3>1, MaybeSendLockedSafe
  <2>4. QED
    BY <2>1, <2>2, <2>3
<1>10. QED
  BY <1>1, <1>9, BecomeSafe
----------------------------------------------------------------------------
(* Outputs *)

LEMMA ContentSafe ==
  IInv => Content \in Contents /\ (phase \in {"presenting", "locked"} => Content = "opaque")
BY DEF IInv, Safe, Now, Content, Contents

LEMMA ModesetSafe ==
  ASSUME NEW o \in Outputs, NEW committed \in BOOLEAN, IInv, Modeset(o, committed)
  PROVE  IInv'
<1>1. Safe(Now, flight', screen')
  <2>1. CASE committed
    <3>1. Send(o, Content, FALSE) /\ Now.power[o] = "on" /\ screen' = screen
      BY <2>1 DEF Modeset, Now
    <3>2. Safe(Now, flight, screen)
      BY DEF IInv
    <3>3. Safe(Now, flight', screen)
      BY <3>1, <3>2, ContentSafe, SendSafe DEF Now, IInv
    <3>4. QED
      BY <3>1, <3>3
  <2>2. CASE ~committed
    BY <2>2 DEF Modeset, IInv
  <2>3. QED
    BY <2>1, <2>2
<1>2. Safe(HandleOutputStateChanged(ScheduleFullFrame(Now, {o}), o), flight', screen')
  BY <1>1, ScheduleSafe, StateChangedSafe
<1>3. QED
  BY <1>2, BecomeSafe DEF Modeset

\* An output that goes dark, and keeps its entry or loses it, promises nothing.
LEMMA DarkSafe ==
  ASSUME NEW o \in Outputs, NEW t, IInv, DOMAIN t = Fields,
         t.phase = phase, t.secured = secured,
         t.power \in [Outputs -> {"absent", "off", "on"}], t.power[o] # "on",
         \A p \in Outputs \ {o} : t.power[p] = power[p],
         t.entry \in [Outputs -> {"none", "idle", "committed", "presented"}],
         \A p \in Outputs : t.entry[p] \in {"none", entry[p]},
         flight' = [flight EXCEPT ![o] = <<>>], screen' = [screen EXCEPT ![o] = "dark"]
  PROVE  Safe(t, flight', screen')
<1>1. /\ flight'[o] = <<>> /\ screen'[o] = "dark"
      /\ \A p \in Outputs \ {o} : flight'[p] = flight[p] /\ screen'[p] = screen[p]
      /\ FramesShaped(flight', screen')
  BY EmptySeq DEF IInv, Safe, FramesShaped
<1>2. Shaped(t)
  BY DEF IInv, Safe, Shaped, Now
<1>3. \A p \in Outputs : /\ Covered(p, flight, screen) => Covered(p, flight', screen')
                         /\ EntryHolds(Now, p, flight, screen)
                            => EntryHolds(t, p, flight', screen')
  BY <1>1 DEF Covered, EntryHolds, OpaqueFrom, AwaitedAreOpaque, Now
<1>4. /\ phase \in {"presenting", "locked"} => t.secured
      /\ phase \in {"none", "waiting"} => \A p \in Outputs : t.entry[p] \in {"none", "idle"}
  BY DEF IInv, Safe, Now
<1>5. \A p \in Outputs : t.power[p] # "on" => screen'[p] = "dark" /\ flight'[p] = <<>>
  BY <1>1 DEF IInv, Safe, Now
<1>6. /\ phase = "presenting" => \A p \in Outputs : EntryHolds(t, p, flight', screen')
      /\ phase = "locked" => \A p \in Outputs : Covered(p, flight', screen')
  BY <1>3 DEF IInv, Safe, Now
<1>7. QED
  BY <1>1, <1>2, <1>4, <1>5, <1>6 DEF Safe

LEMMA PowerOffSafe ==
  ASSUME NEW o \in Outputs, IInv, PowerOff(o)
  PROVE  IInv'
<1> DEFINE t == [Now EXCEPT !.power[o] = "off", !.wants = @ \ {o}]
<1>1. /\ DOMAIN t = Fields /\ t.phase = phase /\ t.secured = secured /\ t.entry = entry
      /\ t.power = [power EXCEPT ![o] = "off"]
  BY DEF Now, Fields
<1>2. /\ power \in [Outputs -> {"absent", "off", "on"}]
      /\ entry \in [Outputs -> {"none", "idle", "committed", "presented"}]
  BY DEF IInv, Safe, Shaped, Now
<1>3. /\ flight' = [flight EXCEPT ![o] = <<>>] /\ screen' = [screen EXCEPT ![o] = "dark"]
      /\ Become(HandleOutputStateChanged(t, o))
  BY DEF PowerOff
<1> HIDE DEF t
<1>4. Safe(t, flight', screen')
  BY <1>1, <1>2, <1>3, DarkSafe, ZenonT(60)
<1>5. QED
  BY <1>3, <1>4, StateChangedSafe, BecomeSafe

\* An output that lights up shows nothing yet, and its first frame is covered.
LEMMA LightUpSafe ==
  ASSUME NEW o \in Outputs, NEW t, NEW content \in Contents, IInv, DOMAIN t = Fields,
         t.phase = phase, t.secured = secured, t.entry = entry,
         t.power = [power EXCEPT ![o] = "on"],
         phase \in {"presenting", "locked"} => content = "opaque",
         Send(o, content, FALSE), screen' = screen
  PROVE  Safe(t, flight', screen')
<1>1. power \in [Outputs -> {"absent", "off", "on"}]
  BY DEF IInv, Safe, Shaped, Now
<1>2. /\ Shaped(t) /\ t.power[o] = "on"
      /\ \A p \in Outputs \ {o} : t.power[p] = power[p]
  BY <1>1 DEF IInv, Safe, Shaped, Now
<1>3. \A p \in Outputs : EntryHolds(Now, p, flight, screen) => EntryHolds(t, p, flight, screen)
  BY DEF EntryHolds, Now
<1>4. Safe(t, flight, screen)
  BY <1>2, <1>3 DEF IInv, Safe, Now
<1>5. FALSE \in BOOLEAN
  OBVIOUS
<1>6. Safe(t, flight', screen)
  BY <1>2, <1>4, <1>5, SendSafe
<1>7. QED
  BY <1>6

LEMMA PowerOnSafe ==
  ASSUME NEW o \in Outputs, IInv, PowerOn(o)
  PROVE  IInv'
<1> DEFINE n == [Now EXCEPT !.power[o] = "on"]
<1>1. /\ DOMAIN n = Fields /\ n.phase = phase /\ n.secured = secured /\ n.entry = entry
      /\ n.power = [power EXCEPT ![o] = "on"]
  BY DEF Now, Fields
<1>2. /\ Send(o, Content, FALSE) /\ screen' = screen
      /\ Become(HandleOutputStateChanged(ScheduleFullFrame(n, {o}), o))
  BY DEF PowerOn
<1> HIDE DEF n
<1>3. Safe(n, flight', screen')
  BY <1>1, <1>2, ContentSafe, LightUpSafe
<1>4. QED
  BY <1>2, <1>3, ScheduleSafe, StateChangedSafe, BecomeSafe

LEMMA AddOutputSafe ==
  ASSUME NEW o \in Outputs, IInv, AddOutput(o)
  PROVE  IInv'
<1> DEFINE n == [Now EXCEPT !.power[o] = "on"]
<1>1. /\ DOMAIN n = Fields /\ n.phase = phase /\ n.secured = secured /\ n.entry = entry
      /\ n.power = [power EXCEPT ![o] = "on"]
  BY DEF Now, Fields
<1>2. /\ Send(o, "opaque", FALSE) /\ screen' = screen
      /\ Become(OutputsChanged(ScheduleFullFrame(n, {o})))
  BY DEF AddOutput
<1> HIDE DEF n
<1>3. "opaque" \in Contents
  BY DEF Contents
<1>4. Safe(n, flight', screen')
  BY <1>1, <1>2, <1>3, LightUpSafe
<1>5. QED
  BY <1>2, <1>4, ScheduleSafe, OutputsChangedSafe, BecomeSafe

LEMMA RemoveOutputSafe ==
  ASSUME NEW o \in Outputs, IInv, RemoveOutput(o)
  PROVE  IInv'
<1> DEFINE t(f) == [Now EXCEPT !.power[o] = "absent", !.wants = @ \ {o},
                               !.entry[o] = "none", !.focus = f]
<1>1. \A f : /\ DOMAIN t(f) = Fields /\ t(f).phase = phase /\ t(f).secured = secured
             /\ t(f).entry = [entry EXCEPT ![o] = "none"]
             /\ t(f).power = [power EXCEPT ![o] = "absent"]
  BY DEF Now, Fields
<1>2. /\ power \in [Outputs -> {"absent", "off", "on"}]
      /\ entry \in [Outputs -> {"none", "idle", "committed", "presented"}]
  BY DEF IInv, Safe, Shaped, Now
<1>3. /\ flight' = [flight EXCEPT ![o] = <<>>] /\ screen' = [screen EXCEPT ![o] = "dark"]
      /\ \E f : Become(OutputsChanged(WithoutSurface(t(f), o)))
  BY DEF RemoveOutput
<1> HIDE DEF t
<1>4. PICK f : Become(OutputsChanged(WithoutSurface(t(f), o)))
  BY <1>3
<1> DEFINE tf == t(f)
<1>5. /\ DOMAIN tf = Fields /\ tf.phase = phase /\ tf.secured = secured
      /\ tf.entry = [entry EXCEPT ![o] = "none"] /\ tf.power = [power EXCEPT ![o] = "absent"]
  BY <1>1
<1> HIDE DEF tf
<1>6. Safe(tf, flight', screen')
  <2>1. /\ tf.power \in [Outputs -> {"absent", "off", "on"}] /\ tf.power[o] # "on"
        /\ \A p \in Outputs \ {o} : tf.power[p] = power[p]
        /\ tf.entry \in [Outputs -> {"none", "idle", "committed", "presented"}]
        /\ \A p \in Outputs : tf.entry[p] \in {"none", entry[p]}
    BY <1>2, <1>5
  <2>2. QED
    BY <1>3, <1>5, <2>1, DarkSafe
<1>7. QED
  BY <1>4, <1>6, WithoutSurfaceSafe, OutputsChangedSafe, BecomeSafe DEF tf
----------------------------------------------------------------------------
(* The client and the desktop *)

\* What leaves the frames alone keeps the invariant if it is safe for them as they are.
LEMMA QuietSafe ==
  ASSUME NEW s, Safe(s, flight, screen), Become(s), NoFrame
  PROVE  IInv'
<1>1. flight' = flight /\ screen' = screen
  BY DEF NoFrame
<1>2. QED
  BY <1>1, BecomeSafe

LEMMA RequestLockSafe ==
  ASSUME NEW armed \in BOOLEAN, IInv, RequestLock(armed)
  PROVE  IInv'
<1> DEFINE s == [Now EXCEPT !.phase = "waiting"]
<1>1. /\ DOMAIN s = Fields /\ s.phase = "waiting" /\ s.secured = secured
      /\ s.entry = entry /\ s.power = power
  BY DEF Now, Fields
<1>2. /\ phase = "none" /\ NoFrame
      /\ Become(PresentIfReady(s)) \/ Become(BeginPresenting(s))
  BY DEF RequestLock
<1> HIDE DEF s
<1>3. Safe(s, flight, screen)
  BY <1>1, <1>2 DEF IInv, Safe, Shaped, Now
<1>4. Safe(PresentIfReady(s), flight, screen) /\ Safe(BeginPresenting(s), flight, screen)
  BY <1>1, <1>3, PresentIfReadySafe, BeginPresentingSafe
<1>5. QED
  BY <1>2, <1>4, QuietSafe

LEMMA SurfaceDeadlineSafe ==
  ASSUME IInv, SurfaceDeadline
  PROVE  IInv'
<1>1. Now.phase = "waiting" /\ Become(BeginPresenting(Now)) /\ NoFrame
  BY DEF SurfaceDeadline, Now
<1>2. QED
  BY <1>1, BeginPresentingSafe, QuietSafe DEF IInv

LEMMA SurfaceSafe ==
  ASSUME NEW o \in Outputs, IInv,
         NewSurface(o) \/ MapSurface(o) \/ UnmapSurface(o) \/ DestroySurface(o)
  PROVE  IInv'
<1>1. CASE NewSurface(o)
  <2> DEFINE s == [Now EXCEPT !.surfaces = Append(@, o)]
  <2>1. /\ DOMAIN s = Fields /\ s.phase = Now.phase /\ s.secured = Now.secured
        /\ s.entry = Now.entry /\ s.power = Now.power
    BY DEF Now, Fields
  <2>2. QED
    BY <1>1, <2>1, SameLockSafe, QuietSafe DEF NewSurface, IInv
<1>2. CASE MapSurface(o)
  <2> DEFINE m == [Now EXCEPT !.mapped = @ \cup {o}]
             s == PresentIfReady(ScheduleFullFrame(m, {o}))
             t == [s EXCEPT !.focus = Lock(o)]
  <2>1. /\ DOMAIN m = Fields /\ m.phase = Now.phase /\ m.secured = Now.secured
        /\ m.entry = Now.entry /\ m.power = Now.power
    BY DEF Now, Fields
  <2>2. Become(s) \/ Become(t)
    BY <1>2 DEF MapSurface
  <2> HIDE DEF m
  <2>3. Safe(s, flight, screen)
    BY <2>1, SameLockSafe, ScheduleSafe, PresentIfReadySafe DEF IInv
  <2> HIDE DEF s
  <2>4. /\ DOMAIN t = Fields /\ t.phase = s.phase /\ t.secured = s.secured
        /\ t.entry = s.entry /\ t.power = s.power
    BY <2>3 DEF Safe, Shaped, Fields
  <2>5. Safe(t, flight, screen)
    BY <2>3, <2>4, SameLockSafe
  <2>6. QED
    BY <1>2, <2>2, <2>3, <2>5, QuietSafe DEF MapSurface
<1>3. CASE UnmapSurface(o)
  <2> DEFINE m == [Now EXCEPT !.mapped = @ \ {o}]
             s == ScheduleFullFrame(m, {o})
  <2>1. /\ DOMAIN m = Fields /\ m.phase = Now.phase /\ m.secured = Now.secured
        /\ m.entry = Now.entry /\ m.power = Now.power
    BY DEF Now, Fields
  <2>2. Become(s) \/ Become(FocusMappedSurface(s))
    BY <1>3 DEF UnmapSurface
  <2> HIDE DEF m
  <2>3. Safe(s, flight, screen) /\ Safe(FocusMappedSurface(s), flight, screen)
    BY <2>1, SameLockSafe, ScheduleSafe, FocusSafe DEF IInv
  <2>4. QED
    BY <1>3, <2>2, <2>3, QuietSafe DEF UnmapSurface
<1>4. CASE DestroySurface(o)
  BY <1>4, WithoutSurfaceSafe, ScheduleSafe, QuietSafe DEF DestroySurface, IInv
<1>5. QED
  BY <1>1, <1>2, <1>3, <1>4

LEMMA UnlockSafe ==
  ASSUME IInv, Unlock
  PROVE  IInv'
<1> DEFINE t(f) == [Gone(Now) EXCEPT !.secured = FALSE, !.remembered = None, !.focus = f]
<1>1. \A f : /\ DOMAIN t(f) = Fields /\ t(f).phase = "none" /\ t(f).secured = FALSE
             /\ t(f).entry = [o \in Outputs |-> "none"] /\ t(f).power = Now.power
  BY DEF Gone, Now, Fields
<1>2. NoFrame /\ \E f : Become(t(f))
  BY DEF Unlock
<1> HIDE DEF t
<1>3. PICK f : Become(t(f))
  BY <1>2
<1>4. Safe(t(f), flight, screen)
  BY <1>1, GoneSafe DEF IInv
<1>5. QED
  BY <1>2, <1>3, <1>4, QuietSafe

LEMMA AbandonSafe ==
  ASSUME IInv, Abandon
  PROVE  IInv'
<1> DEFINE t == [Gone(Now) EXCEPT !.focus = IF @.on = "lock" THEN Nobody ELSE @]
<1>1. /\ DOMAIN t = Fields /\ t.phase = "none" /\ t.secured = Now.secured
      /\ t.entry = [o \in Outputs |-> "none"] /\ t.power = Now.power
  BY DEF Gone, Now, Fields
<1>2. NoFrame /\ Become(t)
  BY DEF Abandon
<1> HIDE DEF t
<1>3. Safe(t, flight, screen)
  BY <1>1, GoneSafe DEF IInv, Safe, Shaped
<1>4. QED
  BY <1>2, <1>3, QuietSafe

LEMMA DesktopSafe ==
  ASSUME NEW o, IInv, FocusDesktop(o) \/ Redraw(o)
  PROVE  IInv'
<1>1. CASE FocusDesktop(o)
  <2> DEFINE s == [Now EXCEPT !.focus = Desktop(o)]
  <2>1. /\ DOMAIN s = Fields /\ s.phase = Now.phase /\ s.secured = Now.secured
        /\ s.entry = Now.entry /\ s.power = Now.power
    BY DEF Now, Fields
  <2>2. QED
    BY <1>1, <2>1, SameLockSafe, QuietSafe DEF FocusDesktop, IInv
<1>2. CASE Redraw(o)
  BY <1>2, ScheduleSafe, QuietSafe DEF Redraw, IInv
<1>3. QED
  BY <1>1, <1>2

----------------------------------------------------------------------------
(* The theorems *)

\* The lock's inductive invariant: confirmed means covered, a presented entry promises that
\* its output is covered, and an awaited frame that it and all later ones are.
THEOREM Invariance == Spec => []IInv
<1>1. Init => IInv
  <2> SUFFICES ASSUME Init PROVE IInv
    OBVIOUS
  <2>1. Shaped(Now)
    BY DEF Init, Shaped, Now, Fields
  <2>2. FramesShaped(flight, screen)
    BY EmptySeq DEF Init, FramesShaped
  <2>3. QED
    BY <2>1, <2>2 DEF Init, IInv, Safe, Now
<1>2. IInv /\ [Next]_vars => IInv'
  <2> SUFFICES ASSUME IInv, [Next]_vars PROVE IInv'
    OBVIOUS
  <2>1. CASE ClientStep
    BY <2>1, RequestLockSafe, UnlockSafe, AbandonSafe, SurfaceSafe DEF ClientStep
  <2>2. CASE DesktopStep
    BY <2>2, DesktopSafe DEF DesktopStep
  <2>3. CASE SurfaceDeadline
    BY <2>3, SurfaceDeadlineSafe
  <2>4. CASE FrameStep
    BY <2>4, FrameSafe, PresentSafe DEF FrameStep
  <2>5. CASE OutputStep
    BY <2>5, ModesetSafe, PowerOffSafe, PowerOnSafe, AddOutputSafe, RemoveOutputSafe
       DEF OutputStep
  <2>6. CASE UNCHANGED vars
    BY <2>6 DEF vars, IInv, Now
  <2>7. QED
    BY <2>1, <2>2, <2>3, <2>4, <2>5, <2>6 DEF Next
<1>3. QED
  BY <1>1, <1>2, PTL DEF Spec

\* Once the client was told that the session is locked, no output shows the desktop: outputs
\* added, switched on or reconfigured later, and frames in flight at the time, included.
THEOREM LockedStaysCovered == Spec => []LockedIsCovered
<1>1. IInv => LockedIsCovered
  BY DEF IInv, Safe, Covered, LockedIsCovered, Now
<1>2. QED
  BY <1>1, Invariance, PTL


-----------------------------------------------------------------------------
(* The keyboard *)

Foci == {Desktop(o) : o \in Outputs \cup {None}} \cup {Lock(o) : o \in Outputs} \cup {Nobody}

\* A lock that presents has secured the session, and one that waits has presented nothing.
Sound(s) ==
  /\ Shaped(s)
  /\ s.phase \in {"presenting", "locked"} => s.secured
  /\ s.phase \in {"none", "waiting"} => \A o \in Outputs : s.entry[o] \in {"none", "idle"}

Ranged(s) ==
  /\ s.remembered \in Outputs \cup {None} /\ s.focus \in Foci
  /\ s.surfaces \in Seq(Outputs) /\ s.mapped \subseteq ToSet(s.surfaces)
  /\ s.wants \subseteq Outputs

Away(s) == s.secured => s.focus.on # "desktop"

\* Among the screens sc, those that have presented show a covered frame.
Shows(s, sc) ==
  s.phase = "presenting" =>
    \A o \in Outputs : s.power[o] = "on" /\ s.entry[o] = "presented" => sc[o] = "opaque"
Confirmed(s, sc) ==
  s.phase = "locked" => \A o \in Outputs : s.power[o] = "on" => sc[o] = "opaque"

\* was: the lock had been confirmed before the handler ran.
Good(s, sc, was) ==
  Sound(s) /\ Ranged(s) /\ Away(s) /\ Shows(s, sc) /\ (was \/ Confirmed(s, sc))

Held(s) ==
  s.phase \in {"presenting", "locked"} /\ (s.mapped \cap Active(s)) # {}
    => s.focus \in {Lock(o) : o \in s.mapped}
Tidy(s) ==
  s.phase = "presenting" => \A o \in Outputs : s.power[o] # "on" => s.entry[o] = "none"

\* The output remembered is the one that had the keyboard when the session was secured.
Remembers(s, t) ==
  /\ t.power = s.power
  /\ s.secured => t.secured /\ t.remembered = s.remembered
  /\ ~s.secured /\ t.secured =>
       t.remembered = IF s.focus.on = "desktop" THEN s.focus.output ELSE None
  /\ ~s.secured /\ ~t.secured => t.focus = s.focus

\* A stage keeps everything, and a handler makes it right.
Keeps(s, t, sc, was) ==
  Good(t, sc, was) /\ Remembers(s, t) /\ (Held(s) => Held(t)) /\ (Tidy(s) => Tidy(t))
Mends(s, t, sc, was) ==
  Good(t, sc, was) /\ Remembers(s, t) /\ Held(t) /\ Tidy(t)

\* The inductive invariant.
FocusInv ==
  /\ Good(Now, screen, TRUE) /\ Held(Now) /\ Tidy(Now)
  /\ depth \in Depths /\ changes \in 0..MaxChanges

----------------------------------------------------------------------------
(* Sequences *)

Below == {ij \in Nat \X Nat : ij[1] < ij[2]}

LEMMA Smallest ==
  ASSUME NEW S, S \subseteq Nat, S # {}
  PROVE  Min(S) \in S /\ \A i \in S : Min(S) <= i
<1>1. IsWellFoundedOn(Below, Nat)
  BY NatLessThanWellFounded DEF OpToRel, Below
<1>2. \A x, y \in Nat : x < y => <<x, y>> \in Below
  BY DEF Below
<1>3. PICK m \in S : \A i \in S : ~(<<i, m>> \in Below)
  BY <1>1, WFMin
<1>4. m \in Nat /\ \A i \in S : i \in Nat /\ ~(i < m)
  BY <1>2, <1>3
<1>5. m \in S /\ \A i \in S : m <= i
  BY <1>4
<1>6. QED
  BY <1>5 DEF Min

LEMMA RemovedAt ==
  ASSUME NEW S, NEW seq \in Seq(S), NEW i \in 1..Len(seq)
  PROVE  /\ RemoveAt(seq, i) \in Seq(S)
         /\ ToSet(seq) \ {seq[i]} \subseteq ToSet(RemoveAt(seq, i))
<1> DEFINE a == SubSeq(seq, 1, i - 1)
           b == SubSeq(seq, i + 1, Len(seq))
           n == Len(seq)
<1>1. n \in Nat /\ i \in Int /\ \A j \in 1..n : seq[j] \in S
  OBVIOUS
<1>2. /\ a \in Seq(S) /\ Len(a) = i - 1 /\ \A j \in 1..(i - 1) : a[j] = seq[j]
  BY <1>1, SubSeqProperties
<1>3. /\ b \in Seq(S) /\ Len(b) = n - i /\ \A j \in 1..(n - i) : b[j] = seq[i + j]
  BY <1>1, SubSeqProperties
<1>4. RemoveAt(seq, i) = a \o b
  BY DEF RemoveAt
<1> HIDE DEF a, b
<1>5. /\ a \o b \in Seq(S) /\ Len(a \o b) = n - 1
      /\ \A j \in 1..(n - 1) : (a \o b)[j] = IF j <= i - 1 THEN a[j] ELSE b[j - (i - 1)]
  <2>1. /\ a \o b \in Seq(S) /\ Len(a \o b) = Len(a) + Len(b)
        /\ \A j \in 1..(Len(a) + Len(b)) :
             (a \o b)[j] = IF j <= Len(a) THEN a[j] ELSE b[j - Len(a)]
    BY <1>2, <1>3, ConcatProperties
  <2>2. Len(a) + Len(b) = n - 1
    BY <1>1, <1>2, <1>3
  <2>3. QED
    BY <1>2, <2>1, <2>2
<1>6. DOMAIN (a \o b) = 1..(n - 1) /\ DOMAIN seq = 1..n
  BY <1>5, LenProperties
<1>7. ASSUME NEW j \in 1..n, seq[j] # seq[i]
      PROVE  \E k \in 1..(n - 1) : (a \o b)[k] = seq[j]
  <2>1. CASE j < i
    <3>1. j \in 1..(n - 1) /\ j \in 1..(i - 1)
      BY <1>1, <2>1
    <3>2. (a \o b)[j] = seq[j]
      BY <1>2, <1>5, <3>1
    <3>3. QED
      BY <3>1, <3>2
  <2>2. CASE j > i
    <3> DEFINE k == j - 1
    <3>1. k \in 1..(n - 1) /\ ~(k <= i - 1) /\ k - (i - 1) \in 1..(n - i)
          /\ i + (k - (i - 1)) = j
      BY <1>1, <2>2
    <3> HIDE DEF k
    <3>2. (a \o b)[k] = b[k - (i - 1)]
      BY <1>5, <3>1
    <3>3. b[k - (i - 1)] = seq[j]
      BY <1>3, <3>1
    <3>4. QED
      BY <3>1, <3>2, <3>3
  <2>3. j # i
    BY <1>7
  <2>4. j \in Int /\ i \in Int
    BY <1>1
  <2>5. j < i \/ j > i
    BY <2>3, <2>4
  <2>6. QED
    BY <2>1, <2>2, <2>5
<1>8. /\ ToSet(seq) = {seq[j] : j \in 1..n}
      /\ ToSet(a \o b) = {(a \o b)[j] : j \in 1..(n - 1)}
  BY <1>6 DEF ToSet
<1>9. ToSet(seq) \ {seq[i]} \subseteq ToSet(a \o b)
  BY <1>7, <1>8
<1>10. QED
  BY <1>4, <1>5, <1>9

\* Removing a surface leaves the others in m_surfaces.
LEMMA RemovedFirst ==
  ASSUME NEW S, NEW seq \in Seq(S), NEW o
  PROVE  /\ RemoveFirst(seq, o) \in Seq(S)
         /\ ToSet(seq) \ {o} \subseteq ToSet(RemoveFirst(seq, o))
<1> DEFINE I == {i \in 1..Len(seq) : seq[i] = o}
<1>1. CASE I = {}
  <2>1. RemoveFirst(seq, o) = seq
    BY <1>1 DEF RemoveFirst
  <2>2. QED
    BY <2>1
<1>2. CASE I # {}
  <2>1. I \subseteq Nat
    OBVIOUS
  <2>2. Min(I) \in I
    BY <1>2, <2>1, Smallest
  <2>3. SelectInSeq(seq, LAMBDA v : v = o) = Min(I)
    BY <1>2 DEF SelectInSeq
  <2>4. RemoveFirst(seq, o) = RemoveAt(seq, Min(I))
    BY <1>2, <2>3 DEF RemoveFirst
  <2>5. Min(I) \in 1..Len(seq) /\ seq[Min(I)] = o
    BY <2>2
  <2> HIDE DEF I
  <2>6. QED
    BY <2>4, <2>5, RemovedAt
<1>3. QED
  BY <1>1, <1>2

----------------------------------------------------------------------------
(* The stages of the pipelines *)

\* Only the fields the stage leaves alone matter to what it keeps.
LEMMA KeepsAgain ==
  ASSUME NEW s, NEW r, NEW t, NEW sc, NEW was, Keeps(s, r, sc, was), Keeps(r, t, sc, was)
  PROVE  Keeps(s, t, sc, was)
<1>1. Remembers(s, t)
  <2>1. Remembers(s, r) /\ Remembers(r, t)
    BY DEF Keeps
  <2>2. QED
    BY <2>1 DEF Remembers
<1>2. QED
  BY <1>1 DEF Keeps

LEMMA ScheduleKeeps ==
  ASSUME NEW s, NEW S, NEW sc, NEW was, Good(s, sc, was), S \subseteq Outputs
  PROVE  Keeps(s, ScheduleFullFrame(s, S), sc, was)
<1> DEFINE t == ScheduleFullFrame(s, S)
<1>1. /\ DOMAIN t = Fields /\ t.phase = s.phase /\ t.secured = s.secured
      /\ t.remembered = s.remembered /\ t.focus = s.focus /\ t.surfaces = s.surfaces
      /\ t.mapped = s.mapped /\ t.entry = s.entry /\ t.power = s.power
      /\ t.wants = s.wants \cup S
  BY DEF Good, Sound, Shaped, Fields, ScheduleFullFrame
<1> HIDE DEF t
<1>2. Sound(t) /\ Ranged(t)
  BY <1>1 DEF Good, Sound, Shaped, Ranged
<1>3. Good(t, sc, was)
  BY <1>1, <1>2 DEF Good, Away, Shows, Confirmed
<1>4. Remembers(s, t) /\ (Held(s) => Held(t)) /\ (Tidy(s) => Tidy(t))
  BY <1>1 DEF Remembers, Held, Tidy, Active
<1>5. QED
  BY <1>3, <1>4 DEF Keeps, t

\* While a mapped surface is on an active output, focusing finds one.
LEMMA FocusFinds ==
  ASSUME NEW s, NEW sc, NEW was, Good(s, sc, was)
  PROVE  LET t == FocusMappedSurface(s)
         IN  /\ Good(t, sc, was) /\ Held(t) /\ (Tidy(s) => Tidy(t))
             /\ t.phase = s.phase /\ t.secured = s.secured
             /\ t.remembered = s.remembered /\ t.power = s.power
<1> DEFINE t == FocusMappedSurface(s)
           usable == {i \in DOMAIN s.surfaces : s.surfaces[i] \in s.mapped \cap Active(s)}
<1>1. /\ DOMAIN t = Fields /\ t.phase = s.phase /\ t.secured = s.secured
      /\ t.remembered = s.remembered /\ t.surfaces = s.surfaces
      /\ t.mapped = s.mapped /\ t.entry = s.entry /\ t.power = s.power /\ t.wants = s.wants
      /\ t.focus = IF usable = {} THEN Nobody ELSE Lock(s.surfaces[Min(usable)])
  BY DEF Good, Sound, Shaped, Fields, FocusMappedSurface
<1>2. /\ s.surfaces \in Seq(Outputs) /\ s.mapped \subseteq ToSet(s.surfaces)
      /\ DOMAIN s.surfaces = 1..Len(s.surfaces) /\ Len(s.surfaces) \in Nat
  BY DEF Good, Ranged
<1>3. usable # {} => Min(usable) \in usable
  <2>1. usable \subseteq Nat
    BY <1>2
  <2> HIDE DEF usable
  <2>2. QED
    BY <2>1, Smallest
<1>4. (s.mapped \cap Active(s)) # {} => usable # {}
  <2> SUFFICES ASSUME NEW o \in s.mapped \cap Active(s) PROVE usable # {}
    OBVIOUS
  <2>1. o \in ToSet(s.surfaces)
    BY <1>2
  <2>2. PICK i \in DOMAIN s.surfaces : s.surfaces[i] = o
    BY <2>1 DEF ToSet
  <2>3. QED
    BY <2>2
<1>5. t.focus \in {Nobody} \cup {Lock(o) : o \in s.mapped \cap Active(s)}
  BY <1>1, <1>3
<1>6. (s.mapped \cap Active(s)) # {} => t.focus \in {Lock(o) : o \in s.mapped}
  BY <1>1, <1>3, <1>4
<1> HIDE DEF t, usable
<1>7. t.focus \in Foci /\ t.focus.on # "desktop"
  BY <1>5 DEF Foci, Nobody, Lock, Active
<1>8. Sound(t) /\ Ranged(t)
  BY <1>1, <1>7 DEF Good, Sound, Shaped, Ranged
<1>9. Good(t, sc, was)
  BY <1>1, <1>7, <1>8 DEF Good, Away, Shows, Confirmed
<1>10. Held(t)
  BY <1>1, <1>6 DEF Held, Active
<1>11. Tidy(s) => Tidy(t)
  BY <1>1 DEF Tidy
<1>12. QED
  BY <1>1, <1>9, <1>10, <1>11 DEF t

LEMMA FocusKeeps ==
  ASSUME NEW s, NEW sc, NEW was, Good(s, sc, was), s.secured
  PROVE  /\ Keeps(s, FocusMappedSurface(s), sc, was)
         /\ Held(FocusMappedSurface(s))
BY FocusFinds DEF Keeps, Remembers

LEMMA SyncKeeps ==
  ASSUME NEW s, NEW sc, NEW was, Good(s, sc, was)
  PROVE  LET t == SyncOutputPresentations(s)
         IN  /\ Keeps(s, t, sc, was) /\ Tidy(t)
             /\ t.phase = s.phase /\ t.secured = s.secured /\ t.power = s.power
<1> DEFINE t == SyncOutputPresentations(s)
<1>1. /\ DOMAIN t = Fields /\ t.phase = s.phase /\ t.secured = s.secured
      /\ t.remembered = s.remembered /\ t.focus = s.focus /\ t.surfaces = s.surfaces
      /\ t.mapped = s.mapped /\ t.power = s.power /\ t.wants = s.wants
      /\ t.entry = [o \in Outputs |-> IF o \notin Active(s) THEN "none"
                                      ELSE IF s.entry[o] = "none" THEN "idle" ELSE s.entry[o]]
  BY DEF Good, Sound, Shaped, Fields, SyncOutputPresentations
<1>2. /\ \A o \in Outputs : t.entry[o] \in {"none", "idle", s.entry[o]}
      /\ \A o \in Outputs : s.power[o] # "on" => t.entry[o] = "none"
  BY <1>1 DEF Active
<1>3. t.entry \in [Outputs -> {"none", "idle", "committed", "presented"}]
  BY <1>1 DEF Good, Sound, Shaped
<1> HIDE DEF t
<1>4. Sound(t) /\ Ranged(t)
  BY <1>1, <1>2, <1>3 DEF Good, Sound, Shaped, Ranged
<1>5. Shows(t, sc)
  BY <1>1, <1>2 DEF Good, Shows
<1>6. Good(t, sc, was)
  BY <1>1, <1>4, <1>5 DEF Good, Away, Confirmed
<1>7. Tidy(t) /\ Remembers(s, t) /\ (Held(s) => Held(t))
  BY <1>1, <1>2 DEF Tidy, Remembers, Held, Active
<1>8. QED
  BY <1>1, <1>6, <1>7 DEF Keeps, t

\* The confirmation: every active output has presented a covered frame.
LEMMA MaybeSendLockedKeeps ==
  ASSUME NEW s, NEW sc, NEW was, Good(s, sc, was)
  PROVE  LET t == MaybeSendLocked(s)
         IN  Keeps(s, t, sc, was) /\ Tidy(t) /\ t.secured = s.secured
<1> DEFINE r == SyncOutputPresentations(s)
           t == [r EXCEPT !.phase = "locked"]
<1>1. /\ Keeps(s, r, sc, was) /\ Tidy(r)
      /\ r.phase = s.phase /\ r.secured = s.secured /\ r.power = s.power
  BY SyncKeeps
<1>2. s.phase # "presenting" => Keeps(s, s, sc, was) /\ Tidy(s)
  BY DEF Keeps, Remembers, Tidy
<1>3. ASSUME s.phase = "presenting", \A o \in Active(r) : r.entry[o] = "presented"
      PROVE  Keeps(r, t, sc, was) /\ Tidy(t) /\ t.secured = s.secured
  <2> HIDE DEF r
  <2>1. /\ DOMAIN t = Fields /\ t.phase = "locked" /\ t.secured = r.secured
        /\ t.remembered = r.remembered /\ t.focus = r.focus /\ t.surfaces = r.surfaces
        /\ t.mapped = r.mapped /\ t.power = r.power /\ t.wants = r.wants
        /\ t.entry = r.entry
    BY <1>1 DEF Keeps, Good, Sound, Shaped, Fields
  <2>2. Good(r, sc, was) /\ r.phase = "presenting"
    BY <1>1, <1>3 DEF Keeps
  <2> HIDE DEF t
  <2>3. Sound(t) /\ Ranged(t)
    BY <2>1, <2>2 DEF Good, Sound, Shaped, Ranged
  <2>4. Confirmed(t, sc)
    BY <1>3, <2>1, <2>2 DEF Good, Shows, Confirmed, Active
  <2>5. Good(t, sc, was)
    BY <2>1, <2>2, <2>3, <2>4 DEF Good, Away, Shows
  <2>6. Remembers(r, t) /\ (Held(r) => Held(t)) /\ Tidy(t)
    BY <2>1, <2>2 DEF Remembers, Held, Tidy, Active
  <2>7. QED
    BY <1>1, <2>1, <2>5, <2>6 DEF Keeps
<1> HIDE DEF r, t
<1>4. s.phase = "presenting" /\ (\A o \in Active(r) : r.entry[o] = "presented")
        => Keeps(s, t, sc, was) /\ Tidy(t) /\ t.secured = s.secured
  BY <1>1, <1>3, KeepsAgain
<1>5. MaybeSendLocked(s) =
        IF s.phase # "presenting" THEN s
        ELSE IF \A o \in Active(r) : r.entry[o] = "presented" THEN t ELSE r
  BY DEF MaybeSendLocked, r, t
<1>6. QED
  BY <1>1, <1>2, <1>4, <1>5

\* Securing the session remembers who had the keyboard and takes it away.
LEMMA ActivateKeeps ==
  ASSUME NEW s, NEW sc, NEW was, Good(s, sc, was), s.phase = "waiting"
  PROVE  LET t == ActivateSessionLock([s EXCEPT !.phase = "presenting"])
         IN  Good(t, sc, was) /\ Remembers(s, t) /\ t.secured
<1> DEFINE t == ActivateSessionLock([s EXCEPT !.phase = "presenting"])
<1>1. /\ DOMAIN t = Fields /\ t.phase = "presenting" /\ t.secured = TRUE
      /\ t.surfaces = s.surfaces /\ t.mapped = s.mapped /\ t.entry = s.entry
      /\ t.power = s.power /\ t.wants = s.wants
  BY DEF Good, Sound, Shaped, Fields, ActivateSessionLock
<1>2. /\ s.secured => t.focus = s.focus /\ t.remembered = s.remembered
      /\ ~s.secured => /\ t.focus = Nobody
                       /\ t.remembered = IF s.focus.on = "desktop" THEN s.focus.output
                                         ELSE None
  BY DEF Good, Sound, Shaped, Fields, ActivateSessionLock
<1> HIDE DEF t
<1>3. s.focus \in Foci /\ s.remembered \in Outputs \cup {None} /\ (s.secured \in BOOLEAN)
  BY DEF Good, Sound, Shaped, Ranged
<1>4. s.focus.on = "desktop" => s.focus.output \in Outputs \cup {None}
  BY <1>3 DEF Foci, Desktop, Lock, Nobody
<1>5. t.remembered \in Outputs \cup {None} /\ t.focus \in Foci
  BY <1>2, <1>3, <1>4 DEF Foci
<1>6. t.focus.on # "desktop"
  BY <1>2, <1>3 DEF Good, Away, Nobody
<1>7. Sound(t) /\ Ranged(t)
  BY <1>1, <1>5 DEF Good, Sound, Shaped, Ranged
<1>8. Shows(t, sc)
  BY <1>1 DEF Good, Sound, Shows
<1>9. Good(t, sc, was) /\ Remembers(s, t)
  BY <1>1, <1>2, <1>6, <1>7, <1>8 DEF Good, Away, Confirmed, Remembers
<1>10. QED
  BY <1>1, <1>9 DEF t

LEMMA BeginPresentingKeeps ==
  ASSUME NEW s, NEW sc, NEW was, Good(s, sc, was), s.phase = "waiting"
  PROVE  Mends(s, BeginPresenting(s), sc, was)
<1> DEFINE a == ActivateSessionLock([s EXCEPT !.phase = "presenting"])
           r == SyncOutputPresentations(a)
           q == ScheduleFullFrame(r, Active(r))
           f == FocusMappedSurface(q)
<1>1. Good(a, sc, was) /\ Remembers(s, a) /\ a.secured
  BY ActivateKeeps
<1> HIDE DEF a
<1>2. Keeps(a, r, sc, was) /\ r.secured
  BY <1>1, SyncKeeps
<1> HIDE DEF r
<1>3. Keeps(r, q, sc, was) /\ q.secured
  <2>1. Active(r) \subseteq Outputs
    BY DEF Active
  <2>2. Keeps(r, q, sc, was)
    BY <1>2, <2>1, ScheduleKeeps DEF Keeps
  <2>3. QED
    BY <1>2, <2>2 DEF Keeps, Remembers
<1> HIDE DEF q
<1>4. Keeps(q, f, sc, was) /\ Held(f)
  BY <1>3, FocusKeeps DEF Keeps
<1> HIDE DEF f
<1>5. Keeps(f, MaybeSendLocked(f), sc, was) /\ Tidy(MaybeSendLocked(f))
  BY <1>4, MaybeSendLockedKeeps DEF Keeps
<1>6. BeginPresenting(s) = MaybeSendLocked(f)
  BY DEF BeginPresenting, f, q, r, a
<1> DEFINE t == MaybeSendLocked(f)
<1> HIDE DEF t
<1>7. Remembers(a, t)
  <2>1. Remembers(a, r) /\ Remembers(r, q) /\ Remembers(q, f) /\ Remembers(f, t)
    BY <1>2, <1>3, <1>4, <1>5 DEF Keeps, t
  <2>2. QED
    BY <2>1 DEF Remembers
<1>8. Remembers(s, t)
  BY <1>1, <1>7 DEF Remembers
<1>9. Good(t, sc, was) /\ Held(t) /\ Tidy(t)
  BY <1>4, <1>5 DEF Keeps, t
<1>10. QED
  BY <1>6, <1>8, <1>9 DEF Mends, t

\* Presenting maps and unmaps nothing.
LEMMA BeginPresentingMapped ==
  ASSUME NEW s, DOMAIN s = Fields
  PROVE  BeginPresenting(s).mapped = s.mapped
<1> DEFINE p == [s EXCEPT !.phase = "presenting"]
           a == ActivateSessionLock(p)
           r == SyncOutputPresentations(a)
           q == ScheduleFullFrame(r, Active(r))
           f == FocusMappedSurface(q)
<1>1. DOMAIN a = Fields /\ a.mapped = s.mapped
  BY DEF ActivateSessionLock, Fields
<1> HIDE DEF a
<1>2. DOMAIN r = Fields /\ r.mapped = s.mapped
  BY <1>1 DEF SyncOutputPresentations, Fields
<1> HIDE DEF r
<1>3. DOMAIN q = Fields /\ q.mapped = s.mapped
  BY <1>2 DEF ScheduleFullFrame, Fields
<1> HIDE DEF q
<1>4. DOMAIN f = Fields /\ f.mapped = s.mapped
  BY <1>3 DEF FocusMappedSurface, Fields
<1> HIDE DEF f
<1>5. MaybeSendLocked(f).mapped = f.mapped
  BY <1>4 DEF MaybeSendLocked, SyncOutputPresentations, Fields
<1>6. QED
  BY <1>4, <1>5 DEF BeginPresenting, f, q, r, a

LEMMA PresentIfReadyKeeps ==
  ASSUME NEW s, NEW sc, NEW was, Good(s, sc, was)
  PROVE  Keeps(s, PresentIfReady(s), sc, was)
<1>1. s.phase = "waiting" => Keeps(s, BeginPresenting(s), sc, was)
  BY BeginPresentingKeeps DEF Mends, Keeps
<1>2. Keeps(s, s, sc, was)
  BY DEF Keeps, Remembers
<1>3. QED
  BY <1>1, <1>2 DEF PresentIfReady

LEMMA RestartKeeps ==
  ASSUME NEW s, NEW sc, NEW was, Good(s, sc, was), NEW o \in Active(s)
  PROVE  Keeps(s, [s EXCEPT !.entry[o] = "idle"], sc, was)
<1> DEFINE t == [s EXCEPT !.entry[o] = "idle"]
<1>1. /\ DOMAIN t = Fields /\ t.phase = s.phase /\ t.secured = s.secured
      /\ t.remembered = s.remembered /\ t.focus = s.focus /\ t.surfaces = s.surfaces
      /\ t.mapped = s.mapped /\ t.power = s.power /\ t.wants = s.wants
      /\ t.entry = [s.entry EXCEPT ![o] = "idle"]
  BY DEF Good, Sound, Shaped, Fields
<1>2. /\ o \in Outputs /\ s.power[o] = "on"
      /\ s.entry \in [Outputs -> {"none", "idle", "committed", "presented"}]
  BY DEF Good, Sound, Shaped, Active
<1>3. /\ t.entry \in [Outputs -> {"none", "idle", "committed", "presented"}]
      /\ \A p \in Outputs : t.entry[p] = IF p = o THEN "idle" ELSE s.entry[p]
  BY <1>1, <1>2
<1> HIDE DEF t
<1>4. Sound(t) /\ Ranged(t)
  BY <1>1, <1>3 DEF Good, Sound, Shaped, Ranged
<1>5. Shows(t, sc)
  BY <1>1, <1>3 DEF Good, Shows
<1>6. Good(t, sc, was)
  BY <1>1, <1>4, <1>5 DEF Good, Away, Confirmed
<1>7. Remembers(s, t) /\ (Held(s) => Held(t)) /\ (Tidy(s) => Tidy(t))
  BY <1>1, <1>2, <1>3 DEF Tidy, Remembers, Held, Active
<1>8. QED
  BY <1>6, <1>7 DEF Keeps, t

\* The tail of both output handlers while the lock presents.
LEMMA TailMends ==
  ASSUME NEW s, NEW r, NEW sc, NEW was, Keeps(s, r, sc, was), s.secured
  PROVE  Mends(s, FocusMappedSurface(MaybeSendLocked(r)), sc, was)
<1> DEFINE m == MaybeSendLocked(r)
           t == FocusMappedSurface(m)
<1>1. Good(r, sc, was) /\ r.secured
  BY DEF Keeps, Remembers
<1>2. Keeps(r, m, sc, was) /\ Tidy(m) /\ m.secured
  BY <1>1, MaybeSendLockedKeeps
<1> HIDE DEF m
<1>3. Keeps(m, t, sc, was) /\ Held(t)
  BY <1>2, FocusKeeps DEF Keeps
<1> HIDE DEF t
<1>4. Keeps(s, t, sc, was)
  BY <1>2, <1>3, KeepsAgain
<1>5. Tidy(t)
  BY <1>2, <1>3 DEF Keeps
<1>6. QED
  BY <1>3, <1>4, <1>5 DEF Keeps, Mends, t, m

\* What both do in the other phases.
LEMMA ElseMends ==
  ASSUME NEW s, NEW sc, NEW was, Good(s, sc, was)
  PROVE  /\ s.phase = "waiting" => Mends(s, PresentIfReady(s), sc, was)
         /\ s.phase = "locked" => Mends(s, FocusMappedSurface(s), sc, was)
         /\ s.phase = "none" => Mends(s, s, sc, was)
<1>1. s.phase \in {"none", "waiting", "locked"} => Tidy(s)
  BY DEF Tidy
<1>2. s.phase \in {"none", "waiting"} => Held(s)
  BY DEF Held
<1>3. s.phase = "waiting" => Mends(s, PresentIfReady(s), sc, was)
  BY <1>1, <1>2, PresentIfReadyKeeps DEF Keeps, Mends
<1>4. s.phase = "locked" => Mends(s, FocusMappedSurface(s), sc, was)
  <2> SUFFICES ASSUME s.phase = "locked" PROVE Mends(s, FocusMappedSurface(s), sc, was)
    OBVIOUS
  <2>1. s.secured
    BY DEF Good, Sound
  <2>2. QED
    BY <1>1, <2>1, FocusKeeps DEF Keeps, Mends
<1>5. s.phase = "none" => Mends(s, s, sc, was)
  BY <1>1, <1>2 DEF Mends, Remembers
<1>6. QED
  BY <1>3, <1>4, <1>5

LEMMA StateChangedMends ==
  ASSUME NEW s, NEW sc, NEW was, NEW o \in Outputs, Good(s, sc, was)
  PROVE  Mends(s, HandleOutputStateChanged(s, o), sc, was)
<1> DEFINE r == SyncOutputPresentations(s)
           i == [r EXCEPT !.entry[o] = "idle"]
           again == IF o \notin Active(r) THEN r ELSE ScheduleFullFrame(i, {o})
<1>1. Keeps(s, r, sc, was)
  BY SyncKeeps
<1>2. Keeps(s, again, sc, was)
  <2> HIDE DEF r
  <2>1. o \in Active(r) => Keeps(r, i, sc, was)
    BY <1>1, RestartKeeps DEF Keeps
  <2> HIDE DEF i
  <2>2. o \in Active(r) => Keeps(i, ScheduleFullFrame(i, {o}), sc, was)
    BY <2>1, ScheduleKeeps DEF Keeps
  <2>3. o \in Active(r) => Keeps(s, ScheduleFullFrame(i, {o}), sc, was)
    BY <1>1, <2>1, <2>2, KeepsAgain
  <2>4. QED
    BY <1>1, <2>3
<1>3. s.phase = "presenting" => Mends(s, FocusMappedSurface(MaybeSendLocked(again)), sc, was)
  <2> HIDE DEF again
  <2>1. s.phase = "presenting" => s.secured
    BY DEF Good, Sound
  <2>2. QED
    BY <1>2, <2>1, TailMends
<1> DEFINE p == FocusMappedSurface(MaybeSendLocked(again))
<1>4. HandleOutputStateChanged(s, o) =
        CASE s.phase = "waiting"    -> PresentIfReady(s)
          [] s.phase = "locked"     -> FocusMappedSurface(s)
          [] s.phase = "presenting" -> p
          [] OTHER                  -> s
  BY DEF HandleOutputStateChanged
<1>5. s.phase \in {"none", "waiting", "presenting", "locked"}
  BY DEF Good, Sound, Shaped
<1> HIDE DEF again, p
<1>6. QED
  BY <1>3, <1>4, <1>5, ElseMends DEF p

LEMMA OutputsChangedMends ==
  ASSUME NEW s, NEW sc, NEW was, Good(s, sc, was)
  PROVE  Mends(s, OutputsChanged(s), sc, was)
<1> DEFINE r == SyncOutputPresentations(s)
           idle == {o \in Outputs : r.entry[o] = "idle"}
           again == ScheduleFullFrame(r, idle)
<1>1. Keeps(s, r, sc, was)
  BY SyncKeeps
<1>2. Keeps(s, again, sc, was)
  <2>1. idle \subseteq Outputs
    OBVIOUS
  <2> HIDE DEF r, idle
  <2>2. Keeps(r, again, sc, was)
    BY <1>1, <2>1, ScheduleKeeps DEF Keeps
  <2>3. QED
    BY <1>1, <2>2, KeepsAgain
<1>3. s.phase = "presenting" => Mends(s, FocusMappedSurface(MaybeSendLocked(again)), sc, was)
  <2> HIDE DEF again
  <2>1. s.phase = "presenting" => s.secured
    BY DEF Good, Sound
  <2>2. QED
    BY <1>2, <2>1, TailMends
<1> DEFINE p == FocusMappedSurface(MaybeSendLocked(again))
<1>4. OutputsChanged(s) =
        CASE s.phase = "waiting"    -> PresentIfReady(s)
          [] s.phase = "locked"     -> FocusMappedSurface(s)
          [] s.phase = "presenting" -> p
          [] OTHER                  -> s
  BY DEF OutputsChanged
<1>5. s.phase \in {"none", "waiting", "presenting", "locked"}
  BY DEF Good, Sound, Shaped
<1> HIDE DEF again, p
<1>6. QED
  BY <1>3, <1>4, <1>5, ElseMends DEF p

\* A surface that goes away takes the focus along to another one.
LEMMA WithoutSurfaceKeeps ==
  ASSUME NEW s, NEW sc, NEW was, NEW o, Good(s, sc, was)
  PROVE  LET t == WithoutSurface(s, o)
         IN  /\ Good(t, sc, was) /\ Remembers(s, t) /\ Held(t) /\ (Tidy(s) => Tidy(t))
             /\ t.phase = s.phase /\ t.secured = s.secured
<1> DEFINE r == [s EXCEPT !.surfaces = RemoveFirst(@, o), !.mapped = @ \ {o}]
<1>1. /\ DOMAIN r = Fields /\ r.phase = s.phase /\ r.secured = s.secured
      /\ r.remembered = s.remembered /\ r.focus = s.focus
      /\ r.surfaces = RemoveFirst(s.surfaces, o) /\ r.mapped = s.mapped \ {o}
      /\ r.entry = s.entry /\ r.power = s.power /\ r.wants = s.wants
  BY DEF Good, Sound, Shaped, Fields
<1>2. r.surfaces \in Seq(Outputs) /\ r.mapped \subseteq ToSet(r.surfaces)
  <2>1. s.surfaces \in Seq(Outputs) /\ s.mapped \subseteq ToSet(s.surfaces)
    BY DEF Good, Ranged
  <2>2. /\ RemoveFirst(s.surfaces, o) \in Seq(Outputs)
        /\ ToSet(s.surfaces) \ {o} \subseteq ToSet(RemoveFirst(s.surfaces, o))
    BY <2>1, RemovedFirst
  <2>3. QED
    BY <1>1, <2>1, <2>2
<1> HIDE DEF r
<1>3. Sound(r) /\ Ranged(r)
  BY <1>1, <1>2 DEF Good, Sound, Shaped, Ranged
<1>4. Good(r, sc, was)
  BY <1>1, <1>3 DEF Good, Away, Shows, Confirmed
<1>5. Remembers(s, r) /\ (Tidy(s) => Tidy(r))
  BY <1>1 DEF Remembers, Tidy
<1>6. CASE s.phase \in {"none", "waiting"}
  <2>1. WithoutSurface(s, o) = r
    BY <1>6 DEF WithoutSurface, r
  <2>2. Held(r)
    BY <1>1, <1>6 DEF Held
  <2>3. QED
    BY <1>1, <1>4, <1>5, <2>1, <2>2
<1>7. CASE s.phase \notin {"none", "waiting"}
  <2> DEFINE t == FocusMappedSurface(r)
  <2>1. WithoutSurface(s, o) = t
    BY <1>7 DEF WithoutSurface, r
  <2>2. r.secured
    BY <1>1, <1>3, <1>7 DEF Sound, Shaped
  <2>3. Keeps(r, t, sc, was) /\ Held(t)
    BY <1>4, <2>2, FocusKeeps
  <2>4. t.phase = r.phase /\ t.secured = r.secured
    BY <1>1 DEF FocusMappedSurface, Fields
  <2> HIDE DEF t
  <2>5. Remembers(s, t)
    BY <1>5, <2>3 DEF Keeps, Remembers
  <2>6. QED
    BY <1>1, <1>5, <2>1, <2>3, <2>4, <2>5 DEF Keeps
<1>8. QED
  BY <1>6, <1>7

LEMMA CommitKeeps ==
  ASSUME NEW s, NEW sc, NEW was, NEW o \in Outputs, Good(s, sc, was)
  PROVE  Keeps(s, HandleOutputCommit(s, o), sc, was)
<1> DEFINE r == SyncOutputPresentations(s)
           t == [r EXCEPT !.entry[o] = "committed"]
<1>1. Keeps(s, r, sc, was) /\ r.power = s.power
  BY SyncKeeps
<1>2. Keeps(s, s, sc, was)
  BY DEF Keeps, Remembers
<1>3. ASSUME s.phase = "presenting", o \in Active(s) PROVE Keeps(s, t, sc, was)
  <2>1. r.phase = "presenting" /\ r.power[o] = "on"
    BY <1>1, <1>3, SyncKeeps DEF Active
  <2> HIDE DEF r
  <2>2. /\ DOMAIN t = Fields /\ t.phase = r.phase /\ t.secured = r.secured
        /\ t.remembered = r.remembered /\ t.focus = r.focus /\ t.surfaces = r.surfaces
        /\ t.mapped = r.mapped /\ t.power = r.power /\ t.wants = r.wants
        /\ t.entry = [r.entry EXCEPT ![o] = "committed"]
    BY <1>1 DEF Keeps, Good, Sound, Shaped, Fields
  <2>3. /\ t.entry \in [Outputs -> {"none", "idle", "committed", "presented"}]
        /\ \A p \in Outputs : t.entry[p] = IF p = o THEN "committed" ELSE r.entry[p]
    BY <1>1, <2>2 DEF Keeps, Good, Sound, Shaped
  <2> HIDE DEF t
  <2>4. Sound(t) /\ Ranged(t)
    BY <1>1, <2>1, <2>2, <2>3 DEF Keeps, Good, Sound, Shaped, Ranged
  <2>5. Shows(t, sc)
    BY <1>1, <2>2, <2>3 DEF Keeps, Good, Shows
  <2>6. Good(t, sc, was)
    BY <1>1, <2>2, <2>4, <2>5 DEF Keeps, Good, Away, Confirmed
  <2>7. Remembers(r, t) /\ (Held(r) => Held(t)) /\ (Tidy(r) => Tidy(t))
    BY <2>1, <2>2, <2>3 DEF Tidy, Remembers, Held, Active
  <2>8. Keeps(r, t, sc, was)
    BY <2>6, <2>7 DEF Keeps
  <2>9. QED
    BY <1>1, <2>8, KeepsAgain
<1> HIDE DEF r, t
<1>4. HandleOutputCommit(s, o) =
        IF s.phase # "presenting" \/ o \notin Active(s) THEN s
        ELSE IF r.entry[o] = "presented" THEN r ELSE t
  BY DEF HandleOutputCommit, r, t
<1>5. QED
  BY <1>1, <1>2, <1>3, <1>4

\* Presentation feedback: a frame the lock waited for is covered when it is shown.
LEMMA PresentKeeps ==
  ASSUME NEW s, NEW sc, NEW was, NEW o \in Outputs, NEW awaited, NEW ok,
         Good(s, sc, was), Tidy(s),
         s.phase = "presenting" /\ s.entry[o] = "committed" /\ awaited /\ ok
           => sc[o] = "opaque"
  PROVE  Keeps(s, HandleOutputPresent(s, o, awaited, ok), sc, was)
<1> DEFINE i == [s EXCEPT !.entry[o] = "idle"]
           t == [s EXCEPT !.entry[o] = "presented"]
<1>1. Keeps(s, s, sc, was)
  BY DEF Keeps, Remembers
<1>2. ASSUME s.phase = "presenting", s.entry[o] = "committed"
      PROVE  Keeps(s, ScheduleFullFrame(i, {o}), sc, was)
  <2>1. o \in Active(s)
    BY <1>2 DEF Tidy, Active
  <2>2. Keeps(s, i, sc, was)
    BY <2>1, RestartKeeps
  <2> HIDE DEF i
  <2>3. Keeps(i, ScheduleFullFrame(i, {o}), sc, was)
    BY <2>2, ScheduleKeeps DEF Keeps
  <2>4. QED
    BY <2>2, <2>3, KeepsAgain
<1>3. ASSUME s.phase = "presenting", s.entry[o] = "committed", awaited, ok
      PROVE  Keeps(s, MaybeSendLocked(t), sc, was)
  <2>1. /\ DOMAIN t = Fields /\ t.phase = s.phase /\ t.secured = s.secured
        /\ t.remembered = s.remembered /\ t.focus = s.focus /\ t.surfaces = s.surfaces
        /\ t.mapped = s.mapped /\ t.power = s.power /\ t.wants = s.wants
        /\ t.entry = [s.entry EXCEPT ![o] = "presented"]
    BY DEF Good, Sound, Shaped, Fields
  <2>2. /\ t.entry \in [Outputs -> {"none", "idle", "committed", "presented"}]
        /\ \A p \in Outputs : t.entry[p] = IF p = o THEN "presented" ELSE s.entry[p]
    BY <2>1 DEF Good, Sound, Shaped
  <2>3. s.power[o] = "on" /\ sc[o] = "opaque"
    BY <1>3 DEF Tidy
  <2> HIDE DEF t
  <2>4. Sound(t) /\ Ranged(t)
    BY <1>3, <2>1, <2>2 DEF Good, Sound, Shaped, Ranged
  <2>5. Shows(t, sc)
    BY <2>1, <2>2, <2>3 DEF Good, Shows
  <2>6. Good(t, sc, was)
    BY <2>1, <2>4, <2>5 DEF Good, Away, Confirmed
  <2>7. Remembers(s, t) /\ (Held(s) => Held(t)) /\ (Tidy(s) => Tidy(t))
    BY <2>1, <2>2, <2>3 DEF Tidy, Remembers, Held, Active
  <2>8. Keeps(s, t, sc, was)
    BY <2>6, <2>7 DEF Keeps
  <2>9. Keeps(t, MaybeSendLocked(t), sc, was)
    BY <2>6, MaybeSendLockedKeeps
  <2>10. QED
    BY <2>8, <2>9, KeepsAgain
<1> DEFINE u == ScheduleFullFrame(i, {o})
           v == MaybeSendLocked(t)
<1>4. HandleOutputPresent(s, o, awaited, ok) =
        IF s.phase # "presenting" \/ s.entry[o] # "committed" \/ ~awaited THEN s
        ELSE IF ~ok THEN u ELSE v
  BY DEF HandleOutputPresent
<1> HIDE DEF u, v
<1>5. QED
  BY <1>1, <1>2, <1>3, <1>4 DEF u, v

----------------------------------------------------------------------------
(* From the record to the step *)

Locked == phase = "locked"

\* The bodies of the two action properties.
Confirms ==
  phase # "locked" /\ phase' = "locked"
    => \A o \in Outputs : power'[o] = "on" => screen'[o] = "opaque"
Recalls ==
  /\ ~secured /\ secured' /\ (\E o \in Outputs : focus = Desktop(o) /\ power'[o] # "absent")
       => remembered' = focus.output
  /\ secured /\ secured' => remembered' = remembered
  /\ secured /\ ~secured' /\ remembered # None /\ focus'.on = "desktop"
       => focus'.output \in {remembered, None} \/ power[remembered] = "absent"

Done == FocusInv' /\ Confirms /\ Recalls

LEMMA Ready ==
  FocusInv => Good(Now, screen, Locked) /\ Held(Now) /\ Tidy(Now)
BY DEF FocusInv, Good, Confirmed, Locked, Now

LEMMA NowFields ==
  /\ DOMAIN Now = Fields /\ Now.phase = phase /\ Now.secured = secured
  /\ Now.remembered = remembered /\ Now.focus = focus /\ Now.surfaces = surfaces
  /\ Now.mapped = mapped /\ Now.entry = entry /\ Now.power = power /\ Now.wants = wants
BY DEF Now, Fields

LEMMA StepGood ==
  ASSUME FocusInv, NEW s, Good(s, screen', Locked), Held(s), Tidy(s), Become(s),
         depth' = depth, changes' = changes \/ Change
  PROVE  FocusInv' /\ Confirms
<1>1. /\ DOMAIN Now' = Fields /\ Now'.phase = s.phase /\ Now'.secured = s.secured
      /\ Now'.remembered = s.remembered /\ Now'.focus = s.focus
      /\ Now'.surfaces = s.surfaces /\ Now'.mapped = s.mapped /\ Now'.entry = s.entry
      /\ Now'.power = s.power /\ Now'.wants = s.wants
  BY DEF Become, Now, Fields
<1> DEFINE n == Now'
<1>2. /\ DOMAIN n = Fields /\ n.phase = s.phase /\ n.secured = s.secured
      /\ n.remembered = s.remembered /\ n.focus = s.focus
      /\ n.surfaces = s.surfaces /\ n.mapped = s.mapped /\ n.entry = s.entry
      /\ n.power = s.power /\ n.wants = s.wants
  BY <1>1
<1> HIDE DEF n
<1>3. Sound(n) /\ Ranged(n)
  BY <1>2 DEF Good, Sound, Shaped, Ranged
<1>4. Good(n, screen', TRUE) /\ Held(n) /\ Tidy(n)
  BY <1>2, <1>3 DEF Good, Away, Shows, Confirmed, Held, Tidy, Active
<1>5. depth' \in Depths /\ changes' \in 0..MaxChanges
  BY FrameAssumption DEF FocusInv, Change
<1>6. FocusInv'
  BY <1>4, <1>5 DEF FocusInv, n
<1>7. Confirms
  BY DEF Confirms, Good, Confirmed, Locked, Become
<1>8. QED
  BY <1>6, <1>7

\* b: the state as the handler's own assignments leave it; r: what its pipeline makes of b;
\* s: what the step installs.
LEMMA StepRecalls ==
  ASSUME FocusInv, NEW b, NEW r, NEW s, Become(s), Remembers(b, r),
         b.secured = secured, b.remembered = remembered,
         \A o \in Outputs : focus = Desktop(o) /\ b.power[o] # "absent" => b.focus = focus,
         s.secured = r.secured, s.remembered = r.remembered, s.power = r.power
  PROVE  Recalls
<1>1. /\ secured' = r.secured /\ remembered' = r.remembered /\ power' = b.power
      /\ secured \in BOOLEAN
  BY DEF Become, Remembers, FocusInv, Good, Sound, Shaped, Now
<1>2. ASSUME ~secured, secured', NEW o \in Outputs, focus = Desktop(o), power'[o] # "absent"
      PROVE  remembered' = focus.output
  <2>1. b.focus = focus /\ focus.on = "desktop"
    BY <1>1, <1>2 DEF Desktop
  <2>2. QED
    BY <1>1, <1>2, <2>1 DEF Remembers
<1>3. secured => secured' /\ remembered' = remembered
  BY <1>1 DEF Remembers
<1>4. QED
  BY <1>2, <1>3 DEF Recalls

\* Most handlers start from the state as it is.
LEMMA StepDone ==
  ASSUME FocusInv, NEW b, NEW s, Become(s), Mends(b, s, screen', Locked),
         b.secured = secured, b.remembered = remembered, b.focus = focus,
         depth' = depth, changes' = changes \/ Change
  PROVE  Done
<1>1. FocusInv' /\ Confirms
  BY StepGood DEF Mends
<1>2. Recalls
  BY StepRecalls DEF Mends
<1>3. QED
  BY <1>1, <1>2 DEF Done

\* A stage in front of a handler's last one.
LEMMA MendsAfter ==
  ASSUME NEW s, NEW r, NEW t, NEW sc, NEW was, Keeps(s, r, sc, was), Mends(r, t, sc, was)
  PROVE  Mends(s, t, sc, was)
<1>1. Remembers(s, t)
  BY DEF Keeps, Mends, Remembers
<1>2. QED
  BY <1>1 DEF Mends

LEMMA MendsAtEnd ==
  ASSUME NEW s, NEW t, NEW sc, NEW was, Keeps(s, t, sc, was), Held(s), Tidy(s)
  PROVE  Mends(s, t, sc, was)
BY DEF Keeps, Mends

----------------------------------------------------------------------------
(* The client *)

LEMMA RequestLockDone ==
  ASSUME NEW armed \in BOOLEAN, FocusInv, RequestLock(armed)
  PROVE  Done
<1> DEFINE s == [Now EXCEPT !.phase = "waiting"]
<1>1. /\ DOMAIN s = Fields /\ s.phase = "waiting" /\ s.secured = secured
      /\ s.remembered = remembered /\ s.focus = focus /\ s.surfaces = surfaces
      /\ s.mapped = mapped /\ s.entry = entry /\ s.power = power /\ s.wants = wants
  BY NowFields DEF Fields
<1>2. /\ phase = "none" /\ screen' = screen /\ depth' = depth /\ changes' = changes
      /\ Become(PresentIfReady(s)) \/ Become(BeginPresenting(s))
  BY DEF RequestLock, NoFrame
<1> HIDE DEF s
<1>3. Good(s, screen, Locked) /\ Held(s) /\ Tidy(s)
  <2>1. Good(Now, screen, Locked)
    BY Ready
  <2>2. Sound(s) /\ Ranged(s)
    BY <1>1, <1>2, <2>1, NowFields DEF Good, Sound, Shaped, Ranged
  <2>3. QED
    BY <1>1, <1>2, <2>1, <2>2, NowFields DEF Good, Away, Shows, Confirmed, Held, Tidy
<1>4. Mends(s, PresentIfReady(s), screen, Locked) /\ Mends(s, BeginPresenting(s), screen, Locked)
  BY <1>1, <1>3, PresentIfReadyKeeps, MendsAtEnd, BeginPresentingKeeps
<1>5. QED
  BY <1>1, <1>2, <1>4, StepDone

LEMMA SurfaceDeadlineDone ==
  ASSUME FocusInv, SurfaceDeadline
  PROVE  Done
<1>1. /\ Now.phase = "waiting" /\ Become(BeginPresenting(Now))
      /\ screen' = screen /\ depth' = depth /\ changes' = changes
  BY DEF SurfaceDeadline, Now, NoFrame
<1>2. Mends(Now, BeginPresenting(Now), screen', Locked)
  BY <1>1, Ready, BeginPresentingKeeps
<1>3. QED
  BY <1>1, <1>2, NowFields, StepDone

LEMMA NewSurfaceDone ==
  ASSUME NEW o \in Outputs, FocusInv, NewSurface(o)
  PROVE  Done
<1> DEFINE s == [Now EXCEPT !.surfaces = Append(@, o)]
<1>1. /\ DOMAIN s = Fields /\ s.phase = phase /\ s.secured = secured
      /\ s.remembered = remembered /\ s.focus = focus /\ s.surfaces = Append(surfaces, o)
      /\ s.mapped = mapped /\ s.entry = entry /\ s.power = power /\ s.wants = wants
  BY NowFields DEF Fields
<1>2. Become(s) /\ screen' = screen /\ depth' = depth /\ changes' = changes
  BY DEF NewSurface, NoFrame
<1> HIDE DEF s
<1>3. Good(Now, screen, Locked) /\ Held(Now) /\ Tidy(Now)
  BY Ready
<1>4. s.surfaces \in Seq(Outputs) /\ s.mapped \subseteq ToSet(s.surfaces)
  <2>1. surfaces \in Seq(Outputs) /\ mapped \subseteq ToSet(surfaces)
    BY <1>3, NowFields DEF Good, Ranged
  <2>2. /\ Append(surfaces, o) \in Seq(Outputs)
        /\ \A i \in DOMAIN surfaces : /\ i \in DOMAIN Append(surfaces, o)
                                      /\ Append(surfaces, o)[i] = surfaces[i]
    BY <2>1, AppendProperties
  <2>3. ToSet(surfaces) \subseteq ToSet(Append(surfaces, o))
    BY <2>2 DEF ToSet
  <2>4. QED
    BY <1>1, <2>1, <2>2, <2>3
<1>5. Sound(s) /\ Ranged(s)
  BY <1>1, <1>3, <1>4, NowFields DEF Good, Sound, Shaped, Ranged
<1>6. Good(s, screen, Locked)
  BY <1>1, <1>3, <1>5, NowFields DEF Good, Away, Shows, Confirmed
<1>7. Remembers(Now, s) /\ Held(s) /\ Tidy(s)
  BY <1>1, <1>3, NowFields DEF Remembers, Held, Tidy, Active
<1>8. Mends(Now, s, screen, Locked)
  BY <1>6, <1>7 DEF Mends
<1>9. QED
  BY <1>2, <1>8, NowFields, StepDone

\* A new surface has the focus, and it is mapped.
LEMMA MapSurfaceDone ==
  ASSUME NEW o \in Outputs, FocusInv, MapSurface(o)
  PROVE  Done
<1> DEFINE m == [Now EXCEPT !.mapped = @ \cup {o}]
           q == ScheduleFullFrame(m, {o})
           s == PresentIfReady(q)
           t == [s EXCEPT !.focus = Lock(o)]
           final == IF s.phase = "waiting" THEN s ELSE t
<1>1. /\ DOMAIN m = Fields /\ m.phase = phase /\ m.secured = secured
      /\ m.remembered = remembered /\ m.focus = focus /\ m.surfaces = surfaces
      /\ m.mapped = mapped \cup {o} /\ m.entry = entry /\ m.power = power /\ m.wants = wants
  BY NowFields DEF Fields
<1>2. /\ Become(final) /\ o \in ToSet(surfaces)
      /\ screen' = screen /\ depth' = depth /\ changes' = changes
  BY DEF MapSurface, NoFrame
<1> HIDE DEF m
<1>3. Good(Now, screen, Locked) /\ Tidy(Now)
  BY Ready
<1>4. Good(m, screen, Locked) /\ Tidy(m)
  <2>1. Sound(m) /\ Ranged(m)
    BY <1>1, <1>2, <1>3, NowFields DEF Good, Sound, Shaped, Ranged
  <2>2. QED
    BY <1>1, <1>3, <2>1, NowFields DEF Good, Away, Shows, Confirmed, Tidy
<1>5. Keeps(m, q, screen, Locked) /\ o \in q.mapped
  <2>1. q.mapped = m.mapped
    BY <1>1 DEF ScheduleFullFrame, Fields
  <2>2. QED
    BY <1>1, <1>4, <2>1, ScheduleKeeps
<1> HIDE DEF q
<1>6. Keeps(q, s, screen, Locked)
  BY <1>5, PresentIfReadyKeeps DEF Keeps
<1>7. o \in s.mapped
  <2>1. BeginPresenting(q).mapped = q.mapped
    BY <1>5, BeginPresentingMapped DEF Keeps, Good, Sound, Shaped
  <2>2. QED
    BY <1>5, <2>1 DEF PresentIfReady
<1> HIDE DEF s
<1>8. Keeps(m, s, screen, Locked)
  BY <1>5, <1>6, KeepsAgain
<1>9. Good(s, screen, Locked) /\ Tidy(s)
  BY <1>4, <1>8 DEF Keeps
<1>10. /\ DOMAIN t = Fields /\ t.phase = s.phase /\ t.secured = s.secured
       /\ t.remembered = s.remembered /\ t.focus = Lock(o) /\ t.surfaces = s.surfaces
       /\ t.mapped = s.mapped /\ t.entry = s.entry /\ t.power = s.power /\ t.wants = s.wants
  BY <1>9 DEF Good, Sound, Shaped, Fields
<1>11. Good(t, screen, Locked) /\ Held(t) /\ Tidy(t)
  <2> HIDE DEF t
  <2>1. t.focus \in Foci /\ t.focus.on # "desktop"
    BY <1>10 DEF Foci, Lock
  <2>2. Sound(t) /\ Ranged(t)
    BY <1>9, <1>10, <2>1 DEF Good, Sound, Shaped, Ranged
  <2>3. Good(t, screen, Locked)
    BY <1>9, <1>10, <2>1, <2>2 DEF Good, Away, Shows, Confirmed
  <2>4. Held(t) /\ Tidy(t)
    BY <1>7, <1>9, <1>10 DEF Held, Tidy, Active
  <2>5. QED
    BY <2>3, <2>4
<1>12. s.phase = "waiting" => Held(s)
  BY DEF Held
<1>13. /\ Good(final, screen, Locked) /\ Held(final) /\ Tidy(final)
       /\ final.secured = s.secured /\ final.remembered = s.remembered
       /\ final.power = s.power
  <2> HIDE DEF t
  <2>1. QED
    BY <1>9, <1>10, <1>11, <1>12
<1> HIDE DEF final
<1>14. FocusInv' /\ Confirms
  BY <1>2, <1>13, StepGood
<1>15. Recalls
  BY <1>1, <1>2, <1>8, <1>13, StepRecalls DEF Keeps
<1>16. QED
  BY <1>14, <1>15 DEF Done

\* An unmapped surface hands the focus on.
LEMMA UnmapSurfaceDone ==
  ASSUME NEW o \in Outputs, FocusInv, UnmapSurface(o)
  PROVE  Done
<1> DEFINE m == [Now EXCEPT !.mapped = @ \ {o}]
           s == ScheduleFullFrame(m, {o})
           t == FocusMappedSurface(s)
           final == IF phase = "waiting" THEN s ELSE t
<1>1. /\ DOMAIN m = Fields /\ m.phase = phase /\ m.secured = secured
      /\ m.remembered = remembered /\ m.focus = focus /\ m.surfaces = surfaces
      /\ m.mapped = mapped \ {o} /\ m.entry = entry /\ m.power = power /\ m.wants = wants
  BY NowFields DEF Fields
<1>2. /\ Become(final)
      /\ screen' = screen /\ depth' = depth /\ Change
  BY DEF UnmapSurface, NoFrame
<1> HIDE DEF m
<1>3. Good(Now, screen, Locked) /\ Tidy(Now)
  BY Ready
<1>4. Good(m, screen, Locked) /\ Tidy(m)
  <2>1. Sound(m) /\ Ranged(m)
    BY <1>1, <1>3, NowFields DEF Good, Sound, Shaped, Ranged
  <2>2. QED
    BY <1>1, <1>3, <2>1, NowFields DEF Good, Away, Shows, Confirmed, Tidy
<1>5. Keeps(m, s, screen, Locked) /\ s.phase = phase
  BY <1>1, <1>4, ScheduleKeeps DEF ScheduleFullFrame, Fields
<1> HIDE DEF s
<1>6. Good(s, screen, Locked) /\ Tidy(s)
  BY <1>4, <1>5 DEF Keeps
<1>7. /\ Good(t, screen, Locked) /\ Held(t) /\ Tidy(t)
      /\ t.secured = s.secured /\ t.remembered = s.remembered /\ t.power = s.power
  BY <1>6, FocusFinds
<1>8. phase = "waiting" => Held(s)
  BY <1>5 DEF Held
<1>9. /\ Good(final, screen, Locked) /\ Held(final) /\ Tidy(final)
      /\ final.secured = s.secured /\ final.remembered = s.remembered
      /\ final.power = s.power
  <2> HIDE DEF t
  <2>1. QED
    BY <1>6, <1>7, <1>8
<1> HIDE DEF final
<1>10. FocusInv' /\ Confirms
  BY <1>2, <1>9, StepGood
<1>11. Recalls
  BY <1>1, <1>2, <1>5, <1>9, StepRecalls DEF Keeps
<1>12. QED
  BY <1>10, <1>11 DEF Done

LEMMA DestroySurfaceDone ==
  ASSUME NEW o \in Outputs, FocusInv, DestroySurface(o)
  PROVE  Done
<1> DEFINE w == WithoutSurface(Now, o)
           s == ScheduleFullFrame(w, {o})
<1>1. Good(Now, screen, Locked) /\ Tidy(Now)
  BY Ready
<1>2. Mends(Now, w, screen, Locked)
  BY <1>1, WithoutSurfaceKeeps DEF Mends
<1>3. Become(s) /\ screen' = screen /\ depth' = depth /\ Change
  BY DEF DestroySurface, NoFrame
<1> HIDE DEF w
<1>4. Keeps(w, s, screen, Locked)
  BY <1>2, ScheduleKeeps DEF Mends
<1> HIDE DEF s
<1>5. Mends(Now, s, screen, Locked)
  <2>1. Remembers(Now, s)
    BY <1>2, <1>4 DEF Mends, Keeps, Remembers
  <2>2. QED
    BY <1>2, <1>4, <2>1 DEF Mends, Keeps
<1>6. QED
  BY <1>3, <1>5, NowFields, StepDone

\* Without a lock nothing is held; who gets the focus depends on who ends it.
LEMMA GoneGood ==
  ASSUME FocusInv, NEW t, DOMAIN t = Fields, t.phase = "none", t.secured \in BOOLEAN,
         t.remembered \in Outputs \cup {None}, t.focus \in Foci,
         t.secured => t.focus.on # "desktop", t.surfaces = <<>>, t.mapped = {},
         t.entry = [o \in Outputs |-> "none"], t.power = power,
         t.wants = wants \cup Active(Now)
  PROVE  Good(t, screen, Locked) /\ Held(t) /\ Tidy(t)
<1>1. Good(Now, screen, Locked)
  BY Ready
<1>2. Sound(t)
  BY <1>1, NowFields DEF Good, Sound, Shaped
<1>3. t.wants \subseteq Outputs
  BY <1>1, NowFields DEF Good, Ranged, Active
<1>4. <<>> \in Seq(Outputs)
  BY EmptySeq
<1>5. Ranged(t)
  BY <1>3, <1>4 DEF Ranged
<1>6. QED
  BY <1>2, <1>5 DEF Good, Away, Shows, Confirmed, Held, Tidy

LEMMA UnlockDone ==
  ASSUME FocusInv, Unlock
  PROVE  Done
<1> DEFINE back == IF remembered # None /\ power[remembered] # "absent"
                   THEN {remembered, None} ELSE Active(Now) \cup {None}
           t(f) == [Gone(Now) EXCEPT !.secured = FALSE, !.remembered = None, !.focus = f]
<1>1. \A f : /\ DOMAIN t(f) = Fields /\ t(f).phase = "none" /\ t(f).secured = FALSE
             /\ t(f).remembered = None /\ t(f).focus = f /\ t(f).surfaces = <<>>
             /\ t(f).mapped = {} /\ t(f).entry = [o \in Outputs |-> "none"]
             /\ t(f).power = power /\ t(f).wants = wants \cup Active(Now)
  BY DEF Gone, Now, Fields
<1>2. /\ \E f \in {Desktop(o) : o \in back} \cup {Nobody} : Become(t(f))
      /\ screen' = screen /\ depth' = depth /\ changes' = changes
  BY DEF Unlock, NoFrame
<1> HIDE DEF t
<1>3. PICK f \in {Desktop(o) : o \in back} \cup {Nobody} : Become(t(f))
  BY <1>2
<1>4. f \in Foci
  <2>1. remembered \in Outputs \cup {None}
    BY Ready, NowFields DEF Good, Ranged
  <2>2. back \subseteq Outputs \cup {None}
    BY <2>1 DEF Active
  <2> HIDE DEF back
  <2>3. QED
    BY <2>2 DEF Foci
<1>5. Good(t(f), screen, Locked) /\ Held(t(f)) /\ Tidy(t(f))
  BY <1>1, <1>4, GoneGood
<1>6. FocusInv' /\ Confirms
  BY <1>2, <1>3, <1>5, StepGood
<1>7. Recalls
  <2>1. secured' = FALSE /\ focus' = f
    BY <1>1, <1>3 DEF Become
  <2>2. ASSUME remembered # None, f.on = "desktop"
        PROVE  f.output \in {remembered, None} \/ power[remembered] = "absent"
    <3>1. PICK o \in back : f = Desktop(o)
      BY <2>2 DEF Nobody
    <3>2. f.output = o
      BY <3>1 DEF Desktop
    <3>3. QED
      BY <2>2, <3>2
  <2>3. QED
    BY <2>1, <2>2 DEF Recalls
<1>8. QED
  BY <1>6, <1>7 DEF Done

LEMMA AbandonDone ==
  ASSUME FocusInv, Abandon
  PROVE  Done
<1> DEFINE t == [Gone(Now) EXCEPT !.focus = IF @.on = "lock" THEN Nobody ELSE @]
<1>1. /\ DOMAIN t = Fields /\ t.phase = "none" /\ t.secured = secured
      /\ t.remembered = remembered /\ t.focus \in {focus, Nobody} /\ t.surfaces = <<>>
      /\ t.mapped = {} /\ t.entry = [o \in Outputs |-> "none"]
      /\ t.power = power /\ t.wants = wants \cup Active(Now)
  BY DEF Gone, Now, Fields
<1>2. Become(t) /\ screen' = screen /\ depth' = depth /\ changes' = changes
  BY DEF Abandon, NoFrame
<1> HIDE DEF t
<1>3. Good(t, screen, Locked) /\ Held(t) /\ Tidy(t)
  <2>1. /\ secured \in BOOLEAN /\ remembered \in Outputs \cup {None} /\ focus \in Foci
        /\ secured => focus.on # "desktop"
    BY Ready, NowFields DEF Good, Sound, Shaped, Ranged, Away
  <2>2. t.focus \in Foci /\ (secured => t.focus.on # "desktop")
    BY <1>1, <2>1 DEF Foci, Nobody
  <2>3. QED
    BY <1>1, <2>1, <2>2, GoneGood
<1>4. FocusInv' /\ Confirms
  BY <1>2, <1>3, StepGood
<1>5. Recalls
  BY <1>1, <1>2 DEF Recalls, Become
<1>6. QED
  BY <1>4, <1>5 DEF Done

----------------------------------------------------------------------------
(* The desktop *)

\* Only an unsecured desktop takes the focus.
LEMMA FocusDesktopDone ==
  ASSUME NEW o, FocusInv, FocusDesktop(o)
  PROVE  Done
<1> DEFINE s == [Now EXCEPT !.focus = Desktop(o)]
<1>1. /\ DOMAIN s = Fields /\ s.phase = phase /\ s.secured = secured
      /\ s.remembered = remembered /\ s.focus = Desktop(o) /\ s.surfaces = surfaces
      /\ s.mapped = mapped /\ s.entry = entry /\ s.power = power /\ s.wants = wants
  BY NowFields DEF Fields
<1>2. /\ Become(s) /\ ~secured /\ o \in Outputs \cup {None}
      /\ screen' = screen /\ depth' = depth /\ changes' = changes
  BY DEF FocusDesktop, NoFrame
<1> HIDE DEF s
<1>3. Good(Now, screen, Locked) /\ Tidy(Now)
  BY Ready
<1>4. Sound(s) /\ Ranged(s)
  BY <1>1, <1>2, <1>3, NowFields DEF Good, Sound, Shaped, Ranged, Foci
<1>5. Good(s, screen, Locked) /\ Held(s) /\ Tidy(s)
  BY <1>1, <1>2, <1>3, <1>4, NowFields
     DEF Good, Sound, Away, Shows, Confirmed, Held, Tidy
<1>6. FocusInv' /\ Confirms
  BY <1>2, <1>5, StepGood
<1>7. Recalls
  BY <1>1, <1>2 DEF Recalls, Become
<1>8. QED
  BY <1>6, <1>7 DEF Done

LEMMA RedrawDone ==
  ASSUME NEW o \in Outputs, FocusInv, Redraw(o)
  PROVE  Done
<1> DEFINE s == ScheduleFullFrame(Now, {o})
<1>1. /\ Become(s) /\ screen' = screen /\ depth' = depth
      /\ (changes' = changes \/ Change)
  BY DEF Redraw, NoFrame
<1>2. Mends(Now, s, screen, Locked)
  BY Ready, ScheduleKeeps, MendsAtEnd
<1> HIDE DEF s
<1>3. QED
  BY <1>1, <1>2, NowFields, StepDone

----------------------------------------------------------------------------
(* Frames *)

LEMMA FrameDone ==
  ASSUME NEW o \in Outputs, FocusInv, Frame(o)
  PROVE  Done
<1> DEFINE m == [Now EXCEPT !.wants = @ \ {o}]
           s == HandleOutputCommit(m, o)
<1>1. /\ DOMAIN m = Fields /\ m.phase = phase /\ m.secured = secured
      /\ m.remembered = remembered /\ m.focus = focus /\ m.surfaces = surfaces
      /\ m.mapped = mapped /\ m.entry = entry /\ m.power = power /\ m.wants = wants \ {o}
  BY NowFields DEF Fields
<1>2. Become(s) /\ screen' = screen /\ depth' = depth /\ changes' = changes
  BY DEF Frame
<1> HIDE DEF m
<1>3. Good(Now, screen, Locked) /\ Held(Now) /\ Tidy(Now)
  BY Ready
<1>4. Sound(m) /\ Ranged(m)
  BY <1>1, <1>3, NowFields DEF Good, Sound, Shaped, Ranged
<1>5. Good(m, screen, Locked) /\ Held(m) /\ Tidy(m)
  BY <1>1, <1>3, <1>4, NowFields DEF Good, Away, Shows, Confirmed, Held, Tidy, Active
<1>6. Mends(m, s, screen, Locked)
  BY <1>5, CommitKeeps, MendsAtEnd
<1> HIDE DEF s
<1>7. QED
  BY <1>1, <1>2, <1>6, StepDone

\* What is shown is covered where an entry says so: it presented, or it is waited for.
LEMMA PresentDone ==
  ASSUME NEW o \in Outputs, NEW ok \in BOOLEAN, FocusInv, IInv, Present(o, ok)
  PROVE  Done
<1> DEFINE f == Head(flight[o])
           t == HandleOutputPresent(Now, o, f.awaited, ok)
<1>1. /\ flight[o] # <<>> /\ screen' = IF ok THEN [screen EXCEPT ![o] = f.content] ELSE screen
      /\ Become(t) /\ depth' = depth /\ changes' = changes
  BY DEF Present
<1>2. flight[o] \in Seq(Frames) /\ screen \in [Outputs -> {"dark", "desktop", "opaque"}]
  BY DEF IInv, Safe, FramesShaped
<1>3. 1 \in DOMAIN flight[o] /\ f = flight[o][1]
  BY <1>1, <1>2
<1>4. /\ phase = "presenting" /\ entry[o] = "presented" => f.content = "opaque"
      /\ phase = "presenting" /\ entry[o] = "committed" /\ f.awaited => f.content = "opaque"
  <2>1. phase = "presenting" => EntryHolds(Now, o, flight, screen)
    BY NowFields DEF IInv, Safe
  <2>2. /\ OpaqueFrom(flight[o], 1) => f.content = "opaque"
        /\ AwaitedAreOpaque(flight[o]) /\ f.awaited => f.content = "opaque"
    BY <1>3 DEF OpaqueFrom, AwaitedAreOpaque
  <2>3. QED
    BY <2>1, <2>2, NowFields DEF EntryHolds, Covered
<1>5. Good(Now, screen, Locked) /\ Held(Now) /\ Tidy(Now)
  BY Ready
<1> HIDE DEF f
<1>6. \A p \in Outputs : screen'[p] = IF ok /\ p = o THEN f.content ELSE screen[p]
  BY <1>1, <1>2
<1>7. Shows(Now, screen')
  <2> SUFFICES ASSUME phase = "presenting", NEW p \in Outputs, power[p] = "on",
                      entry[p] = "presented"
               PROVE  screen'[p] = "opaque"
    BY NowFields DEF Shows
  <2>1. screen[p] = "opaque"
    BY <1>5, NowFields DEF Good, Shows
  <2>2. CASE ok /\ p = o
    <3>1. f.content = "opaque"
      <4>1. entry[o] = "presented"
        BY <2>2
      <4>2. QED
        BY <1>4, <4>1
    <3>2. screen'[p] = f.content
      BY <1>6, <2>2
    <3>3. QED
      BY <3>1, <3>2
  <2>3. CASE ~(ok /\ p = o)
    BY <1>6, <2>1, <2>3
  <2>4. QED
    BY <2>2, <2>3
<1>8. Locked \/ Confirmed(Now, screen')
  BY NowFields DEF Locked, Confirmed
<1>9. Good(Now, screen', Locked)
  BY <1>5, <1>7, <1>8 DEF Good
<1>10. Mends(Now, t, screen', Locked)
  BY <1>4, <1>5, <1>6, <1>9, NowFields, PresentKeeps, MendsAtEnd
<1> HIDE DEF t
<1>11. QED
  BY <1>1, <1>10, NowFields, StepDone

----------------------------------------------------------------------------
(* Outputs *)

LEMMA ModesetDone ==
  ASSUME NEW o \in Outputs, NEW committed \in BOOLEAN, FocusInv, Modeset(o, committed)
  PROVE  Done
<1> DEFINE q == ScheduleFullFrame(Now, {o})
           t == HandleOutputStateChanged(q, o)
<1>1. Become(t) /\ screen' = screen /\ depth' = depth /\ Change
  BY DEF Modeset
<1>2. Keeps(Now, q, screen, Locked)
  BY Ready, ScheduleKeeps
<1> HIDE DEF q
<1>3. Mends(q, t, screen, Locked)
  BY <1>2, StateChangedMends DEF Keeps
<1>4. Mends(Now, t, screen, Locked)
  BY <1>2, <1>3, MendsAfter
<1> HIDE DEF t
<1>5. QED
  BY <1>1, <1>4, NowFields, StepDone

\* An output that is not on owes nothing, and one that lights up has no entry yet.
LEMMA PowerGood ==
  ASSUME FocusInv, NEW o \in Outputs, NEW s, DOMAIN s = Fields, s.phase = phase,
         s.secured = secured, s.remembered = remembered, s.focus \in Foci,
         secured => s.focus.on # "desktop",
         s.surfaces = surfaces, s.mapped = mapped,
         s.entry \in [Outputs -> {"none", "idle", "committed", "presented"}],
         \A p \in Outputs : s.entry[p] \in {"none", entry[p]},
         s.power \in [Outputs -> {"absent", "off", "on"}],
         \A p \in Outputs \ {o} : s.power[p] = power[p],
         s.power[o] # power[o], s.wants \subseteq Outputs,
         \A p \in Outputs \ {o} : screen'[p] = screen[p]
  PROVE  Good(s, screen', Locked)
<1>1. Good(Now, screen, Locked) /\ Tidy(Now)
  BY Ready
<1>2. Sound(s)
  BY <1>1, NowFields DEF Good, Sound, Shaped
<1>3. Ranged(s)
  BY <1>1, NowFields DEF Good, Ranged
<1>4. Shows(s, screen')
  <2> SUFFICES ASSUME phase = "presenting", NEW p \in Outputs, s.power[p] = "on",
                      s.entry[p] = "presented"
               PROVE  screen'[p] = "opaque"
    BY DEF Shows
  <2>1. entry[p] = "presented"
    OBVIOUS
  <2>2. power[p] = "on"
    BY <1>1, <2>1, NowFields DEF Tidy
  <2>3. p # o
    BY <2>2
  <2>4. QED
    BY <1>1, <2>1, <2>2, <2>3, NowFields DEF Good, Shows
<1>5. QED
  BY <1>2, <1>3, <1>4 DEF Good, Away, Confirmed, Locked

LEMMA PowerOffDone ==
  ASSUME NEW o \in Outputs, FocusInv, IInv, PowerOff(o)
  PROVE  Done
<1> DEFINE s == [Now EXCEPT !.power[o] = "off", !.wants = @ \ {o}]
           t == HandleOutputStateChanged(s, o)
<1>1. /\ DOMAIN s = Fields /\ s.phase = phase /\ s.secured = secured
      /\ s.remembered = remembered /\ s.focus = focus /\ s.surfaces = surfaces
      /\ s.mapped = mapped /\ s.entry = entry /\ s.power = [power EXCEPT ![o] = "off"]
      /\ s.wants = wants \ {o}
  BY NowFields DEF Fields
<1>2. /\ Become(t) /\ screen' = [screen EXCEPT ![o] = "dark"] /\ depth' = depth /\ Change
      /\ power[o] = "on"
  BY DEF PowerOff
<1> HIDE DEF s
<1>3. /\ focus \in Foci /\ (secured => focus.on # "desktop") /\ wants \subseteq Outputs
      /\ entry \in [Outputs -> {"none", "idle", "committed", "presented"}]
      /\ power \in [Outputs -> {"absent", "off", "on"}]
  BY Ready, NowFields DEF Good, Sound, Shaped, Ranged, Away
<1>4. screen \in [Outputs -> {"dark", "desktop", "opaque"}]
  BY DEF IInv, Safe, FramesShaped
<1>5. Good(s, screen', Locked)
  BY <1>1, <1>2, <1>3, <1>4, PowerGood, ZenonT(60)
<1>6. Mends(s, t, screen', Locked)
  BY <1>5, StateChangedMends
<1> HIDE DEF t
<1>7. QED
  BY <1>1, <1>2, <1>6, StepDone

LEMMA PowerOnDone ==
  ASSUME NEW o \in Outputs, FocusInv, PowerOn(o) \/ AddOutput(o)
  PROVE  Done
<1> DEFINE s == [Now EXCEPT !.power[o] = "on"]
           q == ScheduleFullFrame(s, {o})
<1>1. /\ DOMAIN s = Fields /\ s.phase = phase /\ s.secured = secured
      /\ s.remembered = remembered /\ s.focus = focus /\ s.surfaces = surfaces
      /\ s.mapped = mapped /\ s.entry = entry /\ s.power = [power EXCEPT ![o] = "on"]
      /\ s.wants = wants
  BY NowFields DEF Fields
<1>2. /\ Become(HandleOutputStateChanged(q, o)) \/ Become(OutputsChanged(q))
      /\ screen' = screen /\ depth' = depth /\ Change
      /\ power[o] \in {"off", "absent"}
  BY DEF PowerOn, AddOutput
<1> HIDE DEF s
<1>3. /\ focus \in Foci /\ (secured => focus.on # "desktop") /\ wants \subseteq Outputs
      /\ entry \in [Outputs -> {"none", "idle", "committed", "presented"}]
      /\ power \in [Outputs -> {"absent", "off", "on"}]
  BY Ready, NowFields DEF Good, Sound, Shaped, Ranged, Away
<1>4. Good(s, screen', Locked)
  <2>1. /\ s.power \in [Outputs -> {"absent", "off", "on"}] /\ s.power[o] # power[o]
        /\ \A p \in Outputs \ {o} : s.power[p] = power[p]
        /\ \A p \in Outputs \ {o} : screen'[p] = screen[p]
        /\ \A p \in Outputs : s.entry[p] \in {"none", entry[p]}
        /\ s.entry \in [Outputs -> {"none", "idle", "committed", "presented"}]
    BY <1>1, <1>2, <1>3
  <2>2. s.wants \subseteq Outputs /\ s.focus \in Foci /\ (secured => s.focus.on # "desktop")
    BY <1>1, <1>3
  <2>3. QED
    BY <1>1, <2>1, <2>2, PowerGood
<1>5. Keeps(s, q, screen', Locked)
  BY <1>4, ScheduleKeeps
<1> HIDE DEF q
<1>6. /\ Mends(s, HandleOutputStateChanged(q, o), screen', Locked)
      /\ Mends(s, OutputsChanged(q), screen', Locked)
  BY <1>5, StateChangedMends, OutputsChangedMends, MendsAfter DEF Keeps
<1>7. QED
  BY <1>1, <1>2, <1>6, StepDone

\* The focus moves off the output that goes; the one remembered is still the one that had it.
LEMMA RemoveOutputDone ==
  ASSUME NEW o \in Outputs, FocusInv, IInv, RemoveOutput(o)
  PROVE  Done
<1> DEFINE rest == {p \in Outputs \ {o} : power[p] # "absent"}
           moved == IF focus # Desktop(o) THEN {focus}
                    ELSE {Nobody} \cup {Desktop(p) : p \in rest \cup {None}}
           s(f) == [Now EXCEPT !.power[o] = "absent", !.wants = @ \ {o},
                               !.entry[o] = "none", !.focus = f]
<1>1. \A f : /\ DOMAIN s(f) = Fields /\ s(f).phase = phase /\ s(f).secured = secured
             /\ s(f).remembered = remembered /\ s(f).focus = f /\ s(f).surfaces = surfaces
             /\ s(f).mapped = mapped /\ s(f).entry = [entry EXCEPT ![o] = "none"]
             /\ s(f).power = [power EXCEPT ![o] = "absent"] /\ s(f).wants = wants \ {o}
  BY NowFields DEF Fields
<1>2. /\ \E f \in moved : Become(OutputsChanged(WithoutSurface(s(f), o)))
      /\ screen' = [screen EXCEPT ![o] = "dark"] /\ depth' = depth /\ Change
      /\ power[o] # "absent"
  BY DEF RemoveOutput
<1> HIDE DEF s
<1>3. PICK f \in moved : Become(OutputsChanged(WithoutSurface(s(f), o)))
  BY <1>2
<1> DEFINE b == s(f)
           w == WithoutSurface(b, o)
           t == OutputsChanged(w)
<1>4. /\ DOMAIN b = Fields /\ b.phase = phase /\ b.secured = secured
      /\ b.remembered = remembered /\ b.focus = f /\ b.surfaces = surfaces
      /\ b.mapped = mapped /\ b.entry = [entry EXCEPT ![o] = "none"]
      /\ b.power = [power EXCEPT ![o] = "absent"] /\ b.wants = wants \ {o}
  BY <1>1
<1> HIDE DEF b
<1>5. /\ focus \in Foci /\ (secured => focus.on # "desktop") /\ wants \subseteq Outputs
      /\ entry \in [Outputs -> {"none", "idle", "committed", "presented"}]
      /\ power \in [Outputs -> {"absent", "off", "on"}]
  BY Ready, NowFields DEF Good, Sound, Shaped, Ranged, Away
<1>6. /\ f \in Foci /\ (secured => f.on # "desktop")
      /\ focus # Desktop(o) => f = focus
  BY <1>5 DEF Foci, Desktop, Nobody
<1>7. screen \in [Outputs -> {"dark", "desktop", "opaque"}]
  BY DEF IInv, Safe, FramesShaped
<1>8. \A p \in Outputs \ {o} : screen'[p] = screen[p]
  BY <1>2, <1>7
<1>9. Good(b, screen', Locked)
  <2>1. /\ b.entry \in [Outputs -> {"none", "idle", "committed", "presented"}]
        /\ \A p \in Outputs : b.entry[p] \in {"none", entry[p]}
        /\ b.power \in [Outputs -> {"absent", "off", "on"}]
        /\ \A p \in Outputs \ {o} : b.power[p] = power[p]
        /\ b.power[o] # power[o] /\ b.wants \subseteq Outputs
    BY <1>2, <1>4, <1>5
  <2>2. QED
    BY <1>4, <1>6, <1>8, <2>1, PowerGood
<1>10. /\ Good(w, screen', Locked) /\ Remembers(b, w)
  BY <1>9, WithoutSurfaceKeeps
<1> HIDE DEF w
<1>11. Mends(w, t, screen', Locked)
  BY <1>10, OutputsChangedMends
<1>12. Become(t)
  BY <1>3 DEF b, w
<1> HIDE DEF t
<1>13. FocusInv' /\ Confirms
  BY <1>2, <1>11, <1>12, StepGood DEF Mends
<1>14. Recalls
  <2>1. Remembers(b, t)
    BY <1>10, <1>11 DEF Mends, Remembers
  <2>2. b.power[o] = "absent"
    BY <1>4, <1>5
  <2>3. ASSUME NEW p \in Outputs, focus = Desktop(p), b.power[p] # "absent"
        PROVE  b.focus = focus
    <3>1. p # o
      BY <2>2, <2>3
    <3>2. Desktop(p) # Desktop(o)
      BY <3>1 DEF Desktop
    <3>3. QED
      BY <1>4, <1>6, <2>3, <3>2
  <2>4. QED
    BY <1>4, <1>12, <2>1, <2>3, StepRecalls
<1>15. QED
  BY <1>13, <1>14 DEF Done

----------------------------------------------------------------------------
(* The theorems *)

LEMMA InitFocus == Init => FocusInv
<1> SUFFICES ASSUME Init PROVE FocusInv
  OBVIOUS
<1>1. Shaped(Now) /\ Sound(Now)
  <2>1. /\ phase = "none" /\ secured = FALSE
        /\ entry \in [Outputs -> {"none", "idle", "committed", "presented"}]
        /\ power \in [Outputs -> {"absent", "off", "on"}]
        /\ \A o \in Outputs : entry[o] = "none"
    BY DEF Init
  <2>2. QED
    BY <2>1, NowFields DEF Shaped, Sound
<1>2. <<>> \in Seq(Outputs) /\ Nobody \in Foci
  BY EmptySeq DEF Foci
<1>3. Ranged(Now)
  BY <1>2, NowFields DEF Init, Ranged
<1>4. Good(Now, screen, TRUE) /\ Held(Now) /\ Tidy(Now)
  BY <1>1, <1>3, NowFields DEF Init, Good, Away, Shows, Held, Tidy
<1>5. QED
  <2>1. depth \in Depths /\ changes \in 0..MaxChanges
    BY FrameAssumption DEF Init
  <2>2. QED
    BY <1>4, <2>1 DEF FocusInv

LEMMA NextDone ==
  ASSUME FocusInv, IInv, Next
  PROVE  Done
<1>1. CASE ClientStep
  BY <1>1, RequestLockDone, UnlockDone, AbandonDone, NewSurfaceDone, MapSurfaceDone,
     UnmapSurfaceDone, DestroySurfaceDone DEF ClientStep
<1>2. CASE DesktopStep
  BY <1>2, FocusDesktopDone, RedrawDone DEF DesktopStep
<1>3. CASE SurfaceDeadline
  BY <1>3, SurfaceDeadlineDone
<1>4. CASE FrameStep
  BY <1>4, FrameDone, PresentDone DEF FrameStep
<1>5. CASE OutputStep
  BY <1>5, ModesetDone, PowerOffDone, PowerOnDone, RemoveOutputDone DEF OutputStep
<1>6. QED
  BY <1>1, <1>2, <1>3, <1>4, <1>5 DEF Next

LEMMA StillDone ==
  ASSUME FocusInv, UNCHANGED vars
  PROVE  FocusInv' /\ Confirms /\ Recalls
<1>1. FocusInv'
  BY DEF vars, FocusInv, Now
<1>2. Confirms /\ Recalls
  BY DEF vars, Confirms, Recalls
<1>3. QED
  BY <1>1, <1>2

\* The invariant of the focus: a secured session has taken the keyboard away, its lock
\* surfaces have it whenever a handler ends, and an entry that presented shows a covered frame.
THEOREM FocusInvariance == Spec => []FocusInv
<1>1. FocusInv /\ IInv /\ [Next]_vars => FocusInv'
  BY NextDone, StillDone DEF Done
<1>2. QED
  BY <1>1, InitFocus, Invariance, PTL DEF Spec

\* The state keeps its shape: the focus, the surfaces and the entries name outputs.
THEOREM TypeCorrect == Spec => []TypeOK
<1>1. FocusInv /\ IInv => TypeOK
  <2> SUFFICES ASSUME FocusInv, IInv PROVE TypeOK
    OBVIOUS
  <2>1. /\ phase \in {"none", "waiting", "presenting", "locked"} /\ secured \in BOOLEAN
        /\ remembered \in Outputs \cup {None} /\ focus \in Foci
        /\ surfaces \in Seq(Outputs) /\ mapped \subseteq ToSet(surfaces)
        /\ entry \in [Outputs -> {"none", "idle", "committed", "presented"}]
        /\ power \in [Outputs -> {"absent", "off", "on"}] /\ wants \subseteq Outputs
    BY NowFields DEF FocusInv, Good, Sound, Shaped, Ranged
  <2>2. /\ \A o \in Outputs : flight[o] \in Seq(Frames)
        /\ screen \in [Outputs -> {"dark", "desktop", "opaque"}]
    BY DEF IInv, Safe, FramesShaped
  <2>3. depth \in Depths /\ changes \in 0..MaxChanges
    BY DEF FocusInv
  <2>4. QED
    BY <2>1, <2>2, <2>3 DEF TypeOK, Foci
<1>2. QED
  BY <1>1, FocusInvariance, Invariance, PTL

\* The keyboard of a secured session never types into the desktop, and a mapped lock surface
\* has it whenever an active output shows one, whichever surfaces and outputs came and went.
THEOREM LockKeepsKeyboard == Spec => []LockHoldsFocus
<1>1. FocusInv => LockHoldsFocus
  BY NowFields DEF FocusInv, Good, Away, Held, LockHoldsFocus
<1>2. QED
  BY <1>1, FocusInvariance, PTL

\* The client is told that the session is locked only at a moment when every active output
\* displays a covered frame.
THEOREM ConfirmedWhenCovered == Spec => ConfirmedAfterCover
<1>1. FocusInv /\ IInv /\ [Next]_vars
        => [phase # "locked" /\ phase' = "locked"
              => \A o \in Outputs : power'[o] = "on" => screen'[o] = "opaque"]_vars
  BY NextDone, StillDone DEF Done, Confirms
<1>2. QED
  BY <1>1, FocusInvariance, Invariance, PTL DEF Spec, ConfirmedAfterCover

\* The output that had the keyboard when the session was secured is remembered until the
\* unlock, across lock clients, and the unlock returns there while the output exists.
THEOREM FocusIsRestored == Spec => UnlockRestoresFocus
<1> DEFINE Body ==
      /\ ~secured /\ secured' /\ (\E o \in Outputs : focus = Desktop(o) /\ power'[o] # "absent")
           => remembered' = focus.output
      /\ secured /\ secured' => remembered' = remembered
      /\ secured /\ ~secured' /\ remembered # None /\ focus'.on = "desktop"
           => focus'.output \in {remembered, None} \/ power[remembered] = "absent"
<1>1. FocusInv /\ IInv /\ [Next]_vars => Body
  BY NextDone, StillDone DEF Done, Recalls
<1>2. QED
  BY <1>1, FocusInvariance, Invariance, PTL DEF Spec, UnlockRestoresFocus

=============================================================================
