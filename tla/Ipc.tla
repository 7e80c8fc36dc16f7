--------------------------------- MODULE Ipc ---------------------------------
(***************************************************************************)
(* Ipc and EventPacer: requests, subscriptions and paced snapshots.          *)
(*                                                                         *)
(* A change of a paced family (windows, workspaces, layers, outputs) only   *)
(* schedules a snapshot; changes of the others are broadcast at once, from  *)
(* wherever they happen, a client's own request included.  A snapshot that  *)
(* equals the last one broadcast is dropped.  What a subscriber reads last  *)
(* must nevertheless be how things are.                                     *)
(*                                                                         *)
(* Sockets are lists of lines; a request is answered in the pass that reads *)
(* it.  The waits for a drawn frame exist in harness builds only and are    *)
(* left out, as are failures to register an event source.                   *)
(***************************************************************************)
EXTENDS Naturals, Sequences, FiniteSets, SequencesExt

CONSTANTS Clients,     \* connections that may be open at a time
          Listeners,   \* clients that do nothing but subscribe
          Stalled,     \* clients that may stop reading
          Facts,       \* what a snapshot can say
          Unsaid,      \* no snapshot yet, and nobody
          MaxBacklog,  \* kMaxOutboundBacklog, in lines
          MaxChanges,  \* bound: changes of the families
          MaxFamilies  \* bound: families one connection subscribes to

ASSUME ListenerAssumption ==
  /\ Listeners \subseteq Clients /\ Facts # {}
  /\ Unsaid \notin Clients \cup Facts

VARIABLES
  conn,    \* m_connections, with what the client has read last; NoConnection for none
  fact,    \* what the family's snapshot would say now
  cache,   \* m_lastBroadcast
  pacer,   \* the EventPacer of the paced family
  feed,    \* m_audio, the client whose spectrum the effects show
  casting, \* m_screenCastActive
  changes
ipcVars == <<conn, fact, cache, pacer, feed, casting, changes>>

Families == {"paced", "prompt"}
NoConnection   == [open |-> FALSE, out |-> <<>>, subs |-> {}, cast |-> FALSE, deadline |-> FALSE,
             seen |-> [f \in Families |-> Unsaid]]
Accepted == [NoConnection EXCEPT !.open = TRUE, !.deadline = TRUE]
Reply    == [family |-> "reply", says |-> Unsaid]
Line(f, v) == [family |-> f, says |-> v]

Open         == {c \in Clients : conn[c].open}
Responding(r) == r.out # <<>>

IpcNow == [conn |-> conn, fact |-> fact, cache |-> cache, pacer |-> pacer, feed |-> feed,
           casting |-> casting]
IpcBecomes(s) == /\ conn' = s.conn /\ fact' = s.fact /\ cache' = s.cache
                 /\ pacer' = s.pacer /\ feed' = s.feed /\ casting' = s.casting

----------------------------------------------------------------------------
(* Connections *)

\* refreshScreenCastActive
RefreshCast(s) == [s EXCEPT !.casting = \E c \in Clients : s.conn[c].cast]
\* Mutant: the feed is left to a client that is gone.
RemoveButFeed(s, gone) ==
  RefreshCast([s EXCEPT !.conn = [c \in Clients |-> IF c \in gone THEN NoConnection ELSE @[c]]])
RemoveConnections(s, gone) ==
  RefreshCast([s EXCEPT !.conn = [c \in Clients |-> IF c \in gone THEN NoConnection ELSE @[c]],
                        !.feed = IF @ \in gone THEN Unsaid ELSE @])

\* broadcastEvent: subscribers that do not drain are disconnected.
Broadcast(s, f) ==
  LET line == Line(f, s.fact[f])
      audience == {c \in Clients : f \in s.conn[c].subs}
      full == {c \in audience : Len(s.conn[c].out) >= MaxBacklog}
      sent == [c \in Clients |-> IF c \in audience \ full
                                 THEN [s.conn[c] EXCEPT !.out = Append(@, line)] ELSE s.conn[c]]
  IN  IF s.cache[f] = s.fact[f] THEN s
      ELSE RemoveConnections([s EXCEPT !.cache[f] = s.fact[f], !.conn = sent], full)

----------------------------------------------------------------------------
(* EventPacer *)

\* Mutant: a change within the interval counts on the one that opened it.
ScheduleOnce(s) == IF s.pacer.inInterval THEN s ELSE [s EXCEPT !.pacer.idle = TRUE]
SchedulePaced(s) == IF s.pacer.inInterval THEN [s EXCEPT !.pacer.changed = TRUE]
               ELSE [s EXCEPT !.pacer.idle = TRUE]
Emit(s) == Broadcast([s EXCEPT !.pacer.inInterval = TRUE], "paced")

OnIdle == pacer.idle /\ IpcBecomes(Emit([IpcNow EXCEPT !.pacer.idle = FALSE]))
OnIntervalEnd ==
  /\ pacer.inInterval
  /\ LET ended == [IpcNow EXCEPT !.pacer.inInterval = FALSE, !.pacer.changed = FALSE]
     IN  IpcBecomes(IF pacer.changed THEN Emit(ended) ELSE ended)

\* Something changes, in a handler or in the course of a request.
Change(s, f, v) ==
  LET now == [s EXCEPT !.fact[f] = v]
  IN  IF f = "paced" THEN SchedulePaced(now) ELSE Broadcast(now, f)

----------------------------------------------------------------------------
(* Requests *)

\* prepareResponse
PrepareResponse(s, c, lines) == [s EXCEPT !.conn[c].out = lines]

\* Mutant: a new subscriber's newer snapshot does not reach the cache.
KeepCache(s, fams) == s
\* appendPaced: a snapshot newer than the last broadcast makes the cache worthless.
ForgetStale(s, fams) ==
  IF "paced" \in fams /\ s.cache["paced"] # s.fact["paced"]
  THEN [s EXCEPT !.cache["paced"] = Unsaid] ELSE s
Subscribe(s, c, fams) ==
  LET snapshot == [i \in DOMAIN SetToSeq(fams) |->
                     Line(SetToSeq(fams)[i], s.fact[SetToSeq(fams)[i]])]
      in == [s EXCEPT !.conn[c] = [s.conn[c] EXCEPT !.subs = @ \cup fams, !.deadline = FALSE]]
  IN  PrepareResponse(ForgetStale(in, fams), c, snapshot)

\* An action, answered after it has run; its changes are announced while it runs.
Act(s, c, f, v) == PrepareResponse(Change(s, f, v), c, <<Reply>>)
Ask(s, c)       == PrepareResponse(s, c, <<Reply>>)
CastSession(s, c, active) ==
  PrepareResponse(RefreshCast([s EXCEPT !.conn[c].cast = active]), c, <<Reply>>)

\* dispatchRequest, effect-audio; the owner of the feed can send nothing else.  A request that is
\* malformed, too long or too early, or meets a locked or inactive session, is not sound.
AudioRefused(s, c, sound) == ~sound \/ s.conn[c].subs # {} \/ s.conn[c].cast
OfferAudio(s, c, sound) ==
  LET taken == IF AudioRefused(s, c, sound)
               THEN [s EXCEPT !.feed = IF @ = c THEN Unsaid ELSE @]
               ELSE IF s.feed \notin {Unsaid, c} THEN s
               ELSE [s EXCEPT !.feed = c, !.conn[c].deadline = TRUE]
  IN  PrepareResponse(taken, c, <<Reply>>)

\* readRequest, when the last response is out.
Reads(c) == conn[c].open /\ ~Responding(conn[c])
ReadSubscribe(c, fams) ==
  /\ Reads(c) /\ feed # c /\ fams # {} /\ Cardinality(fams \cup conn[c].subs) <= MaxFamilies
  /\ IpcBecomes(Subscribe(IpcNow, c, fams))
ReadOther(c) ==
  /\ Reads(c) /\ c \notin Listeners
  /\ \/ IpcBecomes(Ask(IpcNow, c)) /\ feed # c
     \/ feed # c /\ \E active \in BOOLEAN : IpcBecomes(CastSession(IpcNow, c, active))
     \/ \E sound \in BOOLEAN : IpcBecomes(OfferAudio(IpcNow, c, sound))
ReadAction(c, f, v) ==
  /\ Reads(c) /\ feed # c /\ c \notin Listeners
  /\ changes < MaxChanges /\ v # fact[f] /\ changes' = changes + 1
  /\ IpcBecomes(Act(IpcNow, c, f, v))

\* writeResponse: a line is taken; at the end only subscribers and the feed stay.
Write(c) ==
  /\ Responding(conn[c])
  /\ LET line == Head(conn[c].out)
         seen == [f \in Families |-> IF f = line.family THEN line.says ELSE conn[c].seen[f]]
         sent == [IpcNow EXCEPT !.conn[c] = [conn[c] EXCEPT !.out = Tail(@), !.seen = seen]]
         stays == Len(conn[c].out) > 1 \/ conn[c].subs # {} \/ feed = c
     IN  IpcBecomes(IF stays THEN sent ELSE RemoveConnections(sent, {c}))

AcceptConnection(c) ==
  /\ ~conn[c].open
  /\ IpcBecomes([IpcNow EXCEPT !.conn[c] = Accepted])
HangUp(c) == conn[c].open /\ IpcBecomes(RemoveConnections(IpcNow, {c}))
OnConnectionTimeout(c) ==
  conn[c].deadline /\ IpcBecomes(RemoveConnections(IpcNow, {c}))
ChangeOnItsOwn(f, v) ==
  /\ changes < MaxChanges /\ v # fact[f] /\ changes' = changes + 1
  /\ IpcBecomes(Change(IpcNow, f, v))

----------------------------------------------------------------------------

IpcInit ==
  /\ conn = [c \in Clients |-> NoConnection]
  /\ fact = [f \in Families |-> CHOOSE v \in Facts : TRUE]
  /\ cache = [f \in Families |-> Unsaid]
  /\ pacer = [idle |-> FALSE, inInterval |-> FALSE, changed |-> FALSE]
  /\ feed = Unsaid /\ casting = FALSE /\ changes = 0

Timer == OnIdle \/ OnIntervalEnd
IpcNext ==
  \/ /\ \/ Timer
        \/ \E c \in Clients : \/ AcceptConnection(c) \/ ReadOther(c) \/ Write(c)
                              \/ HangUp(c) \/ OnConnectionTimeout(c)
                              \/ \E fams \in SUBSET Families : ReadSubscribe(c, fams)
     /\ UNCHANGED changes
  \/ \E f \in Families, v \in Facts : \/ ChangeOnItsOwn(f, v)
                                      \/ \E c \in Clients : ReadAction(c, f, v)

\* The event loop runs its idles and timers, and writes to whoever reads.
IpcFairness ==
  /\ WF_ipcVars(OnIdle /\ UNCHANGED changes) /\ WF_ipcVars(OnIntervalEnd /\ UNCHANGED changes)
  /\ \A c \in Clients \ Stalled : WF_ipcVars(Write(c) /\ UNCHANGED changes)
IpcSpec == IpcInit /\ [][IpcNext]_ipcVars /\ IpcFairness

----------------------------------------------------------------------------
(* Properties *)

\* The newest line of family f sent on connection k, read or not, says v.
Told(k, f, v) ==
  LET about == {i \in DOMAIN k.out : k.out[i].family = f}
  IN  IF about = {} THEN k.seen[f] = v
      ELSE \E i \in about : k.out[i].says = v /\ \A j \in about : j <= i

\* A connection that may stay for good is a subscriber or feeds the effects on a deadline; the
\* feed and the screencast flag belong to connections that are open.
ConnectionsAccounted ==
  /\ \A c \in Clients : conn[c].open => conn[c].subs # {} \/ conn[c].deadline
  /\ feed # Unsaid => conn[feed].open /\ conn[feed].deadline /\ conn[feed].subs = {}
  /\ casting = \E c \in Clients : conn[c].open /\ conn[c].cast

\* Unless a snapshot is due, a listener was last told how things are.
ListenersCurrent ==
  \A c \in Listeners : \A f \in conn[c].subs :
    Told(conn[c], f, fact[f]) \/ (f = "paced" /\ (pacer.idle \/ pacer.changed))

\* The same of every subscriber.
SubscribersCurrent ==
  \A c \in Clients : \A f \in conn[c].subs :
    Told(conn[c], f, fact[f]) \/ (f = "paced" /\ (pacer.idle \/ pacer.changed))

\* A listener that goes on reading knows how things are, again and again: once they stop changing
\* it has read their final state.
FinalStateGoesOut ==
  \A c \in Listeners \ Stalled : []<>(\A f \in conn[c].subs : conn[c].seen[f] = fact[f])

=============================================================================
