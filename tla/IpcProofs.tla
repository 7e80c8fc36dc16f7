------------------------------- MODULE IpcProofs ------------------------------
(***************************************************************************)
(* Connections are accounted for, and a listener that is told nothing has   *)
(* nothing to learn, for any number of clients, facts and lines.            *)
(*                                                                         *)
(* Handlers are pipelines on the record IpcNow.  Whole(s, C, F) says that s *)
(* is right for the connections C, leaving it open whether the listeners    *)
(* know how the families F are: a broadcast is what closes that gap, and    *)
(* whom it cannot reach is disconnected.                                    *)
(***************************************************************************)
EXTENDS Ipc, FunctionTheorems, FiniteSetTheorems, SequenceTheorems, TLAPS

Said   == Facts \cup {Unsaid}
Lines  == [family : Families \cup {"reply"}, says : Said]
Connections == [open : BOOLEAN, out : Seq(Lines), subs : SUBSET Families, cast : BOOLEAN,
                deadline : BOOLEAN, seen : [Families -> Said]]
Pacers == [idle : BOOLEAN, inInterval : BOOLEAN, changed : BOOLEAN]

Formed(s) ==
  /\ DOMAIN s = {"conn", "fact", "cache", "pacer", "feed", "casting"}
  /\ s.conn \in [Clients -> Connections]
  /\ s.fact \in [Families -> Facts] /\ s.cache \in [Families -> Said]
  /\ s.pacer \in Pacers /\ s.feed \in Clients \cup {Unsaid}

\* A closed connection leaves nothing behind; an open one subscribes or is on a deadline.
Kept(k) ==
  /\ ~k.open => k.subs = {} /\ ~k.cast /\ ~k.deadline
  /\ k.open => k.subs # {} \/ k.deadline
Feeds(k) == k.open /\ k.deadline /\ k.subs = {}

Due(s, f) == f = "paced" /\ (s.pacer.idle \/ s.pacer.changed)

Whole(s, C, F) ==
  /\ Formed(s)
  /\ \A c \in C : Kept(s.conn[c])
  /\ s.feed \in C => Feeds(s.conn[s.feed])
  /\ \A f \in {"prompt"} \ F : s.cache[f] \in {Unsaid, s.fact[f]}
  /\ \A c \in C \cap Listeners : \A f \in s.conn[c].subs :
       s.cache[f] = Unsaid \/ Told(s.conn[c], f, s.cache[f])
  /\ \A c \in C \cap Listeners : \A f \in s.conn[c].subs \ F :
       Told(s.conn[c], f, s.fact[f]) \/ Due(s, f)

Casts(s) == s.casting = \E c \in Clients : s.conn[c].cast

\* The inductive invariant.
IpcInv == Whole(IpcNow, Clients, {}) /\ Casts(IpcNow)

----------------------------------------------------------------------------
(* What a client was told *)

\* A line of another family changes nothing, one of this family is what counts.
LEMMA ToldAppend ==
  ASSUME NEW k \in Connections, NEW g \in Families, NEW w \in Said, NEW f \in Families,
         NEW v \in Said
  PROVE  LET t == [k EXCEPT !.out = Append(@, Line(g, w))]
         IN  /\ t \in Connections
             /\ f = g => Told(t, f, w)
             /\ f # g /\ Told(k, f, v) => Told(t, f, v)
<1> DEFINE l == Line(g, w)
           t == [k EXCEPT !.out = Append(@, l)]
           n == Len(k.out)
<1>1. l \in Lines /\ l.family = g /\ l.says = w
  BY DEF Line, Lines
<1>2. k.out \in Seq(Lines) /\ n \in Nat /\ DOMAIN k.out = 1..n
  BY DEF Connections
<1> HIDE DEF l
<1>3. /\ Append(k.out, l) \in Seq(Lines) /\ DOMAIN Append(k.out, l) = 1..(n + 1)
      /\ \A i \in 1..n : Append(k.out, l)[i] = k.out[i]
      /\ Append(k.out, l)[n + 1] = l
  BY <1>1, <1>2, AppendProperties
<1>4. t.out = Append(k.out, l) /\ t.seen = k.seen
  BY DEF Connections
<1>5. t \in Connections
  BY <1>3 DEF Connections
<1> HIDE DEF t
<1>6. f = g => Told(t, f, w)
  BY <1>1, <1>2, <1>3, <1>4 DEF Told
<1>7. f # g /\ Told(k, f, v) => Told(t, f, v)
  BY <1>1, <1>2, <1>3, <1>4, SMTT(30) DEF Told
<1>8. QED
  BY <1>5, <1>6, <1>7 DEF t, l

\* Reading the oldest line is not news.
LEMMA ToldWrite ==
  ASSUME NEW k \in Connections, k.out # <<>>, NEW f \in Families, NEW v \in Said
  PROVE  LET line == Head(k.out)
             t == [k EXCEPT !.out = Tail(@),
                            !.seen = [g \in Families |-> IF g = line.family THEN line.says
                                                         ELSE @[g]]]
         IN  t \in Connections /\ (Told(k, f, v) => Told(t, f, v))
<1> DEFINE line == Head(k.out)
           t == [k EXCEPT !.out = Tail(@),
                          !.seen = [g \in Families |-> IF g = line.family THEN line.says
                                                       ELSE @[g]]]
           n == Len(k.out)
<1>1. k.out \in Seq(Lines) /\ n \in Nat /\ DOMAIN k.out = 1..n /\ n > 0
  BY DEF Connections
<1>2. line = k.out[1] /\ line \in Lines
  BY <1>1
<1>3. /\ Tail(k.out) \in Seq(Lines) /\ DOMAIN Tail(k.out) = 1..(n - 1)
      /\ \A i \in 1..(n - 1) : Tail(k.out)[i] = k.out[i + 1]
  BY <1>1, HeadTailProperties
<1>4. t.out = Tail(k.out)
      /\ t.seen = [g \in Families |-> IF g = line.family THEN line.says ELSE k.seen[g]]
  BY DEF Connections
<1>5. t \in Connections
  BY <1>2, <1>3 DEF Connections, Lines
<1> HIDE DEF t
<1>6. Told(k, f, v) => Told(t, f, v)
  <2> SUFFICES ASSUME Told(k, f, v) PROVE Told(t, f, v)
    OBVIOUS
  <2> HIDE DEF line
  <2> DEFINE about == {i \in DOMAIN k.out : k.out[i].family = f}
             later == {i \in DOMAIN t.out : t.out[i].family = f}
  <2>1. \A i \in 1..(n - 1) : i \in later <=> i + 1 \in about
    BY <1>1, <1>3, <1>4
  <2>2. later \subseteq 1..(n - 1) /\ about \subseteq 1..n
    BY <1>1, <1>3, <1>4
  <2>3. CASE about = {}
    <3>1. later = {}
      BY <2>1, <2>2, <2>3
    <3>2. k.seen[f] = v /\ line.family # f
      BY <1>1, <1>2, <2>3 DEF Told
    <3>3. QED
      BY <1>4, <3>1, <3>2 DEF Told
  <2>4. ASSUME NEW i \in about, k.out[i].says = v, \A j \in about : j <= i, i = 1
        PROVE  Told(t, f, v)
    <3>1. later = {}
      <4> SUFFICES ASSUME NEW j \in later PROVE FALSE
        OBVIOUS
      <4> HIDE DEF about, later
      <4>1. j \in Nat /\ j >= 1 /\ j + 1 \in about
        BY <1>1, <2>1, <2>2
      <4>2. j + 1 <= 1
        BY <2>4, <4>1
      <4>3. QED
        BY <4>1, <4>2
    <3>2. line.family = f /\ line.says = v
      BY <1>2, <2>4
    <3>3. QED
      BY <1>4, <3>1, <3>2 DEF Told
  <2>5. ASSUME NEW i \in about, k.out[i].says = v, \A j \in about : j <= i, i # 1
        PROVE  Told(t, f, v)
    <3>1. i - 1 \in 1..(n - 1) /\ (i - 1) + 1 = i
      BY <1>1, <2>2, <2>5
    <3>2. i - 1 \in later /\ t.out[i - 1].says = v
      BY <1>3, <1>4, <2>1, <2>5, <3>1
    <3>3. ASSUME NEW j \in later PROVE j <= i - 1
      <4> HIDE DEF about, later
      <4>1. j \in Nat /\ i \in Nat /\ j + 1 \in about
        BY <1>1, <2>1, <2>2
      <4>2. j + 1 <= i
        BY <2>5, <4>1
      <4>3. QED
        BY <4>1, <4>2
    <3>4. QED
      BY <3>2, <3>3 DEF Told
  <2>6. about # {} => \E i \in about : k.out[i].says = v /\ \A j \in about : j <= i
    BY DEF Told
  <2>7. QED
    BY <2>3, <2>4, <2>5, <2>6
<1>7. QED
  BY <1>5, <1>6 DEF t


\* The families of a request, one after the other.
LEMMA Ordered ==
  ASSUME NEW fams \in SUBSET Families
  PROVE  LET order == SetToSeq(fams)
         IN  /\ DOMAIN order = 1..Cardinality(fams) /\ Cardinality(fams) \in Nat
             /\ \A i \in DOMAIN order : order[i] \in fams
             /\ \A i, j \in DOMAIN order : order[i] = order[j] => i = j
             /\ \A f \in fams : \E i \in DOMAIN order : order[i] = f
<1> DEFINE order == SetToSeq(fams)
           n == Cardinality(fams)
<1>1. IsFiniteSet(fams)
  <2>1. IsFiniteSet({"paced"}) /\ IsFiniteSet({"prompt"})
    BY FS_Singleton
  <2>2. IsFiniteSet({"paced"} \cup {"prompt"})
    BY <2>1, FS_Union
  <2>3. fams \subseteq {"paced"} \cup {"prompt"}
    BY DEF Families
  <2>4. QED
    BY <2>2, <2>3, FS_Subset
<1>2. n \in Nat /\ ExistsBijection(1..n, fams)
  BY <1>1, FS_CardinalityType
<1>3. \E g \in [1..n -> fams] : IsInjective(g)
  BY <1>2 DEF ExistsBijection, Bijection, Injection
<1>4. order \in [1..n -> fams] /\ IsInjective(order)
  BY <1>3 DEF SetToSeq
<1> HIDE DEF order, n
<1>5. order \in Injection(1..n, fams)
  BY <1>4 DEF Injection
<1>6. Cardinality(1..n) = n
  BY <1>2, FS_Interval
<1>7. order \in Surjection(1..n, fams)
  BY <1>1, <1>5, <1>6, FS_Injection DEF n
<1>8. \A f \in fams : \E i \in 1..n : order[i] = f
  BY <1>7 DEF Surjection
<1>9. QED
  BY <1>2, <1>4, <1>8 DEF IsInjective, order, n

\* The snapshots a subscription is answered with are the newest lines of their families.
LEMMA ToldSubscribe ==
  ASSUME NEW k \in Connections, k.out = <<>>, NEW fams \in SUBSET Families,
         NEW how \in [Families -> Facts], NEW t, t.seen = k.seen,
         t.out = [i \in DOMAIN SetToSeq(fams) |->
                    Line(SetToSeq(fams)[i], how[SetToSeq(fams)[i]])]
  PROVE  /\ t.out \in Seq(Lines)
         /\ \A f \in fams : Told(t, f, how[f])
         /\ \A f \in Families \ fams : \A v \in Said : Told(k, f, v) => Told(t, f, v)
<1> DEFINE order == SetToSeq(fams)
           n == Cardinality(fams)
<1>1. /\ DOMAIN order = 1..n /\ n \in Nat
      /\ \A i \in 1..n : order[i] \in fams
      /\ \A i, j \in 1..n : order[i] = order[j] => i = j
      /\ \A g \in fams : \E i \in 1..n : order[i] = g
  BY Ordered
<1>2. t.out = [i \in DOMAIN order |-> Line(order[i], how[order[i]])]
  OBVIOUS
<1> HIDE DEF order, n
<1>3. /\ DOMAIN t.out = 1..n
      /\ \A i \in 1..n : /\ t.out[i] \in Lines /\ t.out[i].family = order[i]
                         /\ t.out[i].says = how[order[i]]
  BY <1>1, <1>2 DEF Line, Lines, Said
<1>4. t.out \in Seq(Lines)
  <2>1. t.out \in [1..n -> Lines]
    BY <1>1, <1>2, <1>3
  <2>2. QED
    BY <1>1, <2>1, SeqDef
<1>5. ASSUME NEW f \in fams PROVE Told(t, f, how[f])
  <2>1. PICK i \in 1..n : order[i] = f
    BY <1>1
  <2>2. \A j \in 1..n : t.out[j].family = f => j = i
    BY <1>1, <1>3, <2>1
  <2>3. i \in Int /\ i <= i
    BY <1>1
  <2>4. \A j \in 1..n : t.out[j].family = f => j <= i
    BY <2>2, <2>3
  <2>5. QED
    BY <1>3, <2>1, <2>4 DEF Told
<1>6. ASSUME NEW f \in Families \ fams, NEW v \in Said, Told(k, f, v) PROVE Told(t, f, v)
  <2>1. k.seen[f] = v
    BY <1>6 DEF Told
  <2>2. \A j \in 1..n : t.out[j].family # f
    BY <1>1, <1>3
  <2>3. QED
    BY <1>3, <2>1, <2>2 DEF Told
<1>7. QED
  BY <1>4, <1>5, <1>6

----------------------------------------------------------------------------
(* The stages of the pipelines *)

\* Who is disconnected leaves neither the feed nor the screencast flag behind.
LEMMA RemoveWhole ==
  ASSUME NEW s, NEW gone, NEW F, Whole(s, Clients \ gone, F)
  PROVE  LET t == RemoveConnections(s, gone) IN Whole(t, Clients, F) /\ Casts(t)
<1> DEFINE t == RemoveConnections(s, gone)
<1>1. /\ DOMAIN t = {"conn", "fact", "cache", "pacer", "feed", "casting"}
      /\ t.conn = [c \in Clients |-> IF c \in gone THEN NoConnection ELSE s.conn[c]]
      /\ t.feed = IF s.feed \in gone THEN Unsaid ELSE s.feed
      /\ t.fact = s.fact /\ t.cache = s.cache /\ t.pacer = s.pacer
      /\ t.casting = \E c \in Clients : t.conn[c].cast
  BY DEF Whole, Formed, RemoveConnections, RefreshCast
<1> HIDE DEF t
<1>2. NoConnection \in Connections /\ Kept(NoConnection) /\ NoConnection.subs = {}
  <2>1. <<>> \in Seq(Lines) /\ [f \in Families |-> Unsaid] \in [Families -> Said]
    BY EmptySeq DEF Said
  <2>2. QED
    BY <2>1 DEF NoConnection, Connections, Kept
<1>3. /\ \A c \in Clients : c \notin gone => t.conn[c] = s.conn[c]
      /\ \A c \in Clients : c \in gone => t.conn[c] = NoConnection
  BY <1>1
<1>4. Formed(t)
  <2>1. t.conn \in [Clients -> Connections]
    BY <1>1, <1>2 DEF Whole, Formed
  <2>2. QED
    BY <1>1, <2>1 DEF Whole, Formed
<1>5. \A c \in Clients : Kept(t.conn[c])
  BY <1>2, <1>3 DEF Whole
<1>6. t.feed \in Clients => Feeds(t.conn[t.feed])
  <2> SUFFICES ASSUME t.feed \in Clients PROVE Feeds(t.conn[t.feed])
    OBVIOUS
  <2>1. t.feed = s.feed /\ s.feed \in Clients \ gone
    BY <1>1, ListenerAssumption
  <2>2. QED
    BY <1>3, <2>1 DEF Whole
<1>7. \A c \in Clients \cap Listeners : \A f \in t.conn[c].subs :
        t.cache[f] = Unsaid \/ Told(t.conn[c], f, t.cache[f])
  BY <1>1, <1>2, <1>3 DEF Whole
<1>8. \A c \in Clients \cap Listeners : \A f \in t.conn[c].subs \ F :
        Told(t.conn[c], f, t.fact[f]) \/ Due(t, f)
  BY <1>1, <1>2, <1>3 DEF Whole, Due
<1>9. QED
  BY <1>1, <1>4, <1>5, <1>6, <1>7, <1>8 DEF Whole, Casts, t

\* A broadcast tells every listener: it is appended, or dropped because it is what they
\* know, or the listener is disconnected.
LEMMA BroadcastWhole ==
  ASSUME NEW s, NEW f \in Families, Whole(s, Clients, {f}), Casts(s)
  PROVE  Whole(Broadcast(s, f), Clients, {}) /\ Casts(Broadcast(s, f))
<1> DEFINE line == Line(f, s.fact[f])
           audience == {c \in Clients : f \in s.conn[c].subs}
           full == {c \in audience : Len(s.conn[c].out) >= MaxBacklog}
           sent == [c \in Clients |-> IF c \in audience \ full
                                      THEN [s.conn[c] EXCEPT !.out = Append(@, line)]
                                      ELSE s.conn[c]]
           u == [s EXCEPT !.cache[f] = s.fact[f], !.conn = sent]
<1>1. /\ Formed(s) /\ s.fact[f] \in Facts /\ s.fact[f] \in Said
      /\ s.conn \in [Clients -> Connections] /\ s.cache \in [Families -> Said]
  BY DEF Whole, Formed, Said
<1>2. CASE s.cache[f] = s.fact[f]
  <2>1. \A c \in Clients \cap Listeners :
          f \in s.conn[c].subs => Told(s.conn[c], f, s.fact[f])
    BY <1>1, <1>2, ListenerAssumption DEF Whole
  <2>2. Whole(s, Clients, {})
    BY <1>2, <2>1 DEF Whole
  <2>3. QED
    BY <1>2, <2>2 DEF Broadcast
<1>3. CASE s.cache[f] # s.fact[f]
  <2>1. Broadcast(s, f) = RemoveConnections(u, full)
    BY <1>3 DEF Broadcast
  <2>2. /\ DOMAIN u = {"conn", "fact", "cache", "pacer", "feed", "casting"}
        /\ u.conn = sent /\ u.cache = [s.cache EXCEPT ![f] = s.fact[f]]
        /\ u.fact = s.fact /\ u.pacer = s.pacer /\ u.feed = s.feed
    BY <1>1 DEF Formed
  <2>3. ASSUME NEW c \in Clients
        PROVE  /\ sent[c] \in Connections
               /\ sent[c].open = s.conn[c].open /\ sent[c].subs = s.conn[c].subs
               /\ sent[c].cast = s.conn[c].cast /\ sent[c].deadline = s.conn[c].deadline
    <3>1. s.conn[c] \in Connections
      BY <1>1
    <3>2. [s.conn[c] EXCEPT !.out = Append(@, line)] \in Connections
      BY <1>1, <3>1, ToldAppend
    <3>3. QED
      BY <3>1, <3>2 DEF Connections
  <2>4. ASSUME NEW c \in Clients \ full, f \in s.conn[c].subs
        PROVE  Told(sent[c], f, s.fact[f])
    <3>1. sent[c] = [s.conn[c] EXCEPT !.out = Append(@, line)] /\ s.conn[c] \in Connections
      BY <1>1, <2>4
    <3>2. Told([s.conn[c] EXCEPT !.out = Append(@, line)], f, s.fact[f])
      BY <1>1, <3>1, ToldAppend
    <3>3. QED
      BY <3>1, <3>2
  <2>5. ASSUME NEW c \in Clients, NEW g \in Families, g # f, NEW v \in Said,
               Told(s.conn[c], g, v)
        PROVE  Told(sent[c], g, v)
    <3>1. s.conn[c] \in Connections
      BY <1>1
    <3>2. Told([s.conn[c] EXCEPT !.out = Append(@, line)], g, v)
      BY <1>1, <2>5, <3>1, ToldAppend
    <3>3. QED
      BY <2>5, <3>2
  <2> HIDE DEF sent, u
  <2>6. Formed(u)
    <3>1. sent \in [Clients -> Connections]
      BY <2>3 DEF sent
    <3>2. u.cache \in [Families -> Said]
      BY <1>1, <2>2
    <3>3. QED
      BY <1>1, <2>2, <3>1, <3>2 DEF Formed
  <2>7. /\ \A c \in Clients : Kept(u.conn[c])
        /\ u.feed \in Clients => Feeds(u.conn[u.feed])
    BY <2>2, <2>3 DEF Whole, Kept, Feeds
  <2>8. ASSUME NEW c \in (Clients \ full) \cap Listeners, NEW g \in u.conn[c].subs
        PROVE  /\ u.cache[g] = Unsaid \/ Told(u.conn[c], g, u.cache[g])
               /\ Told(u.conn[c], g, u.fact[g]) \/ Due(u, g)
    <3>1. g \in s.conn[c].subs /\ c \in Clients /\ g \in Families
      BY <1>1, <2>2, <2>3, <2>8 DEF Connections
    <3>2. CASE g = f
      <4>1. u.cache[g] = s.fact[f] /\ u.fact[g] = s.fact[f]
        BY <1>1, <2>2, <3>2
      <4>2. Told(u.conn[c], g, s.fact[f])
        BY <2>2, <2>4, <3>1, <3>2
      <4>3. QED
        BY <4>1, <4>2
    <3>3. CASE g # f
      <4>1. /\ u.cache[g] = s.cache[g] /\ u.fact[g] = s.fact[g]
            /\ s.cache[g] \in Said /\ s.fact[g] \in Said /\ (Due(u, g) <=> Due(s, g))
        BY <1>1, <2>2, <3>1, <3>3 DEF Formed, Said, Due
      <4>2. /\ s.cache[g] = Unsaid \/ Told(s.conn[c], g, s.cache[g])
            /\ Told(s.conn[c], g, s.fact[g]) \/ Due(s, g)
        BY <3>1, <3>3 DEF Whole
      <4>3. QED
        BY <2>2, <2>5, <3>1, <3>3, <4>1, <4>2
    <3>4. QED
      BY <3>2, <3>3
  <2>9. u.cache["prompt"] \in {Unsaid, u.fact["prompt"]}
    <3>1. "prompt" \in Families
      BY DEF Families
    <3>2. f # "prompt" => s.cache["prompt"] \in {Unsaid, s.fact["prompt"]}
      BY DEF Whole
    <3>3. QED
      BY <1>1, <2>2, <3>1, <3>2
  <2>10. Whole(u, Clients \ full, {})
    BY <2>6, <2>7, <2>8, <2>9 DEF Whole
  <2>11. QED
    BY <2>1, <2>10, RemoveWhole
<1>4. QED
  BY <1>2, <1>3

\* A paced change is due, at the next idle or at the end of the interval.
LEMMA ScheduleWhole ==
  ASSUME NEW s, Whole(s, Clients, {"paced"}), Casts(s)
  PROVE  Whole(SchedulePaced(s), Clients, {}) /\ Casts(SchedulePaced(s))
<1> DEFINE t == SchedulePaced(s)
<1>1. /\ DOMAIN t = {"conn", "fact", "cache", "pacer", "feed", "casting"}
      /\ t.conn = s.conn /\ t.cache = s.cache /\ t.fact = s.fact /\ t.feed = s.feed
      /\ t.casting = s.casting
      /\ t.pacer \in {[s.pacer EXCEPT !.changed = TRUE], [s.pacer EXCEPT !.idle = TRUE]}
  BY DEF Whole, Formed, SchedulePaced
<1>2. t.pacer \in Pacers /\ (t.pacer.idle \/ t.pacer.changed)
      /\ (s.pacer.idle \/ s.pacer.changed => t.pacer.idle \/ t.pacer.changed)
  BY <1>1 DEF Whole, Formed, Pacers
<1> HIDE DEF t
<1>3. Formed(t)
  BY <1>1, <1>2 DEF Whole, Formed
<1>4. QED
  BY <1>1, <1>2, <1>3 DEF Whole, Casts, Due, t

LEMMA EmitWhole ==
  ASSUME NEW s, Whole(s, Clients, {"paced"}), Casts(s)
  PROVE  Whole(Emit(s), Clients, {}) /\ Casts(Emit(s))
<1> DEFINE t == [s EXCEPT !.pacer.inInterval = TRUE]
<1>1. /\ DOMAIN t = {"conn", "fact", "cache", "pacer", "feed", "casting"}
      /\ t.conn = s.conn /\ t.cache = s.cache /\ t.fact = s.fact /\ t.feed = s.feed
      /\ t.casting = s.casting /\ t.pacer = [s.pacer EXCEPT !.inInterval = TRUE]
  BY DEF Whole, Formed
<1>2. t.pacer \in Pacers /\ t.pacer.idle = s.pacer.idle /\ t.pacer.changed = s.pacer.changed
  BY <1>1 DEF Whole, Formed, Pacers
<1> HIDE DEF t
<1>3. Formed(t)
  BY <1>1, <1>2 DEF Whole, Formed
<1>4. Whole(t, Clients, {"paced"}) /\ Casts(t)
  BY <1>1, <1>2, <1>3 DEF Whole, Casts, Due
<1>5. QED
  BY <1>4, BroadcastWhole DEF Emit, t, Families

LEMMA ChangeWhole ==
  ASSUME NEW s, NEW f \in Families, NEW v \in Facts, Whole(s, Clients, {}), Casts(s)
  PROVE  Whole(Change(s, f, v), Clients, {}) /\ Casts(Change(s, f, v))
<1> DEFINE t == [s EXCEPT !.fact[f] = v]
<1>1. /\ DOMAIN t = {"conn", "fact", "cache", "pacer", "feed", "casting"}
      /\ t.conn = s.conn /\ t.cache = s.cache /\ t.fact = [s.fact EXCEPT ![f] = v]
      /\ t.feed = s.feed /\ t.casting = s.casting /\ t.pacer = s.pacer
  BY DEF Whole, Formed
<1>2. t.fact \in [Families -> Facts] /\ \A g \in Families : g # f => t.fact[g] = s.fact[g]
  BY <1>1 DEF Whole, Formed
<1> HIDE DEF t
<1>3. Formed(t)
  BY <1>1, <1>2 DEF Whole, Formed
<1>4. \A c \in Clients : s.conn[c].subs \subseteq Families
  BY DEF Whole, Formed, Connections
<1>5. Whole(t, Clients, {f}) /\ Casts(t)
  BY <1>1, <1>2, <1>3, <1>4 DEF Whole, Casts, Due
<1>6. QED
  BY <1>5, BroadcastWhole, ScheduleWhole DEF Change, t

\* An answer goes to a client that is not a listener.
LEMMA AnswerWhole ==
  ASSUME NEW s, NEW c \in Clients \ Listeners, Whole(s, Clients, {}), Casts(s)
  PROVE  LET t == PrepareResponse(s, c, <<Reply>>) IN Whole(t, Clients, {}) /\ Casts(t)
<1> DEFINE k == [s.conn[c] EXCEPT !.out = <<Reply>>]
           t == PrepareResponse(s, c, <<Reply>>)
<1>1. s.conn \in [Clients -> Connections] /\ s.conn[c] \in Connections
  BY DEF Whole, Formed
<1>2. /\ DOMAIN t = {"conn", "fact", "cache", "pacer", "feed", "casting"}
      /\ t.conn = [s.conn EXCEPT ![c] = k] /\ t.cache = s.cache /\ t.fact = s.fact
      /\ t.feed = s.feed /\ t.casting = s.casting /\ t.pacer = s.pacer
  BY DEF Whole, Formed, PrepareResponse
<1>3. /\ k \in Connections /\ k.open = s.conn[c].open /\ k.subs = s.conn[c].subs
      /\ k.cast = s.conn[c].cast /\ k.deadline = s.conn[c].deadline
  <2>1. Reply \in Lines
    BY DEF Reply, Lines, Said
  <2>2. <<Reply>> \in Seq(Lines)
    BY <2>1
  <2>3. QED
    BY <1>1, <2>2 DEF Connections
<1> HIDE DEF t, k
<1>4. /\ t.conn \in [Clients -> Connections]
      /\ \A d \in Clients : t.conn[d] = IF d = c THEN k ELSE s.conn[d]
  BY <1>1, <1>2, <1>3
<1>5. Formed(t)
  BY <1>2, <1>4 DEF Whole, Formed
<1>6. \A d \in Clients : /\ Kept(t.conn[d]) <=> Kept(s.conn[d])
                         /\ Feeds(t.conn[d]) <=> Feeds(s.conn[d])
                         /\ t.conn[d].cast = s.conn[d].cast
  BY <1>3, <1>4 DEF Kept, Feeds
<1>7. \A d \in Clients \cap Listeners : t.conn[d] = s.conn[d]
  BY <1>4
<1>8. /\ \A d \in Clients : Kept(t.conn[d])
      /\ t.feed \in Clients => Feeds(t.conn[t.feed])
  BY <1>2, <1>6 DEF Whole
<1>9. \A d \in Clients \cap Listeners : \A f \in t.conn[d].subs :
        /\ t.cache[f] = Unsaid \/ Told(t.conn[d], f, t.cache[f])
        /\ Told(t.conn[d], f, t.fact[f]) \/ Due(t, f)
  BY <1>2, <1>7 DEF Whole, Due
<1>10. /\ t.cache["prompt"] \in {Unsaid, t.fact["prompt"]}
       /\ Casts(t)
  BY <1>2, <1>6 DEF Casts, Whole
<1>11. QED
  BY <1>5, <1>8, <1>9, <1>10 DEF Whole, t

\* A step that concerns one connection and makes at most the cache worthless.
LEMMA PutWhole ==
  ASSUME NEW s, NEW t, NEW c \in Clients, Whole(s, Clients, {}), Formed(t),
         t.fact = s.fact, t.pacer = s.pacer,
         \A f \in Families : t.cache[f] \in {s.cache[f], Unsaid},
         \A d \in Clients \ {c} : t.conn[d] = s.conn[d],
         Kept(t.conn[c]),
         \/ t.feed = Unsaid
         \/ t.feed = c /\ Feeds(t.conn[c])
         \/ t.feed = s.feed /\ t.feed # c,
         c \in Listeners => \A f \in t.conn[c].subs :
           /\ t.cache[f] = Unsaid \/ Told(t.conn[c], f, t.cache[f])
           /\ Told(t.conn[c], f, t.fact[f]) \/ Due(t, f)
  PROVE  Whole(t, Clients, {})
<1>1. \A d \in Clients : Kept(t.conn[d])
  BY DEF Whole
<1>2. t.feed \in Clients => Feeds(t.conn[t.feed])
  BY ListenerAssumption DEF Whole
<1>3. t.cache["prompt"] \in {Unsaid, t.fact["prompt"]}
  BY DEF Whole, Families
<1>4. ASSUME NEW d \in Clients \cap Listeners, NEW f \in t.conn[d].subs
      PROVE  /\ t.cache[f] = Unsaid \/ Told(t.conn[d], f, t.cache[f])
             /\ Told(t.conn[d], f, t.fact[f]) \/ Due(t, f)
  <2>1. CASE d = c
    BY <1>4, <2>1
  <2>2. CASE d # c
    <3>1. t.conn[d] = s.conn[d] /\ f \in s.conn[d].subs
      BY <1>4, <2>2
    <3>2. f \in Families
      BY <3>1 DEF Whole, Formed, Connections
    <3>3. /\ s.cache[f] = Unsaid \/ Told(s.conn[d], f, s.cache[f])
          /\ Told(s.conn[d], f, s.fact[f]) \/ Due(s, f)
      BY <1>4, <3>1 DEF Whole
    <3>4. t.cache[f] \in {s.cache[f], Unsaid} /\ (Due(s, f) <=> Due(t, f))
      BY <3>2 DEF Due
    <3>5. QED
      BY <3>1, <3>3, <3>4
  <2>3. QED
    BY <2>1, <2>2
<1>5. QED
  BY <1>1, <1>2, <1>3, <1>4 DEF Whole

----------------------------------------------------------------------------
(* The steps *)

IpcFields == {"conn", "fact", "cache", "pacer", "feed", "casting"}

LEMMA NowFields ==
  /\ DOMAIN IpcNow = IpcFields /\ IpcNow.conn = conn /\ IpcNow.fact = fact
  /\ IpcNow.cache = cache /\ IpcNow.pacer = pacer /\ IpcNow.feed = feed
  /\ IpcNow.casting = casting
BY DEF IpcNow, IpcFields

LEMMA InvFields ==
  IpcInv => /\ conn \in [Clients -> Connections] /\ fact \in [Families -> Facts]
            /\ cache \in [Families -> Said] /\ pacer \in Pacers
            /\ feed \in Clients \cup {Unsaid}
BY NowFields DEF IpcInv, Whole, Formed

LEMMA BecomesInv ==
  ASSUME NEW s, Whole(s, Clients, {}), Casts(s), IpcBecomes(s)
  PROVE  IpcInv'
<1> DEFINE n == IpcNow'
<1>1. /\ DOMAIN n = {"conn", "fact", "cache", "pacer", "feed", "casting"}
      /\ n.conn = s.conn /\ n.fact = s.fact /\ n.cache = s.cache /\ n.pacer = s.pacer
      /\ n.feed = s.feed /\ n.casting = s.casting
  BY DEF IpcBecomes, IpcNow
<1> HIDE DEF n
<1>2. Formed(n)
  BY <1>1 DEF Whole, Formed
<1>3. Whole(n, Clients, {}) /\ Casts(n)
  BY <1>1, <1>2 DEF Whole, Casts, Due
<1>4. QED
  BY <1>3 DEF IpcInv, n

LEMMA TimerKeeps ==
  ASSUME IpcInv, Timer
  PROVE  IpcInv'
<1>1. /\ Whole(IpcNow, Clients, {}) /\ Casts(IpcNow)
      /\ pacer \in [idle : BOOLEAN, inInterval : BOOLEAN, changed : BOOLEAN]
  BY InvFields DEF IpcInv, Pacers
<1>2. CASE OnIdle
  <2> DEFINE s == [IpcNow EXCEPT !.pacer.idle = FALSE]
  <2>1. /\ DOMAIN s = {"conn", "fact", "cache", "pacer", "feed", "casting"}
        /\ s.conn = IpcNow.conn /\ s.fact = IpcNow.fact /\ s.cache = IpcNow.cache
        /\ s.feed = IpcNow.feed /\ s.casting = IpcNow.casting
        /\ s.pacer = [IpcNow.pacer EXCEPT !.idle = FALSE]
    BY DEF IpcNow
  <2>2. s.pacer \in Pacers
    BY <1>1, <2>1, NowFields DEF Pacers
  <2> HIDE DEF s
  <2>3. Formed(s)
    BY <1>1, <2>1, <2>2 DEF Whole, Formed
  <2>4. Whole(s, Clients, {"paced"}) /\ Casts(s)
    BY <1>1, <2>1, <2>3 DEF Whole, Casts, Due
  <2>5. Whole(Emit(s), Clients, {}) /\ Casts(Emit(s))
    BY <2>4, EmitWhole
  <2>6. IpcBecomes(Emit(s))
    BY <1>2 DEF OnIdle, s
  <2>7. QED
    BY <2>5, <2>6, BecomesInv
<1>3. CASE OnIntervalEnd
  <2> DEFINE s == [IpcNow EXCEPT !.pacer.inInterval = FALSE, !.pacer.changed = FALSE]
  <2>1. /\ DOMAIN s = {"conn", "fact", "cache", "pacer", "feed", "casting"}
        /\ s.conn = IpcNow.conn /\ s.fact = IpcNow.fact /\ s.cache = IpcNow.cache
        /\ s.feed = IpcNow.feed /\ s.casting = IpcNow.casting
        /\ s.pacer = [[IpcNow.pacer EXCEPT !.inInterval = FALSE] EXCEPT !.changed = FALSE]
    BY DEF IpcNow
  <2>2. s.pacer \in Pacers /\ s.pacer.idle = IpcNow.pacer.idle
    BY <1>1, <2>1, NowFields DEF Pacers
  <2> HIDE DEF s
  <2>3. Formed(s)
    BY <1>1, <2>1, <2>2 DEF Whole, Formed
  <2>4. Whole(s, Clients, {"paced"}) /\ Casts(s)
    BY <1>1, <2>1, <2>3 DEF Whole, Casts, Due
  <2>5. ~pacer.changed => Whole(s, Clients, {})
    <3> SUFFICES ASSUME ~pacer.changed PROVE Whole(s, Clients, {})
      OBVIOUS
    <3>1. \A f : Due(IpcNow, f) => Due(s, f)
      BY <2>2, NowFields DEF Due
    <3>2. QED
      BY <1>1, <2>1, <2>3, <3>1 DEF Whole
  <2>6. Whole(Emit(s), Clients, {}) /\ Casts(Emit(s))
    BY <2>4, EmitWhole
  <2>7. IpcBecomes(IF pacer.changed THEN Emit(s) ELSE s)
    BY <1>3 DEF OnIntervalEnd, s
  <2>8. QED
    BY <2>4, <2>5, <2>6, <2>7, BecomesInv
<1>4. QED
  BY <1>2, <1>3 DEF Timer

\* A new connection is on a deadline until it asks for something lasting.
LEMMA AcceptKeeps ==
  ASSUME NEW c \in Clients, IpcInv, AcceptConnection(c)
  PROVE  IpcInv'
<1> DEFINE t == [IpcNow EXCEPT !.conn[c] = Accepted]
<1>1. /\ DOMAIN t = {"conn", "fact", "cache", "pacer", "feed", "casting"}
      /\ t.conn = [conn EXCEPT ![c] = Accepted] /\ t.fact = fact /\ t.cache = cache
      /\ t.pacer = pacer /\ t.feed = feed /\ t.casting = casting
  BY DEF IpcNow
<1>2. /\ conn \in [Clients -> Connections] /\ fact \in [Families -> Facts]
      /\ cache \in [Families -> Said] /\ pacer \in Pacers
      /\ feed \in Clients \cup {Unsaid}
  BY InvFields
<1>3. /\ Accepted \in Connections /\ Kept(Accepted) /\ Accepted.subs = {}
      /\ Accepted.cast = FALSE
  <2>1. <<>> \in Seq(Lines) /\ [f \in Families |-> Unsaid] \in [Families -> Said]
    BY EmptySeq DEF Said
  <2>2. QED
    BY <2>1 DEF Accepted, NoConnection, Connections, Kept
<1> HIDE DEF t
<1>4. /\ t.conn \in [Clients -> Connections] /\ t.conn[c] = Accepted
      /\ \A d \in Clients \ {c} : t.conn[d] = conn[d]
  BY <1>1, <1>2, <1>3
<1>5. Formed(t)
  BY <1>1, <1>2, <1>4 DEF Formed
<1>6. /\ Whole(IpcNow, Clients, {}) /\ Casts(IpcNow) /\ ~conn[c].open
      /\ IpcBecomes(t)
  BY DEF IpcInv, AcceptConnection, t
<1>7. Kept(conn[c]) /\ (feed = c => Feeds(conn[c]))
  BY <1>6, NowFields DEF Whole
<1>8. feed # c /\ ~conn[c].cast
  BY <1>6, <1>7 DEF Kept, Feeds
<1>9. Whole(t, Clients, {})
  BY <1>1, <1>3, <1>4, <1>5, <1>6, <1>8, NowFields, PutWhole
<1>10. Casts(t)
  BY <1>1, <1>3, <1>4, <1>6, <1>8, NowFields DEF Casts
<1>11. QED
  BY <1>6, <1>9, <1>10, BecomesInv

LEMMA HangUpKeeps ==
  ASSUME NEW c \in Clients, IpcInv, HangUp(c) \/ OnConnectionTimeout(c)
  PROVE  IpcInv'
<1> DEFINE gone == {c}
<1>1. IpcBecomes(RemoveConnections(IpcNow, gone))
  BY DEF HangUp, OnConnectionTimeout
<1> HIDE DEF gone
<1>2. Whole(IpcNow, Clients \ gone, {})
  BY DEF IpcInv, Whole
<1>3. QED
  BY <1>1, <1>2, RemoveWhole, BecomesInv

LEMMA ChangeKeeps ==
  ASSUME NEW f \in Families, NEW v \in Facts, IpcInv,
         \/ ChangeOnItsOwn(f, v)
         \/ \E c \in Clients : ReadAction(c, f, v)
  PROVE  IpcInv'
<1>1. Whole(Change(IpcNow, f, v), Clients, {}) /\ Casts(Change(IpcNow, f, v))
  BY ChangeWhole DEF IpcInv
<1>2. CASE ChangeOnItsOwn(f, v)
  BY <1>1, <1>2, BecomesInv DEF ChangeOnItsOwn
<1>3. ASSUME NEW c \in Clients, ReadAction(c, f, v)
      PROVE  IpcInv'
  <2>1. c \in Clients \ Listeners
    BY <1>3 DEF ReadAction
  <2>2. IpcBecomes(PrepareResponse(Change(IpcNow, f, v), c, <<Reply>>))
    BY <1>3 DEF ReadAction, Act
  <2>3. QED
    BY <1>1, <2>1, <2>2, AnswerWhole, BecomesInv
<1>4. QED
  BY <1>2, <1>3

\* A subscriber is answered with how things are; if that is news, the cache is worthless.
LEMMA SubscribeKeeps ==
  ASSUME NEW c \in Clients, NEW fams \in SUBSET Families, IpcInv, ReadSubscribe(c, fams)
  PROVE  IpcInv'
<1> DEFINE t == Subscribe(IpcNow, c, fams)
           lines == [i \in DOMAIN SetToSeq(fams) |->
                       Line(SetToSeq(fams)[i], fact[SetToSeq(fams)[i]])]
           k == [[conn[c] EXCEPT !.subs = @ \cup fams, !.deadline = FALSE] EXCEPT !.out = lines]
           stale == "paced" \in fams /\ cache["paced"] # fact["paced"]
<1>1. /\ conn \in [Clients -> Connections] /\ fact \in [Families -> Facts]
      /\ cache \in [Families -> Said] /\ pacer \in Pacers
      /\ feed \in Clients \cup {Unsaid}
  BY InvFields
<1>2. /\ DOMAIN t = {"conn", "fact", "cache", "pacer", "feed", "casting"}
      /\ t.fact = fact /\ t.pacer = pacer /\ t.feed = feed /\ t.casting = casting
      /\ t.cache = IF stale THEN [cache EXCEPT !["paced"] = Unsaid] ELSE cache
  BY DEF Subscribe, ForgetStale, PrepareResponse, IpcNow
<1>3. t.conn = [conn EXCEPT ![c] = k]
  <2> DEFINE joined == [conn[c] EXCEPT !.subs = @ \cup fams, !.deadline = FALSE]
  <2>1. t.conn = [[conn EXCEPT ![c] = joined] EXCEPT ![c].out = lines]
    BY DEF Subscribe, ForgetStale, PrepareResponse, IpcNow
  <2> HIDE DEF t, lines
  <2>2. k = [joined EXCEPT !.out = lines]
    OBVIOUS
  <2> HIDE DEF joined, k
  <2>3. QED
    BY <1>1, <2>1, <2>2
<1>4. /\ conn[c] \in Connections /\ conn[c].open /\ conn[c].out = <<>> /\ feed # c
      /\ fams # {} /\ IpcBecomes(t)
  BY <1>1 DEF ReadSubscribe, Reads, Responding
<1>5. Whole(IpcNow, Clients, {}) /\ Casts(IpcNow)
  BY DEF IpcInv
<1>6. /\ k.open = conn[c].open /\ k.subs = conn[c].subs \cup fams /\ k.cast = conn[c].cast
      /\ k.out = lines /\ k.seen = conn[c].seen
  BY <1>4 DEF Connections
<1> HIDE DEF t
<1>7. /\ k.out \in Seq(Lines)
      /\ \A f \in fams : Told(k, f, fact[f])
      /\ \A f \in Families \ fams : \A v \in Said : Told(conn[c], f, v) => Told(k, f, v)
  <2> HIDE DEF k
  <2>1. QED
    BY <1>1, <1>4, <1>6, ToldSubscribe
<1>8. k \in Connections
  BY <1>4, <1>6, <1>7 DEF Connections
<1> HIDE DEF k
<1>9. /\ t.conn \in [Clients -> Connections] /\ t.conn[c] = k
      /\ \A d \in Clients \ {c} : t.conn[d] = conn[d]
  BY <1>1, <1>3, <1>8
<1>10. /\ t.cache \in [Families -> Said]
       /\ \A f \in Families : t.cache[f] \in {cache[f], Unsaid}
  BY <1>1, <1>2 DEF Said
<1>11. Formed(t)
  BY <1>1, <1>2, <1>9, <1>10 DEF Formed
<1>12. Kept(k)
  BY <1>4, <1>6 DEF Kept
<1>13. ASSUME c \in Listeners, NEW f \in k.subs
       PROVE  /\ t.cache[f] = Unsaid \/ Told(k, f, t.cache[f])
              /\ Told(k, f, t.fact[f]) \/ Due(t, f)
  <2>1. f \in Families
    BY <1>8 DEF Connections
  <2>2. CASE f \in fams
    <3>1. Told(k, f, fact[f])
      BY <1>7, <2>2
    <3>2. t.cache[f] \in {Unsaid, fact[f]}
      <4>1. CASE f = "paced"
        BY <1>1, <1>2, <2>2, <4>1
      <4>2. CASE f = "prompt"
        <5>1. cache[f] \in {Unsaid, fact[f]}
          BY <1>5, <4>2, NowFields DEF Whole
        <5>2. QED
          BY <1>10, <2>1, <5>1
      <4>3. QED
        BY <2>1, <4>1, <4>2 DEF Families
    <3>3. QED
      BY <1>2, <3>1, <3>2
  <2>3. CASE f \notin fams
    <3>1. f \in conn[c].subs
      BY <1>6, <2>3
    <3>2. /\ cache[f] = Unsaid \/ Told(conn[c], f, cache[f])
          /\ Told(conn[c], f, fact[f]) \/ Due(IpcNow, f)
      BY <1>5, <1>13, <3>1, NowFields DEF Whole
    <3>3. cache[f] \in Said /\ fact[f] \in Said /\ (Due(IpcNow, f) => Due(t, f))
      BY <1>1, <1>2, <2>1, NowFields DEF Said, Due
    <3>4. QED
      BY <1>2, <1>7, <1>10, <2>1, <2>3, <3>2, <3>3
  <2>4. QED
    BY <2>2, <2>3
<1>14. Whole(t, Clients, {})
  BY <1>2, <1>4, <1>5, <1>9, <1>10, <1>11, <1>12, <1>13, NowFields, PutWhole, ZenonT(60)
<1>15. Casts(t)
  BY <1>2, <1>5, <1>6, <1>9, NowFields DEF Casts
<1>16. QED
  BY <1>4, <1>14, <1>15, BecomesInv

\* What the other requests change of a connection: its screencast flag, its deadline, the feed.
LEMMA OtherKeeps ==
  ASSUME NEW c \in Clients, IpcInv, ReadOther(c)
  PROVE  IpcInv'
<1>1. /\ conn \in [Clients -> Connections] /\ fact \in [Families -> Facts]
      /\ cache \in [Families -> Said] /\ pacer \in Pacers
      /\ feed \in Clients \cup {Unsaid} /\ conn[c] \in Connections
  BY InvFields
<1>2. Whole(IpcNow, Clients, {}) /\ Casts(IpcNow) /\ Kept(conn[c])
  BY NowFields DEF IpcInv, Whole
<1>3. c \in Clients \ Listeners /\ conn[c].open
  BY DEF ReadOther, Reads
<1>4. CASE IpcBecomes(Ask(IpcNow, c))
  BY <1>2, <1>3, <1>4, AnswerWhole, BecomesInv DEF Ask
<1>5. ASSUME NEW active \in BOOLEAN, feed # c, IpcBecomes(CastSession(IpcNow, c, active))
      PROVE  IpcInv'
  <2> DEFINE k == [conn[c] EXCEPT !.cast = active]
             t == RefreshCast([IpcNow EXCEPT !.conn[c].cast = active])
  <2>1. /\ DOMAIN t = {"conn", "fact", "cache", "pacer", "feed", "casting"}
        /\ t.conn = [conn EXCEPT ![c] = k] /\ t.fact = fact /\ t.pacer = pacer
        /\ t.feed = feed /\ t.cache = cache
        /\ t.casting = \E d \in Clients : t.conn[d].cast
    BY DEF IpcNow, RefreshCast
  <2>2. /\ k \in Connections /\ k.open = conn[c].open /\ k.subs = conn[c].subs
        /\ k.deadline = conn[c].deadline
    BY <1>1 DEF Connections
  <2> HIDE DEF t, k
  <2>3. /\ t.conn \in [Clients -> Connections] /\ t.conn[c] = k
        /\ \A d \in Clients \ {c} : t.conn[d] = conn[d]
    BY <1>1, <2>1, <2>2
  <2>4. Formed(t)
    BY <1>1, <2>1, <2>3 DEF Formed
  <2>5. Kept(k)
    BY <1>2, <1>3, <2>2 DEF Kept
  <2>6. Whole(t, Clients, {})
    BY <1>2, <1>3, <1>5, <2>1, <2>3, <2>4, <2>5, NowFields, PutWhole
  <2>7. Casts(t)
    BY <2>1 DEF Casts
  <2>8. IpcBecomes(PrepareResponse(t, c, <<Reply>>))
    BY <1>5 DEF CastSession, t
  <2>9. QED
    BY <1>3, <2>6, <2>7, <2>8, AnswerWhole, BecomesInv
<1>6. ASSUME NEW sound \in BOOLEAN, IpcBecomes(OfferAudio(IpcNow, c, sound))
      PROVE  IpcInv'
  <2> DEFINE refused == AudioRefused(IpcNow, c, sound)
             k == [conn[c] EXCEPT !.deadline = TRUE]
             loses == [IpcNow EXCEPT !.feed = IF @ = c THEN Unsaid ELSE @]
             takes == [IpcNow EXCEPT !.feed = c, !.conn[c].deadline = TRUE]
             t == IF refused THEN loses ELSE IF feed \notin {Unsaid, c} THEN IpcNow ELSE takes
  <2>1. IpcBecomes(PrepareResponse(t, c, <<Reply>>))
    BY <1>6, NowFields DEF OfferAudio
  <2>2. Whole(loses, Clients, {}) /\ Casts(loses)
    <3>1. /\ DOMAIN loses = {"conn", "fact", "cache", "pacer", "feed", "casting"}
          /\ loses.conn = conn /\ loses.fact = fact /\ loses.pacer = pacer
          /\ loses.feed = (IF feed = c THEN Unsaid ELSE feed) /\ loses.cache = cache
          /\ loses.casting = casting
      BY DEF IpcNow
    <3> HIDE DEF loses
    <3>2. Formed(loses)
      BY <1>1, <3>1 DEF Formed
    <3>3. loses.feed = Unsaid \/ (loses.feed = feed /\ loses.feed # c)
      BY <3>1
    <3>4. Whole(loses, Clients, {})
      BY <1>2, <1>3, <3>1, <3>2, <3>3, NowFields, PutWhole
    <3>5. Casts(loses)
      BY <1>2, <3>1, NowFields DEF Casts
    <3>6. QED
      BY <3>4, <3>5
  <2>3. ~refused => Whole(takes, Clients, {}) /\ Casts(takes)
    <3> SUFFICES ASSUME ~refused PROVE Whole(takes, Clients, {}) /\ Casts(takes)
      OBVIOUS
    <3>1. /\ DOMAIN takes = {"conn", "fact", "cache", "pacer", "feed", "casting"}
          /\ takes.conn = [conn EXCEPT ![c] = k] /\ takes.fact = fact /\ takes.pacer = pacer
          /\ takes.feed = c /\ takes.cache = cache /\ takes.casting = casting
      BY DEF IpcNow
    <3>2. /\ k \in Connections /\ k.open = conn[c].open /\ k.subs = conn[c].subs
          /\ k.deadline = TRUE /\ k.cast = conn[c].cast
      BY <1>1 DEF Connections
    <3>3. k.subs = {}
      BY <3>2, NowFields DEF AudioRefused
    <3> HIDE DEF takes, k
    <3>4. /\ takes.conn \in [Clients -> Connections] /\ takes.conn[c] = k
          /\ \A d \in Clients \ {c} : takes.conn[d] = conn[d]
      BY <1>1, <3>1, <3>2
    <3>5. Formed(takes)
      BY <1>1, <3>1, <3>4 DEF Formed
    <3>6. Kept(k) /\ Feeds(k)
      BY <1>3, <3>2, <3>3 DEF Kept, Feeds
    <3>7. Whole(takes, Clients, {})
      BY <1>2, <1>3, <3>1, <3>4, <3>5, <3>6, NowFields, PutWhole
    <3>8. Casts(takes)
      BY <1>2, <3>1, <3>2, <3>4, NowFields, ZenonT(60) DEF Casts
    <3>9. QED
      BY <3>7, <3>8
  <2> HIDE DEF loses, takes, refused
  <2>4. Whole(t, Clients, {}) /\ Casts(t)
    BY <1>2, <2>2, <2>3
  <2> HIDE DEF t
  <2>5. QED
    BY <1>3, <2>1, <2>4, AnswerWhole, BecomesInv
<1>7. QED
  BY <1>4, <1>5, <1>6 DEF ReadOther

\* A line is read; whoever has nothing lasting is gone with its last one.
LEMMA WriteKeeps ==
  ASSUME NEW c \in Clients, IpcInv, Write(c)
  PROVE  IpcInv'
<1> DEFINE line == Head(conn[c].out)
           seen == [f \in Families |-> IF f = line.family THEN line.says ELSE conn[c].seen[f]]
           k == [conn[c] EXCEPT !.out = Tail(@), !.seen = seen]
           t == [IpcNow EXCEPT !.conn[c] = k]
           stays == Len(conn[c].out) > 1 \/ conn[c].subs # {} \/ feed = c
<1>1. /\ conn \in [Clients -> Connections] /\ fact \in [Families -> Facts]
      /\ cache \in [Families -> Said] /\ pacer \in Pacers
      /\ feed \in Clients \cup {Unsaid} /\ conn[c] \in Connections
  BY InvFields
<1>2. Whole(IpcNow, Clients, {}) /\ Casts(IpcNow) /\ Kept(conn[c])
  BY NowFields DEF IpcInv, Whole
<1>3. conn[c].out # <<>> /\ IpcBecomes(IF stays THEN t ELSE RemoveConnections(t, {c}))
  BY DEF Write, Responding
<1>4. /\ DOMAIN t = {"conn", "fact", "cache", "pacer", "feed", "casting"}
      /\ t.fact = fact /\ t.pacer = pacer /\ t.feed = feed /\ t.casting = casting
      /\ t.cache = cache
  BY DEF IpcNow
<1>5. t.conn = [conn EXCEPT ![c] = k]
  BY DEF IpcNow
<1>6. /\ k \in Connections
      /\ \A f \in Families : \A v \in Said : Told(conn[c], f, v) => Told(k, f, v)
      /\ k.open = conn[c].open /\ k.subs = conn[c].subs /\ k.deadline = conn[c].deadline
      /\ k.cast = conn[c].cast
  <2>1. k = [conn[c] EXCEPT !.out = Tail(@),
                            !.seen = [f \in Families |-> IF f = line.family THEN line.says
                                                         ELSE conn[c].seen[f]]]
    OBVIOUS
  <2>2. k.open = conn[c].open /\ k.subs = conn[c].subs /\ k.deadline = conn[c].deadline
        /\ k.cast = conn[c].cast
    BY <1>1 DEF Connections
  <2>3. "paced" \in Families /\ Unsaid \in Said
    BY DEF Families, Said
  <2>4. k \in Connections
    BY <1>1, <1>3, <2>1, <2>3, ToldWrite
  <2>5. \A f \in Families : \A v \in Said : Told(conn[c], f, v) => Told(k, f, v)
    BY <1>1, <1>3, <2>1, ToldWrite
  <2>6. QED
    BY <2>2, <2>4, <2>5
<1> HIDE DEF t, k
<1>7. /\ t.conn \in [Clients -> Connections] /\ t.conn[c] = k
      /\ \A d \in Clients \ {c} : t.conn[d] = conn[d]
  BY <1>1, <1>5, <1>6
<1>8. Formed(t)
  BY <1>1, <1>4, <1>7 DEF Formed
<1>9. Kept(k) /\ (feed = c => Feeds(k))
  <2>1. feed = c => Feeds(conn[c])
    BY <1>2, NowFields DEF Whole
  <2>2. QED
    BY <1>2, <1>6, <2>1 DEF Kept, Feeds
<1>10. ASSUME c \in Listeners, NEW f \in k.subs
       PROVE  /\ t.cache[f] = Unsaid \/ Told(k, f, t.cache[f])
              /\ Told(k, f, t.fact[f]) \/ Due(t, f)
  <2>1. f \in conn[c].subs /\ f \in Families
    BY <1>6 DEF Connections
  <2>2. /\ cache[f] = Unsaid \/ Told(conn[c], f, cache[f])
        /\ Told(conn[c], f, fact[f]) \/ Due(IpcNow, f)
    BY <1>2, <1>10, <2>1, NowFields DEF Whole
  <2>3. cache[f] \in Said /\ fact[f] \in Said /\ (Due(IpcNow, f) => Due(t, f))
    BY <1>1, <1>4, <2>1, NowFields DEF Said, Due
  <2>4. QED
    BY <1>4, <1>6, <2>1, <2>2, <2>3
<1>11. Whole(t, Clients, {})
  <2>1. t.feed = Unsaid \/ (t.feed = c /\ Feeds(k)) \/ (t.feed = feed /\ t.feed # c)
    BY <1>4, <1>9
  <2>2. QED
    BY <1>2, <1>4, <1>7, <1>8, <1>9, <1>10, <2>1, NowFields, PutWhole
<1>12. Casts(t)
  BY <1>2, <1>4, <1>6, <1>7, NowFields DEF Casts
<1> DEFINE gone == {c}
<1> HIDE DEF gone
<1>13. Whole(t, Clients \ gone, {})
  BY <1>11 DEF Whole
<1>14. Whole(RemoveConnections(t, gone), Clients, {}) /\ Casts(RemoveConnections(t, gone))
  BY <1>13, RemoveWhole
<1>15. IpcBecomes(t) \/ IpcBecomes(RemoveConnections(t, gone))
  BY <1>3 DEF gone
<1>16. QED
  BY <1>11, <1>12, <1>14, <1>15, BecomesInv

----------------------------------------------------------------------------
(* The theorems *)

LEMMA InitInv == IpcInit => IpcInv
<1> SUFFICES ASSUME IpcInit PROVE IpcInv
  OBVIOUS
<1>1. NoConnection \in Connections /\ Kept(NoConnection) /\ NoConnection.subs = {}
      /\ ~NoConnection.cast
  <2>1. <<>> \in Seq(Lines) /\ [f \in Families |-> Unsaid] \in [Families -> Said]
    BY EmptySeq DEF Said
  <2>2. QED
    BY <2>1 DEF NoConnection, Connections, Kept
<1>2. (CHOOSE v \in Facts : TRUE) \in Facts
  BY ListenerAssumption
<1>3. /\ conn \in [Clients -> Connections] /\ fact \in [Families -> Facts]
      /\ cache \in [Families -> Said] /\ pacer \in Pacers /\ feed = Unsaid
      /\ \A c \in Clients : conn[c] = NoConnection
      /\ \A f \in Families : cache[f] = Unsaid
  BY <1>1, <1>2 DEF IpcInit, Said, Pacers
<1>4. Formed(IpcNow)
  BY <1>3, NowFields DEF Formed, IpcFields
<1>5. Whole(IpcNow, Clients, {})
  BY <1>1, <1>3, <1>4, NowFields, ListenerAssumption DEF Whole, Families
<1>6. Casts(IpcNow)
  BY <1>1, <1>3, NowFields DEF IpcInit, Casts
<1>7. QED
  BY <1>5, <1>6 DEF IpcInv

\* Connections, feed and cache are consistent whatever order requests, changes, timers and
\* disconnections come in.
THEOREM Invariance == IpcSpec => []IpcInv
<1>1. IpcInv /\ [IpcNext]_ipcVars => IpcInv'
  <2> SUFFICES ASSUME IpcInv, [IpcNext]_ipcVars PROVE IpcInv'
    OBVIOUS
  <2>1. CASE Timer
    BY <2>1, TimerKeeps
  <2>2. ASSUME NEW c \in Clients,
               \/ AcceptConnection(c) \/ ReadOther(c) \/ Write(c) \/ HangUp(c)
               \/ OnConnectionTimeout(c)
               \/ \E fams \in SUBSET Families : ReadSubscribe(c, fams)
        PROVE  IpcInv'
    BY <2>2, AcceptKeeps, OtherKeeps, WriteKeeps, HangUpKeeps, SubscribeKeeps
  <2>3. ASSUME NEW f \in Families, NEW v \in Facts,
               ChangeOnItsOwn(f, v) \/ \E c \in Clients : ReadAction(c, f, v)
        PROVE  IpcInv'
    BY <2>3, ChangeKeeps
  <2>4. CASE UNCHANGED ipcVars
    BY <2>4 DEF ipcVars, IpcInv, IpcNow
  <2>5. QED
    BY <2>1, <2>2, <2>3, <2>4 DEF IpcNext
<1>2. QED
  BY <1>1, InitInv, PTL DEF IpcSpec

\* A connection that may stay is a subscriber or on a deadline, and neither the feed nor the
\* screencast flag outlives the connections it belongs to.
THEOREM ConnectionsStayAccounted == IpcSpec => []ConnectionsAccounted
<1>1. IpcInv => ConnectionsAccounted
  <2> SUFFICES ASSUME IpcInv PROVE ConnectionsAccounted
    OBVIOUS
  <2>1. /\ \A c \in Clients : Kept(conn[c])
        /\ feed \in Clients => Feeds(conn[feed])
        /\ feed \in Clients \cup {Unsaid}
        /\ casting = \E c \in Clients : conn[c].cast
    BY NowFields, InvFields DEF IpcInv, Whole, Casts
  <2>2. (\E c \in Clients : conn[c].cast) = (\E c \in Clients : conn[c].open /\ conn[c].cast)
    BY <2>1 DEF Kept
  <2>3. QED
    BY <2>1, <2>2 DEF ConnectionsAccounted, Kept, Feeds
<1>2. QED
  BY <1>1, Invariance, PTL

\* A listener was last told how things are, unless a snapshot is due: pacing, the cache of the
\* last broadcast and the lines not yet read lose nothing.
THEOREM ListenersStayCurrent == IpcSpec => []ListenersCurrent
<1>1. IpcInv => ListenersCurrent
  BY NowFields, ListenerAssumption DEF IpcInv, Whole, Due, ListenersCurrent
<1>2. QED
  BY <1>1, Invariance, PTL

=============================================================================
