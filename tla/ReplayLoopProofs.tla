--------------------------- MODULE ReplayLoopProofs ---------------------------
(***************************************************************************)
(* Proofs about ReplayLoop: type correctness, the order of what a server    *)
(* sees of its client, and that the timers serve the clients.               *)
(***************************************************************************)
EXTENDS ReplayLoop, SequenceTheorems, FiniteSetTheorems, TLAPS

\* A command of the capture, as it is between the threads.
Captured == [id : Clients, ts : 0 .. MaxTs, kind : {"connect", "block", "plain", "term"}]

One(cmd) == IF cmd = None THEN <<>> ELSE <<cmd>>

\* The commands that the manager has read and the loop has not enqueued.
Flow == (One(lookahead) \o chan) \o One(held)

\* The elements of f that are of client c are e[m], e[m + 1], ... in this order.
Embeds(f, e, c, m) ==
  \E place \in [m .. Len(e) -> DOMAIN f] :
    /\ \A k \in m .. Len(e) : f[place[k]] = e[k]
    /\ \A k, l \in m .. Len(e) : k < l => place[k] < place[l]
    /\ \A i \in DOMAIN f : f[i].id = c => \E k \in m .. Len(e) : place[k] = i

\* Captured streams start with the connect and end with the Terminate, if any.
StreamOK(c) ==
  \A i \in DOMAIN emitted[c] :
    /\ emitted[c][i] \in Captured /\ emitted[c][i].id = c
    /\ emitted[c][i].kind = "connect" <=> i = 1
    /\ emitted[c][i].kind = "term" => i = Len(emitted[c])

Streams ==
  /\ \A c \in Clients : StreamOK(c)
  /\ chan \in Seq(Captured)
  /\ lookahead \in Captured \cup {None} /\ held \in Captured \cup {None}

\* The end of the capture passes from the manager to the loop.
Closing ==
  /\ mpc = "send" <=> held # None
  /\ mpc = "send" => unwoken = 0
  /\ closed => mpc = "join"
  /\ rx_closed => closed /\ chan = <<>>
  /\ ended => rx_closed /\ lookahead = None
  /\ lpc = "try" => ret # "none"

\* The commands of client c that its slot has executed.
Done(c) == IF slots[c].conn THEN Len(sent[c]) + 1 ELSE 0

QueueOK(c) ==
  /\ \A i \in DOMAIN slots[c].queue :
       \/ ended /\ i = Len(slots[c].queue) /\ slots[c].queue[i].kind = "end"
       \/ /\ Done(c) + i <= Len(emitted[c])
          /\ slots[c].queue[i] = emitted[c][Done(c) + i]
  /\ ~slots[c].conn =>
       /\ sent[c] = <<>>
       /\ slots[c].queue # <<>> /\ emitted[c] # <<>>
       /\ slots[c].queue[1] = emitted[c][1]
  /\ slots[c].conn => Done(c) <= Len(emitted[c])

Queues == \A c \in DOMAIN slots : QueueOK(c)

\* What is under way to the slot of c continues its queue; what is under way to a
\* client without a slot begins with its connect or is of no use.
Continues(c) ==
  IF c \in DOMAIN slots
    THEN Embeds(Flow, emitted[c], c, Done(c) + Len(slots[c].queue) + 1)
    ELSE \E m \in 1 .. Len(emitted[c]) + 1 :
           Embeds(Flow, emitted[c], c, m) /\ (m = 1 => sent[c] = <<>>)

UnderWay == ~ended => \A c \in Clients : Continues(c)

\* The server of client c and what the loop knows of it.
AnswersOK(c) ==
  IF c \in DOMAIN slots /\ slots[c].conn
    THEN /\ c \in up /\ slots[c].awaiting =>
              \/ owed[c] = <<"rfq">> /\ inbox[c] = <<>>
              \/ owed[c] = <<>> /\ inbox[c] = <<"rfq">>
         /\ c \in up /\ ~slots[c].awaiting =>
              /\ inbox[c] = <<>>
              /\ \/ owed[c] = <<>>
                 \/ owed[c] = <<"eof">> /\ slots[c].terminated
         /\ c \notin up =>
              owed[c] = <<>> /\ inbox[c] \in {<<"eof">>, <<"rfq", "eof">>}
    ELSE owed[c] = <<>> /\ inbox[c] = <<>> /\ c \notin up

\* Nothing captured follows the Terminate.
TerminatedOK(c) ==
  slots[c].terminated =>
    /\ slots[c].conn
    /\ \A i \in DOMAIN slots[c].queue : slots[c].queue[i].kind = "end"
    /\ ended \/ /\ Len(emitted[c]) = Len(sent[c]) + 1
                /\ emitted[c][Len(emitted[c])].kind = "term"

Dialogs ==
  /\ \A c \in Clients : AnswersOK(c)
  /\ \A c \in DOMAIN slots : TerminatedOK(c)
  /\ \A c \in batch : c \in DOMAIN slots /\ slots[c].conn /\ inbox[c] # <<>>

\* Every client that could send has a timer, except the one being tried.
ArmedFor(c) ==
  ~(lpc = "try" /\ c = cur) /\ ~Blocked(slots[c]) /\ slots[c].queue # <<>> =>
    \E t \in timers : t[2] = c /\ t[1] <= Head(slots[c].queue).ts

Armed == \A c \in DOMAIN slots : ArmedFor(c)

Clocked == shift <= now /\ \A c \in DOMAIN slots : slots[c].ready_at <= now

IInv == TypeOK /\ Streams /\ Closing /\ Queues /\ UnderWay /\ InOrder /\ Dialogs
          /\ Armed /\ Clocked

----------------------------------------------------------------------------
(* The commands of one client among those of all.                          *)

\* A place of an embedding is one of the sequence, and an embedding ends.
LEMMA NothingLeft ==
  ASSUME NEW f, NEW e, NEW c, Len(e) \in Nat, Embeds(f, e, c, Len(e) + 1)
  PROVE  \A i \in DOMAIN f : f[i].id # c
<1>1. Len(e) + 1 .. Len(e) = {}
  OBVIOUS
<1> QED BY <1>1 DEF Embeds

\* Another client's command changes nothing.
LEMMA AppendOther ==
  ASSUME NEW f \in Seq(Captured), NEW e, NEW c, NEW m, NEW x \in Captured,
         x.id # c, Embeds(f, e, c, m)
  PROVE  Embeds(Append(f, x), e, c, m)
<1> DEFINE g == Append(f, x)
<1>1. /\ DOMAIN f = 1 .. Len(f) /\ Len(f) \in Nat
      /\ DOMAIN g = 1 .. Len(f) + 1
      /\ \A i \in 1 .. Len(f) : g[i] = f[i]
      /\ g[Len(f) + 1] = x
  BY AppendProperties, LenProperties
<1> HIDE DEF g
<1>2. PICK place \in [m .. Len(e) -> DOMAIN f] :
        /\ \A k \in m .. Len(e) : f[place[k]] = e[k]
        /\ \A k, l \in m .. Len(e) : k < l => place[k] < place[l]
        /\ \A i \in DOMAIN f : f[i].id = c => \E k \in m .. Len(e) : place[k] = i
  BY DEF Embeds
<1>3. place \in [m .. Len(e) -> DOMAIN g]
  BY <1>1
<1>4. \A k \in m .. Len(e) : g[place[k]] = e[k]
  BY <1>1, <1>2
<1>5. \A i \in DOMAIN g : g[i].id = c => i \in DOMAIN f /\ g[i] = f[i]
  BY <1>1
<1>6. \A i \in DOMAIN g : g[i].id = c => \E k \in m .. Len(e) : place[k] = i
  BY <1>2, <1>5
<1>7. Embeds(g, e, c, m)
  BY <1>2, <1>3, <1>4, <1>6 DEF Embeds
<1> QED BY <1>7 DEF g

\* A command of the client is read and passed on.
LEMMA AppendOwn ==
  ASSUME NEW f \in Seq(Captured), NEW e \in Seq(Command), NEW c,
         NEW x \in Captured, x \in Command, NEW m \in 1 .. Len(e) + 1,
         x.id = c, Embeds(f, e, c, m)
  PROVE  Embeds(Append(f, x), Append(e, x), c, m)
<1> DEFINE g == Append(f, x)
           h == Append(e, x)
           n == Len(f) + 1
           o == Len(e) + 1
<1>1. /\ DOMAIN f = 1 .. Len(f) /\ Len(f) \in Nat
      /\ DOMAIN g = 1 .. n
      /\ \A i \in 1 .. Len(f) : g[i] = f[i]
      /\ g[n] = x
  BY AppendProperties, LenProperties
<1>2. /\ Len(e) \in Nat /\ Len(h) = o
      /\ \A i \in 1 .. Len(e) : h[i] = e[i]
      /\ h[o] = x
  BY AppendProperties, LenProperties
<1> HIDE DEF g, h
<1>3. PICK place \in [m .. Len(e) -> DOMAIN f] :
        /\ \A k \in m .. Len(e) : f[place[k]] = e[k]
        /\ \A k, l \in m .. Len(e) : k < l => place[k] < place[l]
        /\ \A i \in DOMAIN f : f[i].id = c => \E k \in m .. Len(e) : place[k] = i
  BY DEF Embeds
<1> DEFINE next == [k \in m .. o |-> IF k = o THEN n ELSE place[k]]
<1>4. /\ o \in m .. o
      /\ \A k \in m .. o : k = o \/ k \in m .. Len(e)
      /\ \A k \in m .. Len(e) : k \in m .. o /\ k # o /\ k \in 1 .. Len(e)
  BY <1>2
<1>5. /\ next[o] = n
      /\ \A k \in m .. Len(e) : next[k] = place[k] /\ next[k] \in 1 .. Len(f)
  BY <1>1, <1>3, <1>4
<1>6. next \in [m .. Len(h) -> DOMAIN g]
  <2> DEFINE value(k) == IF k = o THEN n ELSE place[k]
  <2>1. ASSUME NEW k \in m .. o PROVE value(k) \in 1 .. n
    <3>1. n \in 1 .. n /\ \A i \in 1 .. Len(f) : i \in 1 .. n
      BY <1>1
    <3>2. k # o => place[k] \in 1 .. Len(f)
      BY <1>1, <1>3, <1>4
    <3> QED BY <3>1, <3>2
  <2> QED BY <1>1, <1>2, <2>1
<1> HIDE DEF next
<1>7. \A k \in m .. Len(h) : g[next[k]] = h[k]
  BY <1>1, <1>2, <1>3, <1>4, <1>5
<1>8. ASSUME NEW k \in m .. Len(h), NEW l \in m .. Len(h), k < l
      PROVE  next[k] < next[l]
  <2>1. k \in m .. Len(e)
    BY <1>2, <1>8
  <2>2. CASE l = o
    BY <1>1, <1>5, <2>1, <2>2
  <2>3. CASE l \in m .. Len(e)
    BY <1>3, <1>5, <1>8, <2>1, <2>3
  <2> QED BY <1>2, <1>4, <2>2, <2>3
<1>9. ASSUME NEW i \in DOMAIN g, g[i].id = c
      PROVE  \E k \in m .. Len(h) : next[k] = i
  <2>1. CASE i = n
    BY <1>2, <1>4, <1>5, <2>1
  <2>2. CASE i \in 1 .. Len(f)
    <3>1. PICK k \in m .. Len(e) : place[k] = i
      BY <1>1, <1>3, <1>9, <2>2
    <3> QED BY <1>2, <1>4, <1>5, <3>1
  <2> QED BY <1>1, <2>1, <2>2
<1>10. Embeds(g, h, c, m)
  BY <1>6, <1>7, <1>8, <1>9 DEF Embeds
<1> QED BY <1>10 DEF g, h

\* The first command leaves.  If it is of the client it is its next one.
LEMMA TailOwn ==
  ASSUME NEW f \in Seq(Captured), f # <<>>, NEW e, Len(e) \in Nat, NEW c,
         NEW m \in 1 .. Len(e) + 1, Embeds(f, e, c, m), Head(f).id = c
  PROVE  /\ m <= Len(e)
         /\ Head(f) = e[m]
         /\ Embeds(Tail(f), e, c, m + 1)
<1> DEFINE g == Tail(f)
           n == Len(f)
<1>1. /\ DOMAIN f = 1 .. n /\ n \in Nat /\ n >= 1
      /\ g \in Seq(Captured) /\ Len(g) = n - 1 /\ DOMAIN g = 1 .. n - 1
      /\ \A i \in 1 .. n - 1 : g[i] = f[i + 1]
      /\ Head(f) = f[1]
  BY HeadTailProperties, LenProperties, EmptySeq
<1> HIDE DEF g, n
<1>2. PICK place \in [m .. Len(e) -> DOMAIN f] :
        /\ \A k \in m .. Len(e) : f[place[k]] = e[k]
        /\ \A k, l \in m .. Len(e) : k < l => place[k] < place[l]
        /\ \A i \in DOMAIN f : f[i].id = c => \E k \in m .. Len(e) : place[k] = i
  BY DEF Embeds
<1>3. PICK k1 \in m .. Len(e) : place[k1] = 1
  <2>1. 1 \in DOMAIN f /\ f[1].id = c
    BY <1>1
  <2> QED BY <1>2, <2>1
<1>4. m <= Len(e) /\ m \in m .. Len(e)
  BY <1>3
<1>5. \A k \in m .. Len(e) : place[k] \in 1 .. n
  BY <1>1, <1>2
<1>6. k1 = m
  <2> SUFFICES ASSUME k1 # m PROVE FALSE
    OBVIOUS
  <2>1. m < k1
    BY <1>3, <1>4
  <2>2. place[m] < place[k1]
    BY <1>2, <1>4, <2>1
  <2> QED BY <1>1, <1>3, <1>4, <1>5, <2>2
<1>7. Head(f) = e[m]
  BY <1>1, <1>2, <1>3, <1>6
<1> DEFINE next == [k \in m + 1 .. Len(e) |-> place[k] - 1]
<1>8. \A k \in m + 1 .. Len(e) : k \in m .. Len(e) /\ m < k
  OBVIOUS
<1>9. \A k \in m + 1 .. Len(e) : next[k] = place[k] - 1 /\ place[k] > 1
  BY <1>2, <1>3, <1>4, <1>6, <1>8
<1>10. next \in [m + 1 .. Len(e) -> DOMAIN g]
  <2>1. \A k \in m + 1 .. Len(e) : next[k] \in 1 .. n - 1
    BY <1>1, <1>5, <1>8, <1>9
  <2> QED BY <1>1, <2>1
<1> HIDE DEF next
<1>11. ASSUME NEW k \in m + 1 .. Len(e) PROVE g[next[k]] = e[k]
  <2>1. next[k] \in 1 .. n - 1 /\ next[k] + 1 = place[k]
    BY <1>1, <1>5, <1>8, <1>9
  <2> QED BY <1>1, <1>2, <1>8, <2>1
<1>12. ASSUME NEW k \in m + 1 .. Len(e), NEW l \in m + 1 .. Len(e), k < l
       PROVE  next[k] < next[l]
  <2>1. place[k] < place[l]
    BY <1>2, <1>8, <1>12
  <2> QED BY <1>1, <1>5, <1>8, <1>9, <2>1
<1>13. ASSUME NEW i \in DOMAIN g, g[i].id = c
       PROVE  \E k \in m + 1 .. Len(e) : next[k] = i
  <2>1. i \in 1 .. n - 1 /\ i + 1 \in 1 .. n /\ i + 1 # 1 /\ i + 1 - 1 = i
    BY <1>1
  <2>2. PICK k \in m .. Len(e) : place[k] = i + 1
    BY <1>1, <1>2, <1>13, <2>1
  <2>3. k # m
    BY <1>3, <1>6, <2>1, <2>2
  <2>4. k \in m + 1 .. Len(e)
    BY <2>3
  <2>5. next[k] = (i + 1) - 1
    BY <1>9, <2>2, <2>4
  <2> QED BY <2>1, <2>4, <2>5
<1>14. Embeds(g, e, c, m + 1)
  BY <1>10, <1>11, <1>12, <1>13 DEF Embeds
<1> QED BY <1>4, <1>7, <1>14 DEF g

\* The first command leaves and is another client's.
LEMMA TailOther ==
  ASSUME NEW f \in Seq(Captured), f # <<>>, NEW e, NEW c, NEW m,
         Embeds(f, e, c, m), Head(f).id # c, \A k \in m .. Len(e) : e[k].id = c
  PROVE  Embeds(Tail(f), e, c, m)
<1> DEFINE g == Tail(f)
           n == Len(f)
<1>1. /\ DOMAIN f = 1 .. n /\ n \in Nat /\ n >= 1
      /\ g \in Seq(Captured) /\ Len(g) = n - 1 /\ DOMAIN g = 1 .. n - 1
      /\ \A i \in 1 .. n - 1 : g[i] = f[i + 1]
      /\ Head(f) = f[1]
  BY HeadTailProperties, LenProperties, EmptySeq
<1> HIDE DEF g, n
<1>2. PICK place \in [m .. Len(e) -> DOMAIN f] :
        /\ \A k \in m .. Len(e) : f[place[k]] = e[k]
        /\ \A k, l \in m .. Len(e) : k < l => place[k] < place[l]
        /\ \A i \in DOMAIN f : f[i].id = c => \E k \in m .. Len(e) : place[k] = i
  BY DEF Embeds
<1> DEFINE next == [k \in m .. Len(e) |-> place[k] - 1]
<1>3. \A k \in m .. Len(e) : place[k] \in 1 .. n
  BY <1>1, <1>2
<1>4. \A k \in m .. Len(e) : place[k] # 1
  BY <1>1, <1>2
<1>5. \A k \in m .. Len(e) : next[k] \in 1 .. n - 1 /\ next[k] = place[k] - 1
                              /\ next[k] + 1 = place[k]
  BY <1>1, <1>3, <1>4
<1>6. next \in [m .. Len(e) -> DOMAIN g]
  BY <1>1, <1>5
<1> HIDE DEF next
<1>7. \A k \in m .. Len(e) : g[next[k]] = e[k]
  BY <1>1, <1>2, <1>5
<1>8. ASSUME NEW k \in m .. Len(e), NEW l \in m .. Len(e), k < l
      PROVE  next[k] < next[l]
  BY <1>1, <1>2, <1>3, <1>5, <1>8
<1>9. ASSUME NEW i \in DOMAIN g, g[i].id = c
      PROVE  \E k \in m .. Len(e) : next[k] = i
  <2>1. i \in 1 .. n - 1 /\ i + 1 \in 1 .. n /\ i + 1 - 1 = i
    BY <1>1
  <2>2. PICK k \in m .. Len(e) : place[k] = i + 1
    BY <1>1, <1>2, <1>9, <2>1
  <2> QED BY <1>5, <2>1, <2>2
<1>10. Embeds(g, e, c, m)
  BY <1>6, <1>7, <1>8, <1>9 DEF Embeds
<1> QED BY <1>10 DEF g

\* Nothing of the client has been read.
LEMMA EmbedsNothing ==
  ASSUME NEW e, NEW c, Len(e) \in Nat
  PROVE  Embeds(<<>>, e, c, Len(e) + 1)
<1>1. Len(e) + 1 .. Len(e) = {} /\ DOMAIN <<>> = {}
  OBVIOUS
<1>2. [i \in {} |-> 0] \in [{} -> {}]
  OBVIOUS
<1> QED BY <1>1, <1>2 DEF Embeds

----------------------------------------------------------------------------
(* The operators of the model.                                             *)

\* What is between the threads is a command.
LEMMA CapturedCommand ==
  /\ Captured \subseteq Command
  /\ None \in Command /\ None \notin Captured
BY ReplayAssumption DEF Captured, Command, Kind, None

\* A step of the manager that reads an event.
LEMMA Reading ==
  ASSUME Read
  PROVE  \E c \in Clients, x \in Captured :
           /\ mpc = "read" /\ Push(x)
           /\ x.id = c /\ x.kind \in Kinds(c)
           /\ emitted' = [emitted EXCEPT ![c] = Append(@, x)]
           /\ last' = x.ts
<1>1. PICK c \in Clients, ts \in {last, last + 1} \cap (0 .. MaxTs) :
        \E kind \in Kinds(c) :
          /\ Push(Cmd(c, ts, kind))
          /\ emitted' = [emitted EXCEPT ![c] = Append(@, Cmd(c, ts, kind))]
          /\ last' = ts
  BY DEF Read
<1> PICK kind \in Kinds(c) :
      /\ Push(Cmd(c, ts, kind))
      /\ emitted' = [emitted EXCEPT ![c] = Append(@, Cmd(c, ts, kind))]
      /\ last' = ts
  BY <1>1
<1>2. kind \in {"connect", "block", "plain", "term"}
  BY DEF Kinds
<1>3. Cmd(c, ts, kind) \in Captured
  BY <1>2 DEF Cmd, Captured
<1>4. /\ Cmd(c, ts, kind).id = c /\ Cmd(c, ts, kind).kind = kind
      /\ Cmd(c, ts, kind).ts = ts
  BY DEF Cmd
<1> QED BY <1>3, <1>4 DEF Read

\* A slot without its first command.
LEMMA PoppedSlot ==
  ASSUME NEW s \in Slot, s.queue # <<>>
  PROVE  /\ Head(s.queue) \in Command
         /\ AfterRebase(s) \in Slot
         /\ AfterRebase(s).queue = s.queue /\ AfterRebase(s).conn = s.conn
         /\ AfterRebase(s).awaiting = s.awaiting
         /\ AfterRebase(s).ready_at = s.ready_at
         /\ AfterRebase(s).terminated = s.terminated
         /\ Popped(s) \in Slot
         /\ Popped(s).queue = Tail(s.queue) /\ Popped(s).conn = s.conn
         /\ Popped(s).awaiting = s.awaiting
         /\ Popped(s).ready_at = s.ready_at
         /\ Popped(s).terminated = s.terminated
<1>1. s.queue \in Seq(Command)
  BY DEF Slot
<1>2. Head(s.queue) \in Command /\ Tail(s.queue) \in Seq(Command)
  BY <1>1, HeadTailProperties
<1>3. /\ AfterRebase(s) \in Slot
      /\ AfterRebase(s).queue = s.queue /\ AfterRebase(s).conn = s.conn
      /\ AfterRebase(s).awaiting = s.awaiting
      /\ AfterRebase(s).ready_at = s.ready_at
      /\ AfterRebase(s).terminated = s.terminated
  BY DEF Slot, AfterRebase
<1>4. /\ Popped(s) \in Slot
      /\ Popped(s).queue = Tail(s.queue)
      /\ Popped(s).conn = AfterRebase(s).conn
      /\ Popped(s).awaiting = AfterRebase(s).awaiting
      /\ Popped(s).ready_at = AfterRebase(s).ready_at
      /\ Popped(s).terminated = AfterRebase(s).terminated
  <2> HIDE DEF AfterRebase
  <2>1. Popped(s) = [AfterRebase(s) EXCEPT !.queue = Tail(@)]
    BY DEF Popped
  <2>2. Popped(s) = [AfterRebase(s) EXCEPT !.queue = Tail(s.queue)]
    BY <1>3, <2>1 DEF Slot
  <2> QED BY <1>2, <1>3, <2>2 DEF Slot
<1> QED BY <1>2, <1>3, <1>4

\* The schedule is pushed back to the delay of the first command.
LEMMA RebasedShift ==
  ASSUME NEW s \in Slot, s.queue # <<>>, shift \in Nat, now \in Nat,
         shift <= now, s.ready_at <= now
  PROVE  Rebased(s) \in Nat /\ Rebased(s) <= now
<1>1. Head(s.queue).ts \in Nat /\ s.ready_at \in Nat
  BY PoppedSlot DEF Command, Slot
<1> QED BY <1>1 DEF Rebased

\* Catching up takes off the shift.
LEMMA CatchUpShift ==
  ASSUME NEW t \in Nat, shift \in Nat, last_tick \in Nat, CatchUpAt(t)
  PROVE  shift' \in Nat /\ last_tick' \in Nat /\ shift' <= shift
<1> DEFINE prod == (t - last_tick) * CatchUp
           d == prod \div 2
<1>1. prod \in Int
  BY ReplayAssumption
<1>2. CaughtUp(t) = IF shift = 0 THEN [shift |-> 0, tick |-> t]
                    ELSE IF d > 0
                           THEN [shift |-> IF d > shift THEN 0 ELSE shift - d, tick |-> t]
                           ELSE [shift |-> shift, tick |-> last_tick]
  BY DEF CaughtUp
<1> HIDE DEF prod
<1>3. d \in Int
  BY <1>1
<1> HIDE DEF d
<1>4. /\ CaughtUp(t).shift \in Nat /\ CaughtUp(t).shift <= shift
      /\ CaughtUp(t).tick \in Nat
  <2>1. CASE shift = 0
    BY <1>2, <2>1
  <2>2. CASE shift # 0 /\ d > 0 /\ d > shift
    BY <1>2, <1>3, <2>2
  <2>3. CASE shift # 0 /\ d > 0 /\ ~(d > shift)
    <3>1. shift - d \in Nat /\ shift - d <= shift
      BY <1>3, <2>3
    <3> QED BY <1>2, <2>3, <3>1
  <2>4. CASE shift # 0 /\ ~(d > 0)
    BY <1>2, <2>4
  <2> QED BY <2>1, <2>2, <2>3, <2>4
<1> QED BY <1>4 DEF CatchUpAt

\* A slot with a command behind the others.
LEMMA QueuedSlot ==
  ASSUME NEW s \in Slot, NEW x \in Command
  PROVE  /\ Queued(s, x) \in Slot
         /\ Queued(s, x).queue = Append(s.queue, x)
         /\ Queued(s, x).queue \in Seq(Command) /\ Queued(s, x).queue # <<>>
         /\ Queued(s, x).conn = s.conn /\ Queued(s, x).awaiting = s.awaiting
         /\ Queued(s, x).ready_at = s.ready_at /\ Queued(s, x).burst = s.burst
         /\ Queued(s, x).terminated = s.terminated
<1>1. s.queue \in Seq(Command)
  BY DEF Slot
<1>2. Append(s.queue, x) \in Seq(Command) /\ Append(s.queue, x) # <<>>
  BY <1>1, AppendProperties
<1>3. Queued(s, x) = [s EXCEPT !.queue = Append(s.queue, x)]
  BY DEF Queued, Slot
<1> QED BY <1>2, <1>3 DEF Slot

\* A client without a slot gets a new one.
LEMMA NewSlotOK ==
  /\ NewSlot \in Slot /\ NewSlot.queue = <<>> /\ NewSlot.conn = FALSE
  /\ NewSlot.awaiting = FALSE /\ NewSlot.ready_at = 0 /\ NewSlot.terminated = FALSE
<1>1. <<>> \in Seq(Command)
  BY EmptySeq
<1> QED BY <1>1 DEF NewSlot, Slot


----------------------------------------------------------------------------
(* What the steps do.                                                      *)

\* Enqueuing a command: it is dropped, or its slot gets it.
LEMMA Enqueuing ==
  ASSUME TypeSchedule, NEW cmd \in Captured, Enqueue(cmd)
  PROVE  \/ /\ cmd.id \notin DOMAIN slots /\ cmd.kind # "connect"
            /\ UNCHANGED <<slots, timers>>
         \/ /\ cmd.id \in DOMAIN slots \/ cmd.kind = "connect"
            /\ DOMAIN slots' = DOMAIN slots \cup {cmd.id}
            /\ SlotOf(cmd.id) \in Slot
            /\ slots'[cmd.id] = Queued(SlotOf(cmd.id), cmd)
            /\ \A d \in DOMAIN slots : d # cmd.id => slots'[d] = slots[d]
            /\ timers' = IF Len(slots'[cmd.id].queue) = 1
                           THEN Scheduled(slots'[cmd.id], cmd.id) ELSE timers
<1>1. CASE cmd.id \notin DOMAIN slots /\ cmd.kind # "connect"
  BY <1>1 DEF Enqueue
<1>2. CASE cmd.id \in DOMAIN slots \/ cmd.kind = "connect"
  <2>1. SlotOf(cmd.id) \in Slot
    BY NewSlotOK DEF SlotOf, TypeSchedule
  <2> DEFINE s == Queued(SlotOf(cmd.id), cmd)
  <2>2. /\ slots' = WithSlot(cmd.id, s)
        /\ timers' = IF Len(s.queue) = 1 THEN Scheduled(s, cmd.id) ELSE timers
    BY <1>2 DEF Enqueue, Enqueued
  <2> HIDE DEF s
  <2>3. /\ DOMAIN slots' = DOMAIN slots \cup {cmd.id}
        /\ slots'[cmd.id] = s
        /\ \A d \in DOMAIN slots : d # cmd.id => slots'[d] = slots[d]
    BY <2>2 DEF WithSlot
  <2> QED BY <1>2, <2>1, <2>2, <2>3 DEF s
<1> QED BY <1>1, <1>2

\* A command taken from the flow: the pulls that enqueue one.
Pulls(cmd) ==
  /\ Enqueue(cmd) /\ last_ts' = cmd.ts
  /\ UNCHANGED <<lpc, tnow, shift, last_tick>>
  /\ UNCHANGED <<mgr, ret, cur, batch, rx_closed, ended, now, srv, sent, closed>>
  /\ \/ /\ lookahead = cmd /\ lookahead' = None /\ UNCHANGED <<link, started>>
     \/ /\ lookahead = None /\ chan # <<>> /\ Head(chan) = cmd
        /\ chan' = Tail(chan) /\ UNCHANGED lookahead /\ started' = TRUE
        /\ UNCHANGED woken

\* The pulls that end the pulling.
Pauses ==
  /\ LeavePull /\ UNCHANGED <<last_ts, slots, timers>>
  /\ UNCHANGED <<mgr, ret, cur, batch, ended, now, srv, sent, closed, woken>>
  /\ \/ UNCHANGED <<lookahead, chan, started, rx_closed>>
     \/ /\ lookahead = None /\ chan # <<>> /\ lookahead' = Head(chan)
        /\ chan' = Tail(chan) /\ started' = TRUE /\ UNCHANGED rx_closed
     \/ /\ lookahead = None /\ chan = <<>> /\ rx_closed' = (rx_closed \/ closed)
        /\ UNCHANGED <<lookahead, chan, started>>

\* What a pull does: it takes a command in, or leaves the round's pull.
LEMMA PullStep ==
  ASSUME Streams, PullLookahead \/ PullReceive \/ PullNothing
  PROVE  Pulling /\ ((\E cmd \in Captured : Pulls(cmd)) \/ Pauses)
<1>1. CASE PullLookahead
  <2>1. lookahead \in Captured
    BY <1>1 DEF PullLookahead, Streams
  <2>2. CASE Near(lookahead)
    <3>1. Pulls(lookahead)
      BY <1>1, <2>2 DEF PullLookahead, Pulls, link
    <3> QED BY <1>1, <2>1, <3>1 DEF PullLookahead
  <2>3. CASE ~Near(lookahead)
    BY <1>1, <2>3 DEF PullLookahead, Pauses, link
  <2> QED BY <2>2, <2>3
<1>2. CASE PullReceive
  <2>1. Head(chan) \in Captured
    BY <1>2, HeadTailProperties DEF PullReceive, Streams
  <2>2. CASE Near(Head(chan))
    <3>1. Pulls(Head(chan))
      BY <1>2, <2>2 DEF PullReceive, Pulls, link
    <3> QED BY <1>2, <2>1, <3>1 DEF PullReceive
  <2>3. CASE ~Near(Head(chan))
    BY <1>2, <2>3 DEF PullReceive, Pauses, link
  <2> QED BY <2>2, <2>3
<1>3. CASE PullNothing
  BY <1>3 DEF PullNothing, Pauses, link
<1> QED BY <1>1, <1>2, <1>3

\* The slot of the client being tried.
LEMMA Trying ==
  ASSUME TypeSchedule, MayTry
  PROVE  /\ cur \in Clients /\ cur \in DOMAIN slots /\ slots[cur] \in Slot
         /\ slots[cur].queue # <<>> /\ ~Blocked(slots[cur])
         /\ slots[cur].queue \in Seq(Command)
BY DEF MayTry, TypeSchedule, Slot

\* Executing a command takes it from its slot, n, or drops the slot.
Executes(n) ==
  /\ n \in Slot
  /\ slots' = [slots EXCEPT ![cur] = n]
  /\ n.queue = Tail(slots[cur].queue) /\ n.ready_at = slots[cur].ready_at

Succeeds(n) ==
  LET s == slots[cur] IN
  /\ Executes(n)
  /\ \/ /\ Executing({"connect"})
        /\ n.conn = TRUE /\ n.awaiting = TRUE /\ n.terminated = s.terminated
        /\ owed' = [owed EXCEPT ![cur] = <<"rfq">>] /\ up' = up \cup {cur}
        /\ UNCHANGED sent
     \/ /\ Executing({"block", "plain", "term"})
        /\ n.conn = s.conn
        /\ n.awaiting = (s.awaiting \/ Head(s.queue).kind = "block")
        /\ n.terminated = (s.terminated \/ Head(s.queue).kind = "term")
        /\ owed' = [owed EXCEPT ![cur] =
                      IF cur \in up THEN @ \o Answers(Head(s.queue).kind) ELSE @]
        /\ sent' = [sent EXCEPT ![cur] = Append(@, Head(s.queue))]
        /\ UNCHANGED up
     \/ /\ Executing({"end"})
        /\ n.conn = s.conn /\ n.awaiting = s.awaiting /\ n.terminated = TRUE
        /\ owed' = [owed EXCEPT ![cur] =
                      IF cur \in up /\ ~s.terminated THEN @ \o <<"eof">> ELSE @]
        /\ UNCHANGED <<up, sent>>

\* What an execution that succeeds does to the slot.
LEMMA Succeeding ==
  ASSUME TypeSchedule, ExecuteConnect \/ ExecuteSend \/ ExecuteEnd
  PROVE  \E n \in Slot : Succeeds(n)
<1> DEFINE s == slots[cur]
<1>1. MayTry
  BY DEF ExecuteConnect, ExecuteSend, ExecuteEnd, Executing
<1>2. s \in Slot /\ s.queue # <<>> /\ cur \in DOMAIN slots
  BY <1>1, Trying
<1>3. /\ Popped(s) \in Slot
      /\ Popped(s).queue = Tail(s.queue) /\ Popped(s).conn = s.conn
      /\ Popped(s).awaiting = s.awaiting
      /\ Popped(s).ready_at = s.ready_at
      /\ Popped(s).terminated = s.terminated
  BY <1>2, PoppedSlot
<1>4. CASE ExecuteConnect
  <2> DEFINE n == [Popped(s) EXCEPT !.conn = TRUE, !.awaiting = TRUE]
  <2>1. /\ n \in Slot /\ n.queue = Tail(s.queue) /\ n.ready_at = s.ready_at
        /\ n.conn = TRUE /\ n.awaiting = TRUE /\ n.terminated = s.terminated
    BY <1>3 DEF Slot
  <2>2. slots' = [slots EXCEPT ![cur] = n]
    BY <1>2, <1>4 DEF ExecuteConnect
  <2> HIDE DEF n
  <2>3. Succeeds(n)
    BY <1>4, <2>1, <2>2 DEF Succeeds, Executes, ExecuteConnect
  <2> QED BY <2>1, <2>3
<1>5. CASE ExecuteSend
  <2> DEFINE kind == Head(s.queue).kind
             n == [Popped(s) EXCEPT !.awaiting = s.awaiting \/ kind = "block",
                                    !.burst = ~(kind = "block"),
                                    !.terminated = s.terminated \/ kind = "term"]
  <2>1. Written(s) = n
    BY <1>3 DEF Slot, Awaits, Written
  <2>2. slots' = [slots EXCEPT ![cur] = n]
    BY <1>2, <1>5, <2>1 DEF ExecuteSend
  <2> HIDE DEF kind
  <2>3. /\ n \in Slot /\ n.queue = Tail(s.queue) /\ n.ready_at = s.ready_at
        /\ n.conn = s.conn /\ n.awaiting = (s.awaiting \/ kind = "block")
        /\ n.terminated = (s.terminated \/ kind = "term")
    <3>1. Popped(s) \in Slot /\ s.awaiting \in BOOLEAN /\ s.terminated \in BOOLEAN
      BY <1>2, <1>3 DEF Slot
    <3> QED BY <1>3, <3>1 DEF Slot
  <2> HIDE DEF n
  <2>4. Succeeds(n)
    BY <1>5, <2>2, <2>3 DEF Succeeds, Executes, ExecuteSend, kind
  <2> QED BY <2>3, <2>4
<1>6. CASE ExecuteEnd
  <2> DEFINE n == [Popped(s) EXCEPT !.terminated = TRUE]
  <2>1. /\ n \in Slot /\ n.queue = Tail(s.queue) /\ n.ready_at = s.ready_at
        /\ n.conn = s.conn /\ n.awaiting = s.awaiting /\ n.terminated = TRUE
    BY <1>3 DEF Slot
  <2>2. slots' = [slots EXCEPT ![cur] = n]
    BY <1>2, <1>6 DEF ExecuteEnd
  <2> HIDE DEF n
  <2>3. Succeeds(n)
    BY <1>6, <2>1, <2>2 DEF Succeeds, Executes, ExecuteEnd
  <2> QED BY <2>1, <2>3
<1> QED BY <1>4, <1>5, <1>6


\* The steps other than those of the manager, the pulls and the executions.
Elsewhere ==
  \/ Poll \/ (\E c \in Clients : EventsDead(c) \/ EventsReady(c)) \/ EventsDone
  \/ DispatchTimer \/ DispatchDone \/ TryNothing \/ TryLater
  \/ ConnectFails \/ FlushFails \/ Finish \/ Tick \/ (\E c \in Clients : Reply(c) \/ ServerDrops(c))
  \/ UNCHANGED vars

\* The kinds of steps that the proofs tell apart.
LEMMA Steps ==
  ASSUME TypeSchedule, Streams, [Next]_vars
  PROVE  \/ Read \/ SendHeld \/ Finished \/ DropSender
         \/ Pulling /\ \E cmd \in Captured : Pulls(cmd)
         \/ Pulling /\ Pauses
         \/ \E n \in Slot : Succeeds(n)
         \/ Elsewhere
<1>1. CASE PullLookahead \/ PullReceive \/ PullNothing
  BY <1>1, PullStep
<1>2. CASE ExecuteConnect \/ ExecuteSend \/ ExecuteEnd
  BY <1>2, Succeeding
<1> QED BY <1>1, <1>2 DEF Next, Manager, Loop, Elsewhere

\* The steps of the last kind leave the streams alone.
LEMMA ElsewhereFrame ==
  ASSUME Elsewhere
  PROVE  UNCHANGED <<mgr, chan, closed, started, lookahead, rx_closed, last_ts, sent>>
BY DEF Elsewhere, Poll, EventsDead, EventsReady, EventsDone, DispatchTimer, DispatchDone,
       TryNothing, TryLater, ConnectFails, FlushFails, Finish, Tick, Reply, ServerDrops, Executing,
       vars, mgr, link, ctl, rcv, sched, srv

\* An execution leaves alone what lies between the threads.
LEMMA SucceedsFrame ==
  ASSUME NEW n \in Slot, Succeeds(n)
  PROVE  /\ UNCHANGED <<mgr, link, ctl, rcv, timers, last_tick, now, inbox>>
         /\ lpc = "try" /\ MayTry /\ shift' = Rebased(slots[cur])
BY DEF Succeeds, Executing

----------------------------------------------------------------------------
(* The commands on their way.                                              *)

\* The manager reads what the capture can hold next.
LEMMA StreamsRead ==
  ASSUME TypeOK, Streams, Read
  PROVE  \A c \in Clients : StreamOK(c)'
<1>1. PICK d \in Clients, x \in Captured :
        /\ x.id = d /\ x.kind \in Kinds(d)
        /\ emitted' = [emitted EXCEPT ![d] = Append(@, x)]
  BY Reading
<1>2. emitted[d] \in Seq(Command) /\ emitted \in [Clients -> Seq(Command)]
  BY DEF TypeOK, TypeManager
<1> DEFINE e == emitted[d]
           n == Len(e) + 1
<1>3. /\ Len(e) \in Nat /\ DOMAIN e = 1 .. Len(e)
      /\ DOMAIN Append(e, x) = 1 .. n /\ Len(Append(e, x)) = n
      /\ \A i \in 1 .. Len(e) : Append(e, x)[i] = e[i]
      /\ Append(e, x)[n] = x
  BY <1>1, <1>2, AppendProperties, LenProperties, CapturedCommand
<1>4. emitted'[d] = Append(e, x) /\ \A c \in Clients \ {d} : emitted'[c] = emitted[c]
  BY <1>1, <1>2
<1>5. StreamOK(d)
  BY DEF Streams
<1>6. \A i \in 1 .. Len(e) : e[i].kind # "term"
  <2> SUFFICES ASSUME NEW i \in 1 .. Len(e), e[i].kind = "term" PROVE FALSE
    OBVIOUS
  <2>1. i = Len(e) /\ e # <<>>
    BY <1>3, <1>5 DEF StreamOK
  <2>2. Kinds(d) = {}
    BY <2>1 DEF Kinds
  <2> QED BY <1>1, <2>2
<1>7. x.kind = "connect" <=> n = 1
  <2>1. n = 1 <=> e = <<>>
    BY <1>2, <1>3, EmptySeq
  <2> QED BY <1>1, <2>1 DEF Kinds
<1>8. ASSUME NEW i \in 1 .. n
      PROVE  /\ Append(e, x)[i] \in Captured /\ Append(e, x)[i].id = d
             /\ Append(e, x)[i].kind = "connect" <=> i = 1
             /\ Append(e, x)[i].kind = "term" => i = n
  <2>1. CASE i = n
    BY <1>1, <1>3, <1>7, <2>1
  <2>2. CASE i \in 1 .. Len(e)
    BY <1>3, <1>5, <1>6, <2>2 DEF StreamOK
  <2> QED BY <1>3, <2>1, <2>2
<1> HIDE DEF n, e
<1>9. StreamOK(d)'
  BY <1>3, <1>4, <1>8 DEF StreamOK
<1>10. \A c \in Clients \ {d} : StreamOK(c)'
  BY <1>4 DEF StreamOK, Streams
<1> QED BY <1>9, <1>10

\* The commands on their way are captured ones.
LEMMA StreamsStep ==
  ASSUME TypeOK, Streams, Closing, [Next]_vars
  PROVE  Streams'
<1>1. CASE Read
  <2>1. PICK x \in Captured : Push(x)
    BY <1>1, Reading
  <2>2. Append(chan, x) \in Seq(Captured)
    BY AppendProperties DEF Streams
  <2>3. lookahead' = lookahead
    BY <1>1 DEF Read, rcv
  <2> QED BY <1>1, <2>1, <2>2, <2>3, StreamsRead DEF Push, Streams
<1> DEFINE Others == \/ SendHeld \/ Finished \/ DropSender
                     \/ Pulling /\ \E cmd \in Captured : Pulls(cmd)
                     \/ Pulling /\ Pauses
                     \/ \E n \in Slot : Succeeds(n)
                     \/ Elsewhere
<1>2. CASE Others
  <2>1. emitted' = emitted
    <3>1. CASE SendHeld \/ Finished \/ DropSender
      BY <3>1 DEF SendHeld, Finished, DropSender
    <3>2. CASE (\E cmd \in Captured : Pulls(cmd)) \/ Pauses
      BY <3>2 DEF Pulls, Pauses, mgr
    <3>3. CASE (\E n \in Slot : Succeeds(n)) \/ Elsewhere
      BY <3>3, SucceedsFrame, ElsewhereFrame DEF mgr
    <3> QED BY <1>2, <3>1, <3>2, <3>3
  <2>2. \A c \in Clients : StreamOK(c)'
    BY <2>1 DEF StreamOK, Streams
  <2>3. CASE SendHeld
    <3>1. held \in Captured
      BY <2>3 DEF SendHeld, Closing, Streams
    <3>2. Append(chan, held) \in Seq(Captured)
      BY <3>1, AppendProperties DEF Streams
    <3> QED BY <2>2, <2>3, <3>2 DEF SendHeld, Streams, rcv
  <2>4. CASE Finished \/ DropSender
    BY <2>2, <2>4 DEF Finished, DropSender, Streams, rcv
  <2>5. chan # <<>> => Tail(chan) \in Seq(Captured) /\ Head(chan) \in Captured
    BY HeadTailProperties DEF Streams
  <2>6. CASE (\E cmd \in Captured : Pulls(cmd)) \/ Pauses
    BY <2>2, <2>5, <2>6 DEF Pulls, Pauses, mgr, link, Streams
  <2>7. CASE (\E n \in Slot : Succeeds(n)) \/ Elsewhere
    BY <2>2, <2>7, SucceedsFrame, ElsewhereFrame DEF mgr, link, rcv, Streams
  <2> QED BY <1>2, <2>3, <2>4, <2>6, <2>7
<1> QED BY <1>1, <1>2, Steps DEF TypeOK


----------------------------------------------------------------------------
(* The end of the capture.                                                 *)

\* The close reaches the loop after the last command.
LEMMA ClosingStep ==
  ASSUME TypeOK, Streams, Closing, [Next]_vars
  PROVE  Closing'
<1> USE DEF Closing
<1>1. CASE Read
  <2>1. PICK x \in Captured : Push(x)
    BY <1>1, Reading
  <2>2. UNCHANGED <<closed, ctl, rcv>> /\ mpc = "read"
    BY <1>1 DEF Read
  <2>3. x # None
    BY CapturedCommand
  <2>4. CASE ~Full
    BY <2>1, <2>2, <2>4 DEF Push, ctl, rcv
  <2>5. CASE Full
    BY <2>1, <2>2, <2>3, <2>5 DEF Push, ctl, rcv
  <2> QED BY <2>4, <2>5
<1>2. CASE SendHeld \/ Finished \/ DropSender
  BY <1>2 DEF SendHeld, Finished, DropSender, ctl, rcv
<1>3. CASE Pulling /\ \E cmd \in Captured : Pulls(cmd)
  BY <1>3 DEF Pulling, Pulls, mgr, link
<1>4. CASE Pulling /\ Pauses
  <2>1. lpc' # "try"
    BY <1>4 DEF Pulling, Pauses, LeavePull, PullDone
  <2>2. UNCHANGED <<mpc, held, unwoken, closed, ended>>
    BY <1>4 DEF Pauses, mgr
  <2>3. /\ rx_closed' => closed /\ chan' = <<>>
        /\ ended => rx_closed' /\ lookahead' = None
    <3>1. CASE UNCHANGED <<lookahead, chan, started, rx_closed>>
      BY <3>1
    <3>2. CASE lookahead = None /\ chan # <<>> /\ rx_closed' = rx_closed
      BY <3>2
    <3>3. CASE /\ lookahead = None /\ chan = <<>> /\ rx_closed' = (rx_closed \/ closed)
               /\ UNCHANGED <<lookahead, chan, started>>
      BY <3>3
    <3> QED BY <1>4, <3>1, <3>2, <3>3 DEF Pauses
  <2> QED BY <2>1, <2>2, <2>3
<1>5. CASE \E n \in Slot : Succeeds(n)
  <2>1. UNCHANGED <<mgr, link, ctl, rcv>>
    BY <1>5, SucceedsFrame
  <2> QED BY <2>1 DEF mgr, link, ctl, rcv
<1>6. CASE Elsewhere
  <2>1. UNCHANGED <<mgr, chan, closed, lookahead, rx_closed>>
    BY <1>6, ElsewhereFrame
  <2>2. lpc' = "try" => ret' # "none"
    <3>1. ret # "try"
      BY DEF TypeOK, TypeLoop
    <3> QED
    BY <1>6, <3>1 DEF Elsewhere, Poll, EventsDead, EventsReady, EventsDone, DispatchTimer,
                DispatchDone, TryNothing, TryLater, Return, Goto, ConnectFails, FlushFails,
                Executing, Finish, Tick, Reply, ServerDrops, vars, ctl
  <2>3. ended' => ended \/ Finishing
    <3>1. CASE Finish
      BY <3>1 DEF Finish
    <3>2. CASE Elsewhere /\ ~Finish
      BY <3>2 DEF Elsewhere, Poll, EventsDead, EventsReady, EventsDone, DispatchTimer,
                DispatchDone, TryNothing, TryLater, ConnectFails, FlushFails, Executing,
                Tick, Reply, ServerDrops, vars, rcv
    <3> QED BY <1>6, <3>1, <3>2
  <2> QED BY <2>1, <2>2, <2>3 DEF mgr, Finishing
<1> QED BY <1>1, <1>2, <1>3, <1>4, <1>5, <1>6, Steps DEF TypeOK

----------------------------------------------------------------------------
(* Types.                                                                  *)

\* The manager and the channel keep their types.
LEMMA ManagerType ==
  ASSUME TypeOK, Streams, Closing, [Next]_vars
  PROVE  TypeManager'
<1> USE CapturedCommand, ReplayAssumption DEF TypeManager
<1>1. chan \in Seq(Command) /\ Len(chan) \in Nat
  BY LenProperties DEF TypeOK
<1>2. CASE Read
  <2>1. PICK c \in Clients, x \in Captured :
          /\ Push(x)
          /\ emitted' = [emitted EXCEPT ![c] = Append(@, x)]
          /\ last' = x.ts
    BY <1>2, Reading
  <2>2. x \in Command
    OBVIOUS
  <2>3. Append(emitted[c], x) \in Seq(Command)
    BY <2>2, AppendProperties DEF TypeOK
  <2>4. emitted' \in [Clients -> Seq(Command)]
    BY <2>1, <2>3 DEF TypeOK
  <2>5. last' \in 0 .. MaxTs
    BY <2>1 DEF Captured
  <2>6. closed' = closed
    BY <1>2 DEF Read
  <2>7. CASE ~Full
    <3>1. Append(chan, x) \in Seq(Command) /\ Len(Append(chan, x)) = Len(chan) + 1
      BY <1>1, <2>2, AppendProperties
    <3>2. Len(chan) + 1 <= QueueCap
      BY <1>1, <2>7 DEF Full, TypeOK
    <3>3. chan' = Append(chan, x) /\ UNCHANGED <<mpc, held>>
      BY <2>1, <2>7 DEF Push
    <3>4. unwoken' \in 0 .. WakeBatch /\ woken' \in BOOLEAN
      BY <2>1, <2>7 DEF Push, TypeOK
    <3> QED BY <2>4, <2>5, <2>6, <3>1, <3>2, <3>3, <3>4 DEF TypeOK
  <2>8. CASE Full
    <3>1. /\ woken' \in BOOLEAN /\ unwoken' = 0 /\ held' = x /\ mpc' = "send"
          /\ chan' = chan
      BY <2>1, <2>8 DEF Push
    <3> QED BY <2>2, <2>4, <2>5, <2>6, <3>1 DEF TypeOK
  <2> QED BY <2>7, <2>8
<1>3. CASE SendHeld
  <2>1. held \in Command
    BY DEF TypeOK
  <2>2. Append(chan, held) \in Seq(Command) /\ Len(Append(chan, held)) = Len(chan) + 1
    BY <1>1, <2>1, AppendProperties
  <2>3. Len(chan) + 1 <= QueueCap
    BY <1>1, <1>3 DEF SendHeld, Full, TypeOK
  <2>4. unwoken' \in 0 .. WakeBatch
    BY <1>3 DEF SendHeld, Closing
  <2> QED BY <1>3, <2>2, <2>3, <2>4 DEF SendHeld, TypeOK
<1>4. CASE Finished \/ DropSender
  <2>1. UNCHANGED <<held, emitted, chan, last>> /\ mpc' \in {"close", "join"}
    BY <1>4 DEF Finished, DropSender
  <2>2. unwoken' \in 0 .. WakeBatch /\ woken' \in BOOLEAN /\ closed' \in BOOLEAN
    <3>1. CASE Finished
      <4>1. unwoken' = 0 /\ closed' = closed /\ woken' \in BOOLEAN
        BY <3>1 DEF Finished
      <4> QED BY <4>1 DEF TypeOK
    <3>2. CASE DropSender
      BY <3>2 DEF DropSender, TypeOK
    <3> QED BY <1>4, <3>1, <3>2
  <2> QED BY <2>1, <2>2 DEF TypeOK
<1>5. chan # <<>> => Tail(chan) \in Seq(Command) /\ Len(Tail(chan)) = Len(chan) - 1
  BY <1>1, HeadTailProperties
<1>6. CASE (\E cmd \in Captured : Pulls(cmd)) \/ Pauses
  <2>1. UNCHANGED <<mgr, closed>>
    BY <1>6 DEF Pulls, Pauses
  <2>2. chan' = chan \/ (chan # <<>> /\ chan' = Tail(chan))
    BY <1>6 DEF Pulls, Pauses, link
  <2>3. chan' \in Seq(Command) /\ Len(chan') <= QueueCap
    BY <1>1, <1>5, <2>2 DEF TypeOK
  <2>4. woken' = woken
    BY <1>6 DEF Pulls, Pauses, link
  <2> QED BY <2>1, <2>3, <2>4 DEF mgr, TypeOK
<1>7. CASE \E n \in Slot : Succeeds(n)
  <2>1. UNCHANGED <<mgr, link>>
    BY <1>7, SucceedsFrame
  <2> QED BY <2>1 DEF mgr, link, TypeOK
<1>8. CASE Elsewhere
  <2>1. UNCHANGED <<mgr, chan, closed>>
    BY <1>8, ElsewhereFrame
  <2>2. woken' \in BOOLEAN
    BY <1>8 DEF Elsewhere, Poll, EventsDead, EventsReady, EventsDone, DispatchTimer,
                DispatchDone, TryNothing, TryLater, ConnectFails, FlushFails, Executing, Finish,
                Tick, Reply, ServerDrops, vars, link, TypeOK
  <2> QED BY <2>1, <2>2 DEF mgr, TypeOK
<1> QED BY <1>2, <1>3, <1>4, <1>6, <1>7, <1>8, Steps DEF TypeOK

\* The control of the loop keeps its type.
LEMMA LoopType ==
  ASSUME TypeOK, Streams, Closing, [Next]_vars
  PROVE  TypeLoop'
<1> USE DEF TypeLoop
<1>1. CASE Read \/ SendHeld \/ Finished \/ DropSender
  BY <1>1 DEF Read, SendHeld, Finished, DropSender, ctl, rcv, TypeOK
<1>2. CASE Pulling /\ \E cmd \in Captured : Pulls(cmd)
  <2>1. PICK cmd \in Captured : Pulls(cmd)
    BY <1>2
  <2>2. UNCHANGED <<lpc, ret, cur, tnow, batch, rx_closed, ended>>
    BY <2>1 DEF Pulls
  <2>3. last_ts' \in 0 .. MaxTs
    BY <2>1 DEF Pulls, Captured
  <2>4. lookahead' \in Command /\ started' \in BOOLEAN
    BY <2>1, CapturedCommand DEF Pulls, TypeOK
  <2> QED BY <2>2, <2>3, <2>4 DEF TypeOK
<1>3. CASE Pulling /\ Pauses
  <2>1. lpc' \in {"poll", "dispatch"} /\ tnow' \in Nat
    BY <1>3 DEF Pauses, LeavePull, PullDone, TypeOK, TypeSchedule
  <2>2. UNCHANGED <<ret, cur, batch, ended, last_ts>>
    BY <1>3 DEF Pauses
  <2>3. chan # <<>> => Head(chan) \in Command
    BY HeadTailProperties DEF TypeOK, TypeManager
  <2>4. lookahead' \in Command /\ started' \in BOOLEAN /\ rx_closed' \in BOOLEAN
    BY <1>3, <2>3, CapturedCommand DEF Pauses, TypeOK, TypeManager
  <2> QED BY <2>1, <2>2, <2>4 DEF TypeOK
<1>4. CASE \E n \in Slot : Succeeds(n)
  <2>1. UNCHANGED <<ctl, rcv>>
    BY <1>4, SucceedsFrame
  <2> QED BY <2>1 DEF ctl, rcv, TypeOK
<1>5. CASE Elsewhere
  <2>1. UNCHANGED <<started, lookahead, rx_closed, last_ts>>
    BY <1>5, ElsewhereFrame
  <2>2. CASE Poll
    <3>1. batch' \subseteq Clients
      BY <2>2 DEF Poll, TypeOK, TypeSchedule
    <3> QED BY <2>1, <2>2, <3>1 DEF Poll, Goto, rcv, TypeOK
  <2>3. CASE \E c \in Clients : EventsDead(c) \/ EventsReady(c)
    BY <2>1, <2>3 DEF EventsDead, EventsReady, Goto, rcv, TypeOK, TypeSchedule
  <2>4. CASE EventsDone \/ DispatchDone
    BY <2>1, <2>4 DEF EventsDone, DispatchDone, Goto, rcv, TypeOK
  <2>5. CASE DispatchTimer
    <3>1. PICK t \in timers : cur' = t[2]
      BY <2>5 DEF DispatchTimer
    <3>2. cur' \in Clients
      BY <3>1 DEF TypeOK, TypeSchedule
    <3> QED BY <2>1, <2>5, <3>2 DEF DispatchTimer, Goto, rcv, TypeOK
  <2>6. CASE TryNothing \/ TryLater
    <3>1. lpc' = ret /\ ret' = "none" /\ cur' = "none" /\ tnow' \in Nat
      BY <2>6 DEF TryNothing, TryLater, Return, Goto, TypeOK
    <3>2. ret \in {"events", "dispatch"}
      BY <2>6 DEF TryNothing, TryLater, Closing, TypeOK
    <3> QED BY <2>1, <2>6, <3>1, <3>2 DEF TryNothing, TryLater, rcv, TypeOK
  <2>7. CASE ConnectFails \/ FlushFails
    BY <2>1, <2>7 DEF ConnectFails, FlushFails, Executing, ctl, rcv, TypeOK
  <2>8. CASE Finish
    <3>1. ended' \in BOOLEAN
      BY <2>8 DEF Finish, TypeOK, Finishing
    <3> QED BY <2>1, <2>8, <3>1 DEF Finish, Goto, TypeOK
  <2>9. CASE \/ Tick \/ (\E c \in Clients : Reply(c) \/ ServerDrops(c))
             \/ UNCHANGED vars
    BY <2>9 DEF Tick, Reply, ServerDrops, vars, ctl, rcv, TypeOK
  <2> QED
    BY <1>5, <2>2, <2>3, <2>4, <2>5, <2>6, <2>7, <2>8, <2>9 DEF Elsewhere
<1> QED BY <1>1, <1>2, <1>3, <1>4, <1>5, Steps DEF TypeOK


\* The timers that finish_clients adds.
LEMMA FinishTimers ==
  ASSUME TypeOK
  PROVE  UNION {EndTimers(c) : c \in DOMAIN slots} \subseteq Nat \X Clients
<1>1. \A c \in DOMAIN slots : EndTimers(c) \subseteq Nat \X Clients
  <2>1. 0 \in Nat /\ last_ts \in Nat /\ DOMAIN slots \subseteq Clients
    BY ReplayAssumption DEF TypeOK, TypeLoop, TypeSchedule
  <2> QED BY <2>1 DEF EndTimers
<1> QED BY <1>1

\* The answer to what a slot waits for.
LEMMA AnsweredSlot ==
  ASSUME NEW s \in Slot, now \in Nat
  PROVE  /\ Answered(s) \in Slot /\ Answered(s).queue = s.queue
         /\ Answered(s).conn = s.conn /\ Answered(s).awaiting = FALSE
         /\ Answered(s).ready_at = now /\ Answered(s).terminated = s.terminated
BY DEF Slot, Answered

\* Slots, timers and shift keep their types, and no answer lies in the future.
LEMMA ScheduleStep ==
  ASSUME TypeOK, Streams, Clocked, [Next]_vars
  PROVE  TypeSchedule' /\ Clocked'
<1> USE DEF TypeSchedule, Clocked
<1>0. TypeSchedule
  BY DEF TypeOK
<1>1. CASE Read \/ SendHeld \/ Finished \/ DropSender
  BY <1>0, <1>1 DEF Read, SendHeld, Finished, DropSender, sched
<1>2. CASE Pulling /\ \E cmd \in Captured : Pulls(cmd)
  <2>1. PICK cmd \in Captured : Pulls(cmd)
    BY <1>2
  <2>2. UNCHANGED <<shift, last_tick, now>>
    BY <2>1 DEF Pulls
  <2>3. Enqueue(cmd) /\ cmd.id \in Clients /\ cmd \in Command
    BY <2>1, CapturedCommand DEF Pulls, Captured
  <2>4. CASE UNCHANGED <<slots, timers>>
    BY <1>0, <2>2, <2>4
  <2> DEFINE s == SlotOf(cmd.id)
             q == Queued(s, cmd)
  <2>5. CASE /\ DOMAIN slots' = DOMAIN slots \cup {cmd.id}
             /\ s \in Slot
             /\ slots'[cmd.id] = q
             /\ \A d \in DOMAIN slots : d # cmd.id => slots'[d] = slots[d]
             /\ timers' = IF Len(q.queue) = 1 THEN Scheduled(q, cmd.id) ELSE timers
    <3>1. /\ q \in Slot /\ q.queue \in Seq(Command) /\ q.queue # <<>>
          /\ q.ready_at = s.ready_at
      BY <2>3, <2>5, QueuedSlot
    <3>2. s.ready_at <= now
      BY <1>0, NewSlotOK DEF SlotOf
    <3>3. Key(q) \in Nat
      <4>1. Head(q.queue) \in Command
        BY <3>1, HeadTailProperties
      <4> QED BY <4>1 DEF Key, Command
    <3>4. timers' \subseteq Nat \X Clients
      BY <1>0, <2>3, <2>5, <3>3 DEF Scheduled
    <3>5. \A d \in DOMAIN slots' : slots'[d] \in Slot /\ slots'[d].ready_at <= now
      BY <1>0, <2>5, <3>1, <3>2
    <3>6. DOMAIN slots' \subseteq Clients
      BY <1>0, <2>3, <2>5
    <3> QED BY <1>0, <2>2, <3>4, <3>5, <3>6
  <2> QED BY <1>0, <2>3, <2>4, <2>5, Enqueuing
<1>3. CASE Pulling /\ Pauses
  <2>1. UNCHANGED <<slots, timers, now>>
    BY <1>3 DEF Pauses
  <2>2. shift' \in Nat /\ last_tick' \in Nat /\ shift' <= shift
    <3>1. CASE lpc = "pull2"
      BY <1>0, <1>3, <3>1, CatchUpShift DEF Pauses, LeavePull
    <3>2. CASE lpc # "pull2"
      BY <1>0, <1>3, <3>2 DEF Pauses, LeavePull
    <3> QED BY <3>1, <3>2
  <2>3. shift' <= now'
    BY <1>0, <2>1, <2>2
  <2> QED BY <1>0, <2>1, <2>2, <2>3
<1>4. CASE \E n \in Slot : Succeeds(n)
  <2>1. PICK n \in Slot : Succeeds(n)
    BY <1>4
  <2>2. /\ UNCHANGED <<timers, last_tick, now>>
        /\ MayTry /\ shift' = Rebased(slots[cur])
    BY <2>1, SucceedsFrame
  <2>3. cur \in DOMAIN slots /\ slots[cur] \in Slot /\ slots[cur].queue # <<>>
    BY <1>0, <2>2, Trying
  <2>4. shift' \in Nat /\ shift' <= now
    BY <1>0, <2>2, <2>3, RebasedShift
  <2>5. slots' = [slots EXCEPT ![cur] = n] /\ n.ready_at <= now
    BY <2>1, <2>3 DEF Succeeds, Executes
  <2>6. \A d \in DOMAIN slots' : slots'[d] \in Slot /\ slots'[d].ready_at <= now
    BY <1>0, <2>5
  <2>7. DOMAIN slots' \subseteq Clients
    BY <1>0, <2>5
  <2> QED BY <1>0, <2>2, <2>4, <2>6, <2>7
<1>5. CASE Poll \/ EventsDone \/ DispatchDone \/ TryNothing
  BY <1>0, <1>5 DEF Poll, EventsDone, DispatchDone, TryNothing, sched
<1>6. CASE \E c \in Clients : EventsDead(c) \/ EventsReady(c)
  <2>1. PICK c \in Clients : EventsDead(c) \/ EventsReady(c)
    BY <1>6
  <2>2. shift' \in Nat /\ last_tick' \in Nat /\ shift' <= shift
    BY <1>0, <2>1, CatchUpShift DEF EventsDead, EventsReady
  <2>3. UNCHANGED <<timers, now>>
    BY <2>1 DEF EventsDead, EventsReady
  <2>4. shift' <= now'
    BY <1>0, <2>2, <2>3
  <2>5. CASE EventsDead(c)
    <3>1. DOMAIN slots' \subseteq DOMAIN slots /\ \A d \in DOMAIN slots' : slots'[d] = slots[d]
      BY <2>5 DEF EventsDead, WithoutSlot
    <3> QED BY <1>0, <2>2, <2>3, <2>4, <3>1
  <2>6. CASE EventsReady(c)
    <3>1. c \in DOMAIN slots /\ slots' = [slots EXCEPT ![c] = Answered(slots[c])]
      BY <2>6 DEF EventsReady
    <3>2. Answered(slots[c]) \in Slot /\ Answered(slots[c]).ready_at = now
      BY <1>0, <3>1, AnsweredSlot
    <3>3. \A d \in DOMAIN slots' : slots'[d] \in Slot /\ slots'[d].ready_at <= now
      BY <1>0, <3>1, <3>2
    <3> QED BY <1>0, <2>2, <2>3, <2>4, <3>1, <3>3
  <2> QED BY <2>1, <2>5, <2>6
<1>7. CASE DispatchTimer
  <2>1. timers' \subseteq timers /\ UNCHANGED <<slots, shift, last_tick, now>>
    BY <1>7 DEF DispatchTimer
  <2> QED BY <1>0, <2>1
<1>8. CASE TryLater
  <2>1. /\ cur \in Clients /\ cur \in DOMAIN slots /\ slots[cur] \in Slot
        /\ slots[cur].queue # <<>>
    BY <1>0, <1>8, Trying DEF TryLater
  <2>2. /\ Head(slots[cur].queue) \in Command
        /\ AfterRebase(slots[cur]) \in Slot
        /\ AfterRebase(slots[cur]).ready_at = slots[cur].ready_at
    BY <2>1, PoppedSlot
  <2>3. /\ shift' = Rebased(slots[cur]) /\ UNCHANGED <<last_tick, now>>
        /\ slots' = [slots EXCEPT ![cur] = AfterRebase(slots[cur])]
        /\ timers' = timers \cup {<<Head(slots[cur].queue).ts, cur>>}
    BY <1>8 DEF TryLater, Rearmed
  <2>4. shift' \in Nat /\ shift' <= now
    BY <1>0, <2>1, <2>3, RebasedShift
  <2>5. \A d \in DOMAIN slots' : slots'[d] \in Slot /\ slots'[d].ready_at <= now
    BY <1>0, <2>1, <2>2, <2>3
  <2>6. timers' \subseteq Nat \X Clients
    BY <1>0, <2>1, <2>2, <2>3 DEF Command
  <2> QED BY <1>0, <2>3, <2>4, <2>5, <2>6
<1>9. CASE ConnectFails \/ FlushFails
  <2>1. /\ UNCHANGED <<timers, last_tick, now>>
        /\ MayTry /\ shift' = Rebased(slots[cur])
        /\ slots' = WithoutSlot(cur)
    BY <1>9 DEF ConnectFails, FlushFails, Executing
  <2>2. cur \in DOMAIN slots /\ slots[cur] \in Slot /\ slots[cur].queue # <<>>
    BY <1>0, <2>1, Trying
  <2>3. shift' \in Nat /\ shift' <= now
    BY <1>0, <2>1, <2>2, RebasedShift
  <2>4. DOMAIN slots' \subseteq DOMAIN slots /\ \A d \in DOMAIN slots' : slots'[d] = slots[d]
    BY <2>1 DEF WithoutSlot
  <2> QED BY <1>0, <2>1, <2>3, <2>4
<1>10. CASE Finish
  <2>1. UNCHANGED <<shift, last_tick, now>>
    BY <1>10 DEF Finish
  <2>2. CASE Finishing
    <3>1. /\ DOMAIN slots' = DOMAIN slots
          /\ \A c \in DOMAIN slots : slots'[c] = Queued(slots[c], Cmd(c, last_ts, "end"))
          /\ timers' = timers \cup UNION {EndTimers(c) : c \in DOMAIN slots}
      BY <1>10, <2>2 DEF Finish
    <3>2. \A c \in DOMAIN slots : Cmd(c, last_ts, "end") \in Command
      BY ReplayAssumption DEF Cmd, Command, Kind, TypeOK, TypeLoop
    <3>3. ASSUME NEW d \in DOMAIN slots
          PROVE  slots'[d] \in Slot /\ slots'[d].ready_at <= now
      <4>1. slots[d] \in Slot /\ slots[d].ready_at <= now
        BY <1>0
      <4>2. /\ Queued(slots[d], Cmd(d, last_ts, "end")) \in Slot
            /\ Queued(slots[d], Cmd(d, last_ts, "end")).ready_at = slots[d].ready_at
        BY <3>2, <4>1, QueuedSlot
      <4> QED BY <3>1, <4>1, <4>2
    <3>4. timers' \subseteq Nat \X Clients
      BY <1>0, <3>1, FinishTimers
    <3> QED BY <1>0, <2>1, <3>1, <3>3, <3>4
  <2>3. CASE ~Finishing
    BY <1>0, <1>10, <2>1, <2>3 DEF Finish
  <2> QED BY <2>2, <2>3
<1>11. CASE Tick
  <2>1. now' \in Nat /\ now <= now' /\ UNCHANGED sched
    BY <1>0, <1>11 DEF Tick
  <2>2. \A c \in DOMAIN slots : slots[c].ready_at \in Nat
    BY <1>0 DEF Slot
  <2> QED BY <1>0, <2>1, <2>2 DEF sched
<1>12. CASE (\E c \in Clients : Reply(c) \/ ServerDrops(c)) \/ UNCHANGED vars
  BY <1>0, <1>12 DEF Reply, ServerDrops, vars, sched
<1>13. CASE Elsewhere
  BY <1>5, <1>6, <1>7, <1>8, <1>9, <1>10, <1>11, <1>12, <1>13 DEF Elsewhere
<1> QED BY <1>0, <1>1, <1>2, <1>3, <1>4, <1>13, Steps

\* The server and the history keep their types.
LEMMA ServerType ==
  ASSUME TypeOK, Streams, [Next]_vars
  PROVE  TypeServer'
<1> USE DEF TypeServer
<1> DEFINE Msg == {"rfq", "eof"}
<1>0. TypeServer /\ TypeSchedule
  BY DEF TypeOK
<1>1. CASE Read \/ SendHeld \/ Finished \/ DropSender
  BY <1>0, <1>1 DEF Read, SendHeld, Finished, DropSender, srv
<1>2. CASE (\E cmd \in Captured : Pulls(cmd)) \/ Pauses
  BY <1>0, <1>2 DEF Pulls, Pauses, srv
<1>3. CASE \E n \in Slot : Succeeds(n)
  <2>1. PICK n \in Slot : Succeeds(n)
    BY <1>3
  <2>2. MayTry /\ UNCHANGED inbox
    BY <2>1, SucceedsFrame
  <2>3. cur \in Clients /\ slots[cur] \in Slot /\ slots[cur].queue # <<>>
    BY <1>0, <2>2, Trying
  <2>4. Head(slots[cur].queue) \in Command
    BY <2>3, PoppedSlot
  <2>5. Append(sent[cur], Head(slots[cur].queue)) \in Seq(Command)
    BY <1>0, <2>3, <2>4, AppendProperties
  <2>6. sent' \in [Clients -> Seq(Command)]
    BY <1>0, <2>1, <2>3, <2>5 DEF Succeeds
  <2>7. up' \subseteq Clients
    BY <1>0, <2>1, <2>3 DEF Succeeds
  <2>8. <<"rfq">> \in Seq(Msg) /\ <<"eof">> \in Seq(Msg) /\ <<>> \in Seq(Msg)
    OBVIOUS
  <2>9. \A kind \in {"block", "plain", "term"} : Answers(kind) \in Seq(Msg)
    BY <2>8 DEF Answers
  <2>10. owed[cur] \in Seq(Msg)
    BY <1>0, <2>3
  <2>11. \A a \in Seq(Msg) : owed[cur] \o a \in Seq(Msg)
    BY <2>10, ConcatProperties
  <2> HIDE DEF Msg
  <2>12. owed' \in [Clients -> Seq(Msg)]
    <3>1. CASE owed' = [owed EXCEPT ![cur] = <<"rfq">>]
      BY <1>0, <2>8, <3>1 DEF Msg
    <3>2. CASE /\ Executing({"block", "plain", "term"})
               /\ owed' = [owed EXCEPT ![cur] =
                      IF cur \in up THEN @ \o Answers(Head(slots[cur].queue).kind) ELSE @]
      <4>1. Head(slots[cur].queue).kind \in {"block", "plain", "term"}
        BY <3>2 DEF Executing
      <4>2. owed[cur] \o Answers(Head(slots[cur].queue).kind) \in Seq(Msg)
        BY <2>9, <2>11, <4>1
      <4> QED BY <1>0, <2>10, <3>2, <4>2 DEF Msg
    <3>3. CASE owed' = [owed EXCEPT ![cur] =
               IF cur \in up /\ ~slots[cur].terminated THEN @ \o <<"eof">> ELSE @]
      <4>1. owed[cur] \o <<"eof">> \in Seq(Msg)
        BY <2>8, <2>11
      <4> QED BY <1>0, <2>10, <3>3, <4>1 DEF Msg
    <3> QED BY <2>1, <3>1, <3>2, <3>3 DEF Succeeds
  <2> QED BY <1>0, <2>2, <2>6, <2>7, <2>12 DEF Msg
<1>4. CASE Elsewhere
  <2>1. sent' = sent
    BY <1>4, ElsewhereFrame
  <2>2. CASE \E c \in Clients : EventsDead(c) \/ EventsReady(c)
    <3>1. PICK c \in Clients : inbox' = [inbox EXCEPT ![c] = <<>>]
      BY <2>2 DEF EventsDead, EventsReady
    <3>2. UNCHANGED <<owed, up>>
      BY <2>2 DEF EventsDead, EventsReady
    <3> QED BY <1>0, <2>1, <3>1, <3>2
  <2>3. CASE \E c \in Clients : Reply(c) \/ ServerDrops(c)
    <3>1. PICK c \in Clients : Reply(c) \/ ServerDrops(c)
      BY <2>3
    <3>2. owed[c] \in Seq(Msg) /\ inbox[c] \in Seq(Msg)
      BY <1>0
    <3>3. up' \subseteq Clients
      BY <1>0, <3>1 DEF Reply, ServerDrops
    <3> HIDE DEF Msg
    <3>4. CASE Reply(c)
      <4>1. Head(owed[c]) \in Msg /\ Tail(owed[c]) \in Seq(Msg)
        BY <3>2, <3>4, HeadTailProperties DEF Reply
      <4>2. Append(inbox[c], Head(owed[c])) \in Seq(Msg)
        BY <3>2, <4>1, AppendProperties
      <4> QED BY <1>0, <2>1, <3>3, <3>4, <4>1, <4>2 DEF Reply, Msg
    <3>5. CASE ServerDrops(c)
      <4>1. Append(inbox[c], "eof") \in Seq(Msg) /\ <<>> \in Seq(Msg)
        BY <3>2, AppendProperties, EmptySeq DEF Msg
      <4> QED BY <1>0, <2>1, <3>3, <3>5, <4>1 DEF ServerDrops, Msg
    <3> QED BY <3>1, <3>4, <3>5
  <2>4. CASE \/ Poll \/ EventsDone \/ DispatchTimer \/ DispatchDone \/ TryNothing
             \/ TryLater \/ ConnectFails \/ Finish \/ Tick \/ UNCHANGED vars
    BY <1>0, <2>1, <2>4 DEF Poll, EventsDone, DispatchTimer, DispatchDone, TryNothing,
         TryLater, ConnectFails, Executing, Finish, Tick, vars, srv
  <2>5. CASE FlushFails
    <3>1. inbox' = [inbox EXCEPT ![cur] = <<>>]
      BY <2>5 DEF FlushFails
    <3>2. UNCHANGED <<owed, up>>
      BY <2>5 DEF FlushFails
    <3>3. inbox' \in [Clients -> Seq(Msg)]
      <4>1. <<>> \in Seq(Msg) /\ inbox \in [Clients -> Seq(Msg)]
        BY <1>0, EmptySeq
      <4> HIDE DEF Msg
      <4> QED BY <3>1, <4>1
    <3> QED BY <1>0, <2>1, <3>2, <3>3
  <2> QED BY <1>4, <2>2, <2>3, <2>4, <2>5 DEF Elsewhere
<1> QED BY <1>0, <1>1, <1>2, <1>3, <1>4, Steps

\* Every step keeps the types.
LEMMA TypeStep ==
  ASSUME TypeOK, Streams, Closing, Clocked, [Next]_vars
  PROVE  TypeOK'
BY ManagerType, LoopType, ScheduleStep, ServerType DEF TypeOK

----------------------------------------------------------------------------
(* Timers.                                                                 *)

\* Nothing to do with the timers.
LEMMA SameArmed ==
  ASSUME Armed, UNCHANGED <<slots, timers>>, lpc' = "try" => cur' = cur,
         lpc = "try" => lpc' = "try"
  PROVE  Armed'
BY DEF Armed, ArmedFor, Blocked

\* Every step keeps a timer for each client that could send.
LEMMA ArmedStep ==
  ASSUME TypeOK, Streams, Closing, Armed, [Next]_vars
  PROVE  Armed'
<1>0. TypeSchedule
  BY DEF TypeOK
<1>1. CASE Read \/ SendHeld \/ Finished \/ DropSender
  BY <1>1, SameArmed DEF Read, SendHeld, Finished, DropSender, ctl, sched
<1>2. CASE Pulling /\ \E cmd \in Captured : Pulls(cmd)
  <2>1. PICK cmd \in Captured : Pulls(cmd)
    BY <1>2
  <2>2. lpc # "try" /\ lpc' # "try"
    BY <1>2, <2>1 DEF Pulling, Pulls
  <2>3. Enqueue(cmd) /\ cmd \in Command
    BY <2>1, CapturedCommand DEF Pulls
  <2> DEFINE k == cmd.id
             s == SlotOf(k)
             q == Queued(s, cmd)
  <2>4. CASE UNCHANGED <<slots, timers>>
    BY <2>2, <2>4 DEF Armed, ArmedFor, Blocked
  <2>5. CASE /\ DOMAIN slots' = DOMAIN slots \cup {k}
             /\ s \in Slot
             /\ slots'[k] = q
             /\ \A d \in DOMAIN slots : d # k => slots'[d] = slots[d]
             /\ timers' = IF Len(q.queue) = 1 THEN Scheduled(q, k) ELSE timers
    <3>1. /\ q.queue = Append(s.queue, cmd) /\ q.queue # <<>>
          /\ q.queue \in Seq(Command)
          /\ q.conn = s.conn /\ q.awaiting = s.awaiting
      BY <2>3, <2>5, QueuedSlot
    <3>2. timers \subseteq timers'
      BY <2>5 DEF Scheduled
    <3>3. ASSUME NEW d \in DOMAIN slots, d # k PROVE ArmedFor(d)'
      <4>1. ArmedFor(d)
        BY DEF Armed
      <4>2. slots'[d] = slots[d]
        BY <2>5, <3>3
      <4> QED BY <2>2, <3>2, <4>1, <4>2 DEF ArmedFor, Blocked
    <3> HIDE DEF q
    <3>4. s.queue \in Seq(Command)
      BY <2>5 DEF Slot
    <3>5. CASE s.queue = <<>>
      <4>1. Len(q.queue) = 1
        BY <2>3, <3>1, <3>4, <3>5, AppendProperties, EmptySeq
      <4>2. timers' = Scheduled(q, k)
        BY <2>5, <4>1
      <4>3. Key(q) <= Head(q.queue).ts
        <5>1. Head(q.queue) \in Command
          BY <3>1, HeadTailProperties
        <5> QED BY <5>1 DEF Key, Command
      <4>4. ~Blocked(q) => <<Key(q), k>> \in timers'
        BY <4>2 DEF Scheduled
      <4>5. ~Blocked(q) => \E t \in timers' : t[2] = k /\ t[1] <= Head(q.queue).ts
        <5>1. ASSUME ~Blocked(q)
              PROVE  \E t \in timers' : t[2] = k /\ t[1] <= Head(q.queue).ts
          <6>1. /\ <<Key(q), k>> \in timers'
                /\ <<Key(q), k>>[2] = k /\ <<Key(q), k>>[1] <= Head(q.queue).ts
            BY <4>3, <4>4, <5>1
          <6> QED BY <6>1
        <5> QED BY <5>1
      <4>6. ArmedFor(k)'
        BY <2>5, <4>5 DEF ArmedFor, Blocked
      <4> QED BY <2>5, <3>3, <4>6 DEF Armed
    <3>6. CASE s.queue # <<>>
      <4>1. k \in DOMAIN slots /\ s = slots[k]
        BY <3>6, NewSlotOK DEF SlotOf
      <4>2. Head(q.queue) = Head(s.queue)
        BY <2>3, <3>1, <3>4, <3>6, HeadTailAppend
      <4>3. ArmedFor(k)
        BY <4>1 DEF Armed
      <4>4. ArmedFor(k)'
        BY <2>2, <2>5, <3>1, <3>2, <3>6, <4>1, <4>2, <4>3 DEF ArmedFor, Blocked
      <4> QED BY <2>5, <3>3, <4>4 DEF Armed
    <3> QED BY <3>5, <3>6
  <2> QED BY <1>0, <2>3, <2>4, <2>5, Enqueuing
<1>3. CASE Pulling /\ Pauses
  <2>1. lpc # "try" /\ lpc' # "try" /\ UNCHANGED <<slots, timers>>
    BY <1>3 DEF Pulling, Pauses, LeavePull, PullDone
  <2> QED BY <2>1, SameArmed
<1>4. CASE \E n \in Slot : Succeeds(n)
  <2>1. PICK n \in Slot : Succeeds(n)
    BY <1>4
  <2>2. UNCHANGED <<ctl, timers>> /\ lpc = "try"
    BY <2>1, SucceedsFrame
  <2>3. slots' = [slots EXCEPT ![cur] = n]
    BY <2>1 DEF Succeeds, Executes
  <2> QED BY <2>2, <2>3 DEF ctl, Armed, ArmedFor, Blocked
<1>5. CASE Poll \/ EventsDone \/ DispatchDone
  <2>1. UNCHANGED sched /\ lpc # "try" /\ lpc' # "try"
    BY <1>5 DEF Poll, EventsDone, DispatchDone, Goto
  <2> QED BY <2>1, SameArmed DEF sched
<1>6. ASSUME NEW c \in Clients, EventsDead(c) PROVE Armed'
  <2>1. /\ lpc # "try" /\ lpc' # "try" /\ timers' = timers
        /\ DOMAIN slots' \subseteq DOMAIN slots /\ \A d \in DOMAIN slots' : slots'[d] = slots[d]
    BY <1>6 DEF EventsDead, WithoutSlot
  <2> QED BY <2>1 DEF Armed, ArmedFor, Blocked
<1>7. ASSUME NEW c \in Clients, EventsReady(c) PROVE Armed'
  <2>1. /\ lpc # "try" /\ lpc' = "try" /\ cur' = c /\ timers' = timers
        /\ slots' = [slots EXCEPT ![c] = Answered(slots[c])]
    BY <1>7 DEF EventsReady, Goto
  <2> QED BY <2>1 DEF Armed, ArmedFor, Blocked
<1>8. CASE DispatchTimer
  <2>1. PICK t \in timers : timers' = timers \ {t} /\ cur' = t[2]
    BY <1>8 DEF DispatchTimer
  <2>2. lpc # "try" /\ lpc' = "try" /\ slots' = slots
    BY <1>8 DEF DispatchTimer, Goto
  <2> QED BY <2>1, <2>2 DEF Armed, ArmedFor, Blocked
<1>9. CASE TryNothing
  <2>1. /\ UNCHANGED <<slots, timers>> /\ ~MayTry
        /\ lpc' = ret /\ ret # "try"
    BY <1>9 DEF TryNothing, Return, Goto, sched, TypeOK, TypeLoop
  <2> QED BY <2>1 DEF Armed, ArmedFor, Blocked, MayTry
<1>10. CASE TryLater
  <2>1. /\ MayTry /\ lpc' = ret /\ ret # "try"
        /\ slots' = [slots EXCEPT ![cur] = AfterRebase(slots[cur])]
        /\ timers' = timers \cup {<<Head(slots[cur].queue).ts, cur>>}
    BY <1>10 DEF TryLater, Return, Goto, Rearmed, TypeOK, TypeLoop
  <2>2. cur \in DOMAIN slots /\ slots[cur] \in Slot /\ slots[cur].queue # <<>>
    BY <1>0, <2>1, Trying
  <2>3. /\ Head(slots[cur].queue) \in Command
        /\ AfterRebase(slots[cur]).queue = slots[cur].queue
    BY <2>2, PoppedSlot
  <2>4. slots'[cur].queue = slots[cur].queue
    BY <2>1, <2>2, <2>3
  <2>5. ASSUME NEW d \in DOMAIN slots, d = cur PROVE ArmedFor(d)'
    <3> DEFINE t == <<Head(slots[cur].queue).ts, cur>>
    <3>1. t \in timers' /\ t[2] = d /\ t[1] = Head(slots[d].queue).ts
      BY <2>1, <2>5
    <3>2. Head(slots[d].queue).ts <= Head(slots[d].queue).ts
      BY <2>3, <2>5 DEF Command
    <3> HIDE DEF t
    <3>3. \E u \in timers' : u[2] = d /\ u[1] <= Head(slots'[d].queue).ts
      BY <2>4, <2>5, <3>1, <3>2
    <3> QED BY <3>3 DEF ArmedFor
  <2>6. ASSUME NEW d \in DOMAIN slots, d # cur PROVE ArmedFor(d)'
    <3>1. ArmedFor(d) /\ slots'[d] = slots[d] /\ timers \subseteq timers'
      BY <2>1, <2>6 DEF Armed
    <3> QED BY <2>6, <3>1 DEF ArmedFor, Blocked
  <2>7. DOMAIN slots' = DOMAIN slots
    BY <2>1
  <2> QED BY <2>5, <2>6, <2>7 DEF Armed
<1>11. CASE ConnectFails \/ FlushFails
  <2>1. /\ UNCHANGED <<lpc, cur, timers>> /\ lpc = "try"
        /\ DOMAIN slots' \subseteq DOMAIN slots /\ \A d \in DOMAIN slots' : slots'[d] = slots[d]
    BY <1>11 DEF ConnectFails, FlushFails, Executing, WithoutSlot, ctl
  <2> QED BY <2>1 DEF Armed, ArmedFor, Blocked
<1>12. CASE Finish
  <2>1. lpc # "try" /\ lpc' # "try"
    BY <1>12 DEF Finish, Goto
  <2>2. CASE ~Finishing
    BY <1>12, <2>1, <2>2, SameArmed DEF Finish
  <2>3. CASE Finishing
    <3>1. /\ DOMAIN slots' = DOMAIN slots
          /\ \A c \in DOMAIN slots : slots'[c] = Queued(slots[c], Cmd(c, last_ts, "end"))
          /\ timers' = timers \cup UNION {EndTimers(c) : c \in DOMAIN slots}
      BY <1>12, <2>3 DEF Finish
    <3>2. ASSUME NEW c \in DOMAIN slots PROVE ArmedFor(c)'
      <4> DEFINE x == Cmd(c, last_ts, "end")
                 s == slots[c]
                 q == slots'[c]
      <4>1. x \in Command /\ x.ts = last_ts /\ last_ts \in Nat
        BY <1>0, ReplayAssumption DEF Cmd, Command, Kind, TypeOK, TypeLoop, TypeSchedule
      <4>2. s \in Slot /\ s.queue \in Seq(Command)
        BY <1>0 DEF TypeSchedule, Slot
      <4>3. q = Queued(s, x)
        BY <3>1
      <4> HIDE DEF x, q, s
      <4>4. /\ q.queue = Append(s.queue, x) /\ q.conn = s.conn
            /\ q.awaiting = s.awaiting
        BY <4>1, <4>2, <4>3, QueuedSlot
      <4>5. CASE s.queue # <<>>
        <5>1. Head(q.queue) = Head(s.queue)
          BY <4>1, <4>2, <4>4, <4>5, HeadTailAppend
        <5>2. ArmedFor(c) /\ timers \subseteq timers'
          BY <3>1 DEF Armed
        <5> QED BY <2>1, <4>4, <4>5, <5>1, <5>2 DEF ArmedFor, Blocked, q, s
      <4>6. CASE s.queue = <<>> /\ ~Blocked(s)
        <5> DEFINE t == <<IF s.burst THEN 0 ELSE last_ts, c>>
        <5>1. t \in EndTimers(c)
          BY <4>6 DEF EndTimers, s
        <5>2. t \in timers' /\ t[2] = c /\ t[1] <= last_ts
          BY <3>1, <4>1, <5>1
        <5>3. Head(q.queue) = x
          BY <4>1, <4>2, <4>4, <4>6, HeadTailAppend
        <5> HIDE DEF t
        <5> QED BY <4>1, <5>2, <5>3 DEF ArmedFor, q
      <4>7. CASE Blocked(s)
        BY <4>4, <4>7 DEF ArmedFor, Blocked, q, s
      <4> QED BY <4>5, <4>6, <4>7
    <3> QED BY <3>1, <3>2 DEF Armed
  <2> QED BY <2>2, <2>3
<1>13. CASE Tick \/ (\E c \in Clients : Reply(c) \/ ServerDrops(c)) \/ UNCHANGED vars
  <2>1. UNCHANGED <<slots, timers, lpc, cur>>
    BY <1>13 DEF Tick, Reply, ServerDrops, vars, ctl, sched
  <2> QED BY <2>1, SameArmed
<1>14. CASE Elsewhere
  BY <1>5, <1>6, <1>7, <1>8, <1>9, <1>10, <1>11, <1>12, <1>13, <1>14 DEF Elsewhere
<1> QED BY <1>0, <1>1, <1>2, <1>3, <1>4, <1>14, Steps

----------------------------------------------------------------------------
(* The flow between the threads.                                           *)

\* A sequence is its head before its tail.
LEMMA FrontTail ==
  ASSUME NEW x \in Captured, NEW s \in Seq(Captured)
  PROVE  /\ <<x>> \o s \in Seq(Captured) /\ <<x>> \o s # <<>>
         /\ Head(<<x>> \o s) = x /\ Tail(<<x>> \o s) = s
<1> DEFINE f == <<x>>
           t == f \o s
<1>1. f \in Seq(Captured) /\ Len(f) = 1 /\ f[1] = x
  OBVIOUS
<1> HIDE DEF f
<1>2. /\ t \in Seq(Captured) /\ Len(t) = 1 + Len(s)
      /\ \A i \in 1 .. 1 + Len(s) : t[i] = IF i <= 1 THEN f[i] ELSE s[i - 1]
  <2>1. t \in Seq(Captured) /\ Len(t) = Len(f) + Len(s)
    BY <1>1, ConcatProperties
  <2>2. \A i \in 1 .. Len(f) + Len(s) : t[i] = IF i <= Len(f) THEN f[i] ELSE s[i - Len(f)]
    BY <1>1, ConcatProperties
  <2> QED BY <1>1, <2>1, <2>2
<1>3. Len(s) \in Nat
  BY LenProperties
<1> HIDE DEF t
<1>4. t # <<>>
  BY <1>2, <1>3, EmptySeq
<1>5. Head(t) = x
  BY <1>1, <1>2, <1>3
<1>6. /\ Tail(t) \in Seq(Captured) /\ Len(Tail(t)) = Len(s)
      /\ \A i \in 1 .. Len(s) : Tail(t)[i] = t[i + 1]
  <2>1. /\ Tail(t) \in Seq(Captured) /\ Len(Tail(t)) = Len(t) - 1
        /\ \A i \in 1 .. Len(Tail(t)) : Tail(t)[i] = t[i + 1]
    BY <1>2, <1>4, HeadTailProperties
  <2> QED BY <1>2, <1>3, <2>1
<1>7. \A i \in 1 .. Len(s) : Tail(t)[i] = s[i]
  <2>1. \A i \in 1 .. Len(s) : i + 1 \in 1 .. 1 + Len(s) /\ ~(i + 1 <= 1) /\ i + 1 - 1 = i
    BY <1>3
  <2> QED BY <1>2, <1>6, <2>1
<1>8. Tail(t) = s
  BY <1>6, <1>7, SeqEqual
<1> QED BY <1>2, <1>4, <1>5, <1>8 DEF t, f

\* A sequence is its first command before the others.
LEMMA HeadBeforeTail ==
  ASSUME NEW s \in Seq(Captured), s # <<>>
  PROVE  /\ Head(s) \in Captured /\ Tail(s) \in Seq(Captured)
         /\ <<Head(s)>> \o Tail(s) = s
<1> DEFINE u == <<Head(s)>> \o Tail(s)
           f == <<Head(s)>>
           r == Tail(s)
<1>1. /\ Head(s) \in Captured /\ r \in Seq(Captured) /\ Len(r) = Len(s) - 1
      /\ \A i \in 1 .. Len(r) : r[i] = s[i + 1]
  BY HeadTailProperties
<1>2. f \in Seq(Captured) /\ Len(f) = 1 /\ f[1] = Head(s)
  BY <1>1
<1>3. Len(s) \in Nat /\ Len(s) >= 1 /\ Head(s) = s[1]
  BY LenProperties, EmptySeq
<1> HIDE DEF f, r
<1>4. /\ f \o r \in Seq(Captured) /\ Len(f \o r) = Len(f) + Len(r)
      /\ \A i \in 1 .. Len(f) + Len(r) :
           (f \o r)[i] = IF i <= Len(f) THEN f[i] ELSE r[i - Len(f)]
  <2>1. f \in Seq(Captured) /\ r \in Seq(Captured)
    BY <1>1, <1>2
  <2> QED BY <2>1, ConcatProperties
<1>5. Len(f) + Len(r) = Len(s)
  BY <1>1, <1>2, <1>3
<1>6. ASSUME NEW i \in 1 .. Len(s) PROVE (f \o r)[i] = s[i]
  <2>1. CASE i = 1
    BY <1>2, <1>3, <1>4, <1>5, <2>1
  <2>2. CASE i # 1
    <3>1. i - 1 \in 1 .. Len(r) /\ i - 1 + 1 = i /\ ~(i <= 1)
      BY <1>1, <1>3, <2>2
    <3>2. (f \o r)[i] = r[i - 1]
      BY <1>2, <1>4, <1>5, <3>1
    <3>3. r[i - 1] = s[i - 1 + 1]
      BY <1>1, <3>1
    <3> QED BY <3>1, <3>2, <3>3
  <2> QED BY <2>1, <2>2
<1>7. f \o r = s
  BY <1>4, <1>5, <1>6, SeqEqual
<1> QED BY <1>1, <1>7 DEF f, r

\* The parts of the flow.
LEMMA FlowParts ==
  ASSUME Streams
  PROVE  /\ One(lookahead) \in Seq(Captured) /\ One(held) \in Seq(Captured)
         /\ chan \in Seq(Captured)
         /\ chan \o One(held) \in Seq(Captured)
         /\ One(lookahead) \o chan \in Seq(Captured)
         /\ Flow \in Seq(Captured)
         /\ Flow = One(lookahead) \o (chan \o One(held))
<1>1. <<>> \in Seq(Captured) /\ \A x \in Captured : <<x>> \in Seq(Captured)
  BY EmptySeq
<1>2. One(lookahead) \in Seq(Captured) /\ One(held) \in Seq(Captured)
  BY <1>1 DEF One, Streams
<1>3. chan \in Seq(Captured)
  BY DEF Streams
<1> QED BY <1>2, <1>3, ConcatProperties, ConcatAssociative DEF Flow

\* A command that is read goes behind the others.
LEMMA FlowRead ==
  ASSUME Streams, Closing, mpc = "read", lookahead' = lookahead,
         NEW x \in Captured, Push(x)
  PROVE  Flow' = Append(Flow, x)
<1> DEFINE a == One(lookahead)
           c == chan
<1>1. a \in Seq(Captured) /\ c \in Seq(Captured) /\ a \o c \in Seq(Captured)
  BY FlowParts
<1>2. One(held) = <<>> /\ x # None
  BY CapturedCommand DEF Closing, One
<1>3. Flow = a \o c
  BY <1>1, <1>2, ConcatEmptySeq DEF Flow
<1>4. <<x>> \in Seq(Captured)
  OBVIOUS
<1>5. (a \o c) \o <<x>> = a \o (c \o <<x>>)
  BY <1>1, <1>4, ConcatAssociative
<1>6. Append(a \o c, x) = (a \o c) \o <<x>> /\ Append(c, x) = c \o <<x>>
  BY <1>1, AppendIsConcat
<1>7. One(lookahead)' = a
  BY DEF One
<1> HIDE DEF a
<1>8. CASE ~Full
  <2>1. chan' = Append(c, x) /\ held' = held
    BY <1>8 DEF Push
  <2>2. One(held)' = <<>>
    BY <1>2, <2>1 DEF One
  <2>3. Flow' = (a \o Append(c, x)) \o <<>>
    BY <1>7, <2>1, <2>2 DEF Flow
  <2>4. a \o Append(c, x) = Append(a \o c, x)
    BY <1>5, <1>6
  <2>5. Append(a \o c, x) \in Seq(Captured)
    BY <1>1, AppendProperties
  <2> QED BY <1>3, <2>3, <2>4, <2>5, ConcatEmptySeq
<1>9. CASE Full
  <2>1. chan' = c /\ held' = x
    BY <1>9 DEF Push
  <2>2. One(held)' = <<x>>
    BY <1>2, <2>1 DEF One
  <2>3. Flow' = (a \o c) \o <<x>>
    BY <1>7, <2>1, <2>2 DEF Flow
  <2> QED BY <1>3, <1>6, <2>3
<1> QED BY <1>8, <1>9

\* Sending the held command, and taking one out of the channel, keep the order.
LEMMA FlowKept ==
  ASSUME Streams, Closing, SendHeld \/ Pauses
  PROVE  Flow' = Flow
<1> DEFINE a == One(lookahead)
           c == chan
           h == One(held)
<1>1. /\ a \in Seq(Captured) /\ c \in Seq(Captured) /\ h \in Seq(Captured)
      /\ a \o c \in Seq(Captured) /\ c \o h \in Seq(Captured)
      /\ Flow = (a \o c) \o h
  BY FlowParts DEF Flow
<1>2. CASE SendHeld
  <2>1. held # None /\ held \in Captured /\ h = <<held>>
    BY <1>2 DEF SendHeld, Closing, Streams, One
  <2>2. One(lookahead)' = a /\ chan' = Append(c, held) /\ One(held)' = <<>>
    BY <1>2 DEF SendHeld, rcv, One
  <2> HIDE DEF a, c, h
  <2>3. Append(c, held) = c \o h
    BY <1>1, <2>1, AppendIsConcat
  <2>4. Flow' = (a \o (c \o h)) \o <<>>
    BY <2>2, <2>3 DEF Flow
  <2>5. a \o (c \o h) \in Seq(Captured) /\ a \o (c \o h) = (a \o c) \o h
    BY <1>1, ConcatProperties, ConcatAssociative
  <2> QED BY <1>1, <2>4, <2>5, ConcatEmptySeq
<1>3. CASE Pauses
  <2>1. held' = held
    BY <1>3 DEF Pauses, mgr
  <2>2. CASE UNCHANGED <<lookahead, chan>>
    BY <2>1, <2>2 DEF Flow, One
  <2>3. CASE /\ lookahead = None /\ c # <<>> /\ lookahead' = Head(c)
             /\ chan' = Tail(c)
    <3>1. Head(c) \in Captured /\ Tail(c) \in Seq(Captured) /\ <<Head(c)>> \o Tail(c) = c
      BY <1>1, <2>3, HeadBeforeTail
    <3>2. a = <<>> /\ One(lookahead)' = <<Head(c)>> /\ One(held)' = h
      BY <2>1, <2>3, <3>1, CapturedCommand DEF One
    <3>3. Flow' = (<<Head(c)>> \o Tail(c)) \o h
      BY <2>3, <3>2 DEF Flow
    <3>4. a \o c = c
      BY <1>1, <3>2, ConcatEmptySeq
    <3> QED BY <1>1, <3>1, <3>3, <3>4
  <2> QED BY <1>3, <2>2, <2>3 DEF Pauses
<1> QED BY <1>2, <1>3

\* What a pull enqueues is the first command of the flow.
LEMMA FlowPulled ==
  ASSUME Streams, Closing, NEW cmd \in Captured, Pulls(cmd)
  PROVE  /\ ~ended /\ Flow # <<>> /\ Head(Flow) = cmd /\ Flow' = Tail(Flow)
         /\ UNCHANGED <<emitted, sent, ended>>
<1> DEFINE a == One(lookahead)
           c == chan
           h == One(held)
<1>1. /\ a \in Seq(Captured) /\ c \in Seq(Captured) /\ h \in Seq(Captured)
      /\ c \o h \in Seq(Captured)
      /\ Flow = a \o (c \o h)
  BY FlowParts
<1>2. One(held)' = h /\ cmd # None /\ UNCHANGED <<emitted, sent, ended>>
  BY CapturedCommand DEF Pulls, mgr, One
<1>3. ~ended
  BY <1>2 DEF Closing, Pulls
<1>4. CASE lookahead = cmd /\ lookahead' = None /\ chan' = chan
  <2>1. a = <<cmd>> /\ One(lookahead)' = <<>>
    BY <1>2, <1>4 DEF One
  <2>2. Flow' = (<<>> \o c) \o h
    BY <1>2, <1>4, <2>1 DEF Flow
  <2>3. Flow' = c \o h
    BY <1>1, <2>2, ConcatEmptySeq
  <2> QED BY <1>1, <1>2, <1>3, <2>1, <2>3, FrontTail
<1>5. CASE /\ lookahead = None /\ c # <<>> /\ Head(c) = cmd /\ chan' = Tail(c)
           /\ lookahead' = lookahead
  <2>1. Tail(c) \in Seq(Captured) /\ <<cmd>> \o Tail(c) = c
    BY <1>1, <1>5, HeadBeforeTail
  <2>2. a = <<>> /\ One(lookahead)' = <<>>
    BY <1>5 DEF One
  <2>3. Flow = c \o h
    BY <1>1, <2>2, ConcatEmptySeq
  <2>4. <<cmd>> \in Seq(Captured)
    OBVIOUS
  <2>5. Flow = <<cmd>> \o (Tail(c) \o h)
    BY <1>1, <2>1, <2>3, <2>4, ConcatAssociative
  <2>6. Flow' = (<<>> \o Tail(c)) \o h
    BY <1>2, <1>5, <2>2 DEF Flow
  <2>7. Flow' = Tail(c) \o h
    BY <2>1, <2>6, ConcatEmptySeq
  <2>8. Tail(c) \o h \in Seq(Captured)
    BY <1>1, <2>1, ConcatProperties
  <2> QED BY <1>2, <1>3, <2>5, <2>7, <2>8, FrontTail
<1> QED BY <1>4, <1>5 DEF Pulls, link

----------------------------------------------------------------------------
(* The queues of the slots.                                                *)

\* What is known of a slot and its client.
LEMMA SlotFacts ==
  ASSUME TypeOK, Streams, Queues, NEW c \in DOMAIN slots
  PROVE  /\ c \in Clients /\ slots[c] \in Slot /\ QueueOK(c) /\ StreamOK(c)
         /\ slots[c].queue \in Seq(Command) /\ Len(slots[c].queue) \in Nat
         /\ DOMAIN slots[c].queue = 1 .. Len(slots[c].queue)
         /\ emitted[c] \in Seq(Command) /\ Len(emitted[c]) \in Nat
         /\ DOMAIN emitted[c] = 1 .. Len(emitted[c])
         /\ sent[c] \in Seq(Command) /\ Len(sent[c]) \in Nat
         /\ Done(c) \in Nat /\ (slots[c].conn => Done(c) >= 1)
         /\ slots[c].conn \in BOOLEAN
<1>1. c \in Clients /\ slots[c] \in Slot /\ QueueOK(c) /\ StreamOK(c)
  BY DEF TypeOK, TypeSchedule, Streams, Queues
<1>2. slots[c].queue \in Seq(Command) /\ slots[c].conn \in BOOLEAN
  BY <1>1 DEF Slot
<1>3. emitted[c] \in Seq(Command) /\ sent[c] \in Seq(Command)
  BY <1>1 DEF TypeOK, TypeManager, TypeServer
<1>4. Done(c) \in Nat /\ (slots[c].conn => Done(c) >= 1)
  BY <1>3, LenProperties DEF Done
<1> QED BY <1>1, <1>2, <1>3, <1>4, LenProperties

\* The first command of a queue.
LEMMA FirstOfQueue ==
  ASSUME TypeOK, Streams, Queues, NEW c \in DOMAIN slots, slots[c].queue # <<>>
  PROVE  LET h == Head(slots[c].queue) IN
         /\ h = slots[c].queue[1] /\ Len(slots[c].queue) >= 1
         /\ h.kind = "end" => ended /\ Len(slots[c].queue) = 1 /\ slots[c].conn
         /\ h.kind # "end" =>
              Done(c) + 1 <= Len(emitted[c]) /\ h = emitted[c][Done(c) + 1]
         /\ h.kind = "connect" => ~slots[c].conn /\ Done(c) = 0 /\ sent[c] = <<>>
         /\ h.kind \in {"block", "plain", "term"} => slots[c].conn
<1> DEFINE q == slots[c].queue
           h == Head(q)
           e == emitted[c]
<1>1. /\ QueueOK(c) /\ StreamOK(c) /\ q \in Seq(Command) /\ Len(q) \in Nat
      /\ DOMAIN q = 1 .. Len(q) /\ DOMAIN e = 1 .. Len(e) /\ Len(e) \in Nat
      /\ Done(c) \in Nat /\ slots[c].conn \in BOOLEAN
      /\ (slots[c].conn => Done(c) >= 1)
  BY SlotFacts
<1>2. h = q[1] /\ Len(q) >= 1 /\ 1 \in DOMAIN q
  BY <1>1, EmptySeq
<1> HIDE DEF h
<1>3. /\ \/ ended /\ 1 = Len(q) /\ h.kind = "end"
         \/ Done(c) + 1 <= Len(e) /\ h = e[Done(c) + 1]
      /\ ~slots[c].conn => sent[c] = <<>> /\ e # <<>> /\ h = e[1]
  BY <1>1, <1>2 DEF QueueOK
<1>4. ASSUME NEW i \in 1 .. Len(e)
      PROVE  e[i].kind # "end" /\ (e[i].kind = "connect" <=> i = 1)
  BY <1>1 DEF StreamOK, Captured
<1>5. ~slots[c].conn => h.kind = "connect"
  <2>1. e # <<>> => 1 \in 1 .. Len(e)
    BY <1>1, SlotFacts, EmptySeq
  <2> QED BY <1>3, <1>4, <2>1
<1>6. h.kind = "end" => ended /\ Len(q) = 1 /\ slots[c].conn
  <2>1. Done(c) + 1 <= Len(e) => Done(c) + 1 \in 1 .. Len(e)
    BY <1>1
  <2> QED BY <1>3, <1>4, <1>5, <2>1
<1>7. h.kind # "end" => Done(c) + 1 <= Len(e) /\ h = e[Done(c) + 1]
  BY <1>3
<1>8. h.kind = "connect" => ~slots[c].conn /\ Done(c) = 0 /\ sent[c] = <<>>
  <2> SUFFICES ASSUME h.kind = "connect"
               PROVE  ~slots[c].conn /\ Done(c) = 0 /\ sent[c] = <<>>
    OBVIOUS
  <2>1. Done(c) + 1 \in 1 .. Len(e) /\ h = e[Done(c) + 1]
    BY <1>1, <1>7
  <2>2. Done(c) + 1 = 1
    BY <1>4, <2>1
  <2> QED BY <1>1, <1>3, <2>2
<1>9. h.kind \in {"block", "plain", "term"} => slots[c].conn
  BY <1>5
<1> QED BY <1>2, <1>6, <1>7, <1>8, <1>9 DEF h

\* The next command of a client is of its captured stream, and not its connect.
LEMMA NextIndex ==
  ASSUME TypeOK, Streams, Queues, ~ended, NEW c \in DOMAIN slots
  PROVE  LET m == Done(c) + Len(slots[c].queue) + 1 IN
         m \in 1 .. Len(emitted[c]) + 1 /\ m # 1
<1> DEFINE q == slots[c].queue
           n == Len(q)
<1>1. /\ QueueOK(c) /\ q \in Seq(Command) /\ n \in Nat /\ Len(emitted[c]) \in Nat
      /\ DOMAIN q = 1 .. n
      /\ Done(c) \in Nat /\ (slots[c].conn => Done(c) >= 1)
  BY SlotFacts
<1>2. CASE q = <<>>
  <2>1. slots[c].conn
    BY <1>1, <1>2 DEF QueueOK
  <2>2. n = 0 /\ Done(c) <= Len(emitted[c]) /\ Done(c) >= 1
    BY <1>1, <1>2, <2>1 DEF QueueOK
  <2> QED BY <1>1, <2>2
<1>3. CASE q # <<>>
  <2>1. n >= 1 /\ n \in DOMAIN q
    BY <1>1, <1>3, EmptySeq
  <2>2. Done(c) + n <= Len(emitted[c])
    BY <1>1, <2>1 DEF QueueOK
  <2> HIDE DEF n
  <2> QED BY <1>1, <2>1, <2>2 DEF n
<1> QED BY <1>2, <1>3

\* Steps that change neither queues nor streams.
LEMMA SameQueues ==
  ASSUME Queues, UNCHANGED <<ended, emitted, sent>>, DOMAIN slots' \subseteq DOMAIN slots,
         \A d \in DOMAIN slots' :
           slots'[d].queue = slots[d].queue /\ slots'[d].conn = slots[d].conn
  PROVE  Queues'
BY DEF Queues, QueueOK, Done

\* A step that leaves the queues and the flow alone.
LEMMA SameUnderWay ==
  ASSUME UnderWay, UNCHANGED <<ended, emitted, sent>>, Flow' = Flow,
         DOMAIN slots' = DOMAIN slots,
         \A d \in DOMAIN slots' :
           slots'[d].queue = slots[d].queue /\ slots'[d].conn = slots[d].conn
  PROVE  UnderWay'
<1>1. SUFFICES ASSUME ~ended, NEW c \in Clients, Continues(c) PROVE Continues(c)'
  BY DEF UnderWay
<1>2. c \in DOMAIN slots => Done(c)' = Done(c)
  BY DEF Done
<1> QED BY <1>1, <1>2 DEF Continues

\* A slot goes: what is under way to its client is of no use.
LEMMA SlotGone ==
  ASSUME TypeOK, Streams, Queues, UnderWay, NEW c \in DOMAIN slots,
         UNCHANGED <<ended, emitted, sent>>, Flow' = Flow, slots' = WithoutSlot(c)
  PROVE  Queues' /\ UnderWay'
<1>1. DOMAIN slots' = DOMAIN slots \ {c} /\ \A d \in DOMAIN slots' : slots'[d] = slots[d]
  BY DEF WithoutSlot
<1>2. Queues'
  BY <1>1, SameQueues
<1>3. ASSUME ~ended, NEW d \in Clients PROVE Continues(d)'
  <2>1. Continues(d)
    BY <1>3 DEF UnderWay
  <2>2. CASE d = c
    <3> DEFINE m == Done(c) + Len(slots[c].queue) + 1
    <3>1. m \in 1 .. Len(emitted[c]) + 1 /\ m # 1
      BY <1>3, NextIndex
    <3>2. Embeds(Flow, emitted[c], c, m)
      BY <2>1, <2>2 DEF Continues
    <3> HIDE DEF m
    <3>3. \E i \in 1 .. Len(emitted[c]) + 1 :
            Embeds(Flow, emitted[c], c, i) /\ (i = 1 => sent[c] = <<>>)
      BY <3>1, <3>2
    <3> QED BY <1>1, <2>2, <3>3 DEF Continues
  <2>3. CASE d # c
    <3>1. d \in DOMAIN slots => Done(d)' = Done(d) /\ d \in DOMAIN slots'
      BY <1>1, <2>3 DEF Done
    <3> QED BY <1>1, <2>1, <2>3, <3>1 DEF Continues
  <2> QED BY <2>2, <2>3
<1>4. UnderWay'
  BY <1>3 DEF UnderWay
<1> QED BY <1>2, <1>4

\* The manager reads an event.
LEMMA QueuesRead ==
  ASSUME TypeOK, Streams, Closing, Queues, UnderWay, Read
  PROVE  Queues' /\ UnderWay'
<1>1. PICK k \in Clients, x \in Captured :
        /\ mpc = "read" /\ Push(x) /\ x.id = k
        /\ emitted' = [emitted EXCEPT ![k] = Append(@, x)]
  BY Reading
<1>2. UNCHANGED <<slots, sent, ended, lookahead>>
  BY DEF Read, sched, rcv
<1>3. Flow' = Append(Flow, x) /\ Flow \in Seq(Captured)
  BY <1>1, <1>2, FlowRead, FlowParts
<1>4. /\ emitted[k] \in Seq(Command) /\ x \in Command /\ Len(emitted[k]) \in Nat
      /\ emitted'[k] = Append(emitted[k], x)
      /\ \A c \in Clients \ {k} : emitted'[c] = emitted[c]
  BY <1>1, CapturedCommand, LenProperties DEF TypeOK, TypeManager
<1>5. /\ Len(emitted'[k]) = Len(emitted[k]) + 1
      /\ \A i \in 1 .. Len(emitted[k]) : emitted'[k][i] = emitted[k][i]
  BY <1>4, AppendProperties
<1>6. \A c \in DOMAIN slots : Done(c)' = Done(c)
  BY <1>2 DEF Done
<1>7. ASSUME NEW c \in DOMAIN slots PROVE QueueOK(c)'
  <2>1. /\ QueueOK(c) /\ DOMAIN slots[c].queue = 1 .. Len(slots[c].queue)
        /\ Len(slots[c].queue) \in Nat
        /\ Done(c) \in Nat /\ c \in Clients /\ emitted[c] \in Seq(Command)
    BY SlotFacts
  <2>2. CASE c # k
    <3>1. emitted'[c] = emitted[c]
      BY <1>4, <2>1, <2>2
    <3> QED BY <1>2, <1>6, <2>1, <3>1 DEF QueueOK
  <2>3. CASE c = k
    <3>1. ASSUME NEW i \in DOMAIN slots[c].queue
          PROVE  \/ ended /\ i = Len(slots[c].queue) /\ slots[c].queue[i].kind = "end"
                 \/ /\ Done(c) + i <= Len(emitted'[c])
                    /\ slots[c].queue[i] = emitted'[c][Done(c) + i]
      <4>1. CASE ended /\ i = Len(slots[c].queue) /\ slots[c].queue[i].kind = "end"
        BY <4>1
      <4>2. CASE /\ Done(c) + i <= Len(emitted[c])
                 /\ slots[c].queue[i] = emitted[c][Done(c) + i]
        <5>1. Done(c) + i \in 1 .. Len(emitted[c])
          BY <1>4, <2>1, <2>3, <4>2
        <5>2. Done(c) + i <= Len(emitted'[c])
          BY <1>4, <1>5, <2>1, <2>3, <5>1
        <5> QED BY <1>5, <2>3, <4>2, <5>1, <5>2
      <4> QED BY <2>1, <4>1, <4>2 DEF QueueOK
    <3>2. ~slots[c].conn => emitted[c] # <<>> /\ slots[c].queue[1] = emitted[c][1]
                            /\ sent[c] = <<>> /\ slots[c].queue # <<>>
      BY <2>1 DEF QueueOK
    <3>3. emitted[c] # <<>> => emitted'[c] # <<>> /\ emitted'[c][1] = emitted[c][1]
      <4>1. emitted'[c] # <<>>
        BY <1>4, <2>3, AppendProperties
      <4>2. emitted[c] # <<>> => 1 \in 1 .. Len(emitted[c])
        BY <1>4, <2>3, EmptySeq
      <4> QED BY <1>5, <2>3, <4>1, <4>2
    <3>4. slots[c].conn => Done(c) <= Len(emitted'[c])
      BY <1>4, <1>5, <2>1, <2>3 DEF QueueOK
    <3> QED BY <1>2, <1>6, <3>1, <3>2, <3>3, <3>4 DEF QueueOK
  <2> QED BY <2>2, <2>3
<1>8. ASSUME ~ended, NEW c \in Clients PROVE Continues(c)'
  <2>1. Continues(c)
    BY <1>8 DEF UnderWay
  <2>2. CASE c # k
    <3>1. emitted'[c] = emitted[c] /\ x.id # c
      BY <1>1, <1>4, <2>2
    <3>2. \A m : Embeds(Flow, emitted[c], c, m) => Embeds(Flow', emitted[c], c, m)
      BY <1>3, <3>1, AppendOther
    <3> QED BY <1>2, <1>6, <2>1, <3>1, <3>2 DEF Continues
  <2>3. CASE c = k
    <3>1. \A m \in 1 .. Len(emitted[c]) + 1 :
            Embeds(Flow, emitted[c], c, m) => Embeds(Flow', emitted'[c], c, m)
      BY <1>1, <1>3, <1>4, <2>3, AppendOwn
    <3>2. CASE c \in DOMAIN slots
      <4>1. Done(c) + Len(slots[c].queue) + 1 \in 1 .. Len(emitted[c]) + 1
        BY <1>8, <3>2, NextIndex
      <4> QED BY <1>2, <1>6, <2>1, <3>1, <3>2, <4>1 DEF Continues
    <3>3. CASE c \notin DOMAIN slots
      <4>1. PICK m \in 1 .. Len(emitted[c]) + 1 :
              Embeds(Flow, emitted[c], c, m) /\ (m = 1 => sent[c] = <<>>)
        BY <2>1, <3>3 DEF Continues
      <4>2. m \in 1 .. Len(emitted'[c]) + 1
        BY <1>4, <1>5, <2>3
      <4> QED BY <1>2, <3>1, <3>3, <4>1, <4>2 DEF Continues
    <3> QED BY <3>2, <3>3
  <2> QED BY <2>2, <2>3
<1>9. Queues'
  BY <1>2, <1>7 DEF Queues
<1>10. UnderWay'
  BY <1>2, <1>8 DEF UnderWay
<1> QED BY <1>9, <1>10

\* The command pulled: it is the next one of its client.
LEMMA NextPulled ==
  ASSUME TypeOK, Streams, Closing, Queues, UnderWay, NEW cmd \in Captured, Pulls(cmd)
  PROVE  /\ cmd.id \in Clients
         /\ \A d \in Clients \ {cmd.id}, m \in Nat \ {0} :
              Embeds(Flow, emitted[d], d, m) => Embeds(Flow', emitted[d], d, m)
         /\ \A m \in 1 .. Len(emitted[cmd.id]) + 1 :
              Embeds(Flow, emitted[cmd.id], cmd.id, m) =>
                /\ m <= Len(emitted[cmd.id]) /\ cmd = emitted[cmd.id][m]
                /\ cmd.kind = "connect" <=> m = 1
                /\ Embeds(Flow', emitted[cmd.id], cmd.id, m + 1)
<1> DEFINE k == cmd.id
<1>1. k \in Clients
  BY DEF Captured
<1>2. Flow \in Seq(Captured) /\ Flow # <<>> /\ Head(Flow) = cmd /\ Flow' = Tail(Flow)
  BY FlowParts, FlowPulled
<1>3. \A d \in Clients : /\ Len(emitted[d]) \in Nat /\ StreamOK(d)
                         /\ DOMAIN emitted[d] = 1 .. Len(emitted[d])
  BY LenProperties DEF TypeOK, TypeManager, Streams
<1>4. ASSUME NEW d \in Clients \ {k}, NEW m \in Nat \ {0}, Embeds(Flow, emitted[d], d, m)
      PROVE  Embeds(Flow', emitted[d], d, m)
  <2>1. \A i \in m .. Len(emitted[d]) : i \in DOMAIN emitted[d]
    BY <1>3
  <2>2. \A i \in m .. Len(emitted[d]) : emitted[d][i].id = d
    BY <1>3, <2>1 DEF StreamOK
  <2> QED BY <1>2, <1>4, <2>2, TailOther
<1>5. ASSUME NEW m \in 1 .. Len(emitted[k]) + 1, Embeds(Flow, emitted[k], k, m)
      PROVE  /\ m <= Len(emitted[k]) /\ cmd = emitted[k][m]
             /\ cmd.kind = "connect" <=> m = 1
             /\ Embeds(Flow', emitted[k], k, m + 1)
  <2>1. /\ m <= Len(emitted[k]) /\ cmd = emitted[k][m]
        /\ Embeds(Flow', emitted[k], k, m + 1)
    BY <1>1, <1>2, <1>3, <1>5, TailOwn
  <2>2. m \in DOMAIN emitted[k]
    BY <1>1, <1>3, <2>1
  <2>3. cmd.kind = "connect" <=> m = 1
    BY <1>1, <1>3, <2>1, <2>2 DEF StreamOK
  <2> QED BY <2>1, <2>3
<1> QED BY <1>1, <1>4, <1>5

\* The loop enqueues the command that the client's queue lacks next.
LEMMA QueuesPull ==
  ASSUME TypeOK, Streams, Closing, Queues, UnderWay, NEW cmd \in Captured, Pulls(cmd)
  PROVE  Queues' /\ UnderWay'
<1> DEFINE k == cmd.id
           e == emitted[k]
           s == SlotOf(k)
<1>1. ~ended /\ UNCHANGED <<emitted, sent, ended>> /\ Enqueue(cmd) /\ cmd \in Command
  BY FlowPulled, CapturedCommand DEF Pulls
<1>2. k \in Clients /\ Len(e) \in Nat
  BY NextPulled, LenProperties DEF TypeOK, TypeManager
<1>3. \A d \in Clients : Continues(d)
  BY <1>1 DEF UnderWay
\* The clients whose slots do not change.
<1>4. ASSUME NEW d \in Clients, d # k, d \in DOMAIN slots' <=> d \in DOMAIN slots,
             d \in DOMAIN slots => slots'[d] = slots[d]
      PROVE  Continues(d)' /\ (d \in DOMAIN slots => QueueOK(d)')
  <2>1. d \in DOMAIN slots => Done(d)' = Done(d)
    BY <1>1, <1>4 DEF Done
  <2>2. d \in DOMAIN slots => QueueOK(d)'
    BY <1>1, <1>4, <2>1 DEF QueueOK, Queues
  <2>3. \A m \in Nat \ {0} :
          Embeds(Flow, emitted[d], d, m) => Embeds(Flow', emitted[d], d, m)
    BY <1>4, NextPulled
  <2>4. CASE d \in DOMAIN slots
    <3>1. Done(d) + Len(slots[d].queue) + 1 \in Nat \ {0}
      BY <2>4, SlotFacts
    <3> QED BY <1>1, <1>3, <1>4, <2>1, <2>2, <2>3, <2>4, <3>1 DEF Continues
  <2>5. CASE d \notin DOMAIN slots
    <3>1. PICK m \in 1 .. Len(emitted[d]) + 1 :
            Embeds(Flow, emitted[d], d, m) /\ (m = 1 => sent[d] = <<>>)
      BY <1>3, <2>5 DEF Continues
    <3> QED BY <1>1, <1>4, <2>3, <2>5, <3>1 DEF Continues
  <2> QED BY <2>4, <2>5, <2>2
\* The command is dropped.
<1>5. CASE k \notin DOMAIN slots /\ cmd.kind # "connect" /\ UNCHANGED <<slots, timers>>
  <2>1. PICK m \in 1 .. Len(e) + 1 :
          Embeds(Flow, e, k, m) /\ (m = 1 => sent[k] = <<>>)
    BY <1>2, <1>3, <1>5 DEF Continues
  <2>2. m <= Len(e) /\ m # 1 /\ Embeds(Flow', e, k, m + 1)
    BY <1>5, <2>1, NextPulled
  <2>3. m + 1 \in 1 .. Len(e) + 1 /\ m + 1 # 1
    BY <1>2, <2>2
  <2>4. Continues(k)'
    BY <1>1, <1>5, <2>2, <2>3 DEF Continues
  <2>5. \A d \in Clients : Continues(d)'
    BY <1>4, <1>5, <2>4
  <2>6. Queues'
    BY <1>1, <1>5, SameQueues
  <2> QED BY <2>5, <2>6 DEF UnderWay
\* The command goes behind the others of its client.
<1>6. CASE /\ k \in DOMAIN slots \/ cmd.kind = "connect"
           /\ DOMAIN slots' = DOMAIN slots \cup {k}
           /\ s \in Slot
           /\ slots'[k] = Queued(s, cmd)
           /\ \A d \in DOMAIN slots : d # k => slots'[d] = slots[d]
  <2> DEFINE q == s.queue
  <2>1. q \in Seq(Command) /\ Len(q) \in Nat /\ DOMAIN q = 1 .. Len(q)
    BY <1>6, LenProperties DEF Slot
  <2>2. slots'[k].queue = Append(q, cmd) /\ slots'[k].conn = s.conn
    <3>1. s \in Slot
      BY <1>6
    <3>2. Queued(s, cmd).queue = Append(s.queue, cmd) /\ Queued(s, cmd).conn = s.conn
      BY <1>1, <3>1, QueuedSlot
    <3> HIDE DEF s, k
    <3> QED BY <1>6, <3>2
  <2>3. /\ Len(Append(q, cmd)) = Len(q) + 1 /\ Append(q, cmd) # <<>>
        /\ \A i \in 1 .. Len(q) : Append(q, cmd)[i] = q[i]
        /\ Append(q, cmd)[Len(q) + 1] = cmd
        /\ DOMAIN Append(q, cmd) = 1 .. Len(q) + 1
    BY <1>1, <2>1, AppendProperties, LenProperties
  <2> DEFINE done == IF s.conn THEN Len(sent[k]) + 1 ELSE 0
  <2>4. Done(k)' = done
    BY <1>1, <2>2 DEF Done
  <2>5. /\ done \in Nat /\ (s.conn => done <= Len(e))
        /\ \A i \in 1 .. Len(q) : done + i <= Len(e) /\ q[i] = e[done + i]
        /\ ~s.conn => /\ sent[k] = <<>>
                      /\ q # <<>> => e # <<>> /\ q[1] = e[1]
                      /\ q = <<>> => k \notin DOMAIN slots
        /\ done + Len(q) + 1 \in 1 .. Len(e) + 1
        /\ Embeds(Flow, e, k, done + Len(q) + 1)
    <3>1. CASE k \in DOMAIN slots
      <4>1. s = slots[k] /\ done = Done(k)
        BY <3>1 DEF SlotOf, Done
      <4>2. QueueOK(k) /\ Done(k) \in Nat
        BY <3>1, SlotFacts
      <4>3. done + Len(q) + 1 \in 1 .. Len(e) + 1
        BY <1>1, <3>1, <4>1, NextIndex
      <4>4. Embeds(Flow, e, k, done + Len(q) + 1)
        BY <1>2, <1>3, <3>1, <4>1 DEF Continues
      <4> HIDE DEF done, s
      <4> QED BY <1>1, <2>1, <3>1, <4>1, <4>2, <4>3, <4>4 DEF QueueOK
    <3>2. CASE k \notin DOMAIN slots
      <4>1. s = NewSlot /\ q = <<>> /\ done = 0 /\ ~s.conn /\ Len(q) = 0
        BY <3>2, NewSlotOK DEF SlotOf
      <4>2. PICK m \in 1 .. Len(e) + 1 :
              Embeds(Flow, e, k, m) /\ (m = 1 => sent[k] = <<>>)
        BY <1>2, <1>3, <3>2 DEF Continues
      <4>3. m = 1
        BY <1>6, <3>2, <4>2, NextPulled
      <4> HIDE DEF done, s, q
      <4> QED BY <1>2, <3>2, <4>1, <4>2, <4>3
    <3> QED BY <3>1, <3>2
  <2> HIDE DEF done
  <2>6. /\ done + Len(q) + 1 <= Len(e) /\ cmd = e[done + Len(q) + 1]
        /\ Embeds(Flow', e, k, done + Len(q) + 1 + 1)
        /\ cmd.kind = "connect" <=> done + Len(q) + 1 = 1
    BY <2>5, NextPulled
  <2>7. ASSUME NEW i \in 1 .. Len(q) + 1
        PROVE  done + i <= Len(e) /\ Append(q, cmd)[i] = e[done + i]
    <3>1. CASE i = Len(q) + 1
      <4>1. done + i = done + Len(q) + 1
        BY <2>1, <2>5, <3>1
      <4> QED BY <2>3, <2>6, <3>1, <4>1
    <3>2. CASE i \in 1 .. Len(q)
      BY <2>3, <2>5, <3>2
    <3> QED BY <2>1, <3>1, <3>2
  <2>8. ~s.conn => e # <<>> /\ Append(q, cmd)[1] = e[1]
    <3>1. CASE ~s.conn /\ q # <<>>
      <4>1. 1 \in 1 .. Len(q)
        BY <2>1, <3>1, EmptySeq
      <4> QED BY <2>3, <2>5, <3>1, <4>1
    <3>2. CASE ~s.conn /\ q = <<>>
      <4>1. cmd.kind = "connect" /\ Len(q) = 0
        BY <1>6, <2>5, <3>2
      <4>2. done + Len(q) + 1 = 1
        BY <2>6, <4>1
      <4>3. cmd = e[1] /\ 1 <= Len(e)
        BY <2>6, <4>2
      <4>4. e # <<>>
        BY <4>3, EmptySeq
      <4> QED BY <2>3, <4>1, <4>3, <4>4
    <3> QED BY <3>1, <3>2
  <2>9. QueueOK(k)'
    BY <1>1, <2>2, <2>3, <2>4, <2>5, <2>7, <2>8 DEF QueueOK
  <2>10. Continues(k)'
    <3>1. done + (Len(q) + 1) + 1 = done + Len(q) + 1 + 1
      BY <2>1, <2>5
    <3> QED BY <1>1, <1>6, <2>2, <2>3, <2>4, <2>6, <3>1 DEF Continues
  <2>11. \A d \in Clients \ {k} : Continues(d)' /\ (d \in DOMAIN slots => QueueOK(d)')
    BY <1>4, <1>6
  <2>12. \A d \in Clients : Continues(d)'
    BY <2>10, <2>11
  <2>13. \A d \in DOMAIN slots' : QueueOK(d)'
    <3>1. DOMAIN slots \subseteq Clients
      BY DEF TypeOK, TypeSchedule
    <3> QED BY <1>6, <2>9, <2>11, <3>1
  <2> QED BY <2>12, <2>13 DEF UnderWay, Queues
<1>7. TypeSchedule
  BY DEF TypeOK
<1> QED BY <1>1, <1>5, <1>6, <1>7, Enqueuing

\* A command is executed: its slot is one command further.
LEMMA QueuesExecute ==
  ASSUME TypeOK, Streams, Queues, UnderWay, InOrder, NEW n \in Slot, Succeeds(n)
  PROVE  Queues' /\ UnderWay' /\ InOrder'
<1> DEFINE c == cur
           s == slots[cur]
           q == s.queue
           e == emitted[cur]
           h == Head(q)
<1>1. /\ UNCHANGED <<mgr, link, ctl, rcv>> /\ MayTry
      /\ slots' = [slots EXCEPT ![c] = n] /\ n.queue = Tail(q)
  BY SucceedsFrame DEF Succeeds, Executes
<1>2. UNCHANGED <<ended, emitted>> /\ Flow' = Flow
  BY <1>1 DEF mgr, link, rcv, Flow, One
<1>3. c \in Clients /\ c \in DOMAIN slots /\ s \in Slot /\ q # <<>>
  BY <1>1, Trying DEF TypeOK
<1>4. /\ QueueOK(c) /\ q \in Seq(Command) /\ Len(q) \in Nat /\ DOMAIN q = 1 .. Len(q)
      /\ e \in Seq(Command) /\ Len(e) \in Nat
      /\ sent[c] \in Seq(Command) /\ Len(sent[c]) \in Nat
      /\ Done(c) \in Nat /\ s.conn \in BOOLEAN
  BY <1>3, SlotFacts
<1>5. /\ h = q[1] /\ Len(q) >= 1
      /\ h.kind = "end" => ended /\ Len(q) = 1 /\ s.conn
      /\ h.kind # "end" => Done(c) + 1 <= Len(e) /\ h = e[Done(c) + 1]
      /\ h.kind = "connect" => ~s.conn /\ Done(c) = 0 /\ sent[c] = <<>>
      /\ h.kind \in {"block", "plain", "term"} => s.conn
      /\ h \in Command
  BY <1>3, FirstOfQueue, PoppedSlot
<1>6. /\ Tail(q) \in Seq(Command) /\ Len(Tail(q)) = Len(q) - 1
      /\ DOMAIN Tail(q) = 1 .. Len(q) - 1
      /\ \A i \in 1 .. Len(q) - 1 : Tail(q)[i] = q[i + 1]
  BY <1>3, <1>4, HeadTailProperties, LenProperties
<1> DEFINE done2 == IF n.conn THEN Len(sent'[c]) + 1 ELSE 0
<1>7. /\ n.conn
      /\ \/ h.kind = "connect" /\ sent' = sent
         \/ /\ h.kind \in {"block", "plain", "term"}
            /\ sent' = [sent EXCEPT ![c] = Append(@, h)]
         \/ h.kind = "end" /\ sent' = sent
  BY <1>5 DEF Succeeds, Executing
<1>70. \A d \in Clients : d # c => sent'[d] = sent[d]
  BY <1>7 DEF TypeOK, TypeServer
<1>8. /\ h.kind # "end" => done2 = Done(c) + 1
      /\ h.kind = "end" => done2 = Done(c)
  <2>1. CASE h.kind = "connect"
    <3>1. Len(sent'[c]) = 0
      BY <1>5, <1>7, <2>1
    <3> QED BY <1>5, <1>7, <2>1, <3>1
  <2>2. CASE h.kind \in {"block", "plain", "term"}
    <3>1. sent'[c] = Append(sent[c], h)
      BY <1>3, <1>7, <2>2 DEF TypeOK, TypeServer
    <3>2. Len(sent'[c]) = Len(sent[c]) + 1
      BY <1>4, <1>5, <3>1, AppendProperties
    <3> QED BY <1>5, <1>7, <2>2, <3>2 DEF Done
  <2>3. CASE h.kind = "end"
    BY <1>5, <1>7, <2>3 DEF Done
  <2> QED BY <1>7, <2>1, <2>2, <2>3
<1>9. done2 \in Nat /\ done2 <= Len(e)
  BY <1>4, <1>5, <1>8 DEF QueueOK
<1>10. ASSUME NEW i \in 1 .. Len(q) - 1
       PROVE  \/ ended /\ i = Len(q) - 1 /\ Tail(q)[i].kind = "end"
              \/ done2 + i <= Len(e) /\ Tail(q)[i] = e[done2 + i]
  <2> HIDE DEF done2, q, h
  <2>1. i + 1 \in 1 .. Len(q) /\ Len(q) # 1
    BY <1>4
  <2>2. done2 + i = Done(c) + (i + 1)
    <3>1. done2 = Done(c) + 1
      BY <1>5, <1>8, <2>1
    <3> QED BY <1>4, <1>9, <3>1
  <2>3. \/ ended /\ i + 1 = Len(q) /\ q[i + 1].kind = "end"
        \/ Done(c) + (i + 1) <= Len(e) /\ q[i + 1] = e[Done(c) + (i + 1)]
    BY <1>4, <2>1 DEF QueueOK, q
  <2>4. i + 1 = Len(q) => i = Len(q) - 1
    <3>1. Len(q) \in Nat /\ i \in Nat
      BY <1>4
    <3> QED BY <3>1
  <2>5. Tail(q)[i] = q[i + 1]
    BY <1>6
  <2> QED BY <2>2, <2>3, <2>4, <2>5
<1>11. slots'[c].queue = Tail(q) /\ slots'[c].conn = n.conn
  BY <1>1, <1>3
<1>12. ASSUME NEW d \in DOMAIN slots, d # c
       PROVE  QueueOK(d)' /\ Done(d)' = Done(d)
  <2>1. slots'[d] = slots[d] /\ sent'[d] = sent[d] /\ QueueOK(d)
    <3>1. d \in Clients
      BY SlotFacts
    <3> QED BY <1>1, <1>12, <1>70, <3>1 DEF Queues
  <2>2. Done(d)' = Done(d)
    BY <2>1 DEF Done
  <2> QED BY <1>2, <2>1, <2>2 DEF QueueOK
<1>13. ASSUME NEW d \in DOMAIN slots, d = c PROVE QueueOK(d)' /\ Done(d)' = done2
  <2>1. Done(d)' = done2
    BY <1>11, <1>13 DEF Done
  <2>2. /\ slots'[d].queue = Tail(q) /\ slots'[d].conn /\ emitted'[d] = e
        /\ ended' = ended
    BY <1>2, <1>7, <1>11, <1>13
  <2> HIDE DEF done2, q, e, h
  <2> QED BY <1>6, <1>9, <1>10, <2>1, <2>2 DEF QueueOK
<1>14. DOMAIN slots' = DOMAIN slots
  BY <1>1
<1>15. Queues'
  BY <1>12, <1>13, <1>14 DEF Queues
<1>16. ASSUME ~ended, NEW d \in Clients PROVE Continues(d)'
  <2>1. Continues(d)
    BY <1>16 DEF UnderWay
  <2>2. CASE d = c
    <3>1. h.kind # "end"
      BY <1>5, <1>16
    <3>2. done2 + Len(Tail(q)) + 1 = Done(c) + Len(q) + 1
      <4> DEFINE done == Done(c)
                 len == Len(q)
                 rest == Len(Tail(q))
      <4>1. done2 = done + 1 /\ rest = len - 1
        BY <1>6, <1>8, <3>1
      <4>2. len \in Nat /\ done \in Nat
        BY <1>4
      <4> HIDE DEF done2, done, len, rest
      <4>3. done2 + rest + 1 = done + len + 1
        BY <4>1, <4>2
      <4> QED BY <4>3 DEF done, len, rest
    <3>3. Embeds(Flow, e, c, Done(c) + Len(q) + 1)
      BY <1>3, <2>1, <2>2 DEF Continues
    <3>4. Done(d)' = done2
      BY <1>3, <1>13, <2>2
    <3> HIDE DEF done2
    <3> QED BY <1>2, <1>3, <1>11, <1>14, <2>2, <3>2, <3>3, <3>4 DEF Continues
  <2>3. CASE d # c
    <3>1. d \in DOMAIN slots => Done(d)' = Done(d) /\ slots'[d] = slots[d]
      BY <1>1, <1>12, <2>3
    <3>2. sent'[d] = sent[d]
      BY <1>70, <2>3
    <3> QED BY <1>2, <1>14, <2>1, <3>1, <3>2 DEF Continues
  <2> QED BY <2>2, <2>3
<1>17. UnderWay'
  BY <1>2, <1>16 DEF UnderWay
<1>18. InOrder'
  <2>1. CASE sent' = sent
    BY <1>2, <2>1 DEF InOrder
  <2>2. CASE /\ h.kind \in {"block", "plain", "term"}
             /\ sent' = [sent EXCEPT ![c] = Append(@, h)]
    <3> DEFINE t == Append(sent[c], h)
    <3>1. /\ sent'[c] = t /\ \A d \in Clients : d # c => sent'[d] = sent[d]
      BY <1>3, <2>2 DEF TypeOK, TypeServer
    <3>2. /\ Len(t) = Len(sent[c]) + 1 /\ t[Len(sent[c]) + 1] = h
          /\ \A i \in 1 .. Len(sent[c]) : t[i] = sent[c][i]
          /\ DOMAIN t = 1 .. Len(sent[c]) + 1 /\ DOMAIN sent[c] = 1 .. Len(sent[c])
      BY <1>4, <1>5, AppendProperties, LenProperties
    <3>3. Done(c) = Len(sent[c]) + 1 /\ Done(c) + 1 <= Len(e) /\ h = e[Done(c) + 1]
      BY <1>5, <2>2 DEF Done
    <3>4. Len(sent[c]) + 1 < Len(e) /\ h = e[Len(sent[c]) + 1 + 1]
      BY <1>4, <3>3
    <3> HIDE DEF t, h
    <3>5. ASSUME NEW i \in 1 .. Len(sent[c]) + 1 PROVE t[i] = e[i + 1]
      <4>1. CASE i = Len(sent[c]) + 1
        BY <3>2, <3>4, <4>1
      <4>2. CASE i \in 1 .. Len(sent[c])
        <5>1. sent[c] # <<>>
          BY <1>4, <4>2, EmptySeq
        <5> QED BY <1>3, <3>2, <4>2, <5>1 DEF InOrder
      <4> QED BY <1>4, <4>1, <4>2
    <3>6. ASSUME NEW d \in Clients, sent'[d] # <<>>
          PROVE  /\ Len(sent'[d]) < Len(emitted'[d])
                 /\ \A i \in DOMAIN sent'[d] : sent'[d][i] = emitted'[d][i + 1]
      <4>1. CASE d = c
        BY <1>2, <3>1, <3>2, <3>4, <3>5, <4>1
      <4>2. CASE d # c
        BY <1>2, <3>1, <3>6, <4>2 DEF InOrder
      <4> QED BY <4>1, <4>2
    <3> QED BY <3>6 DEF InOrder
  <2> QED BY <1>7, <2>1, <2>2
<1> QED BY <1>15, <1>17, <1>18

\* Every queue ends when the commands do.
LEMMA QueuesFinish ==
  ASSUME TypeOK, Streams, Queues, UnderWay, Finish
  PROVE  Queues' /\ UnderWay'
<1>1. UNCHANGED <<emitted, sent, lookahead, chan, held>>
  BY DEF Finish, mgr, link
<1>2. Flow' = Flow
  BY <1>1 DEF Flow, One
<1>3. CASE ~Finishing
  <2>1. UNCHANGED slots /\ (ended' <=> ended)
    BY <1>3 DEF Finish
  <2>2. ended' = ended
    BY <2>1, <1>3 DEF Finish, TypeOK, TypeLoop
  <2> QED BY <1>1, <1>2, <2>1, <2>2, SameQueues, SameUnderWay
<1>4. CASE Finishing
  <2>1. ~ended /\ ended'
    BY <1>4 DEF Finish, Finishing
  <2>2. /\ DOMAIN slots' = DOMAIN slots
        /\ \A c \in DOMAIN slots : slots'[c] = Queued(slots[c], Cmd(c, last_ts, "end"))
    BY <1>4 DEF Finish
  <2>3. ASSUME NEW c \in DOMAIN slots PROVE QueueOK(c)'
    <3> DEFINE x == Cmd(c, last_ts, "end")
               s == slots[c]
               q == s.queue
               e == emitted[c]
    <3>1. /\ QueueOK(c) /\ s \in Slot /\ q \in Seq(Command) /\ Len(q) \in Nat
          /\ DOMAIN q = 1 .. Len(q) /\ Done(c) \in Nat /\ c \in Clients
      BY SlotFacts
    <3>2. x \in Command /\ x.kind = "end"
      BY <3>1, ReplayAssumption DEF Cmd, Command, Kind, TypeOK, TypeLoop
    <3>3. slots'[c] = Queued(s, x)
      BY <2>2
    <3> HIDE DEF x, s
    <3>4. slots'[c].queue = Append(q, x) /\ slots'[c].conn = s.conn
      BY <3>1, <3>2, <3>3, QueuedSlot
    <3>5. /\ Len(Append(q, x)) = Len(q) + 1 /\ Append(q, x) # <<>>
          /\ \A i \in 1 .. Len(q) : Append(q, x)[i] = q[i]
          /\ Append(q, x)[Len(q) + 1] = x
          /\ DOMAIN Append(q, x) = 1 .. Len(q) + 1
      BY <3>1, <3>2, AppendProperties, LenProperties
    <3>6. Done(c)' = Done(c)
      BY <1>1, <3>4 DEF Done, s
    <3>7. \A i \in 1 .. Len(q) : Done(c) + i <= Len(e) /\ q[i] = e[Done(c) + i]
      BY <2>1, <3>1 DEF QueueOK, s
    <3>8. ASSUME NEW i \in 1 .. Len(q) + 1
          PROVE  \/ i = Len(q) + 1 /\ Append(q, x)[i].kind = "end"
                 \/ Done(c) + i <= Len(e) /\ Append(q, x)[i] = e[Done(c) + i]
      <4>1. CASE i = Len(q) + 1
        BY <3>2, <3>5, <4>1
      <4>2. CASE i \in 1 .. Len(q)
        BY <3>5, <3>7, <4>2
      <4> QED BY <3>1, <4>1, <4>2
    <3>9. ~s.conn => sent[c] = <<>> /\ e # <<>> /\ Append(q, x)[1] = e[1]
      <4>1. ~s.conn => sent[c] = <<>> /\ q # <<>> /\ e # <<>> /\ q[1] = e[1]
        BY <3>1 DEF QueueOK, s
      <4>2. q # <<>> => 1 \in 1 .. Len(q)
        BY <3>1, EmptySeq
      <4> QED BY <3>5, <4>1, <4>2
    <3>10. s.conn => Done(c) <= Len(e)
      BY <3>1 DEF QueueOK, s
    <3> HIDE DEF q, e
    <3>11. emitted'[c] = e /\ sent' = sent
      BY <1>1 DEF e
    <3> QED
      BY <2>1, <3>4, <3>5, <3>6, <3>8, <3>9, <3>10, <3>11 DEF QueueOK, e
  <2>4. Queues'
    BY <2>2, <2>3 DEF Queues
  <2>5. UnderWay'
    BY <2>1 DEF UnderWay
  <2> QED BY <2>4, <2>5
<1> QED BY <1>3, <1>4

\* Every step keeps the queues parts of the captured streams.
LEMMA QueuesStep ==
  ASSUME TypeOK, Streams, Closing, Queues, UnderWay, InOrder, [Next]_vars
  PROVE  Queues' /\ UnderWay' /\ InOrder'
<1>0. TypeSchedule
  BY DEF TypeOK
<1>1. CASE Read
  <2>1. Queues' /\ UnderWay'
    BY <1>1, QueuesRead
  <2>2. InOrder'
    <3>1. PICK k \in Clients, x \in Captured :
            emitted' = [emitted EXCEPT ![k] = Append(@, x)]
      BY <1>1, Reading
    <3>2. sent' = sent
      BY <1>1 DEF Read
    <3>3. /\ emitted[k] \in Seq(Command) /\ x \in Command
          /\ emitted'[k] = Append(emitted[k], x)
          /\ \A c \in Clients \ {k} : emitted'[c] = emitted[c]
      BY <3>1, CapturedCommand DEF TypeOK, TypeManager
    <3>4. /\ Len(emitted[k]) \in Nat /\ Len(emitted'[k]) = Len(emitted[k]) + 1
          /\ \A i \in 1 .. Len(emitted[k]) : emitted'[k][i] = emitted[k][i]
      BY <3>3, AppendProperties, LenProperties
    <3>5. sent[k] \in Seq(Command)
      BY DEF TypeOK, TypeServer
    <3>6. Len(sent[k]) \in Nat /\ DOMAIN sent[k] = 1 .. Len(sent[k])
      BY <3>5, LenProperties
    <3>7. ASSUME sent[k] # <<>>
          PROVE  /\ Len(sent[k]) < Len(emitted'[k])
                 /\ \A i \in DOMAIN sent[k] : sent[k][i] = emitted'[k][i + 1]
      <4>1. /\ Len(sent[k]) < Len(emitted[k])
            /\ \A i \in DOMAIN sent[k] : sent[k][i] = emitted[k][i + 1]
        BY <3>7 DEF InOrder
      <4>2. \A i \in DOMAIN sent[k] : i + 1 \in 1 .. Len(emitted[k])
        BY <3>4, <3>6, <4>1
      <4>3. Len(sent[k]) < Len(emitted'[k])
        BY <3>4, <3>6, <4>1
      <4> QED BY <3>4, <4>1, <4>2, <4>3
    <3> QED BY <3>2, <3>3, <3>7 DEF InOrder
  <2> QED BY <2>1, <2>2
<1>2. ASSUME NEW cmd \in Captured, Pulls(cmd) PROVE Queues' /\ UnderWay' /\ InOrder'
  <2>1. Queues' /\ UnderWay'
    BY <1>2, QueuesPull
  <2>2. UNCHANGED <<emitted, sent>>
    BY <1>2, FlowPulled
  <2> QED BY <2>1, <2>2 DEF InOrder
<1>3. CASE \E n \in Slot : Succeeds(n)
  BY <1>3, QueuesExecute
<1>4. CASE SendHeld \/ Finished \/ DropSender \/ Pauses
  <2>1. UNCHANGED <<ended, emitted, sent, slots>>
    BY <1>4 DEF SendHeld, Finished, DropSender, Pauses, mgr, rcv, sched
  <2>2. CASE Finished \/ DropSender
    <3>1. Flow' = Flow
      BY <2>2 DEF Finished, DropSender, Flow, One, rcv
    <3> QED BY <2>1, <3>1, SameQueues, SameUnderWay DEF InOrder
  <2>3. CASE SendHeld \/ Pauses
    BY <2>1, <2>3, FlowKept, SameQueues, SameUnderWay DEF InOrder
  <2> QED BY <1>4, <2>2, <2>3
<1>5. CASE Elsewhere
  <2>1. UNCHANGED <<mgr, chan, lookahead, sent>>
    BY <1>5, ElsewhereFrame
  <2>2. Flow' = Flow /\ UNCHANGED emitted
    BY <2>1 DEF Flow, One, mgr
  <2>3. InOrder'
    BY <2>1, <2>2 DEF InOrder
  <2>4. CASE Finish
    BY <2>3, <2>4, QueuesFinish
  <2>5. CASE /\ ~Finish
             /\ \/ ConnectFails \/ FlushFails
                \/ \E c \in Clients : EventsDead(c)
    <3>1. PICK c \in DOMAIN slots : slots' = WithoutSlot(c)
      BY <2>5 DEF ConnectFails, FlushFails, EventsDead, Executing, MayTry
    <3>2. ended' = ended
      BY <2>5 DEF ConnectFails, FlushFails, EventsDead, Executing, rcv
    <3> QED BY <2>1, <2>2, <2>3, <3>1, <3>2, SlotGone
  <2>6. CASE TryLater
    <3>1. cur \in DOMAIN slots /\ slots[cur] \in Slot /\ slots[cur].queue # <<>>
      BY <1>0, <2>6, Trying DEF TryLater
    <3>2. /\ AfterRebase(slots[cur]).queue = slots[cur].queue
          /\ AfterRebase(slots[cur]).conn = slots[cur].conn
      BY <3>1, PoppedSlot
    <3>3. slots' = [slots EXCEPT ![cur] = AfterRebase(slots[cur])] /\ ended' = ended
      BY <2>6 DEF TryLater, rcv
    <3>4. /\ DOMAIN slots' = DOMAIN slots
          /\ \A d \in DOMAIN slots' :
               slots'[d].queue = slots[d].queue /\ slots'[d].conn = slots[d].conn
      BY <3>1, <3>2, <3>3
    <3> QED BY <2>1, <2>2, <2>3, <3>3, <3>4, SameQueues, SameUnderWay
  <2>7. CASE \E c \in Clients : EventsReady(c)
    <3>1. PICK c \in Clients : EventsReady(c)
      BY <2>7
    <3>2. /\ c \in DOMAIN slots /\ slots' = [slots EXCEPT ![c] = Answered(slots[c])]
          /\ ended' = ended
      BY <3>1 DEF EventsReady, rcv
    <3>3. /\ Answered(slots[c]).queue = slots[c].queue
          /\ Answered(slots[c]).conn = slots[c].conn
      BY <1>0, <3>2, AnsweredSlot DEF TypeSchedule
    <3>4. /\ DOMAIN slots' = DOMAIN slots
          /\ \A d \in DOMAIN slots' :
               slots'[d].queue = slots[d].queue /\ slots'[d].conn = slots[d].conn
      BY <3>2, <3>3
    <3> QED BY <2>1, <2>2, <2>3, <3>2, <3>4, SameQueues, SameUnderWay
  <2>8. CASE \/ Poll \/ EventsDone \/ DispatchTimer \/ DispatchDone \/ TryNothing \/ Tick
             \/ (\E c \in Clients : Reply(c) \/ ServerDrops(c)) \/ UNCHANGED vars
    <3>1. UNCHANGED <<slots, ended>>
      BY <2>8 DEF Poll, EventsDone, DispatchTimer, DispatchDone, TryNothing, Tick, Reply,
                  ServerDrops, vars, rcv, sched
    <3> QED BY <2>1, <2>2, <2>3, <3>1, SameQueues, SameUnderWay
  <2> QED BY <1>5, <2>4, <2>5, <2>6, <2>7, <2>8 DEF Elsewhere
<1> QED BY <1>0, <1>1, <1>2, <1>3, <1>4, <1>5, Steps

----------------------------------------------------------------------------
(* The loop and the servers.                                               *)

\* A client whose slot, connection and answers do not change.
LEMMA SameAnswers ==
  ASSUME NEW c, AnswersOK(c), c \in DOMAIN slots' <=> c \in DOMAIN slots,
         c \in up' <=> c \in up, owed'[c] = owed[c], inbox'[c] = inbox[c],
         c \in DOMAIN slots => /\ slots'[c].conn = slots[c].conn
                               /\ slots'[c].awaiting = slots[c].awaiting
                               /\ slots'[c].terminated = slots[c].terminated
  PROVE  AnswersOK(c)'
BY DEF AnswersOK

\* A step that leaves the slot's queue and its flags alone.
LEMMA SameTerminated ==
  ASSUME NEW c \in DOMAIN slots, TerminatedOK(c), UNCHANGED <<ended, emitted, sent>>,
         slots'[c].conn = slots[c].conn, slots'[c].queue = slots[c].queue,
         slots'[c].terminated = slots[c].terminated
  PROVE  TerminatedOK(c)'
BY DEF TerminatedOK

\* Nothing changes for the clients.
LEMMA SameDialogs ==
  ASSUME Dialogs, UNCHANGED <<slots, up, owed, inbox, emitted, sent, ended, batch>>
  PROVE  Dialogs'
BY SameAnswers, SameTerminated DEF Dialogs

\* The client of a live connection.
LEMMA LiveClient ==
  ASSUME Dialogs, NEW c \in Clients, c \in up
  PROVE  /\ c \in DOMAIN slots /\ slots[c].conn
         /\ slots[c].awaiting => \/ owed[c] = <<"rfq">> /\ inbox[c] = <<>>
                                 \/ owed[c] = <<>> /\ inbox[c] = <<"rfq">>
         /\ ~slots[c].awaiting => /\ inbox[c] = <<>>
                                  /\ \/ owed[c] = <<>>
                                     \/ owed[c] = <<"eof">> /\ slots[c].terminated
BY DEF Dialogs, AnswersOK

\* The manager reads an event: none follows a Terminate.
LEMMA DialogsRead ==
  ASSUME TypeOK, Streams, Queues, Dialogs, Read
  PROVE  Dialogs'
<1>1. PICK k \in Clients, x \in Captured :
        x.kind \in Kinds(k) /\ emitted' = [emitted EXCEPT ![k] = Append(@, x)]
  BY Reading
<1>2. UNCHANGED <<slots, up, owed, inbox, sent, ended, batch>>
  BY DEF Read, sched, srv, rcv, ctl
<1>3. \A c \in Clients : c # k => emitted'[c] = emitted[c]
  BY <1>1 DEF TypeOK, TypeManager
<1>4. \A c \in Clients : AnswersOK(c)'
  BY <1>2, SameAnswers DEF Dialogs
<1>5. ASSUME NEW c \in DOMAIN slots PROVE TerminatedOK(c)'
  <2>1. TerminatedOK(c) /\ c \in Clients /\ Len(emitted[c]) \in Nat /\ Len(sent[c]) \in Nat
    BY SlotFacts DEF Dialogs
  <2>2. CASE c # k
    BY <1>2, <1>3, <2>1, <2>2 DEF TerminatedOK
  <2>3. CASE c = k
    <3>1. ~(/\ Len(emitted[c]) = Len(sent[c]) + 1
            /\ emitted[c][Len(emitted[c])].kind = "term")
      <4> SUFFICES ASSUME Len(emitted[c]) = Len(sent[c]) + 1,
                          emitted[c][Len(emitted[c])].kind = "term"
                   PROVE  FALSE
        OBVIOUS
      <4>1. emitted[c] # <<>>
        BY <2>1, EmptySeq
      <4>2. Kinds(k) = {}
        BY <2>3, <4>1 DEF Kinds
      <4> QED BY <1>1, <4>2
    <3> QED BY <1>2, <2>1, <3>1 DEF TerminatedOK
  <2> QED BY <2>2, <2>3
<1> QED BY <1>2, <1>4, <1>5 DEF Dialogs

\* The loop enqueues a command: none follows a Terminate.
LEMMA DialogsPull ==
  ASSUME TypeOK, Streams, Closing, Queues, UnderWay, Dialogs,
         NEW cmd \in Captured, Pulls(cmd)
  PROVE  Dialogs'
<1> DEFINE k == cmd.id
           s == SlotOf(k)
<1>1. /\ UNCHANGED <<emitted, sent, ended, up, owed, inbox, batch>>
      /\ ~ended /\ Enqueue(cmd) /\ cmd \in Command /\ k \in Clients
  BY FlowPulled, CapturedCommand, NextPulled DEF Pulls, srv
<1>2. CASE UNCHANGED <<slots, timers>>
  BY <1>1, <1>2, SameDialogs
<1>3. CASE /\ DOMAIN slots' = DOMAIN slots \cup {k}
           /\ s \in Slot
           /\ slots'[k] = Queued(s, cmd)
           /\ \A d \in DOMAIN slots : d # k => slots'[d] = slots[d]
  <2>1. /\ slots'[k].conn = s.conn /\ slots'[k].awaiting = s.awaiting
        /\ slots'[k].terminated = s.terminated
    <3>1. s \in Slot
      BY <1>3
    <3>2. /\ Queued(s, cmd).conn = s.conn /\ Queued(s, cmd).awaiting = s.awaiting
          /\ Queued(s, cmd).terminated = s.terminated
      BY <1>1, <3>1, QueuedSlot
    <3> HIDE DEF s, k
    <3> QED BY <1>3, <3>2
  <2>2. AnswersOK(k)'
    <3>1. CASE k \in DOMAIN slots
      BY <1>1, <1>3, <2>1, <3>1, SameAnswers DEF SlotOf, Dialogs
    <3>2. CASE k \notin DOMAIN slots
      <4>1. ~slots'[k].conn
        BY <2>1, <3>2, NewSlotOK DEF SlotOf
      <4> QED BY <1>1, <3>2, <4>1 DEF Dialogs, AnswersOK
    <3> QED BY <3>1, <3>2
  <2>3. \A c \in Clients : AnswersOK(c)'
    <3>1. ASSUME NEW c \in Clients, c # k PROVE AnswersOK(c)'
      <4>1. /\ c \in DOMAIN slots' <=> c \in DOMAIN slots
            /\ c \in DOMAIN slots => slots'[c] = slots[c]
        BY <1>3, <3>1
      <4> QED BY <1>1, <4>1, SameAnswers DEF Dialogs
    <3> QED BY <2>2, <3>1
  <2>4. ~s.terminated
    <3>1. CASE k \in DOMAIN slots
      <4> DEFINE n == Len(slots[k].queue)
      <4>1. Continues(k) /\ s = slots[k]
        BY <1>1, <3>1 DEF UnderWay, SlotOf
      <4>2. Embeds(Flow, emitted[k], k, Done(k) + n + 1)
        BY <3>1, <4>1 DEF Continues
      <4>3. Done(k) + n + 1 \in 1 .. Len(emitted[k]) + 1
        BY <1>1, <3>1, NextIndex
      <4>4. Done(k) + n + 1 <= Len(emitted[k])
        BY <4>2, <4>3, NextPulled
      <4>5. /\ Done(k) \in Nat /\ n \in Nat /\ Len(emitted[k]) \in Nat
            /\ Len(sent[k]) \in Nat
        BY <3>1, SlotFacts
      <4>6. slots[k].terminated => Done(k) = Len(emitted[k])
        <5>1. TerminatedOK(k)
          BY <3>1 DEF Dialogs
        <5> QED BY <1>1, <5>1 DEF TerminatedOK, Done
      <4> HIDE DEF n
      <4>7. Done(k) # Len(emitted[k])
        BY <4>4, <4>5
      <4> QED BY <4>1, <4>6, <4>7
    <3>2. CASE k \notin DOMAIN slots
      BY <3>2, NewSlotOK DEF SlotOf
    <3> QED BY <3>1, <3>2
  <2>5. \A c \in DOMAIN slots' : TerminatedOK(c)'
    <3>1. TerminatedOK(k)'
      BY <2>1, <2>4 DEF TerminatedOK
    <3>2. \A c \in DOMAIN slots : c # k => TerminatedOK(c)'
      BY <1>1, <1>3, SameTerminated DEF Dialogs
    <3> QED BY <1>3, <3>1, <3>2
  <2>6. \A c \in batch' : c \in DOMAIN slots' /\ slots'[c].conn /\ inbox'[c] # <<>>
    <3>1. k \in DOMAIN slots => slots'[k].conn = slots[k].conn
      BY <2>1 DEF SlotOf
    <3> QED BY <1>1, <1>3, <3>1 DEF Dialogs
  <2> QED BY <2>3, <2>5, <2>6 DEF Dialogs
<1>4. TypeSchedule
  BY DEF TypeOK
<1> QED BY <1>1, <1>2, <1>3, <1>4, Enqueuing

\* The loop sends a frame or connects, when no answer is under way.
LEMMA DialogsExecute ==
  ASSUME TypeOK, Streams, Queues, Dialogs, NEW n \in Slot, Succeeds(n)
  PROVE  Dialogs'
<1> DEFINE c == cur
           s == slots[cur]
           q == s.queue
           e == emitted[cur]
           h == Head(q)
<1>1. /\ UNCHANGED <<mgr, link, ctl, rcv, inbox>> /\ MayTry
      /\ slots' = [slots EXCEPT ![c] = n] /\ n.queue = Tail(q)
  BY SucceedsFrame DEF Succeeds, Executes
<1>2. UNCHANGED <<ended, emitted, batch, inbox>>
  BY <1>1 DEF mgr, rcv, ctl
<1>3. c \in Clients /\ c \in DOMAIN slots /\ s \in Slot /\ q # <<>> /\ ~Blocked(s)
  BY <1>1, Trying DEF TypeOK
<1>4. /\ QueueOK(c) /\ StreamOK(c)
      /\ q \in Seq(Command) /\ Len(q) \in Nat /\ DOMAIN q = 1 .. Len(q)
      /\ Len(e) \in Nat /\ DOMAIN e = 1 .. Len(e)
      /\ sent[c] \in Seq(Command) /\ Len(sent[c]) \in Nat
      /\ Done(c) \in Nat
  BY <1>3, SlotFacts
<1>5. /\ h = q[1] /\ Len(q) >= 1
      /\ h.kind = "end" => ended /\ Len(q) = 1 /\ s.conn
      /\ h.kind # "end" => Done(c) + 1 <= Len(e) /\ h = e[Done(c) + 1]
      /\ h.kind = "connect" => ~s.conn
      /\ h.kind \in {"block", "plain", "term"} => s.conn
      /\ h \in Command
  BY <1>3, FirstOfQueue, PoppedSlot
<1>6. /\ Tail(q) \in Seq(Command) /\ Len(Tail(q)) = Len(q) - 1
      /\ DOMAIN Tail(q) = 1 .. Len(q) - 1
      /\ \A i \in 1 .. Len(q) - 1 : Tail(q)[i] = q[i + 1]
  BY <1>3, <1>4, HeadTailProperties, LenProperties
<1>7. AnswersOK(c) /\ TerminatedOK(c)
  BY <1>3 DEF Dialogs
<1>8. slots'[c] = n /\ DOMAIN slots' = DOMAIN slots
      /\ \A d \in DOMAIN slots : d # c => slots'[d] = slots[d]
  BY <1>1, <1>3
<1>9. \A d \in Clients : d # c => /\ owed'[d] = owed[d] /\ sent'[d] = sent[d]
                                  /\ (d \in up' <=> d \in up)
  BY DEF Succeeds, TypeOK, TypeServer
<1>10. h.kind # "end" => ~s.terminated
  <2>1. 1 \in DOMAIN q
    BY <1>4, <1>5
  <2> QED BY <1>5, <1>7, <2>1 DEF TerminatedOK
\* The client of the command, case by case.
<1>11. /\ n.conn
       /\ c \in up' /\ n.awaiting => owed'[c] = <<"rfq">> /\ inbox[c] = <<>>
       /\ c \in up' /\ ~n.awaiting =>
            /\ inbox[c] = <<>>
            /\ owed'[c] = <<>> \/ (owed'[c] = <<"eof">> /\ n.terminated)
       /\ c \notin up' =>
            owed'[c] = <<>> /\ inbox[c] \in {<<"eof">>, <<"rfq", "eof">>}
  <2>1. CASE Executing({"connect"})
    <3>1. h.kind = "connect"
      BY <2>1 DEF Executing
    <3>2. ~s.conn
      BY <1>5, <3>1
    <3>3. n.conn = TRUE /\ n.awaiting = TRUE
          /\ owed' = [owed EXCEPT ![c] = <<"rfq">>] /\ up' = up \cup {c}
      BY <3>1 DEF Succeeds, Executing
    <3>4. inbox[c] = <<>>
      BY <1>7, <3>2 DEF AnswersOK
    <3> QED BY <1>3, <3>3, <3>4 DEF TypeOK, TypeServer
  <2>2. CASE Executing({"block", "plain", "term"})
    <3>1. h.kind \in {"block", "plain", "term"}
      BY <2>2 DEF Executing
    <3>2. s.conn /\ ~s.awaiting /\ ~s.terminated
      BY <1>3, <1>5, <1>10, <3>1 DEF Blocked
    <3>3. /\ n.conn = s.conn
          /\ n.awaiting = (s.awaiting \/ h.kind = "block")
          /\ n.terminated = (s.terminated \/ h.kind = "term")
          /\ owed' = [owed EXCEPT ![c] = IF c \in up THEN @ \o Answers(h.kind) ELSE @]
          /\ up' = up
      BY <3>1 DEF Succeeds, Executing
    <3>4. CASE c \in up
      <4>1. inbox[c] = <<>> /\ owed[c] = <<>>
        BY <1>3, <1>7, <3>2, <3>4 DEF AnswersOK
      <4>2. owed'[c] = <<>> \o Answers(h.kind)
        BY <1>3, <3>3, <3>4, <4>1 DEF TypeOK, TypeServer
      <4>3. CASE h.kind = "block"
        <5>1. owed'[c] = <<"rfq">>
          BY <4>2, <4>3 DEF Answers
        <5> QED BY <3>2, <3>3, <3>4, <4>1, <4>3, <5>1
      <4>4. CASE h.kind = "plain"
        <5>1. owed'[c] = <<>>
          BY <4>2, <4>4 DEF Answers
        <5> QED BY <3>2, <3>3, <3>4, <4>1, <4>4, <5>1
      <4>5. CASE h.kind = "term"
        <5>1. owed'[c] = <<"eof">>
          BY <4>2, <4>5 DEF Answers
        <5> QED BY <3>2, <3>3, <3>4, <4>1, <4>5, <5>1
      <4> QED BY <3>1, <4>3, <4>4, <4>5
    <3>5. CASE c \notin up
      <4>1. owed'[c] = owed[c]
        BY <1>3, <3>3, <3>5 DEF TypeOK, TypeServer
      <4> QED BY <1>3, <1>7, <3>2, <3>3, <3>5, <4>1 DEF AnswersOK
    <3> QED BY <3>4, <3>5
  <2>3. CASE Executing({"end"})
    <3>1. h.kind = "end"
      BY <2>3 DEF Executing
    <3>2. s.conn /\ ~s.awaiting
      BY <1>3, <1>5, <3>1 DEF Blocked
    <3>3. /\ n.conn = s.conn /\ n.awaiting = s.awaiting /\ n.terminated = TRUE
          /\ owed' = [owed EXCEPT ![c] =
                        IF c \in up /\ ~s.terminated THEN @ \o <<"eof">> ELSE @]
          /\ up' = up
      BY <3>1 DEF Succeeds, Executing
    <3>4. c \in up => inbox[c] = <<>> /\ (owed[c] = <<>>
                                          \/ (owed[c] = <<"eof">> /\ s.terminated))
      BY <1>3, <1>7, <3>2 DEF AnswersOK
    <3>5. owed'[c] = IF c \in up /\ ~s.terminated THEN owed[c] \o <<"eof">> ELSE owed[c]
      BY <1>3, <3>3 DEF TypeOK, TypeServer
    <3>6. c \in up => owed'[c] = <<>> \/ owed'[c] = <<"eof">>
      <4>1. CASE c \in up /\ ~s.terminated
        <5>1. owed'[c] = <<>> \o <<"eof">>
          BY <3>4, <3>5, <4>1
        <5> QED BY <5>1
      <4>2. CASE c \in up /\ s.terminated
        BY <3>4, <3>5, <4>2
      <4> QED BY <4>1, <4>2
    <3>7. c \notin up =>
            owed'[c] = <<>> /\ inbox[c] \in {<<"eof">>, <<"rfq", "eof">>}
      BY <1>3, <1>7, <3>2, <3>5 DEF AnswersOK
    <3> QED BY <3>2, <3>3, <3>4, <3>6, <3>7
  <2> QED BY <2>1, <2>2, <2>3 DEF Succeeds
<1>12. ASSUME n.terminated
       PROVE  /\ \A i \in DOMAIN n.queue : n.queue[i].kind = "end"
              /\ ended \/ /\ Len(e) = Len(sent'[c]) + 1
                          /\ e[Len(e)].kind = "term"
  <2>1. CASE h.kind = "end"
    <3>1. ended /\ Len(q) = 1
      BY <1>5, <2>1
    <3>2. DOMAIN n.queue = {}
      BY <1>1, <1>6, <3>1
    <3> QED BY <3>1, <3>2
  <2>2. CASE h.kind # "end"
    <3>1. h.kind = "term" /\ sent' = [sent EXCEPT ![c] = Append(@, h)]
      BY <1>10, <1>12, <2>2 DEF Succeeds, Executing
    <3>2. Done(c) + 1 \in DOMAIN e /\ h = e[Done(c) + 1]
      BY <1>4, <1>5, <2>2
    <3>3. Done(c) + 1 = Len(e)
      BY <1>4, <3>1, <3>2 DEF StreamOK
    <3>4. Done(c) = Len(sent[c]) + 1
      BY <1>5, <3>1 DEF Done
    <3>5. Len(sent'[c]) = Len(sent[c]) + 1
      <4>1. sent'[c] = Append(sent[c], h)
        BY <1>3, <3>1 DEF TypeOK, TypeServer
      <4> QED BY <1>4, <1>5, <4>1, AppendProperties
    <3>6. ASSUME NEW i \in 1 .. Len(q) - 1 PROVE Tail(q)[i].kind = "end"
      <4> DEFINE len == Len(q)
      <4>1. len \in Nat
        BY <1>4
      <4> HIDE DEF len
      <4>2. i + 1 \in 1 .. len /\ i >= 1
        BY <4>1 DEF len
      <4>3. ~(Done(c) + (i + 1) <= Len(e))
        <5>1. Done(c) \in Nat /\ i \in Nat /\ Len(e) = Done(c) + 1
          BY <1>4, <3>3, <4>1 DEF len
        <5> QED BY <4>2, <5>1
      <4>4. q[i + 1].kind = "end"
        BY <1>4, <4>2, <4>3 DEF QueueOK, len
      <4> QED BY <1>6, <4>4
    <3>7. Len(e) = Len(sent'[c]) + 1 /\ e[Len(e)].kind = "term"
      BY <3>1, <3>2, <3>3, <3>4, <3>5
    <3> HIDE DEF q, e
    <3> QED BY <1>1, <1>6, <3>6, <3>7
  <2> QED BY <2>1, <2>2
<1>13. ASSUME NEW d \in Clients PROVE AnswersOK(d)'
  <2>1. CASE d = c
    <3>1. d \in DOMAIN slots' /\ slots'[d] = n /\ inbox'[d] = inbox[c]
      BY <1>2, <1>3, <1>8, <2>1
    <3>2. /\ n.conn
          /\ d \in up' /\ n.awaiting => owed'[d] = <<"rfq">> /\ inbox[d] = <<>>
          /\ d \in up' /\ ~n.awaiting =>
               /\ inbox[d] = <<>>
               /\ owed'[d] = <<>> \/ (owed'[d] = <<"eof">> /\ n.terminated)
          /\ d \notin up' =>
               owed'[d] = <<>> /\ inbox[d] \in {<<"eof">>, <<"rfq", "eof">>}
      BY <1>11, <2>1
    <3> QED BY <2>1, <3>1, <3>2 DEF AnswersOK
  <2>2. CASE d # c
    BY <1>2, <1>8, <1>9, <2>2, SameAnswers DEF Dialogs
  <2> QED BY <2>1, <2>2
<1>14. ASSUME NEW d \in DOMAIN slots PROVE TerminatedOK(d)'
  <2>1. CASE d = c
    <3>1. slots'[d] = n /\ emitted'[d] = e /\ sent'[d] = sent'[c] /\ ended' = ended
      BY <1>2, <1>8, <2>1
    <3> HIDE DEF e
    <3> QED BY <1>11, <1>12, <2>1, <3>1 DEF TerminatedOK
  <2>2. CASE d # c
    <3>1. d \in Clients /\ TerminatedOK(d)
      BY SlotFacts DEF Dialogs
    <3> QED BY <1>2, <1>8, <1>9, <2>2, <3>1 DEF TerminatedOK
  <2> QED BY <2>1, <2>2
<1>15. \A d \in batch' : d \in DOMAIN slots' /\ slots'[d].conn /\ inbox'[d] # <<>>
  BY <1>2, <1>8, <1>11 DEF Dialogs
<1> QED BY <1>8, <1>13, <1>14, <1>15 DEF Dialogs

\* A slot goes whose client has nothing under way.
LEMMA DialogsGone ==
  ASSUME Dialogs, NEW c \in DOMAIN slots, slots' = WithoutSlot(c),
         UNCHANGED <<up, owed, emitted, sent, ended>>,
         c \notin up, owed[c] = <<>>, inbox'[c] = <<>>,
         \A d \in Clients : d # c => inbox'[d] = inbox[d],
         batch' \subseteq Clients, batch' \subseteq batch, c \notin batch'
  PROVE  Dialogs'
<1>1. /\ DOMAIN slots' = DOMAIN slots \ {c}
      /\ \A d \in DOMAIN slots' : slots'[d] = slots[d]
  BY DEF WithoutSlot
<1>2. ASSUME NEW d \in Clients PROVE AnswersOK(d)'
  <2>1. CASE d = c
    BY <1>1, <2>1 DEF AnswersOK
  <2>2. CASE d # c
    BY <1>1, <2>2, SameAnswers DEF Dialogs
  <2> QED BY <2>1, <2>2
<1>3. \A d \in DOMAIN slots' : TerminatedOK(d)'
  BY <1>1, SameTerminated DEF Dialogs
<1>4. \A d \in batch' : d \in DOMAIN slots' /\ slots'[d].conn /\ inbox'[d] # <<>>
  BY <1>1 DEF Dialogs
<1> QED BY <1>2, <1>3, <1>4 DEF Dialogs

\* The loop reads the answer, or the end of the connection.
LEMMA DialogsEvents ==
  ASSUME TypeOK, Dialogs, NEW c \in Clients, EventsDead(c) \/ EventsReady(c)
  PROVE  Dialogs'
<1>1. /\ c \in batch /\ c \in DOMAIN slots /\ slots[c].conn /\ inbox[c] # <<>>
      /\ UNCHANGED <<emitted, sent, ended, owed, up>>
      /\ inbox' = [inbox EXCEPT ![c] = <<>>] /\ batch' = batch \ {c}
  BY DEF EventsDead, EventsReady, Dialogs, mgr, rcv
<1>2. AnswersOK(c) /\ inbox'[c] = <<>> /\ \A d \in Clients : d # c => inbox'[d] = inbox[d]
  BY <1>1 DEF Dialogs, TypeOK, TypeServer
<1>3. CASE EventsDead(c)
  <2>1. \E i \in DOMAIN inbox[c] : inbox[c][i] = "eof"
    BY <1>3 DEF EventsDead, InInbox
  <2>2. inbox[c] # <<"rfq">>
    BY <2>1
  <2>3. c \notin up /\ owed[c] = <<>>
    BY <1>1, <1>2, <2>2 DEF AnswersOK
  <2>4. slots' = WithoutSlot(c) /\ batch \subseteq Clients
    BY <1>3 DEF EventsDead, TypeOK, TypeLoop
  <2> QED BY <1>1, <1>2, <2>3, <2>4, DialogsGone
<1>4. CASE EventsReady(c)
  <2>1. \A i \in DOMAIN inbox[c] : inbox[c][i] # "eof"
    BY <1>4 DEF EventsReady, InInbox
  <2>2. inbox[c] # <<"eof">> /\ inbox[c] # <<"rfq", "eof">>
    <3>1. 1 \in DOMAIN <<"eof">> /\ <<"eof">>[1] = "eof"
      OBVIOUS
    <3>2. 2 \in DOMAIN <<"rfq", "eof">> /\ <<"rfq", "eof">>[2] = "eof"
      OBVIOUS
    <3> QED BY <2>1, <3>1, <3>2
  <2>3. c \in up /\ slots[c].awaiting /\ owed[c] = <<>>
    BY <1>1, <1>2, <2>2 DEF AnswersOK
  <2> DEFINE n == Answered(slots[c])
  <2>4. /\ n.queue = slots[c].queue /\ n.conn = slots[c].conn /\ n.awaiting = FALSE
        /\ n.terminated = slots[c].terminated
    BY <1>1, AnsweredSlot DEF TypeOK, TypeSchedule
  <2> HIDE DEF n
  <2>5. slots' = [slots EXCEPT ![c] = n]
    BY <1>4 DEF EventsReady, n
  <2>6. /\ DOMAIN slots' = DOMAIN slots /\ slots'[c] = n
        /\ \A d \in DOMAIN slots : d # c => slots'[d] = slots[d]
    BY <1>1, <2>5
  <2>7. ASSUME NEW d \in Clients PROVE AnswersOK(d)'
    <3>1. CASE d = c
      BY <1>1, <1>2, <2>3, <2>4, <2>6, <3>1 DEF AnswersOK
    <3>2. CASE d # c
      BY <1>1, <1>2, <2>6, <3>2, SameAnswers DEF Dialogs
    <3> QED BY <3>1, <3>2
  <2>8. \A d \in DOMAIN slots' : TerminatedOK(d)'
    BY <1>1, <2>4, <2>6, SameTerminated DEF Dialogs
  <2>9. \A d \in batch' : d \in DOMAIN slots' /\ slots'[d].conn /\ inbox'[d] # <<>>
    <3>1. batch \subseteq Clients
      BY DEF TypeOK, TypeLoop
    <3> QED BY <1>1, <1>2, <2>6, <3>1 DEF Dialogs
  <2> QED BY <2>7, <2>8, <2>9 DEF Dialogs
<1> QED BY <1>3, <1>4

\* A message after one other.
LEMMA AppendToOne ==
  ASSUME NEW x, NEW y
  PROVE  Append(<<x>>, y) = <<x, y>>
<1> DEFINE S == {x, y}
           s == <<x>>
           t == <<x, y>>
           a == Append(s, y)
           n == Len(s)
<1>1. s \in Seq(S)
  OBVIOUS
<1>2. n = 1 /\ s[1] = x
  OBVIOUS
<1>3. t \in Seq(S)
  OBVIOUS
<1>4. Len(t) = 2 /\ t[1] = x /\ t[2] = y
  OBVIOUS
<1>0. y \in S
  OBVIOUS
<1> HIDE DEF S, s, t
<1>5. a \in Seq(S) /\ Len(a) = n + 1
  BY <1>0, <1>1, AppendProperties
<1>6. a[n + 1] = y
  BY <1>0, <1>1, AppendProperties
<1>7. \A i \in 1 .. n : a[i] = s[i]
  BY <1>0, <1>1, AppendProperties
<1> HIDE DEF a, n
<1>8. n + 1 = 2 /\ 1 \in 1 .. n /\ \A i \in 1 .. 2 : i = 1 \/ i = 2
  BY <1>2
<1>9. Len(a) = 2 /\ a[1] = x /\ a[2] = y
  BY <1>2, <1>5, <1>6, <1>7, <1>8
<1>10. a = t
  BY <1>3, <1>4, <1>5, <1>8, <1>9, SeqEqual
<1> QED BY <1>10 DEF a, s, t

\* The server answers, or drops the connection.
LEMMA DialogsServer ==
  ASSUME TypeOK, Dialogs, NEW c \in Clients, Reply(c) \/ ServerDrops(c)
  PROVE  Dialogs'
<1>1. /\ c \in up /\ UNCHANGED <<slots, emitted, sent, ended, batch>>
      /\ \A d \in Clients : d # c => /\ inbox'[d] = inbox[d] /\ owed'[d] = owed[d]
                                     /\ (d \in up' <=> d \in up)
  BY DEF Reply, ServerDrops, mgr, rcv, ctl, sched, TypeOK, TypeServer
<1>2. /\ c \in DOMAIN slots /\ slots[c].conn
      /\ slots[c].awaiting => \/ owed[c] = <<"rfq">> /\ inbox[c] = <<>>
                              \/ owed[c] = <<>> /\ inbox[c] = <<"rfq">>
      /\ ~slots[c].awaiting => /\ inbox[c] = <<>>
                               /\ \/ owed[c] = <<>>
                                  \/ owed[c] = <<"eof">> /\ slots[c].terminated
  BY <1>1, LiveClient
<1>3. AnswersOK(c)' /\ inbox'[c] # <<>>
  <2>1. CASE Reply(c)
    <3>1. /\ owed[c] # <<>> /\ inbox'[c] = Append(inbox[c], Head(owed[c]))
          /\ owed'[c] = Tail(owed[c])
          /\ up' = IF Head(owed[c]) = "eof" THEN up \ {c} ELSE up
      BY <2>1 DEF Reply, TypeOK, TypeServer
    <3>2. CASE slots[c].awaiting
      <4>1. owed[c] = <<"rfq">> /\ inbox[c] = <<>>
        BY <1>2, <3>1, <3>2
      <4>2. Head(<<"rfq">>) = "rfq" /\ Tail(<<"rfq">>) = <<>> /\ Append(<<>>, "rfq") = <<"rfq">>
        OBVIOUS
      <4>3. owed'[c] = <<>> /\ inbox'[c] = <<"rfq">> /\ c \in up'
        BY <1>1, <3>1, <4>1, <4>2
      <4> QED BY <1>1, <1>2, <3>2, <4>3 DEF AnswersOK
    <3>3. CASE ~slots[c].awaiting
      <4>1. owed[c] = <<"eof">> /\ inbox[c] = <<>>
        BY <1>2, <3>1, <3>3
      <4>2. Head(<<"eof">>) = "eof" /\ Tail(<<"eof">>) = <<>> /\ Append(<<>>, "eof") = <<"eof">>
        OBVIOUS
      <4>3. owed'[c] = <<>> /\ inbox'[c] = <<"eof">> /\ c \notin up'
        BY <1>1, <3>1, <4>1, <4>2
      <4> QED BY <1>1, <1>2, <4>3 DEF AnswersOK
    <3> QED BY <3>2, <3>3
  <2>2. CASE ServerDrops(c)
    <3>1. inbox'[c] = Append(inbox[c], "eof") /\ owed'[c] = <<>> /\ c \notin up'
      BY <2>2 DEF ServerDrops, TypeOK, TypeServer
    <3>2. inbox[c] = <<>> \/ inbox[c] = <<"rfq">>
      BY <1>2
    <3>a. Append(<<>>, "eof") = <<"eof">>
      OBVIOUS
    <3>b. Append(<<"rfq">>, "eof") = <<"rfq", "eof">>
      BY AppendToOne
    <3>3. Append(<<>>, "eof") = <<"eof">> /\ Append(<<"rfq">>, "eof") = <<"rfq", "eof">>
      BY <3>a, <3>b
    <3>4. inbox'[c] \in {<<"eof">>, <<"rfq", "eof">>}
      BY <3>1, <3>2, <3>3
    <3>5. inbox'[c] # <<>>
      BY <3>4
    <3> QED BY <1>1, <1>2, <3>1, <3>4, <3>5 DEF AnswersOK
  <2> QED BY <2>1, <2>2
<1>4. ASSUME NEW d \in Clients, d # c PROVE AnswersOK(d)'
  BY <1>1, <1>4, SameAnswers DEF Dialogs
<1>5. \A d \in DOMAIN slots' : TerminatedOK(d)'
  BY <1>1, SameTerminated DEF Dialogs
<1>6. \A d \in batch' : d \in DOMAIN slots' /\ slots'[d].conn /\ inbox'[d] # <<>>
  <2>1. batch \subseteq Clients
    BY DEF TypeOK, TypeLoop
  <2> QED BY <1>1, <1>3, <2>1 DEF Dialogs
<1> QED BY <1>3, <1>4, <1>5, <1>6 DEF Dialogs

\* The loop ends the clients.
LEMMA DialogsFinish ==
  ASSUME TypeOK, Streams, Queues, Dialogs, Finish
  PROVE  Dialogs'
<1>1. UNCHANGED <<emitted, sent, up, owed, inbox, batch>>
  BY DEF Finish, mgr, srv
<1>2. CASE ~Finishing
  <2>1. UNCHANGED <<slots>> /\ ended' = ended
    BY <1>2 DEF Finish, TypeOK, TypeLoop
  <2> QED BY <1>1, <2>1, SameDialogs
<1>3. CASE Finishing
  <2>1. ended' /\ DOMAIN slots' = DOMAIN slots
    BY <1>3 DEF Finish
  <2>2. ASSUME NEW c \in DOMAIN slots
        PROVE  /\ slots'[c].conn = slots[c].conn
               /\ slots'[c].awaiting = slots[c].awaiting
               /\ slots'[c].terminated = slots[c].terminated
               /\ TerminatedOK(c)'
    <3> DEFINE x == Cmd(c, last_ts, "end")
               s == slots[c]
               q == s.queue
    <3>1. /\ s \in Slot /\ q \in Seq(Command) /\ Len(q) \in Nat /\ DOMAIN q = 1 .. Len(q)
          /\ c \in Clients
      BY SlotFacts
    <3>2. x \in Command /\ x.kind = "end"
      BY <3>1, ReplayAssumption DEF Cmd, Command, Kind, TypeOK, TypeLoop
    <3>3. slots'[c] = Queued(s, x)
      BY <1>3 DEF Finish
    <3> HIDE DEF x, s
    <3>4. /\ slots'[c].queue = Append(q, x) /\ slots'[c].conn = s.conn
          /\ slots'[c].awaiting = s.awaiting /\ slots'[c].terminated = s.terminated
      BY <3>1, <3>2, <3>3, QueuedSlot
    <3>5. /\ \A i \in 1 .. Len(q) : Append(q, x)[i] = q[i]
          /\ Append(q, x)[Len(q) + 1] = x
          /\ DOMAIN Append(q, x) = 1 .. Len(q) + 1
      BY <3>1, <3>2, AppendProperties, LenProperties
    <3>6. s.terminated => \A i \in 1 .. Len(q) : q[i].kind = "end"
      BY <3>1 DEF Dialogs, TerminatedOK, s
    <3>7. s.terminated => s.conn
      BY DEF Dialogs, TerminatedOK, s
    <3> HIDE DEF q
    <3>8. ASSUME s.terminated, NEW i \in 1 .. Len(q) + 1 PROVE Append(q, x)[i].kind = "end"
      <4>1. CASE i = Len(q) + 1
        BY <3>2, <3>5, <4>1
      <4>2. CASE i \in 1 .. Len(q)
        BY <3>5, <3>6, <3>8, <4>2
      <4> QED BY <3>1, <4>1, <4>2
    <3>9. TerminatedOK(c)'
      BY <2>1, <3>4, <3>5, <3>7, <3>8 DEF TerminatedOK
    <3> QED BY <3>4, <3>9 DEF s
  <2>3. \A c \in Clients : AnswersOK(c)'
    BY <1>1, <2>1, <2>2, SameAnswers DEF Dialogs
  <2>4. \A c \in batch' : c \in DOMAIN slots' /\ slots'[c].conn /\ inbox'[c] # <<>>
    BY <1>1, <2>1, <2>2 DEF Dialogs
  <2> QED BY <2>1, <2>2, <2>3, <2>4 DEF Dialogs
<1> QED BY <1>2, <1>3

\* Every step keeps the loop and each server of one mind.
LEMMA DialogsStep ==
  ASSUME TypeOK, Streams, Closing, Queues, UnderWay, Dialogs, [Next]_vars
  PROVE  Dialogs'
<1>0. TypeSchedule
  BY DEF TypeOK
<1>1. CASE Read
  BY <1>1, DialogsRead
<1>2. ASSUME NEW cmd \in Captured, Pulls(cmd) PROVE Dialogs'
  BY <1>2, DialogsPull
<1>3. CASE \E n \in Slot : Succeeds(n)
  BY <1>3, DialogsExecute
<1>4. CASE SendHeld \/ Finished \/ DropSender \/ Pauses
  BY <1>4, SameDialogs DEF SendHeld, Finished, DropSender, Pauses, mgr, ctl, rcv, sched, srv
<1>5. CASE \E c \in Clients : EventsDead(c) \/ EventsReady(c)
  BY <1>5, DialogsEvents
<1>6. CASE \E c \in Clients : Reply(c) \/ ServerDrops(c)
  BY <1>6, DialogsServer
<1>7. CASE Finish
  BY <1>7, DialogsFinish
<1>8. CASE Poll
  <2>1. UNCHANGED <<slots, up, owed, inbox, emitted, sent, ended>>
    BY <1>8 DEF Poll, mgr, rcv, sched, srv
  <2>2. \A c \in batch' : c \in DOMAIN slots' /\ slots'[c].conn /\ inbox'[c] # <<>>
    BY <1>8, <2>1 DEF Poll
  <2> QED BY <2>1, <2>2, SameAnswers, SameTerminated DEF Dialogs
<1>9. CASE TryLater
  <2>1. cur \in DOMAIN slots /\ slots[cur] \in Slot /\ slots[cur].queue # <<>>
    BY <1>0, <1>9, Trying DEF TryLater
  <2> DEFINE n == AfterRebase(slots[cur])
  <2>2. /\ n.queue = slots[cur].queue /\ n.conn = slots[cur].conn
        /\ n.awaiting = slots[cur].awaiting /\ n.terminated = slots[cur].terminated
    BY <2>1, PoppedSlot
  <2> HIDE DEF n
  <2>3. /\ slots' = [slots EXCEPT ![cur] = n]
        /\ UNCHANGED <<up, owed, inbox, emitted, sent, ended, batch>>
    BY <1>9 DEF TryLater, mgr, rcv, srv, n
  <2>4. /\ DOMAIN slots' = DOMAIN slots
        /\ \A d \in DOMAIN slots : /\ slots'[d].queue = slots[d].queue
                                   /\ slots'[d].conn = slots[d].conn
                                   /\ slots'[d].awaiting = slots[d].awaiting
                                   /\ slots'[d].terminated = slots[d].terminated
    BY <2>1, <2>2, <2>3
  <2>5. \A c \in Clients : AnswersOK(c)'
    BY <2>3, <2>4, SameAnswers DEF Dialogs
  <2>6. \A c \in DOMAIN slots' : TerminatedOK(c)'
    BY <2>3, <2>4, SameTerminated DEF Dialogs
  <2>7. \A c \in batch' : c \in DOMAIN slots' /\ slots'[c].conn /\ inbox'[c] # <<>>
    BY <2>3, <2>4 DEF Dialogs
  <2> QED BY <2>5, <2>6, <2>7 DEF Dialogs
<1>10. CASE ConnectFails
  <2>1. /\ MayTry /\ Head(slots[cur].queue).kind = "connect"
        /\ slots' = WithoutSlot(cur)
        /\ UNCHANGED <<up, owed, inbox, emitted, sent, ended, batch>>
    BY <1>10 DEF ConnectFails, Executing, mgr, rcv, ctl
  <2>2. cur \in Clients /\ cur \in DOMAIN slots /\ slots[cur].queue # <<>>
    BY <1>0, <2>1, Trying
  <2>3. ~slots[cur].conn
    BY <2>1, <2>2, FirstOfQueue
  <2>4. cur \notin up /\ owed[cur] = <<>> /\ inbox[cur] = <<>> /\ cur \notin batch
    BY <2>2, <2>3 DEF Dialogs, AnswersOK
  <2>5. batch \subseteq Clients
    BY DEF TypeOK, TypeLoop
  <2> QED BY <2>1, <2>2, <2>4, <2>5, DialogsGone
<1>10a. CASE FlushFails
  <2>1. /\ MayTry /\ slots[cur].conn /\ cur \notin up
        /\ slots' = WithoutSlot(cur) /\ batch' = batch \ {cur}
        /\ inbox' = [inbox EXCEPT ![cur] = <<>>]
        /\ UNCHANGED <<up, owed, emitted, sent, ended>>
    BY <1>10a DEF FlushFails, mgr, rcv
  <2>2. cur \in Clients /\ cur \in DOMAIN slots
    BY <1>0, <2>1, Trying
  <2>3. owed[cur] = <<>>
    BY <2>1, <2>2 DEF Dialogs, AnswersOK
  <2>4. inbox'[cur] = <<>> /\ \A d \in Clients : d # cur => inbox'[d] = inbox[d]
    BY <2>1, <2>2 DEF TypeOK, TypeServer
  <2>5. batch \subseteq Clients
    BY DEF TypeOK, TypeLoop
  <2> QED BY <2>1, <2>2, <2>3, <2>4, <2>5, DialogsGone
<1>11. CASE \/ EventsDone \/ DispatchTimer \/ DispatchDone \/ TryNothing \/ Tick
            \/ UNCHANGED vars
  BY <1>11, SameDialogs DEF EventsDone, DispatchTimer, DispatchDone, TryNothing, Tick,
     vars, mgr, ctl, rcv, sched, srv
<1>12. CASE Elsewhere
  BY <1>5, <1>6, <1>7, <1>8, <1>9, <1>10, <1>10a, <1>11, <1>12 DEF Elsewhere
<1> QED BY <1>0, <1>1, <1>2, <1>3, <1>4, <1>12, Steps

----------------------------------------------------------------------------
(* The theorems.                                                           *)

\* The initial states.
LEMMA InvInit == Init => IInv
<1> SUFFICES ASSUME Init PROVE IInv
  OBVIOUS
<1> USE CapturedCommand, ReplayAssumption DEF Init
<1>1. <<>> \in Seq(Command) /\ <<>> \in Seq(Captured) /\ <<>> \in Seq({"rfq", "eof"})
  BY EmptySeq
<1>2. Len(<<>>) = 0 /\ DOMAIN <<>> = {}
  OBVIOUS
<1>3. DOMAIN slots = {}
  OBVIOUS
<1>4. TypeOK
  <2>1. TypeManager
    <3>1. 0 \in 0 .. MaxTs /\ 0 \in 0 .. WakeBatch /\ 0 <= QueueCap
      OBVIOUS
    <3>2. held \in Command /\ emitted \in [Clients -> Seq(Command)]
      BY <1>1
    <3>3. chan \in Seq(Command) /\ Len(chan) <= QueueCap
      BY <1>1, <1>2, <3>1
    <3> QED BY <3>1, <3>2, <3>3 DEF TypeManager
  <2>2. TypeLoop
    <3>1. 0 \in 0 .. MaxTs /\ 0 \in Nat
      OBVIOUS
    <3>2. lookahead \in Command
      OBVIOUS
    <3> QED BY <3>1, <3>2 DEF TypeLoop
  <2>3. TypeSchedule
    BY <1>3 DEF TypeSchedule
  <2>4. TypeServer
    BY <1>1 DEF TypeServer
  <2> QED BY <2>1, <2>2, <2>3, <2>4 DEF TypeOK
<1>5. Streams
  BY <1>1, <1>2 DEF Streams, StreamOK
<1>6. Closing
  BY DEF Closing
<1>7. Queues /\ Armed /\ Clocked /\ InOrder
  BY <1>3 DEF Queues, Armed, Clocked, InOrder
<1>8. UnderWay
  <2>1. Flow = <<>>
    BY <1>1, ConcatEmptySeq DEF Flow, One
  <2>2. ASSUME NEW c \in Clients PROVE Continues(c)
    <3>1. emitted[c] = <<>> /\ sent[c] = <<>> /\ Len(emitted[c]) = 0
      OBVIOUS
    <3>a. Embeds(<<>>, <<>>, c, Len(<<>>) + 1)
      BY EmbedsNothing
    <3>b. Len(<<>>) + 1 = 1
      BY <1>2
    <3>2. Embeds(Flow, emitted[c], c, 1)
      BY <2>1, <3>1, <3>a, <3>b
    <3>3. 1 \in 1 .. Len(emitted[c]) + 1
      BY <3>1
    <3> QED BY <1>3, <3>1, <3>2, <3>3 DEF Continues
  <2> QED BY <2>2 DEF UnderWay
<1>9. Dialogs
  BY <1>3 DEF Dialogs, AnswersOK
<1> QED BY <1>4, <1>5, <1>6, <1>7, <1>8, <1>9 DEF IInv

\* The steps.
LEMMA InvStep == IInv /\ [Next]_vars => IInv'
BY TypeStep, StreamsStep, ClosingStep, QueuesStep, DialogsStep, ArmedStep, ScheduleStep
   DEF IInv

\* What the manager, the channel, the slots, the timers and the servers keep to, in
\* replay of manager.rs and run of loop.rs.
THEOREM Invariance == Spec => []IInv
<1> QED BY InvInit, InvStep, PTL DEF Spec

\* The two threads and what is between them keep their types.
THEOREM TypeCorrect == Spec => []TypeOK
<1>1. IInv => TypeOK
  BY DEF IInv
<1> QED BY <1>1, Invariance, PTL

\* How many of the messages ask the loop to go on.
LEMMA Counting ==
  /\ Unanswered(<<>>) = 0 /\ Unanswered(<<"rfq">>) = 1
  /\ Unanswered(<<"eof">>) = 0 /\ Unanswered(<<"rfq", "eof">>) = 1
<1>1. {i \in DOMAIN <<>> : <<>>[i] = "rfq"} = {}
  OBVIOUS
<1>2. {i \in DOMAIN <<"rfq">> : <<"rfq">>[i] = "rfq"} = {1}
  OBVIOUS
<1>3. {i \in DOMAIN <<"eof">> : <<"eof">>[i] = "rfq"} = {}
  OBVIOUS
<1>4. {i \in DOMAIN <<"rfq", "eof">> : <<"rfq", "eof">>[i] = "rfq"} = {1}
  OBVIOUS
<1>5. Cardinality({}) = 0 /\ Cardinality({1}) = 1
  BY FS_EmptySet, FS_Singleton
<1> QED BY <1>1, <1>2, <1>3, <1>4, <1>5 DEF Unanswered

\* A server sees the frames of its captured client, in their order, and each Query or
\* Sync is answered before the next frame: on_frame and execute in client.rs and
\* loop.rs, whatever order timers, answers and wakes dispatch the clients in.
THEOREM WireOrderHolds == Spec => []WireOrder
<1>1. IInv => WireOrder
  <2> SUFFICES ASSUME IInv PROVE WireOrder
    OBVIOUS
  <2>1. InOrder
    BY DEF IInv
  <2>2. ASSUME NEW c \in DOMAIN slots
        PROVE  /\ Outstanding(c) <= 1
               /\ slots[c].conn /\ c \in up => (slots[c].awaiting <=> Outstanding(c) = 1)
    <3>1. AnswersOK(c) /\ Dialogs
      BY DEF IInv, Dialogs, TypeOK, TypeSchedule
    <3>2. CASE slots[c].conn /\ c \in up
      BY <3>1, <3>2, Counting DEF AnswersOK, Outstanding
    <3>3. CASE ~slots[c].conn
      BY <3>1, <3>3, Counting DEF AnswersOK, Outstanding
    <3>4. CASE slots[c].conn /\ c \notin up
      BY <3>1, <3>4, Counting DEF AnswersOK, Outstanding
    <3> QED BY <3>2, <3>3, <3>4
  <2> QED BY <2>1, <2>2 DEF WireOrder, AwaitsAnswer
<1> QED BY <1>1, Invariance, PTL

\* When the loop polls, no client that could send is without a timer, and the shift
\* keeps no timer from being due: schedule, try_dispatch, catch_up and finish_clients
\* in loop.rs.
THEOREM TimersServeClients == Spec => []TimersServe
<1>1. IInv => TimersServe
  BY DEF IInv, TimersServe, NoLostWakeup, ShiftBound, Armed, ArmedFor, Clocked
<1> QED BY <1>1, Invariance, PTL

===============================================================================
