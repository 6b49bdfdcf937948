---------------------------- MODULE CompareProofs ----------------------------
(***************************************************************************)
(* Theorems of Compare, for every set of clients, every capture and every   *)
(* set of lost events: matching by kind never runs ahead of the truth       *)
(* (NeverAhead), whatever can be matched has been whenever a file is read   *)
(* further (Drained), and every recorded event finds a message (AllMatched).*)
(***************************************************************************)
EXTENDS Compare, SequenceTheorems, TLAPS

----------------------------------------------------------------------------
(* The inductive invariant.                                                *)

\* The last number a captured message takes: two when the client is restored.
Through(m) == m.number + (IF Restores(m.id, m.code) THEN 1 ELSE 0)

\* The messages of a client take its numbers one after the other, without a gap.
CaptureShape(c) ==
  /\ \A p \in 1..Len(capture) : capture[p].id = c =>
       /\ capture[p].number >= 1 /\ Through(capture[p]) <= Len(sends[c])
       /\ sends[c][capture[p].number] = capture[p].code
       /\ Restores(c, capture[p].code) => sends[c][capture[p].number + 1] = "SimpleQuery"
  /\ \A p, q \in 1..Len(capture) :
       capture[p].id = c /\ capture[q].id = c /\ p < q =>
         Through(capture[p]) < capture[q].number
  /\ \A n \in 1..Len(sends[c]) : \E p \in 1..Len(capture) :
       capture[p].id = c /\ capture[p].number <= n /\ n <= Through(capture[p])

\* The Disconnect of a backend may have no message of its own.
Extra(c) == IF c \in gone THEN 1 ELSE 0

\* Each event of a client has the kind of the message that caused it; the events
\* keep the order of the messages, and number - place of them are missing before it.
TimingShape(c) ==
  /\ lost[c] <= sent[c] /\ sent[c] <= Len(sends[c])
  /\ \A p \in 1..Len(timing) : timing[p].id = c =>
       /\ timing[p].number <= sent[c] + Extra(c)
       /\ timing[p].place >= 1 /\ timing[p].place <= timing[p].number
       /\ timing[p].number - timing[p].place <= lost[c]
       /\ timing[p].place <= sent[c] - lost[c] + Extra(c)
       /\ timing[p].number <= Len(sends[c]) =>
            sends[c][timing[p].number] = timing[p].code
  /\ \A p, q \in 1..Len(timing) :
       timing[p].id = c /\ timing[q].id = c /\ p < q =>
         /\ timing[p].place < timing[q].place
         /\ timing[p].number - timing[p].place <= timing[q].number - timing[q].place
  /\ \A n \in 1..(sent[c] - lost[c]) : \E p \in 1..Len(timing) :
       timing[p].id = c /\ timing[p].place = n

\* How far the capture and the events of a client have been read.
ReadTo(c) == skipped[c] + matched[c] + Len(cap[c])
EventsRead(c) == matched[c] + Len(tim[c])

\* The queue of messages: what was read and neither matched nor skipped.
CapQueue(c) ==
  /\ ReadTo(c) <= Len(sends[c])
  /\ \A p \in 1..Len(capture) : capture[p].id = c =>
       /\ p <= messages => Through(capture[p]) <= ReadTo(c)
       /\ p > messages => capture[p].number > ReadTo(c)
  /\ \A i \in 1..Len(cap[c]) :
       /\ cap[c][i].number = skipped[c] + matched[c] + i
       /\ cap[c][i].code = sends[c][skipped[c] + matched[c] + i]

\* The event that lies at a place in the queue of events.
IsEvent(c, i, p) ==
  /\ timing[p].id = c /\ timing[p].place = matched[c] + i
  /\ tim[c][i].number = timing[p].number /\ tim[c][i].code = timing[p].code

\* The queue of events: what was read and not matched.
TimQueue(c) ==
  /\ \A p \in 1..Len(timing) : timing[p].id = c =>
       (p <= timings <=> timing[p].place <= EventsRead(c))
  /\ \A i \in 1..Len(tim[c]) : \E p \in 1..Len(timing) : IsEvent(c, i, p)

\* No more messages are skipped than events are missing before any event that is
\* still to be matched.
SkipsLost(c) ==
  /\ skipped[c] <= lost[c]
  /\ \A p \in 1..Len(timing) : timing[p].id = c /\ timing[p].place > matched[c] =>
       skipped[c] <= timing[p].number - timing[p].place

\* Before the comparison nothing is read.
Phases ==
  /\ pc = "record" => timing = <<>> /\ \A c \in Clients : sent[c] = 0 /\ lost[c] = 0 /\ c \notin gone
  /\ pc \in {"record", "replay"} =>
       /\ messages = 0 /\ timings = 0 /\ pairs = {}
       /\ \A c \in Clients : /\ cap[c] = <<>> /\ tim[c] = <<>>
                             /\ matched[c] = 0 /\ skipped[c] = 0

\* An event that waits for a message has the capture read for it, or read to its end.
Waits == \A c \in Clients :
  tim[c] # <<>> => messages = Len(capture) \/ (pc = "drain" /\ c = waiting)

\* What was matched.
PairsTrue == \A p \in pairs :
  p.message <= p.event /\ (lost[p.id] = 0 => p.message = p.event)

IInv ==
  /\ Types /\ Phases /\ Drained /\ Waits /\ PairsTrue
  /\ \A c \in Clients : /\ CaptureShape(c) /\ TimingShape(c)
                        /\ CapQueue(c) /\ TimQueue(c) /\ SkipsLost(c)

----------------------------------------------------------------------------
(* Lemmas.                                                                 *)

LEMMA InitInv == Init => IInv
<1> SUFFICES ASSUME Init PROVE IInv
  OBVIOUS
<1> USE DEF Init
<1>1. Types
  BY CompareAssumption DEF Types
<1>2. Phases /\ Drained /\ Waits /\ PairsTrue
  BY DEF Phases, Drained, Waits, PairsTrue, Both
<1>3. ASSUME NEW c \in Clients
      PROVE  CaptureShape(c) /\ TimingShape(c) /\ CapQueue(c) /\ TimQueue(c) /\ SkipsLost(c)
  BY DEF CaptureShape, TimingShape, CapQueue, TimQueue, SkipsLost, ReadTo, EventsRead
<1> QED
  BY <1>1, <1>2, <1>3 DEF IInv

\* The entries of the two files.
Messages == [id : Clients, code : Codes, number : Nat]
Events == [id : Clients, code : Codes, number : Nat, place : Nat]

\* A message of the capture, the numbers it takes and an event are well typed.
LEMMA FileTypes ==
  ASSUME Types
  PROVE  /\ Len(capture) \in Nat /\ Len(timing) \in Nat
         /\ capture \in Seq(Messages) /\ timing \in Seq(Events)
         /\ \A p \in 1..Len(capture) :
              /\ capture[p].id \in Clients /\ capture[p].code \in Codes
              /\ capture[p].number \in Nat
              /\ Through(capture[p]) \in Nat /\ capture[p].number <= Through(capture[p])
         /\ \A p \in 1..Len(timing) :
              /\ timing[p].id \in Clients /\ timing[p].code \in Codes
              /\ timing[p].number \in Nat /\ timing[p].place \in Nat
<1>1. capture \in Seq(Messages) /\ timing \in Seq(Events)
  BY DEF Types, Messages, Events
<1>2. ASSUME NEW p \in 1..Len(capture)
      PROVE  /\ capture[p].id \in Clients /\ capture[p].code \in Codes
             /\ capture[p].number \in Nat
  <2>1. capture[p] \in Messages
    BY <1>1, ElementOfSeq
  <2> QED BY <2>1 DEF Messages
<1>3. ASSUME NEW p \in 1..Len(timing)
      PROVE  /\ timing[p].id \in Clients /\ timing[p].code \in Codes
             /\ timing[p].number \in Nat /\ timing[p].place \in Nat
  <2>1. timing[p] \in Events
    BY <1>1, ElementOfSeq
  <2> QED BY <2>1 DEF Events
<1>4. Len(capture) \in Nat /\ Len(timing) \in Nat
  BY <1>1, LenProperties
<1>5. ASSUME NEW p \in 1..Len(capture)
      PROVE  Through(capture[p]) \in Nat /\ capture[p].number <= Through(capture[p])
  BY <1>2 DEF Through
<1> QED
  BY <1>1, <1>2, <1>3, <1>4, <1>5

\* The types of the numbers kept for each client.
LEMMA Counters ==
  ASSUME Types
  PROVE  /\ sent \in [Clients -> Nat] /\ lost \in [Clients -> 0..MaxLost]
         /\ gone \subseteq Clients
         /\ matched \in [Clients -> Nat] /\ skipped \in [Clients -> Nat]
         /\ sends \in [Clients -> Seq(Codes)]
BY DEF Types

\* What the types say of a client.
LEMMA ClientTypes ==
  ASSUME Types, NEW c \in Clients
  PROVE  /\ sends[c] \in Seq(Codes) /\ Len(sends[c]) \in Nat
         /\ sent[c] \in Nat /\ lost[c] \in Nat /\ matched[c] \in Nat /\ skipped[c] \in Nat
         /\ cap[c] \in Seq([code : Codes, number : Nat]) /\ Len(cap[c]) \in Nat
         /\ tim[c] \in Seq([code : Codes, number : Nat]) /\ Len(tim[c]) \in Nat
         /\ ReadTo(c) \in Nat /\ EventsRead(c) \in Nat
         /\ messages \in Nat /\ timings \in Nat
<1>1. /\ sends[c] \in Seq(Codes)
      /\ sent[c] \in Nat /\ lost[c] \in Nat /\ matched[c] \in Nat /\ skipped[c] \in Nat
      /\ messages \in Nat /\ timings \in Nat
  BY CompareAssumption, FileTypes DEF Types
<1>2. /\ cap[c] \in Seq([code : Codes, number : Nat])
      /\ tim[c] \in Seq([code : Codes, number : Nat])
  BY DEF Types
<1>3. Len(sends[c]) \in Nat /\ Len(cap[c]) \in Nat /\ Len(tim[c]) \in Nat
  BY <1>1, <1>2, LenProperties
<1>4. ReadTo(c) \in Nat /\ EventsRead(c) \in Nat
  <2>1. \A a, b \in Nat : a + b \in Nat
    OBVIOUS
  <2> QED BY <1>1, <1>3, <2>1 DEF ReadTo, EventsRead
<1> QED
  BY <1>1, <1>2, <1>3, <1>4

\* What a captured message makes the replay send.
LEMMA SendsAppend ==
  ASSUME Types, NEW c \in Clients, NEW code \in Codes
  PROVE  LET s == sends[c] \o Sends(c, code)
         IN  /\ s \in Seq(Codes)
             /\ Len(s) = Len(sends[c]) + (IF Restores(c, code) THEN 2 ELSE 1)
             /\ \A n \in 1..Len(sends[c]) : s[n] = sends[c][n]
             /\ s[Len(sends[c]) + 1] = code
             /\ Restores(c, code) => s[Len(sends[c]) + 2] = "SimpleQuery"
<1>1. sends[c] \in Seq(Codes) /\ "SimpleQuery" \in Codes /\ "Connect" \in Codes
  BY CompareAssumption DEF Types, Codes
<1>2. CASE Restores(c, code)
  <2>1. Sends(c, code) = <<"Connect", "SimpleQuery">> /\ code = "Connect"
    BY <1>2 DEF Sends, Restores
  <2> QED BY <1>1, <1>2, <2>1
<1>3. CASE ~Restores(c, code)
  <2>1. Sends(c, code) = <<code>>
    BY <1>3 DEF Sends
  <2> QED BY <1>1, <1>3, <2>1
<1> QED BY <1>2, <1>3

\* Before the comparison the queues say nothing yet.
Begun == pc \in {"record", "replay"} /\ Types /\ Phases
           /\ \A c \in Clients : CaptureShape(c) /\ TimingShape(c)

Queues == \A c \in Clients : CapQueue(c) /\ TimQueue(c) /\ SkipsLost(c)

LEMMA NothingRead == Begun => Queues
<1> SUFFICES ASSUME Begun, NEW c \in Clients
             PROVE  CapQueue(c) /\ TimQueue(c) /\ SkipsLost(c)
  BY DEF Queues
<1> USE DEF Begun
<1>1. /\ messages = 0 /\ timings = 0 /\ cap[c] = <<>> /\ tim[c] = <<>>
      /\ matched[c] = 0 /\ skipped[c] = 0 /\ ReadTo(c) = 0 /\ EventsRead(c) = 0
  BY DEF Phases, ReadTo, EventsRead
<1>2. CapQueue(c)
  BY <1>1, FileTypes, ClientTypes DEF CapQueue, CaptureShape
<1>3. TimQueue(c)
  <2>1. Len(timing) \in Nat /\ Len(tim[c]) = 0
    BY <1>1, FileTypes
  <2>2. ASSUME NEW p \in 1..Len(timing), timing[p].id = c
        PROVE  (p <= timings <=> timing[p].place <= EventsRead(c))
    <3>1. timing[p].place \in Nat /\ timing[p].place >= 1
      BY <2>2, FileTypes DEF TimingShape
    <3> QED BY <1>1, <2>1, <3>1
  <2> QED BY <2>1, <2>2 DEF TimQueue
<1>4. SkipsLost(c)
  BY <1>1, FileTypes, ClientTypes DEF SkipsLost, TimingShape
<1> QED BY <1>2, <1>3, <1>4

----------------------------------------------------------------------------
(* The recording and the replay.                                           *)

LEMMA CaptureStep ==
  ASSUME IInv, NEW d \in Clients, Capture(d)
  PROVE  IInv'
<1> USE DEF file, replay, stats
<1>1. PICK code \in Codes :
        /\ capture' = Append(capture, [id |-> d, code |-> code, number |-> Len(sends[d]) + 1])
        /\ sends' = [sends EXCEPT ![d] = @ \o Sends(d, code)]
  BY DEF Capture
<1>2. Types /\ Phases /\ pc = "record" /\ timing = <<>>
  BY DEF IInv, Phases, Capture
<1> DEFINE n == Len(sends[d])
           k == Len(capture)
           m == [id |-> d, code |-> code, number |-> n + 1]
<1>3. /\ n \in Nat /\ k \in Nat 
      /\ Len(capture') = k + 1 /\ capture'[k + 1] = m
      /\ \A p \in 1..k : capture'[p] = capture[p]
      /\ capture' \in Seq(Messages)
      /\ m.id = d /\ m.code = code /\ m.number = n + 1
  <2>1. n \in Nat /\ k \in Nat /\ capture \in Seq(Messages)
    BY <1>2, FileTypes, ClientTypes
  <2>2. m \in Messages /\ m.id = d /\ m.code = code /\ m.number = n + 1
    BY <2>1 DEF Messages
  <2>3. capture' = Append(capture, m)
    BY <1>1
  <2> HIDE DEF m, n
  <2>4. /\ Len(capture') = k + 1 /\ capture'[k + 1] = m /\ capture' \in Seq(Messages)
        /\ \A p \in 1..k : capture'[p] = capture[p]
    BY <2>1, <2>2, <2>3, AppendProperties
  <2> QED BY <2>1, <2>2, <2>4
<1>4. /\ sends'[d] \in Seq(Codes)
      /\ Len(sends'[d]) = n + (IF Restores(d, code) THEN 2 ELSE 1)
      /\ \A i \in 1..n : sends'[d][i] = sends[d][i]
      /\ sends'[d][n + 1] = code
      /\ Restores(d, code) => sends'[d][n + 2] = "SimpleQuery"
      /\ \A c \in Clients : c # d => sends'[c] = sends[c]
      /\ sends' \in [Clients -> Seq(Codes)]
  <2>1. /\ sends'[d] = sends[d] \o Sends(d, code)
        /\ \A c \in Clients : c # d => sends'[c] = sends[c]
    BY <1>1, <1>2 DEF Types
  <2>2. sends'[d] \in Seq(Codes)
    BY <2>1, <1>2, SendsAppend
  <2>3. /\ Len(sends'[d]) = n + (IF Restores(d, code) THEN 2 ELSE 1)
        /\ \A i \in 1..n : sends'[d][i] = sends[d][i]
        /\ sends'[d][n + 1] = code
        /\ Restores(d, code) => sends'[d][n + 2] = "SimpleQuery"
    <3> DEFINE s == sends[d] \o Sends(d, code)
    <3>1. /\ Len(s) = n + (IF Restores(d, code) THEN 2 ELSE 1)
          /\ \A i \in 1..n : s[i] = sends[d][i]
          /\ s[n + 1] = code
          /\ Restores(d, code) => s[n + 2] = "SimpleQuery"
      BY <1>2, SendsAppend, Zenon
    <3>2. s = sends'[d]
      BY <2>1
    <3> HIDE DEF s, n
    <3> QED BY <3>1, <3>2
  <2>4. sends' \in [Clients -> Seq(Codes)]
    <3>1. sends \in [Clients -> Seq(Codes)]
      BY <1>2 DEF Types
    <3> QED BY <3>1, <2>1, <2>2, <1>1
  <2> QED BY <2>1, <2>2, <2>3, <2>4
<1>5. Through(m) = Len(sends'[d])
  <2>1. Through(m) = n + 1 + (IF Restores(d, code) THEN 1 ELSE 0)
    BY DEF Through
  <2> HIDE DEF m, n
  <2>2. n \in Nat /\ Len(sends'[d]) = n + (IF Restores(d, code) THEN 2 ELSE 1)
    BY <1>3, <1>4
  <2> QED BY <2>1, <2>2
<1>6. Types'
  <2>1. /\ capture' \in Seq(Messages)
        /\ sends' \in [Clients -> Seq(Codes)]
    BY <1>3, <1>4
  <2>2. messages' \in 0..Len(capture')
    BY <1>2, <1>3 DEF Phases, Capture
  <2> HIDE DEF m, n, k
  <2> QED BY <1>2, <2>1, <2>2 DEF Types, Capture, Messages
<1>7. Phases' /\ Drained' /\ Waits' /\ PairsTrue'
  BY <1>2 DEF IInv, Phases, Drained, Waits, PairsTrue, Both, Capture
<1>8. ASSUME NEW c \in Clients PROVE CaptureShape(c)'
  <2>1. CaptureShape(c)
    BY DEF IInv
  <2>2. CASE c # d
    <3>1. \A p \in 1..Len(capture') : capture'[p].id = c =>
            p \in 1..k /\ capture'[p] = capture[p]
      BY <1>3, <2>2
    <3> HIDE DEF n, k, m
    <3>2. sends'[c] = sends[c]
      BY <1>4, <2>2
    <3>3. 1..k \subseteq 1..Len(capture')
      BY <1>3
    <3>4. ASSUME NEW i \in 1..Len(sends[c])
          PROVE  \E p \in 1..Len(capture') :
                   capture'[p].id = c /\ capture'[p].number <= i /\ i <= Through(capture'[p])
      <4>1. PICK p \in 1..k : capture[p].id = c /\ capture[p].number <= i
                              /\ i <= Through(capture[p])
        BY <2>1 DEF CaptureShape, k
      <4> QED BY <4>1, <3>3, <1>3
    <3> QED BY <2>1, <3>1, <3>2, <3>4, <1>3 DEF CaptureShape, k
  <2>3. CASE c = d
    <3>1. \A p \in 1..k : capture[p].id = d =>
            /\ capture[p].number \in 1..n /\ Through(capture[p]) <= n
            /\ Restores(d, capture[p].code) => capture[p].number + 1 \in 1..n
      BY <2>1, <2>3, <1>2, <1>3, FileTypes DEF CaptureShape, Through
    <3>2. \A p \in 1..(k + 1) : p \in 1..k \/ p = k + 1
      BY <1>3
    <3> HIDE DEF n, k, m
    <3>3. ASSUME NEW p \in 1..(k + 1), capture'[p].id = d
          PROVE  /\ capture'[p].number >= 1 /\ Through(capture'[p]) <= Len(sends'[d])
                 /\ sends'[d][capture'[p].number] = capture'[p].code
                 /\ Restores(d, capture'[p].code) =>
                      sends'[d][capture'[p].number + 1] = "SimpleQuery"
      <4>1. CASE p \in 1..k
        <5>1. /\ capture'[p] = capture[p] /\ capture[p].number \in 1..n
              /\ Through(capture[p]) <= n /\ Through(capture[p]) \in Nat
              /\ Restores(d, capture[p].code) => capture[p].number + 1 \in 1..n
          BY <3>1, <3>3, <4>1, <1>2, <1>3, FileTypes DEF k
        <5>2. /\ sends[d][capture[p].number] = capture[p].code
              /\ Restores(d, capture[p].code) => sends[d][capture[p].number + 1] = "SimpleQuery"
          BY <2>1, <2>3, <3>3, <4>1, <5>1 DEF CaptureShape, k
        <5>3. Through(capture[p]) <= Len(sends'[d])
          BY <5>1, <1>3, <1>4
        <5>4. /\ sends'[d][capture[p].number] = capture[p].code
              /\ Restores(d, capture[p].code) => sends'[d][capture[p].number + 1] = "SimpleQuery"
          BY <5>1, <5>2, <1>4
        <5>5. capture[p].number >= 1
          BY <5>1
        <5> QED BY <5>1, <5>3, <5>4, <5>5
      <4>2. CASE p = k + 1
        BY <4>2, <1>3, <1>4, <1>5
      <4> QED BY <4>1, <4>2, <3>2
    <3>4. ASSUME NEW p \in 1..(k + 1), NEW q \in 1..(k + 1), p < q,
                 capture'[p].id = d, capture'[q].id = d
          PROVE  Through(capture'[p]) < capture'[q].number
      <4>1. p \in 1..k /\ capture'[p] = capture[p]
        BY <1>3, <3>4
      <4>2. CASE q \in 1..k
        BY <4>1, <4>2, <2>1, <2>3, <3>4, <1>3 DEF CaptureShape, k
      <4>3. CASE q = k + 1
        <5>1. Through(capture[p]) <= n /\ Through(capture[p]) \in Nat
          BY <3>1, <3>4, <4>1, <1>2, FileTypes DEF k
        <5> QED BY <5>1, <4>1, <4>3, <1>3
      <4> QED BY <4>2, <4>3, <3>2
    <3>5. ASSUME NEW i \in 1..Len(sends'[d])
          PROVE  \E p \in 1..(k + 1) :
                   capture'[p].id = d /\ capture'[p].number <= i /\ i <= Through(capture'[p])
      <4>1. CASE i <= n
        <5>1. i \in 1..Len(sends[d])
          BY <4>1, <1>3, <1>4 DEF n
        <5>2. PICK p \in 1..k : capture[p].id = d /\ capture[p].number <= i
                                /\ i <= Through(capture[p])
          BY <5>1, <2>1, <2>3 DEF CaptureShape, k
        <5> QED BY <5>2, <1>3
      <4>2. CASE ~(i <= n)
        <5>1. k + 1 \in 1..(k + 1) /\ n + 1 <= i /\ i <= Len(sends'[d])
          BY <4>2, <1>3, <1>4
        <5> QED BY <5>1, <1>3, <1>5
      <4> QED BY <4>1, <4>2
    <3> QED BY <2>3, <3>3, <3>4, <3>5, <1>3 DEF CaptureShape
  <2> QED BY <2>2, <2>3
<1>9. ASSUME NEW c \in Clients PROVE TimingShape(c)'
  <2>1. timing' = <<>> /\ sent'[c] = 0 /\ lost'[c] = 0
    BY <1>2 DEF Phases, Capture
  <2>2. Len(sends'[c]) \in Nat
    BY <1>4
  <2> QED BY <2>1, <2>2 DEF TimingShape
<1>10. pc' = "record"
  BY DEF Capture
<1>11. ASSUME NEW c \in Clients PROVE CapQueue(c)' /\ TimQueue(c)' /\ SkipsLost(c)'
  <2>1. Begun'
    BY <1>6, <1>7, <1>8, <1>9, <1>10 DEF Begun
  <2>2. Queues'
    BY <2>1, NothingRead, PTL
  <2> QED BY <2>2 DEF Queues
<1> QED
  BY <1>6, <1>7, <1>8, <1>9, <1>11 DEF IInv

\* What an event adds to the file.
LEMMA Recorded ==
  ASSUME Types, NEW d \in Clients, NEW code \in Codes, NEW number \in Nat,
         number - lost[d] \in Nat, Record(d, code, number)
  PROVE  /\ Len(timing') = Len(timing) + 1
         /\ \A p \in 1..Len(timing) : timing'[p] = timing[p]
         /\ timing'[Len(timing) + 1].id = d /\ timing'[Len(timing) + 1].code = code
         /\ timing'[Len(timing) + 1].number = number
         /\ timing'[Len(timing) + 1].place = number - lost[d]
         /\ timing' \in Seq(Events)
<1> DEFINE e == [id |-> d, code |-> code, number |-> number, place |-> number - lost[d]]
<1>1. timing \in Seq(Events)
  BY FileTypes
<1>2. e \in Events /\ e.id = d /\ e.code = code /\ e.number = number /\ e.place = number - lost[d]
  BY DEF Events
<1>3. timing' = Append(timing, e)
  BY DEF Record
<1> HIDE DEF e
<1>4. /\ Len(timing') = Len(timing) + 1 /\ timing'[Len(timing) + 1] = e
      /\ timing' \in Seq(Events) /\ \A p \in 1..Len(timing) : timing'[p] = timing[p]
  BY <1>1, <1>2, <1>3, AppendProperties
<1> QED
  BY <1>2, <1>4

\* An event of another client, recorded or not, leaves the events of a client.
LEMMA OtherTiming ==
  ASSUME Types, NEW d \in Clients, NEW c \in Clients, c # d, TimingShape(c),
         UNCHANGED sends, sent'[c] = sent[c], lost'[c] = lost[c], c \in gone' <=> c \in gone,
         \/ UNCHANGED timing
         \/ /\ Len(timing') = Len(timing) + 1
            /\ \A p \in 1..Len(timing) : timing'[p] = timing[p]
            /\ timing'[Len(timing) + 1].id = d
  PROVE  TimingShape(c)'
<1>1. Len(timing) \in Nat
  BY FileTypes
<1>2. \A p \in 1..Len(timing') : timing'[p].id = c =>
        p \in 1..Len(timing) /\ timing'[p] = timing[p]
  BY <1>1
<1>3. \A p \in 1..Len(timing) : p \in 1..Len(timing') /\ timing'[p] = timing[p]
  BY <1>1
<1>4. Extra(c)' = Extra(c)
  BY DEF Extra
<1>5. ASSUME NEW n \in 1..(sent[c] - lost[c])
      PROVE  \E p \in 1..Len(timing') : timing'[p].id = c /\ timing'[p].place = n
  <2>1. PICK p \in 1..Len(timing) : timing[p].id = c /\ timing[p].place = n
    BY DEF TimingShape
  <2> QED BY <2>1, <1>3
<1>6. ASSUME NEW p \in 1..Len(timing'), timing'[p].id = c
      PROVE  /\ timing'[p].number <= sent'[c] + Extra(c)'
             /\ timing'[p].place >= 1 /\ timing'[p].place <= timing'[p].number
             /\ timing'[p].number - timing'[p].place <= lost'[c]
             /\ timing'[p].place <= sent'[c] - lost'[c] + Extra(c)'
             /\ timing'[p].number <= Len(sends'[c]) =>
                  sends'[c][timing'[p].number] = timing'[p].code
  BY <1>2, <1>4, <1>6 DEF TimingShape
<1>7. ASSUME NEW p \in 1..Len(timing'), NEW q \in 1..Len(timing'), p < q,
             timing'[p].id = c, timing'[q].id = c
      PROVE  /\ timing'[p].place < timing'[q].place
             /\ timing'[p].number - timing'[p].place <= timing'[q].number - timing'[q].place
  BY <1>2, <1>7 DEF TimingShape
<1>8. lost'[c] <= sent'[c] /\ sent'[c] <= Len(sends'[c])
  BY DEF TimingShape
<1> QED
  BY <1>5, <1>6, <1>7, <1>8 DEF TimingShape

\* A recorded event follows those of its client.
LEMMA OwnTiming ==
  ASSUME Types, NEW c \in Clients, c \notin gone, TimingShape(c), UNCHANGED sends,
         lost'[c] = lost[c], NEW code \in Codes, Record(c, code, sent[c] + 1),
         \/ /\ sent'[c] = sent[c] + 1 /\ sent[c] < Len(sends[c])
            /\ code = sends[c][sent[c] + 1]
         \/ sent'[c] = sent[c] /\ sent[c] = Len(sends[c]) /\ c \in gone'
  PROVE  TimingShape(c)'
<1> DEFINE k == Len(timing)
<1>1. /\ k \in Nat /\ sent[c] \in Nat /\ lost[c] \in Nat /\ Len(sends[c]) \in Nat
      /\ lost[c] <= sent[c] /\ sent[c] <= Len(sends[c]) /\ Extra(c) = 0
  BY FileTypes, ClientTypes DEF TimingShape, Extra
<1>2. /\ Len(timing') = k + 1
      /\ \A p \in 1..k : timing'[p] = timing[p]
      /\ timing'[k + 1].id = c /\ timing'[k + 1].code = code
      /\ timing'[k + 1].number = sent[c] + 1
      /\ timing'[k + 1].place = sent[c] + 1 - lost[c]
  <2>0. PICK number \in Nat : number = sent[c] + 1
    BY <1>1
  <2>1. number - lost[c] \in Nat /\ Record(c, code, number)
    BY <1>1, <2>0
  <2>2. /\ Len(timing') = k + 1
        /\ \A p \in 1..k : timing'[p] = timing[p]
        /\ timing'[k + 1].id = c /\ timing'[k + 1].code = code
        /\ timing'[k + 1].number = number
        /\ timing'[k + 1].place = number - lost[c]
    BY <2>1, Recorded
  <2>3. number = sent[c] + 1 /\ number - lost[c] = sent[c] + 1 - lost[c]
    BY <1>1, <2>0
  <2> QED BY <1>1, <2>2, <2>3
<1>3. ASSUME NEW p \in 1..k, timing[p].id = c
      PROVE  /\ timing[p].number \in Nat /\ timing[p].place \in Nat
             /\ timing[p].number <= sent[c] /\ timing[p].place <= timing[p].number
             /\ timing[p].place >= 1 /\ timing[p].place <= sent[c] - lost[c]
             /\ timing[p].number - timing[p].place <= lost[c]
             /\ sends[c][timing[p].number] = timing[p].code
  <2>1. timing[p].number \in Nat /\ timing[p].place \in Nat
    BY FileTypes
  <2>2. /\ timing[p].number <= sent[c] + Extra(c) /\ timing[p].place >= 1
        /\ timing[p].place <= timing[p].number
        /\ timing[p].place <= sent[c] - lost[c] + Extra(c)
        /\ timing[p].number - timing[p].place <= lost[c]
        /\ timing[p].number <= Len(sends[c]) => sends[c][timing[p].number] = timing[p].code
    BY <1>3 DEF TimingShape
  <2> QED BY <1>1, <2>1, <2>2
<1>4. Extra(c)' \in {0, 1} /\ (c \in gone' => Extra(c)' = 1)
  BY DEF Extra
<1>5. \A p \in 1..(k + 1) : p \in 1..k \/ p = k + 1
  BY <1>1
<1> HIDE DEF k
<1>6. lost'[c] <= sent'[c] /\ sent'[c] <= Len(sends'[c])
  BY <1>1
<1>7. ASSUME NEW p \in 1..(k + 1), timing'[p].id = c
      PROVE  /\ timing'[p].number <= sent'[c] + Extra(c)'
             /\ timing'[p].place >= 1 /\ timing'[p].place <= timing'[p].number
             /\ timing'[p].number - timing'[p].place <= lost'[c]
             /\ timing'[p].place <= sent'[c] - lost'[c] + Extra(c)'
             /\ timing'[p].number <= Len(sends'[c]) =>
                  sends'[c][timing'[p].number] = timing'[p].code
  <2>1. CASE p \in 1..k
    <3>1. timing'[p] = timing[p] /\ timing[p].id = c
      BY <1>2, <1>7, <2>1
    <3>2. sent'[c] \in {sent[c], sent[c] + 1}
      OBVIOUS
    <3> DEFINE x == timing[p].number
               y == timing[p].place
    <3>3. /\ x \in Nat /\ y \in Nat /\ x <= sent[c] /\ y <= x /\ y >= 1
          /\ y <= sent[c] - lost[c] /\ x - y <= lost[c] /\ sends[c][x] = timing[p].code
      BY <1>3, <1>7, <2>1, <3>1
    <3> HIDE DEF x, y
    <3>4. /\ x <= sent'[c] + Extra(c)' /\ y <= sent'[c] - lost'[c] + Extra(c)'
          /\ x - y <= lost'[c] /\ sends'[c][x] = timing[p].code
      BY <1>1, <1>4, <3>2, <3>3
    <3> QED BY <3>1, <3>3, <3>4 DEF x, y
  <2>2. CASE p = k + 1
    <3>1. /\ timing'[p].code = code /\ timing'[p].number = sent[c] + 1
          /\ timing'[p].place = sent[c] + 1 - lost[c]
      BY <1>2, <2>2
    <3>2. CASE sent'[c] = sent[c] + 1 /\ code = sends[c][sent[c] + 1]
      <4>1. /\ timing'[p].number = sent'[c] /\ timing'[p].place = sent'[c] - lost'[c]
            /\ sends'[c][timing'[p].number] = timing'[p].code
        BY <1>1, <3>1, <3>2, SMTT(30)
      <4> QED BY <1>1, <1>4, <3>2, <4>1
    <3>3. CASE sent'[c] = sent[c] /\ sent[c] = Len(sends[c]) /\ c \in gone'
      BY <1>1, <1>4, <3>1, <3>3
    <3> QED BY <3>2, <3>3
  <2> QED BY <1>5, <2>1, <2>2
<1>8. ASSUME NEW p \in 1..(k + 1), NEW q \in 1..(k + 1), p < q,
             timing'[p].id = c, timing'[q].id = c
      PROVE  /\ timing'[p].place < timing'[q].place
             /\ timing'[p].number - timing'[p].place <= timing'[q].number - timing'[q].place
  <2>1. p \in 1..k /\ timing'[p] = timing[p]
    BY <1>1, <1>2, <1>8
  <2>2. CASE q \in 1..k
    BY <2>1, <2>2, <1>2, <1>8 DEF TimingShape, k
  <2>3. CASE q = k + 1
    <3>1. /\ timing[p].number \in Nat /\ timing[p].place \in Nat
          /\ timing[p].number - timing[p].place <= lost[c]
          /\ timing[p].place <= sent[c] - lost[c]
      BY <2>1, <1>3, <1>8
    <3>2. timing'[q].number = sent[c] + 1 /\ timing'[q].place = sent[c] + 1 - lost[c]
      BY <1>2, <2>3
    <3>3. timing'[q].number - timing'[q].place = lost[c]
      BY <1>1, <3>2
    <3>4. timing[p].place < sent[c] + 1 - lost[c]
      BY <3>1, <1>1
    <3>5. timing[p].number - timing[p].place <= lost[c]
      BY <3>1
    <3> QED BY <2>1, <3>2, <3>3, <3>4, <3>5
  <2> QED BY <1>5, <2>2, <2>3
<1>9. ASSUME NEW n \in 1..(sent'[c] - lost'[c])
      PROVE  \E p \in 1..(k + 1) : timing'[p].id = c /\ timing'[p].place = n
  <2>1. CASE n \in 1..(sent[c] - lost[c])
    <3>1. PICK p \in 1..k : timing[p].id = c /\ timing[p].place = n
      BY <2>1 DEF TimingShape, k
    <3> QED BY <3>1, <1>1, <1>2
  <2>2. CASE n \notin 1..(sent[c] - lost[c])
    <3>1. n = sent[c] + 1 - lost[c]
      BY <2>2, <1>1
    <3>2. k + 1 \in 1..(k + 1)
      BY <1>1
    <3> QED BY <3>1, <3>2, <1>2
  <2> QED BY <2>1, <2>2
<1> QED
  BY <1>2, <1>6, <1>7, <1>8, <1>9 DEF TimingShape

\* An event that is not recorded.
LEMMA LostTiming ==
  ASSUME Types, NEW c \in Clients, c \notin gone, TimingShape(c),
         UNCHANGED <<sends, timing>>, sent[c] < Len(sends[c]),
         sent'[c] = sent[c] + 1, lost'[c] = lost[c] + 1
  PROVE  TimingShape(c)'
<1>1. /\ Len(timing) \in Nat /\ sent[c] \in Nat /\ lost[c] \in Nat /\ Len(sends[c]) \in Nat
      /\ lost[c] <= sent[c] /\ sent[c] <= Len(sends[c]) /\ Extra(c) = 0
      /\ Extra(c)' \in {0, 1}
  BY FileTypes, ClientTypes DEF TimingShape, Extra
<1>2. ASSUME NEW p \in 1..Len(timing), timing[p].id = c
      PROVE  /\ timing[p].number <= sent'[c] + Extra(c)'
             /\ timing[p].place >= 1 /\ timing[p].place <= timing[p].number
             /\ timing[p].number - timing[p].place <= lost'[c]
             /\ timing[p].place <= sent'[c] - lost'[c] + Extra(c)'
             /\ timing[p].number <= Len(sends[c]) =>
                  sends[c][timing[p].number] = timing[p].code
  <2>1. timing[p].number \in Nat /\ timing[p].place \in Nat
    BY FileTypes
  <2>2. /\ timing[p].number <= sent[c] + Extra(c) /\ timing[p].place >= 1
        /\ timing[p].place <= timing[p].number
        /\ timing[p].place <= sent[c] - lost[c] + Extra(c)
        /\ timing[p].number - timing[p].place <= lost[c]
        /\ timing[p].number <= Len(sends[c]) => sends[c][timing[p].number] = timing[p].code
    BY <1>2 DEF TimingShape
  <2>3. sent'[c] - lost'[c] = sent[c] - lost[c] /\ sent'[c] = sent[c] + 1
    BY <1>1
  <2>4. timing[p].number <= sent[c] /\ timing[p].place <= sent[c] - lost[c]
    BY <1>1, <2>1, <2>2
  <2>5. timing[p].number - timing[p].place <= lost[c] + 1
    BY <1>1, <2>1, <2>2
  <2> DEFINE x == timing[p].number
             y == timing[p].place
  <2>6. x \in Nat /\ y \in Nat /\ x <= sent[c] /\ y <= sent[c] - lost[c]
    BY <2>1, <2>4
  <2> HIDE DEF x, y
  <2>7. x <= sent[c] + 1 + Extra(c)' /\ y <= sent[c] - lost[c] + Extra(c)'
    BY <1>1, <2>6
  <2> QED BY <2>2, <2>3, <2>5, <2>7 DEF x, y
<1>3. sent'[c] - lost'[c] = sent[c] - lost[c] /\ lost'[c] <= sent'[c] /\ sent'[c] <= Len(sends[c])
  BY <1>1
<1> QED
  BY <1>2, <1>3 DEF TimingShape

LEMMA EventStep ==
  ASSUME IInv, NEW d \in Clients, Event(d)
  PROVE  IInv'
<1> USE DEF file, replay, stats
<1>1. /\ Types /\ Phases /\ pc = "replay" /\ pc' = "replay" /\ d \notin gone
      /\ UNCHANGED <<capture, sends, timings, messages, cap, tim, current, waiting>>
      /\ UNCHANGED <<matched, skipped, pairs>>
      /\ sent' = [sent EXCEPT ![d] = @ + 1] /\ sent[d] < Len(sends[d])
  BY DEF IInv, Event
<1>2. \A c \in Clients : TimingShape(c) /\ CaptureShape(c)
  BY DEF IInv
<1>3. /\ sent[d] \in Nat /\ lost[d] \in Nat /\ lost[d] <= sent[d] /\ Len(sends[d]) \in Nat
      /\ sent[d] + 1 - lost[d] \in Nat /\ sends[d][sent[d] + 1] \in Codes
      /\ sent'[d] = sent[d] + 1
  <2>1. sends[d] \in Seq(Codes) /\ sent[d] \in Nat /\ lost[d] \in Nat
    BY <1>1, ClientTypes
  <2>2. sent[d] + 1 \in 1..Len(sends[d])
    BY <1>1, <2>1, LenProperties
  <2>3. sends[d][sent[d] + 1] \in Codes
    BY <2>1, <2>2, ElementOfSeq
  <2>4. lost[d] <= sent[d]
    BY <1>2 DEF TimingShape
  <2>5. sent'[d] = sent[d] + 1
    BY <1>1 DEF Types
  <2> QED BY <2>1, <2>3, <2>4, <2>5, LenProperties
<1>4. gone' \in {gone, gone \cup {d}}
  BY DEF Event
<1>5. \A c \in Clients : c # d => sent'[c] = sent[c] /\ (c \in gone' <=> c \in gone)
  BY <1>1, <1>4 DEF Types
<1>6. sent' \in [Clients -> Nat] /\ gone' \subseteq Clients
  <2>1. sent \in [Clients -> Nat] /\ gone \subseteq Clients /\ sent[d] + 1 \in Nat
    BY <1>1, <1>3, Counters
  <2> QED BY <1>1, <1>4, <2>1
<1>7. /\ lost' \in [Clients -> 0..MaxLost]
      /\ timing' \in Seq(Events)
      /\ Len(timing') \in Nat
      /\ \A c \in Clients : TimingShape(c)'
  <2>1. CASE Record(d, sends[d][sent[d] + 1], sent[d] + 1) /\ UNCHANGED lost
    <3>1. /\ Len(timing') = Len(timing) + 1
          /\ \A p \in 1..Len(timing) : timing'[p] = timing[p]
          /\ timing'[Len(timing) + 1].id = d
          /\ timing' \in Seq(Events)
      <4> DEFINE code == sends[d][sent[d] + 1]
                 number == sent[d] + 1
      <4>1. /\ Types /\ Record(d, code, number) /\ number \in Nat /\ code \in Codes
            /\ number - lost[d] \in Nat
        BY <1>1, <1>3, <2>1
      <4> HIDE DEF code, number
      <4> QED BY <4>1, Recorded
    <3>2. TimingShape(d)'
      BY <1>1, <1>2, <1>3, <2>1, OwnTiming
    <3>3. \A c \in Clients : c # d => TimingShape(c)'
      BY <1>1, <1>2, <1>5, <2>1, <3>1, OtherTiming
    <3> QED BY <1>1, <2>1, <3>1, <3>2, <3>3, LenProperties DEF Types
  <2>2. CASE lost[d] < MaxLost /\ lost' = [lost EXCEPT ![d] = @ + 1] /\ UNCHANGED timing
    <3>1. /\ lost' \in [Clients -> 0..MaxLost] /\ lost'[d] = lost[d] + 1
          /\ \A c \in Clients : c # d => lost'[c] = lost[c]
      <4>1. lost \in [Clients -> 0..MaxLost] /\ lost[d] + 1 \in 0..MaxLost
        <5>1. lost \in [Clients -> 0..MaxLost] /\ MaxLost \in Nat
          BY <1>1, Counters, CompareAssumption
        <5> QED BY <5>1, <1>3, <2>2
      <4> QED BY <2>2, <4>1
    <3>2. TimingShape(d)'
      BY <1>1, <1>2, <1>3, <2>2, <3>1, LostTiming
    <3>3. \A c \in Clients : c # d => TimingShape(c)'
      BY <1>1, <1>2, <1>5, <2>2, <3>1, OtherTiming
    <3> QED BY <1>1, <2>2, <3>1, <3>2, <3>3, FileTypes DEF Types
  <2> QED BY <2>1, <2>2 DEF Event
<1>8. Types'
  <2>1. timings' \in 0..Len(timing')
    BY <1>1, <1>7 DEF Phases
  <2> QED BY <1>1, <1>6, <1>7, <2>1 DEF Types, Events
<1>9. Phases' /\ Drained' /\ Waits' /\ PairsTrue'
  BY <1>1 DEF IInv, Phases, Drained, Waits, PairsTrue, Both
<1>10. \A c \in Clients : CaptureShape(c)'
  BY <1>1, <1>2 DEF CaptureShape
<1>11. Queues'
  <2>1. Begun'
    BY <1>1, <1>7, <1>8, <1>9, <1>10 DEF Begun
  <2> QED BY <2>1, NothingRead, PTL
<1> QED
  BY <1>7, <1>8, <1>9, <1>10, <1>11 DEF IInv, Queues

LEMMA ExitStep ==
  ASSUME IInv, NEW d \in Clients, Exit(d)
  PROVE  IInv'
<1> USE DEF file, replay, stats
<1>1. /\ Types /\ Phases /\ pc = "replay" /\ pc' = "replay" /\ d \notin gone
      /\ UNCHANGED <<capture, sends, sent, lost, timings, messages, cap, tim, current>>
      /\ UNCHANGED <<waiting, matched, skipped, pairs>>
      /\ gone' = gone \cup {d} /\ sent[d] = Len(sends[d])
      /\ Record(d, "Disconnect", sent[d] + 1)
  BY DEF IInv, Exit
<1>2. \A c \in Clients : TimingShape(c) /\ CaptureShape(c)
  BY DEF IInv
<1>3. /\ sent[d] \in Nat /\ lost[d] \in Nat
      /\ sent[d] + 1 \in Nat /\ sent[d] + 1 - lost[d] \in Nat /\ "Disconnect" \in Codes
  BY <1>1, <1>2, ClientTypes DEF TimingShape, Codes
<1>4. /\ Len(timing') = Len(timing) + 1
      /\ \A p \in 1..Len(timing) : timing'[p] = timing[p]
      /\ timing'[Len(timing) + 1].id = d
      /\ timing' \in Seq(Events)
  <2>1. Types /\ Record(d, "Disconnect", sent[d] + 1)
    BY <1>1
  <2> QED BY <2>1, <1>3, Recorded
<1>5. TimingShape(d)'
  BY <1>1, <1>2, <1>3, OwnTiming
<1>6. \A c \in Clients : c # d => TimingShape(c)'
  BY <1>1, <1>2, <1>4, OtherTiming
<1>7. Types'
  <2>1. timings' \in 0..Len(timing') /\ gone' \subseteq Clients
    BY <1>1, <1>4, FileTypes DEF Phases, Types
  <2> QED BY <1>1, <1>4, <2>1 DEF Types, Events
<1>8. Phases' /\ Drained' /\ Waits' /\ PairsTrue'
  BY <1>1 DEF IInv, Phases, Drained, Waits, PairsTrue, Both
<1>9. \A c \in Clients : CaptureShape(c)'
  BY <1>1, <1>2 DEF CaptureShape
<1>10. Queues'
  <2>1. Begun'
    BY <1>1, <1>5, <1>6, <1>7, <1>8, <1>9 DEF Begun
  <2> QED BY <2>1, NothingRead, PTL
<1> QED
  BY <1>5, <1>6, <1>7, <1>8, <1>9, <1>10 DEF IInv, Queues

----------------------------------------------------------------------------
(* Ends of the phases.                                                     *)

\* What a client's shapes and queues are made of.
Files == <<capture, sends, timing, sent, lost, gone>>

LEMMA FilesFrame ==
  ASSUME NEW c \in Clients, CaptureShape(c), TimingShape(c), UNCHANGED Files
  PROVE  CaptureShape(c)' /\ TimingShape(c)'
BY DEF CaptureShape, TimingShape, Extra, Files

LEMMA CapFrame ==
  ASSUME NEW c \in Clients, CapQueue(c), UNCHANGED <<capture, sends, messages>>,
         cap'[c] = cap[c], matched'[c] = matched[c], skipped'[c] = skipped[c]
  PROVE  CapQueue(c)'
BY DEF CapQueue, ReadTo

LEMMA TimFrame ==
  ASSUME NEW c \in Clients, TimQueue(c), UNCHANGED <<timing, timings>>,
         tim'[c] = tim[c], matched'[c] = matched[c]
  PROVE  TimQueue(c)'
<1>1. EventsRead(c)' = EventsRead(c)
  BY DEF EventsRead
<1>2. ASSUME NEW i \in 1..Len(tim[c]), NEW p \in 1..Len(timing), IsEvent(c, i, p)
      PROVE  IsEvent(c, i, p)'
  BY <1>2 DEF IsEvent
<1> QED
  BY <1>1, <1>2 DEF TimQueue

LEMMA SkipsFrame ==
  ASSUME NEW c \in Clients, SkipsLost(c), UNCHANGED <<timing, lost>>,
         matched'[c] = matched[c], skipped'[c] = skipped[c]
  PROVE  SkipsLost(c)'
BY DEF SkipsLost

LEMMA PhaseStep ==
  ASSUME IInv, EndCapture \/ EndReplay \/ EndOfTiming \/ NextEvent
  PROVE  IInv'
<1> USE DEF file, replay, stats
<1>1. /\ UNCHANGED <<Files, timings, messages, current, waiting, cap, tim>>
      /\ UNCHANGED <<matched, skipped, pairs>>
  BY DEF EndCapture, EndReplay, EndOfTiming, NextEvent, Files
<1>2. Types /\ Phases /\ Drained /\ Waits /\ PairsTrue
  BY DEF IInv
<1>3. Types'
  BY <1>1, <1>2 DEF Types, Files, EndCapture, EndReplay, EndOfTiming, NextEvent
<1>4. Phases'
  BY <1>1, <1>2 DEF Phases, Files, EndCapture, EndReplay, EndOfTiming, NextEvent
<1>5. Drained'
  BY <1>1, <1>2 DEF Drained, Both, DrainEnds, EndCapture, EndReplay, EndOfTiming, NextEvent
<1>6. Waits'
  BY <1>1, <1>2 DEF Waits, Needs, Files, EndCapture, EndReplay, EndOfTiming, NextEvent
<1>7. PairsTrue'
  BY <1>1, <1>2 DEF PairsTrue, Files
<1>8. ASSUME NEW c \in Clients
      PROVE  (CaptureShape(c) /\ TimingShape(c) /\ CapQueue(c) /\ TimQueue(c) /\ SkipsLost(c))'
  <2>1. CaptureShape(c) /\ TimingShape(c) /\ CapQueue(c) /\ TimQueue(c) /\ SkipsLost(c)
    BY DEF IInv
  <2>2. CaptureShape(c)' /\ TimingShape(c)'
    BY <1>1, <2>1, FilesFrame
  <2>3. CapQueue(c)' /\ TimQueue(c)' /\ SkipsLost(c)'
    BY <1>1, <2>1, CapFrame, TimFrame, SkipsFrame DEF Files
  <2> QED BY <2>2, <2>3
<1> QED
  BY <1>3, <1>4, <1>5, <1>6, <1>7, <1>8 DEF IInv

----------------------------------------------------------------------------
(* Reading an event.                                                       *)

\* The next event of a client that is read is the next of its events.
LEMMA NextPlace ==
  ASSUME Types, NEW c \in Clients, TimingShape(c), TimQueue(c),
         timings + 1 \in 1..Len(timing), timing[timings + 1].id = c
  PROVE  timing[timings + 1].place = EventsRead(c) + 1
<1> DEFINE p == timings + 1
           n == EventsRead(c) + 1
<1>1. /\ timings \in Nat /\ EventsRead(c) \in Nat /\ timing[p].place \in Nat
      /\ sent[c] \in Nat /\ lost[c] \in Nat /\ lost[c] <= sent[c] /\ Extra(c) \in {0, 1}
  BY FileTypes, ClientTypes DEF TimingShape, Extra
<1>2. timing[p].place > EventsRead(c) /\ timing[p].place <= sent[c] - lost[c] + Extra(c)
  BY <1>1 DEF TimQueue, TimingShape
<1> SUFFICES ASSUME timing[p].place # n PROVE FALSE
  OBVIOUS
<1>3. n \in 1..(sent[c] - lost[c]) /\ n < timing[p].place
  <2> DEFINE r == EventsRead(c)
             x == timing[p].place
  <2>1. r \in Nat /\ x \in Nat /\ x > r /\ x # r + 1 /\ x <= sent[c] - lost[c] + 1
    BY <1>1, <1>2
  <2> HIDE DEF r, x
  <2>2. r + 1 \in 1..(sent[c] - lost[c]) /\ r + 1 < x
    BY <1>1, <2>1
  <2> QED BY <2>2 DEF r, x
<1>4. PICK q \in 1..Len(timing) : timing[q].id = c /\ timing[q].place = n
  BY <1>3 DEF TimingShape
<1>5. ~(q <= timings)
  BY <1>1, <1>4 DEF TimQueue
<1>6. q # p
  BY <1>3, <1>4
<1>7. q > p
  BY <1>1, <1>5, <1>6
<1>8. timing[p].place < timing[q].place
  BY <1>4, <1>7 DEF TimingShape
<1> QED
  BY <1>1, <1>3, <1>4, <1>8

LEMMA ReadTimingStep ==
  ASSUME IInv, ReadTiming
  PROVE  IInv'
<1> USE DEF file, replay
<1> DEFINE t == timing[timings + 1]
           e == [code |-> t.code, number |-> t.number]
<1>0. PICK c : c = t.id
  OBVIOUS
<1>1. /\ pc = "timing" /\ pc' = "drain" /\ timings < Len(timing) /\ timings' = timings + 1
      /\ UNCHANGED <<Files, messages, cap, matched, skipped, pairs>>
      /\ tim' = [tim EXCEPT ![c] = Append(@, e)] /\ current' = c /\ waiting' = c
  BY <1>0 DEF ReadTiming, Files
<1>2. Types /\ Phases /\ Drained /\ Waits /\ PairsTrue
  BY DEF IInv
<1>3. /\ timings + 1 \in 1..Len(timing) /\ timings \in Nat /\ Len(timing) \in Nat
      /\ c \in Clients /\ t.number \in Nat /\ t.code \in Codes
  <2>1. timings \in Nat /\ Len(timing) \in Nat
    BY <1>2, FileTypes DEF Types
  <2>2. timings + 1 \in 1..Len(timing)
    BY <1>1, <2>1
  <2> QED BY <1>0, <1>2, <2>1, <2>2, FileTypes
<1> DEFINE Entries0 == [code : Codes, number : Nat]
<1>4. e \in Entries0 /\ e.code = t.code /\ e.number = t.number
  BY <1>3
<1>5. tim \in [Clients -> Seq(Entries0)]
  BY <1>2 DEF Types
<1> HIDE DEF e, Entries0, t
<1>6. /\ tim' \in [Clients -> Seq(Entries0)]
      /\ \A d \in Clients : d # c => tim'[d] = tim[d]
      /\ Len(tim'[c]) = Len(tim[c]) + 1 /\ Len(tim[c]) \in Nat
      /\ \A i \in 1..Len(tim[c]) : tim'[c][i] = tim[c][i]
      /\ tim'[c][Len(tim[c]) + 1] = e
  <2>1. tim[c] \in Seq(Entries0) /\ tim'[c] = Append(tim[c], e)
    BY <1>1, <1>3, <1>5
  <2> QED BY <1>1, <1>3, <1>4, <1>5, <2>1, AppendProperties, LenProperties
<1>7. Types'
  <2>1. timings' \in 0..Len(timing')
    BY <1>1, <1>3 DEF Files
  <2>2. tim' \in [Clients -> Seq([code : Codes, number : Nat])]
    BY <1>6 DEF Entries0
  <2> QED BY <1>1, <1>2, <1>3, <2>1, <2>2 DEF Types, Files
<1>8. Phases' /\ PairsTrue'
  BY <1>1, <1>2 DEF Phases, PairsTrue, Files
<1>9. Drained'
  BY <1>1, <1>2, <1>6 DEF Drained, Both
<1>10. Waits'
  BY <1>1, <1>2, <1>6 DEF Waits, Files
<1>11. ASSUME NEW d \in Clients
       PROVE  (CaptureShape(d) /\ TimingShape(d) /\ CapQueue(d) /\ TimQueue(d) /\ SkipsLost(d))'
  <2>1. CaptureShape(d) /\ TimingShape(d) /\ CapQueue(d) /\ TimQueue(d) /\ SkipsLost(d)
    BY DEF IInv
  <2>2. CaptureShape(d)' /\ TimingShape(d)' /\ CapQueue(d)' /\ SkipsLost(d)'
    BY <1>1, <2>1, FilesFrame, CapFrame, SkipsFrame DEF Files
  <2>3. TimQueue(d)'
    <3>0. timing' = timing /\ matched' = matched /\ timings' = timings + 1
      BY <1>1 DEF Files
    <3>1. CASE d # c
      <4>1. EventsRead(d)' = EventsRead(d) /\ tim'[d] = tim[d]
        BY <1>1, <1>6, <3>1 DEF EventsRead
      <4>2. \A p \in 1..Len(timing) : timing[p].id = d => p # timings + 1
        BY <1>0, <3>1 DEF t
      <4>3. ASSUME NEW p \in 1..Len(timing), timing[p].id = d
            PROVE  p <= timings + 1 <=> timing[p].place <= EventsRead(d)
        <5>1. p # timings + 1 /\ (p <= timings <=> timing[p].place <= EventsRead(d))
          BY <2>1, <4>2, <4>3 DEF TimQueue
        <5> QED BY <1>3, <5>1
      <4>4. ASSUME NEW i \in 1..Len(tim[d])
            PROVE  \E p \in 1..Len(timing) : IsEvent(d, i, p)'
        <5>1. PICK p \in 1..Len(timing) : IsEvent(d, i, p)
          BY <2>1 DEF TimQueue
        <5> QED BY <3>0, <4>1, <5>1 DEF IsEvent
      <4> QED BY <3>0, <4>1, <4>3, <4>4 DEF TimQueue
    <3>2. CASE d = c
      <4>1. t.place = EventsRead(c) + 1
        BY <1>2, <1>3, <2>1, <3>2, <1>0, NextPlace DEF t
      <4>2. /\ EventsRead(c) = matched[c] + Len(tim[c]) /\ matched[c] \in Nat
            /\ EventsRead(c)' = EventsRead(c) + 1 /\ EventsRead(c) \in Nat
        <5>1. matched[c] \in Nat
          BY <1>2, <1>3, ClientTypes
        <5>2. EventsRead(c)' = matched[c] + Len(tim'[c]) /\ EventsRead(c) = matched[c] + Len(tim[c])
          BY <3>0 DEF EventsRead
        <5>3. matched[c] + (Len(tim[c]) + 1) = matched[c] + Len(tim[c]) + 1
          BY <1>6, <5>1
        <5>4. Len(tim'[c]) = Len(tim[c]) + 1 /\ Len(tim[c]) \in Nat
          BY <1>6
        <5> QED BY <5>1, <5>2, <5>3, <5>4
      <4>3. ASSUME NEW p \in 1..Len(timing), timing[p].id = c
            PROVE  p <= timings + 1 <=> timing[p].place <= EventsRead(c) + 1
        <5>1. timing[p].place \in Nat /\ (p <= timings <=> timing[p].place <= EventsRead(c))
          BY <1>2, <2>1, <3>2, <4>3, FileTypes DEF TimQueue
        <5>2. CASE p <= timings
          BY <1>3, <4>2, <5>1, <5>2
        <5>3. CASE p = timings + 1
          BY <1>3, <4>1, <4>2, <5>3 DEF t
        <5>4. CASE p > timings + 1
          <6>1. t.place < timing[p].place
            BY <1>0, <1>3, <2>1, <3>2, <4>3, <5>4 DEF TimingShape, t
          <6> QED BY <1>3, <4>1, <4>2, <5>1, <5>4, <6>1
        <5> QED BY <1>3, <5>2, <5>3, <5>4
      <4>4. ASSUME NEW i \in 1..(Len(tim[c]) + 1)
            PROVE  \E p \in 1..Len(timing) : IsEvent(c, i, p)'
        <5>1. CASE i \in 1..Len(tim[c])
          <6>1. PICK p \in 1..Len(timing) : IsEvent(c, i, p)
            BY <2>1, <3>2, <5>1 DEF TimQueue
          <6>2. tim'[c][i] = tim[c][i]
            BY <1>6, <5>1
          <6> QED BY <3>0, <3>2, <6>1, <6>2 DEF IsEvent
        <5>2. CASE i = Len(tim[c]) + 1
          <6>1. PICK r \in 1..Len(timing) : r = timings + 1
            BY <1>3
          <6>2. timing[r].id = c /\ timing[r].place = matched[c] + i
            <7>1. timing[r].place = matched[c] + Len(tim[c]) + 1 /\ timing[r].id = c
              BY <1>0, <4>1, <4>2, <6>1 DEF t
            <7> QED BY <1>6, <4>2, <5>2, <7>1
          <6>3. tim'[c][i].number = timing[r].number /\ tim'[c][i].code = timing[r].code
            BY <1>4, <1>6, <5>2, <6>1 DEF t
          <6>4. IsEvent(c, i, r)'
            BY <3>0, <6>2, <6>3 DEF IsEvent
          <6> QED BY <6>4
        <5> QED BY <1>6, <5>1, <5>2
      <4>5. Len(timing') = Len(timing) /\ Len(tim'[c]) = Len(tim[c]) + 1
        BY <1>6, <3>0
      <4> QED BY <3>0, <3>2, <4>2, <4>3, <4>4, <4>5 DEF TimQueue
    <3> QED BY <3>1, <3>2
  <2> QED BY <2>2, <2>3
<1> QED
  BY <1>7, <1>8, <1>9, <1>10, <1>11 DEF IInv

----------------------------------------------------------------------------
(* Reading a message.                                                      *)

\* The next message of a client that is read takes the next of its numbers.
LEMMA NextNumber ==
  ASSUME Types, NEW c \in Clients, CaptureShape(c), CapQueue(c),
         messages + 1 \in 1..Len(capture), capture[messages + 1].id = c
  PROVE  capture[messages + 1].number = ReadTo(c) + 1
<1> DEFINE p == messages + 1
           n == ReadTo(c) + 1
           x == capture[p].number
<1>1. /\ messages \in Nat /\ ReadTo(c) \in Nat /\ x \in Nat /\ Len(sends[c]) \in Nat
      /\ Through(capture[p]) \in Nat /\ x <= Through(capture[p])
  BY FileTypes, ClientTypes
<1>2. x > ReadTo(c) /\ Through(capture[p]) <= Len(sends[c])
  BY <1>1 DEF CapQueue, CaptureShape
<1> SUFFICES ASSUME x # n PROVE FALSE
  OBVIOUS
<1>3. n \in 1..Len(sends[c]) /\ n < x
  BY <1>1, <1>2
<1>4. PICK q \in 1..Len(capture) :
        capture[q].id = c /\ capture[q].number <= n /\ n <= Through(capture[q])
  BY <1>3 DEF CaptureShape
<1>5. Through(capture[q]) \in Nat /\ capture[q].number \in Nat
  BY <1>4, FileTypes
<1>6. ~(q <= messages)
  BY <1>1, <1>4, <1>5 DEF CapQueue
<1>7. q # p
  BY <1>3, <1>4, <1>5, <1>1
<1>8. q > p
  BY <1>1, <1>6, <1>7
<1>9. Through(capture[p]) < capture[q].number
  BY <1>4, <1>8 DEF CaptureShape
<1> QED
  BY <1>1, <1>3, <1>4, <1>5, <1>9

\* What compare adds to the queue of a client: its numbers follow each other.
LEMMA EntriesShape ==
  ASSUME Types, NEW c \in Clients, CaptureShape(c),
         NEW p \in 1..Len(capture), capture[p].id = c
  PROVE  LET m == capture[p]
             s == Entries(m)
         IN  /\ s \in Seq([code : Codes, number : Nat])
             /\ Len(s) \in Nat /\ Through(m) = m.number + Len(s) - 1
             /\ \A i \in 1..Len(s) : /\ s[i].number = m.number + i - 1
                                     /\ s[i].code = sends[c][m.number + i - 1]
<1> DEFINE m == capture[p]
<1>1. /\ m.number \in Nat /\ m.code \in Codes /\ m.number + 1 \in Nat /\ m.id = c
      /\ "SimpleQuery" \in Codes /\ "Connect" \in Codes
  BY FileTypes, CompareAssumption DEF Codes
<1>2. /\ sends[c][m.number] = m.code
      /\ Restores(c, m.code) => sends[c][m.number + 1] = "SimpleQuery"
  BY DEF CaptureShape
<1>3. CASE Restores(c, m.code)
  <2>1. /\ Entries(m) = <<Entry("Connect", m.number), Entry("SimpleQuery", m.number + 1)>>
        /\ m.code = "Connect" /\ Through(m) = m.number + 1
    BY <1>1, <1>3 DEF Entries, Through, Restores
  <2>2. /\ Entry("Connect", m.number) \in [code : Codes, number : Nat]
        /\ Entry("SimpleQuery", m.number + 1) \in [code : Codes, number : Nat]
        /\ Entry("Connect", m.number).code = "Connect"
        /\ Entry("Connect", m.number).number = m.number
        /\ Entry("SimpleQuery", m.number + 1).code = "SimpleQuery"
        /\ Entry("SimpleQuery", m.number + 1).number = m.number + 1
    BY <1>1 DEF Entry
  <2> HIDE DEF m
  <2>3. /\ Len(Entries(m)) = 2 /\ Entries(m) \in Seq([code : Codes, number : Nat])
        /\ Entries(m)[1] = Entry("Connect", m.number)
        /\ Entries(m)[2] = Entry("SimpleQuery", m.number + 1)
    BY <2>1, <2>2
  <2>4. m.number + 1 - 1 = m.number /\ m.number + 2 - 1 = m.number + 1
    BY <1>1
  <2>5. \A i \in 1..2 : i = 1 \/ i = 2
    OBVIOUS
  <2>6. \A i \in 1..2 : /\ Entries(m)[i].number = m.number + i - 1
                        /\ Entries(m)[i].code = sends[c][m.number + i - 1]
    BY <1>2, <1>3, <2>1, <2>2, <2>3, <2>4, <2>5
  <2> QED BY <2>1, <2>3, <2>4, <2>6 DEF m
<1>4. CASE ~Restores(c, m.code)
  <2>1. Entries(m) = <<Entry(m.code, m.number)>> /\ Through(m) = m.number
    BY <1>1, <1>4 DEF Entries, Through
  <2>2. /\ Entry(m.code, m.number) \in [code : Codes, number : Nat]
        /\ Entry(m.code, m.number).code = m.code
        /\ Entry(m.code, m.number).number = m.number
    BY <1>1 DEF Entry
  <2> HIDE DEF m
  <2>3. /\ Len(Entries(m)) = 1 /\ Entries(m) \in Seq([code : Codes, number : Nat])
        /\ Entries(m)[1] = Entry(m.code, m.number)
    BY <2>1, <2>2
  <2>4. m.number + 1 - 1 = m.number
    BY <1>1
  <2>5. \A i \in 1..1 : i = 1
    OBVIOUS
  <2>6. \A i \in 1..1 : /\ Entries(m)[i].number = m.number + i - 1
                        /\ Entries(m)[i].code = sends[c][m.number + i - 1]
    BY <1>2, <2>2, <2>3, <2>4, <2>5
  <2> QED BY <2>1, <2>3, <2>4, <2>6 DEF m
<1> QED BY <1>3, <1>4

\* The queue of messages after a message of its client.
LEMMA CapPushed ==
  ASSUME Types, NEW c \in Clients, CaptureShape(c), CapQueue(c),
         NEW p \in 1..Len(capture), p = messages + 1, capture[p].id = c,
         UNCHANGED <<capture, sends>>, messages' = messages + 1,
         matched'[c] = matched[c], skipped'[c] = skipped[c],
         cap'[c] = Pushed(cap[c], Entries(capture[p]))
  PROVE  CapQueue(c)' /\ cap'[c] \in Seq([code : Codes, number : Nat])
<1> DEFINE Q == [code : Codes, number : Nat]
           s == Entries(capture[p])
           n == capture[p].number
           k == skipped[c] + matched[c]
<1>1. /\ messages \in Nat /\ ReadTo(c) \in Nat /\ n \in Nat /\ k \in Nat
      /\ Len(cap[c]) \in Nat /\ cap[c] \in Seq(Q) /\ ReadTo(c) = k + Len(cap[c])
      /\ Len(sends[c]) \in Nat
  <2>1. /\ messages \in Nat /\ ReadTo(c) \in Nat /\ n \in Nat
        /\ matched[c] \in Nat /\ skipped[c] \in Nat
        /\ Len(cap[c]) \in Nat /\ cap[c] \in Seq(Q) /\ Len(sends[c]) \in Nat
    BY FileTypes, ClientTypes
  <2>2. ReadTo(c) = k + Len(cap[c])
    BY DEF ReadTo
  <2> QED BY <2>1, <2>2
<1>2. n = ReadTo(c) + 1
  BY NextNumber
<1>3. /\ s \in Seq(Q) /\ Len(s) \in Nat /\ Through(capture[p]) = n + Len(s) - 1
      /\ \A i \in 1..Len(s) : s[i].number = n + i - 1 /\ s[i].code = sends[c][n + i - 1]
  BY EntriesShape
<1>4. cap'[c] = cap[c] \o s
  BY DEF Pushed
<1> HIDE DEF Q, s
<1>5. /\ cap'[c] \in Seq(Q) /\ Len(cap'[c]) = Len(cap[c]) + Len(s)
      /\ \A i \in 1..Len(cap[c]) + Len(s) : cap'[c][i] =
           IF i <= Len(cap[c]) THEN cap[c][i] ELSE s[i - Len(cap[c])]
  BY <1>1, <1>3, <1>4, ConcatProperties
<1> HIDE DEF n, k
<1>6. ReadTo(c)' = ReadTo(c) + Len(s) /\ ReadTo(c)' = k + Len(cap'[c])
  <2>1. ReadTo(c)' = k + Len(cap'[c])
    BY DEF ReadTo, k
  <2> QED BY <2>1, <1>1, <1>3, <1>5
<1>7. Through(capture[p]) = ReadTo(c)'
  BY <1>1, <1>2, <1>3, <1>6
<1>8. ReadTo(c)' <= Len(sends[c])
  BY <1>7 DEF CaptureShape
<1>9. ASSUME NEW q \in 1..Len(capture), capture[q].id = c
      PROVE  /\ q <= messages + 1 => Through(capture[q]) <= ReadTo(c)'
             /\ q > messages + 1 => capture[q].number > ReadTo(c)'
  <2>1. Through(capture[q]) \in Nat /\ capture[q].number \in Nat
    BY FileTypes
  <2>2. CASE q <= messages
    <3>1. Through(capture[q]) <= ReadTo(c)
      BY <1>9, <2>2 DEF CapQueue
    <3>2. ReadTo(c) <= ReadTo(c)' /\ ReadTo(c)' \in Nat
      BY <1>1, <1>3, <1>6
    <3> QED BY <1>1, <2>1, <2>2, <3>1, <3>2
  <2>3. CASE q = p
    BY <1>1, <1>6, <1>7, <2>1, <2>3
  <2>4. CASE q > messages + 1
    <3>1. Through(capture[p]) < capture[q].number
      BY <1>1, <1>9, <2>4 DEF CaptureShape
    <3> QED BY <1>1, <1>7, <2>1, <2>4, <3>1
  <2> QED BY <1>1, <2>2, <2>3, <2>4
<1>10. ASSUME NEW i \in 1..Len(cap'[c])
       PROVE  cap'[c][i].number = k + i /\ cap'[c][i].code = sends[c][k + i]
  <2>1. CASE i <= Len(cap[c])
    <3>1. i \in 1..Len(cap[c]) /\ cap'[c][i] = cap[c][i]
      BY <1>1, <1>3, <1>5, <2>1
    <3> QED BY <3>1 DEF CapQueue, k
  <2>2. CASE ~(i <= Len(cap[c]))
    <3>1. i - Len(cap[c]) \in 1..Len(s) /\ cap'[c][i] = s[i - Len(cap[c])]
      BY <1>1, <1>3, <1>5, <2>2
    <3>2. n + (i - Len(cap[c])) - 1 = k + i
      <4> DEFINE len == Len(cap[c])
      <4>1. i \in Nat /\ k \in Nat /\ len \in Nat /\ n = k + len + 1
        BY <1>1, <1>2
      <4> HIDE DEF len
      <4>2. n + (i - len) - 1 = k + i
        BY <4>1
      <4> QED BY <4>2 DEF len
    <3> QED BY <1>3, <3>1, <3>2
  <2> QED BY <2>1, <2>2
<1>11. CapQueue(c)'
  BY <1>8, <1>9, <1>10 DEF CapQueue, k
<1> QED
  BY <1>5, <1>11 DEF Q

LEMMA ReadCaptureStep ==
  ASSUME IInv, ReadCapture
  PROVE  IInv'
<1> USE DEF file, replay
<1>0. PICK c : c = capture[messages + 1].id
  OBVIOUS
<1>1. /\ pc = "drain" /\ pc' = pc /\ ~Both(current) /\ messages < Len(capture)
      /\ tim[waiting] # <<>> /\ messages' = messages + 1
      /\ cap' = [cap EXCEPT ![c] = Pushed(@, Entries(capture[messages + 1]))] /\ current' = c
      /\ UNCHANGED <<Files, timings, waiting, tim, matched, skipped, pairs>>
  BY <1>0 DEF ReadCapture, Files, Needs, DrainEnds
<1>2. Types /\ Phases /\ Drained /\ Waits /\ PairsTrue
  BY DEF IInv
<1>3. PICK p \in 1..Len(capture) : p = messages + 1 /\ capture[p].id = c /\ c \in Clients
  <2>1. messages \in Nat /\ Len(capture) \in Nat
    BY <1>2, FileTypes DEF Types
  <2>2. messages + 1 \in 1..Len(capture)
    BY <1>1, <2>1
  <2> QED BY <1>0, <1>2, <2>2, FileTypes
<1>4. \A d \in Clients : /\ CaptureShape(d) /\ TimingShape(d)
                         /\ CapQueue(d) /\ TimQueue(d) /\ SkipsLost(d)
  BY DEF IInv
<1>5. cap \in [Clients -> Seq([code : Codes, number : Nat])]
  BY <1>2 DEF Types
<1>6. /\ cap'[c] = Pushed(cap[c], Entries(capture[p]))
      /\ \A d \in Clients : d # c => cap'[d] = cap[d]
  BY <1>1, <1>3, <1>5
<1>7. CapQueue(c)' /\ cap'[c] \in Seq([code : Codes, number : Nat])
  BY <1>1, <1>2, <1>3, <1>4, <1>6, CapPushed DEF Files
<1>8. Types'
  <2>1. messages' \in 0..Len(capture')
    BY <1>1, <1>2 DEF Types, Files
  <2>2. cap' \in [Clients -> Seq([code : Codes, number : Nat])]
    BY <1>1, <1>5, <1>6, <1>7
  <2> QED BY <1>1, <1>2, <1>3, <2>1, <2>2 DEF Types, Files
<1>9. Phases' /\ PairsTrue'
  BY <1>1, <1>2 DEF Phases, PairsTrue, Files
<1>10. Drained'
  BY <1>1, <1>2, <1>6 DEF Drained, Both
<1>11. Waits'
  BY <1>1, <1>2 DEF Waits, Types
<1>12. ASSUME NEW d \in Clients
       PROVE  (CaptureShape(d) /\ TimingShape(d) /\ CapQueue(d) /\ TimQueue(d) /\ SkipsLost(d))'
  <2>1. CaptureShape(d)' /\ TimingShape(d)' /\ TimQueue(d)' /\ SkipsLost(d)'
    BY <1>1, <1>4, FilesFrame, TimFrame, SkipsFrame DEF Files
  <2>2. CapQueue(d)'
    <3>1. CASE d = c
      BY <1>7, <3>1
    <3>2. CASE d # c
      <4>1. ReadTo(d)' = ReadTo(d) /\ cap'[d] = cap[d] /\ ReadTo(d) \in Nat
        BY <1>1, <1>2, <1>6, <3>2, ClientTypes DEF ReadTo
      <4>2. /\ capture' = capture /\ sends' = sends /\ messages' = messages + 1
            /\ matched' = matched /\ skipped' = skipped /\ messages \in Nat
        BY <1>1, <1>2, ClientTypes DEF Files
      <4>3. ASSUME NEW q \in 1..Len(capture), capture[q].id = d
            PROVE  /\ q <= messages + 1 => Through(capture[q]) <= ReadTo(d)
                   /\ q > messages + 1 => capture[q].number > ReadTo(d)
        <5>1. q # p
          BY <1>3, <3>2, <4>3
        <5>2. q <= messages \/ q > messages + 1
          BY <1>3, <4>2, <5>1
        <5> QED BY <1>4, <4>2, <4>3, <5>2 DEF CapQueue
      <4> QED BY <1>4, <4>1, <4>2, <4>3 DEF CapQueue
    <3> QED BY <3>1, <3>2
  <2> QED BY <2>1, <2>2
<1> QED
  BY <1>8, <1>9, <1>10, <1>11, <1>12 DEF IInv

----------------------------------------------------------------------------
(* The loop of drain.                                                      *)

\* The front of both queues of a client: the message has the number that follows
\* all that were matched or skipped, the event the place that follows all that were
\* matched, and lies no earlier than the message; messages of another kind lie
\* before it, for each of which an event is missing.
LEMMA Fronts ==
  ASSUME IInv, NEW c \in Clients, Both(c)
  PROVE  /\ Head(cap[c]).number = skipped[c] + matched[c] + 1
         /\ Head(cap[c]).number <= Head(tim[c]).number
         /\ Head(tim[c]).number - (matched[c] + 1) <= lost[c]
         /\ Head(tim[c]).number \in Nat
         /\ ~SameKind(c) =>
              /\ skipped[c] + 1 <= lost[c]
              /\ \A q \in 1..Len(timing) : timing[q].id = c /\ timing[q].place > matched[c] =>
                   skipped[c] + 1 <= timing[q].number - timing[q].place
<1>1. /\ Types /\ TimingShape(c) /\ CapQueue(c) /\ TimQueue(c) /\ SkipsLost(c)
  BY DEF IInv
<1>2. /\ matched[c] \in Nat /\ skipped[c] \in Nat /\ lost[c] \in Nat
      /\ cap[c] \in Seq([code : Codes, number : Nat]) /\ Len(cap[c]) \in Nat
      /\ tim[c] \in Seq([code : Codes, number : Nat]) /\ Len(tim[c]) \in Nat
      /\ Len(sends[c]) \in Nat
  BY <1>1, ClientTypes
<1>3. /\ Head(cap[c]) = cap[c][1] /\ 1 \in 1..Len(cap[c])
      /\ Head(tim[c]) = tim[c][1] /\ 1 \in 1..Len(tim[c])
  BY <1>2 DEF Both
<1> DEFINE k == skipped[c] + matched[c] + 1
<1>4. cap[c][1].number = k /\ cap[c][1].code = sends[c][k] /\ k <= Len(sends[c]) /\ k \in Nat
  <2>1. ReadTo(c) <= Len(sends[c]) /\ ReadTo(c) = skipped[c] + matched[c] + Len(cap[c])
    BY <1>1 DEF CapQueue, ReadTo
  <2>2. k <= Len(sends[c]) /\ k \in Nat
    BY <1>2, <1>3, <2>1
  <2> QED BY <1>1, <1>3, <2>2 DEF CapQueue
<1>5. PICK p \in 1..Len(timing) : IsEvent(c, 1, p)
  BY <1>1, <1>3 DEF TimQueue
<1>6. /\ timing[p].id = c /\ timing[p].place = matched[c] + 1 /\ timing[p].number \in Nat
      /\ tim[c][1].number = timing[p].number /\ tim[c][1].code = timing[p].code
  BY <1>1, <1>5, FileTypes DEF IsEvent
<1>7. timing[p].number - timing[p].place <= lost[c]
  BY <1>1, <1>6 DEF TimingShape
<1>8. skipped[c] <= timing[p].number - timing[p].place
  <2>1. timing[p].place > matched[c]
    BY <1>2, <1>6
  <2> QED BY <1>1, <1>6, <2>1 DEF SkipsLost
<1>9. k <= timing[p].number
  <2>1. \A a, b, x \in Nat : a <= x - (b + 1) => a + b + 1 <= x
    OBVIOUS
  <2> QED BY <1>2, <1>6, <1>8, <2>1
<1>10. ASSUME ~SameKind(c) PROVE skipped[c] + 1 <= timing[p].number - timing[p].place
  <2>1. timing[p].number # k
    <3> SUFFICES ASSUME timing[p].number = k PROVE FALSE
      OBVIOUS
    <3>1. sends[c][timing[p].number] = timing[p].code
      BY <1>1, <1>4, <1>6 DEF TimingShape
    <3> QED BY <1>3, <1>4, <1>6, <1>10, <3>1 DEF SameKind
  <2>2. k < timing[p].number
    BY <1>4, <1>6, <1>9, <2>1
  <2>3. \A a, b, x \in Nat : a + b + 1 < x => a + 1 <= x - (b + 1)
    OBVIOUS
  <2> QED BY <1>2, <1>6, <2>2, <2>3
<1>11. ASSUME NEW q \in 1..Len(timing), timing[q].id = c, timing[q].place > matched[c]
       PROVE  timing[p].number - timing[p].place <= timing[q].number - timing[q].place
  <2>1. timing[q].place \in Nat /\ timing[q].number \in Nat
    BY <1>1, FileTypes
  <2>2. CASE q < p
    <3>1. timing[q].place < timing[p].place
      BY <1>1, <1>6, <1>11, <2>2 DEF TimingShape
    <3> QED BY <1>2, <1>6, <1>11, <2>1, <3>1
  <2>3. CASE p < q
    BY <1>1, <1>6, <1>11, <2>3 DEF TimingShape
  <2>4. CASE p = q
    BY <1>2, <1>6, <2>1, <2>4
  <2> QED BY <2>2, <2>3, <2>4
<1>12. ASSUME ~SameKind(c) PROVE skipped[c] + 1 <= lost[c]
  <2>1. \A a, b, x, y \in Nat : a + 1 <= x - y /\ x - y <= b => a + 1 <= b
    OBVIOUS
  <2>2. timing[p].place \in Nat
    BY <1>2, <1>6
  <2>3. skipped[c] + 1 <= timing[p].number - timing[p].place
    BY <1>10, <1>12
  <2> QED BY <1>2, <1>6, <1>7, <2>1, <2>2, <2>3
<1>13. ASSUME ~SameKind(c), NEW q \in 1..Len(timing),
              timing[q].id = c, timing[q].place > matched[c]
       PROVE  skipped[c] + 1 <= timing[q].number - timing[q].place
  <2>1. timing[q].place \in Nat /\ timing[q].number \in Nat
    BY <1>1, FileTypes
  <2>2. /\ skipped[c] + 1 <= timing[p].number - timing[p].place
        /\ timing[p].number - timing[p].place <= timing[q].number - timing[q].place
    BY <1>10, <1>11, <1>13
  <2>3. timing[p].place \in Nat
    BY <1>2, <1>6
  <2>4. \A a, b, x, y, z \in Nat : a + 1 <= x - y /\ x - y <= b - z => a + 1 <= b - z
    OBVIOUS
  <2>5. skipped[c] \in Nat /\ timing[p].number \in Nat
    BY <1>2, <1>6
  <2> QED BY <2>1, <2>2, <2>3, <2>4, <2>5
<1> QED
  BY <1>3, <1>4, <1>6, <1>7, <1>9, <1>12, <1>13

\* What taking the front of a queue leaves.
LEMMA TailEntries ==
  ASSUME NEW s \in Seq([code : Codes, number : Nat]), s # <<>>
  PROVE  /\ Tail(s) \in Seq([code : Codes, number : Nat])
         /\ Len(s) \in Nat /\ Len(Tail(s)) = Len(s) - 1
         /\ \A i \in 1..Len(Tail(s)) : Tail(s)[i] = s[i + 1] /\ i + 1 \in 1..Len(s)
<1> DEFINE Q == [code : Codes, number : Nat]
<1>1. s \in Seq(Q) /\ s # <<>>
  OBVIOUS
<1> HIDE DEF Q
<1>2. /\ Tail(s) \in Seq(Q) /\ Len(s) \in Nat /\ Len(Tail(s)) = Len(s) - 1
      /\ \A i \in 1..Len(Tail(s)) : Tail(s)[i] = s[i + 1]
  BY <1>1, HeadTailProperties, LenProperties
<1>3. \A i \in 1..Len(Tail(s)) : i + 1 \in 1..Len(s)
  BY <1>2
<1> QED
  BY <1>2, <1>3 DEF Q

\* The queue of messages without its front, which is matched or skipped.
LEMMA CapTaken ==
  ASSUME Types, NEW c \in Clients, CapQueue(c), cap[c] # <<>>,
         UNCHANGED <<capture, sends, messages>>, cap'[c] = Tail(cap[c]),
         \/ skipped'[c] = skipped[c] + 1 /\ matched'[c] = matched[c]
         \/ skipped'[c] = skipped[c] /\ matched'[c] = matched[c] + 1
  PROVE  CapQueue(c)'
<1>1. /\ matched[c] \in Nat /\ skipped[c] \in Nat /\ Len(cap[c]) \in Nat
      /\ Len(cap'[c]) = Len(cap[c]) - 1
      /\ \A i \in 1..Len(cap'[c]) : cap'[c][i] = cap[c][i + 1] /\ i + 1 \in 1..Len(cap[c])
  BY ClientTypes, TailEntries
<1> DEFINE k == skipped[c] + matched[c]
<1>2. skipped'[c] + matched'[c] = k + 1
  BY <1>1
<1>3. ReadTo(c)' = ReadTo(c)
  <2>1. ReadTo(c)' = skipped'[c] + matched'[c] + Len(cap'[c]) /\ ReadTo(c) = k + Len(cap[c])
    BY DEF ReadTo
  <2> QED BY <1>1, <1>2, <2>1
<1>4. ASSUME NEW i \in 1..Len(cap'[c])
      PROVE  /\ cap'[c][i].number = skipped'[c] + matched'[c] + i
             /\ cap'[c][i].code = sends[c][skipped'[c] + matched'[c] + i]
  <2>1. k \in Nat /\ i \in Nat /\ k + (i + 1) = k + 1 + i
    <3>1. k \in Nat /\ i \in Nat
      BY <1>1
    <3>2. \A a, b \in Nat : a + (b + 1) = a + 1 + b
      OBVIOUS
    <3> QED BY <3>1, <3>2
  <2>2. cap[c][i + 1].number = k + (i + 1) /\ cap[c][i + 1].code = sends[c][k + (i + 1)]
    BY <1>1 DEF CapQueue
  <2> QED BY <1>1, <1>2, <2>1, <2>2
<1> QED
  BY <1>3, <1>4 DEF CapQueue

\* The queue of events without its front, which is matched.
LEMMA TimTaken ==
  ASSUME Types, NEW c \in Clients, TimQueue(c), tim[c] # <<>>,
         UNCHANGED <<timing, timings>>, tim'[c] = Tail(tim[c]),
         matched'[c] = matched[c] + 1
  PROVE  TimQueue(c)'
<1>1. /\ matched[c] \in Nat /\ Len(tim[c]) \in Nat /\ Len(tim'[c]) = Len(tim[c]) - 1
      /\ \A i \in 1..Len(tim'[c]) : tim'[c][i] = tim[c][i + 1] /\ i + 1 \in 1..Len(tim[c])
  <2>1. /\ matched[c] \in Nat /\ tim[c] \in Seq([code : Codes, number : Nat])
    BY ClientTypes
  <2> QED BY <2>1, TailEntries
<1>2. EventsRead(c)' = EventsRead(c)
  <2>1. EventsRead(c)' = matched'[c] + Len(tim'[c]) /\ EventsRead(c) = matched[c] + Len(tim[c])
    BY DEF EventsRead
  <2> QED BY <1>1, <2>1
<1>3. ASSUME NEW i \in 1..Len(tim'[c])
      PROVE  \E p \in 1..Len(timing) : IsEvent(c, i, p)'
  <2>1. PICK p \in 1..Len(timing) : IsEvent(c, i + 1, p)
    BY <1>1 DEF TimQueue
  <2>2. matched[c] + (i + 1) = matched'[c] + i
    BY <1>1, SMTT(30)
  <2> QED BY <1>1, <2>1, <2>2 DEF IsEvent
<1> QED
  BY <1>2, <1>3 DEF TimQueue

LEMMA DrainSkipStep ==
  ASSUME IInv, DrainSkip
  PROVE  IInv'
<1> USE DEF file, replay
<1>0. PICK c \in Clients : c = current
  BY DEF IInv, Types
<1>1. /\ pc = "drain" /\ Both(c) /\ ~SameKind(c)
      /\ cap' = [cap EXCEPT ![c] = Tail(@)] /\ skipped' = [skipped EXCEPT ![c] = @ + 1]
      /\ UNCHANGED <<Files, pc, timings, messages, current, waiting, tim, matched, pairs>>
  BY <1>0 DEF DrainSkip, Files
<1>2. Types /\ Phases /\ Drained /\ Waits /\ PairsTrue
  BY DEF IInv
<1>3. \A d \in Clients : /\ CaptureShape(d) /\ TimingShape(d)
                         /\ CapQueue(d) /\ TimQueue(d) /\ SkipsLost(d)
  BY DEF IInv
<1>4. cap \in [Clients -> Seq([code : Codes, number : Nat])] /\ skipped \in [Clients -> Nat]
  BY <1>2 DEF Types
<1>5. /\ cap'[c] = Tail(cap[c]) /\ skipped'[c] = skipped[c] + 1 /\ skipped[c] \in Nat
      /\ \A d \in Clients : d # c => cap'[d] = cap[d] /\ skipped'[d] = skipped[d]
  BY <1>1, <1>4
<1>6. Types'
  <2>1. cap[c] # <<>> /\ cap[c] \in Seq([code : Codes, number : Nat])
    BY <1>1, <1>4 DEF Both
  <2>2. cap'[c] \in Seq([code : Codes, number : Nat])
    BY <1>5, <2>1, TailEntries
  <2>3. cap' \in [Clients -> Seq([code : Codes, number : Nat])]
    BY <1>1, <1>4, <1>5, <2>2
  <2>4. skipped' \in [Clients -> Nat]
    BY <1>1, <1>4, <1>5
  <2> QED BY <1>1, <1>2, <2>3, <2>4 DEF Types, Files
<1>7. Phases' /\ PairsTrue' /\ Waits'
  BY <1>1, <1>2 DEF Phases, PairsTrue, Waits, Files
<1>8. Drained'
  BY <1>0, <1>1, <1>2, <1>5 DEF Drained, Both
<1>9. ASSUME NEW d \in Clients
      PROVE  (CaptureShape(d) /\ TimingShape(d) /\ CapQueue(d) /\ TimQueue(d) /\ SkipsLost(d))'
  <2>1. CaptureShape(d)' /\ TimingShape(d)' /\ TimQueue(d)'
    BY <1>1, <1>3, FilesFrame, TimFrame DEF Files
  <2>2. CASE d # c
    BY <1>1, <1>3, <1>5, <2>1, <2>2, CapFrame, SkipsFrame DEF Files
  <2>3. CASE d = c
    <3>1. CapQueue(c)'
      BY <1>1, <1>2, <1>3, <1>5, CapTaken DEF Files, Both
    <3>2. /\ skipped[c] + 1 <= lost[c]
          /\ \A q \in 1..Len(timing) : timing[q].id = c /\ timing[q].place > matched[c] =>
               skipped[c] + 1 <= timing[q].number - timing[q].place
      BY <1>1, Fronts
    <3>3. SkipsLost(c)'
      BY <1>1, <1>5, <3>2 DEF SkipsLost, Files
    <3> QED BY <2>1, <2>3, <3>1, <3>3
  <2> QED BY <2>2, <2>3
<1> QED
  BY <1>6, <1>7, <1>8, <1>9 DEF IInv

LEMMA DrainMatchStep ==
  ASSUME IInv, DrainMatch
  PROVE  IInv'
<1> USE DEF file, replay
<1>0. PICK c \in Clients : c = current
  BY DEF IInv, Types
<1>1. PICK p : p = [id |-> c, message |-> Head(cap[c]).number, event |-> Head(tim[c]).number]
  OBVIOUS
<1>2. /\ pc = "drain" /\ Both(c) /\ pairs' = pairs \cup {p}
      /\ cap' = [cap EXCEPT ![c] = Tail(@)] /\ tim' = [tim EXCEPT ![c] = Tail(@)]
      /\ matched' = [matched EXCEPT ![c] = @ + 1]
      /\ UNCHANGED <<Files, pc, timings, messages, current, waiting, skipped>>
  BY <1>0, <1>1 DEF DrainMatch, Files
<1>3. Types /\ Phases /\ Drained /\ Waits /\ PairsTrue
  BY DEF IInv
<1>4. \A d \in Clients : /\ CaptureShape(d) /\ TimingShape(d)
                         /\ CapQueue(d) /\ TimQueue(d) /\ SkipsLost(d)
  BY DEF IInv
<1>5. /\ cap \in [Clients -> Seq([code : Codes, number : Nat])]
      /\ tim \in [Clients -> Seq([code : Codes, number : Nat])]
      /\ matched \in [Clients -> Nat]
  BY <1>3 DEF Types
<1>6. /\ cap'[c] = Tail(cap[c]) /\ tim'[c] = Tail(tim[c]) /\ matched'[c] = matched[c] + 1
      /\ \A d \in Clients : d # c =>
           cap'[d] = cap[d] /\ tim'[d] = tim[d] /\ matched'[d] = matched[d]
  BY <1>2, <1>5
<1>7. cap[c] # <<>> /\ tim[c] # <<>>
  BY <1>2 DEF Both
<1>8. /\ Head(cap[c]).number = skipped[c] + matched[c] + 1
      /\ Head(cap[c]).number <= Head(tim[c]).number
      /\ Head(tim[c]).number - (matched[c] + 1) <= lost[c]
      /\ Head(tim[c]).number \in Nat
      /\ skipped[c] \in Nat /\ matched[c] \in Nat /\ lost[c] \in Nat /\ skipped[c] <= lost[c]
  BY <1>2, <1>3, <1>4, Fronts, ClientTypes DEF SkipsLost
<1>9. /\ p.id = c /\ p.message \in Nat /\ p.event \in Nat /\ p.message <= p.event
      /\ p \in [id : Clients, message : Nat, event : Nat]
      /\ lost[c] = 0 => p.message = p.event
  BY <1>1, <1>8
<1>10. Types'
  <2>1. cap'[c] \in Seq([code : Codes, number : Nat]) /\ tim'[c] \in Seq([code : Codes, number : Nat])
    BY <1>5, <1>6, <1>7, TailEntries
  <2>2. cap' \in [Clients -> Seq([code : Codes, number : Nat])]
    BY <1>2, <1>5, <1>6, <2>1
  <2>3. tim' \in [Clients -> Seq([code : Codes, number : Nat])]
    BY <1>2, <1>5, <1>6, <2>1
  <2>4. matched' \in [Clients -> Nat]
    BY <1>2, <1>5, <1>6
  <2>5. pairs' \subseteq [id : Clients, message : Nat, event : Nat]
    BY <1>2, <1>3, <1>9 DEF Types
  <2> QED BY <1>2, <1>3, <2>2, <2>3, <2>4, <2>5 DEF Types, Files
<1>11. Phases'
  BY <1>2, <1>3 DEF Phases, Files
<1>12. PairsTrue'
  BY <1>2, <1>3, <1>9 DEF PairsTrue, Files
<1>13. Drained'
  BY <1>0, <1>2, <1>3, <1>6 DEF Drained, Both
<1>14. Waits'
  BY <1>2, <1>3, <1>6, <1>7 DEF Waits, Files
<1>15. ASSUME NEW d \in Clients
       PROVE  (CaptureShape(d) /\ TimingShape(d) /\ CapQueue(d) /\ TimQueue(d) /\ SkipsLost(d))'
  <2>1. CaptureShape(d)' /\ TimingShape(d)'
    BY <1>2, <1>4, FilesFrame
  <2>2. CASE d # c
    BY <1>2, <1>4, <1>6, <2>1, <2>2, CapFrame, TimFrame, SkipsFrame DEF Files
  <2>3. CASE d = c
    <3>1. CapQueue(c)' /\ TimQueue(c)'
      BY <1>2, <1>3, <1>4, <1>6, <1>7, CapTaken, TimTaken DEF Files
    <3>2. SkipsLost(c)'
      <4>1. ASSUME NEW q \in 1..Len(timing), timing[q].id = c, timing[q].place > matched[c] + 1
            PROVE  skipped[c] <= timing[q].number - timing[q].place
        <5>1. timing[q].place \in Nat
          BY <1>3, FileTypes
        <5>2. timing[q].place > matched[c]
          BY <1>8, <4>1, <5>1
        <5> QED BY <1>4, <4>1, <5>2 DEF SkipsLost
      <4> QED BY <1>2, <1>6, <1>8, <4>1 DEF SkipsLost, Files
    <3> QED BY <2>1, <2>3, <3>1, <3>2
  <2> QED BY <2>2, <2>3
<1> QED
  BY <1>10, <1>11, <1>12, <1>13, <1>14, <1>15 DEF IInv

----------------------------------------------------------------------------
(* The theorems.                                                           *)

LEMMA StepInv == IInv /\ [Next]_vars => IInv'
<1> SUFFICES ASSUME IInv, [Next]_vars PROVE IInv'
  OBVIOUS
<1>1. ASSUME NEW c \in Clients, Capture(c) \/ Event(c) \/ Exit(c) PROVE IInv'
  BY <1>1, CaptureStep, EventStep, ExitStep
<1>2. ASSUME EndCapture \/ EndReplay \/ EndOfTiming \/ NextEvent PROVE IInv'
  BY <1>2, PhaseStep
<1>3. ASSUME ReadTiming \/ ReadCapture \/ DrainSkip \/ DrainMatch PROVE IInv'
  BY <1>3, ReadTimingStep, ReadCaptureStep, DrainSkipStep, DrainMatchStep
<1>4. ASSUME UNCHANGED vars PROVE IInv'
  <2>1. /\ UNCHANGED <<capture, sends, timing, sent, lost, gone, pc, timings, messages>>
        /\ UNCHANGED <<current, waiting, cap, tim, matched, skipped, pairs>>
    BY <1>4 DEF vars, file, replay, stats
  <2>2. Types'
    BY <2>1 DEF IInv, Types
  <2>3. Phases' /\ Drained' /\ Waits' /\ PairsTrue'
    BY <2>1 DEF IInv, Phases, Drained, Both, Waits, PairsTrue
  <2>4. ASSUME NEW c \in Clients
        PROVE  (CaptureShape(c) /\ TimingShape(c) /\ CapQueue(c) /\ TimQueue(c) /\ SkipsLost(c))'
    <3>1. CaptureShape(c) /\ TimingShape(c) /\ CapQueue(c) /\ TimQueue(c) /\ SkipsLost(c)
      BY DEF IInv
    <3>2. CaptureShape(c)' /\ TimingShape(c)'
      BY <2>1, <3>1, FilesFrame DEF Files
    <3> QED BY <2>1, <3>1, <3>2, CapFrame, TimFrame, SkipsFrame
  <2> QED BY <2>2, <2>3, <2>4 DEF IInv
<1> QED
  BY <1>1, <1>2, <1>3, <1>4 DEF Next

\* The inductive invariant of compare: what the files of a replay look like, how far
\* they have been read, and how many messages may have been skipped.
THEOREM Invariance == Spec => []IInv
<1> QED
  BY InitInv, StepInv, PTL DEF Spec

LEMMA InvOrder == IInv => TypeOK
<1> SUFFICES ASSUME IInv, NEW c \in Clients
             PROVE  /\ \A i, j \in DOMAIN cap[c] : i < j => cap[c][i].number < cap[c][j].number
                    /\ \A i, j \in DOMAIN tim[c] : i < j => tim[c][i].number < tim[c][j].number
  BY DEF TypeOK, IInv
<1>1. Types /\ TimingShape(c) /\ CapQueue(c) /\ TimQueue(c)
  BY DEF IInv
<1>2. /\ matched[c] \in Nat /\ skipped[c] \in Nat
      /\ Len(cap[c]) \in Nat /\ DOMAIN cap[c] = 1..Len(cap[c])
      /\ Len(tim[c]) \in Nat /\ DOMAIN tim[c] = 1..Len(tim[c])
  BY <1>1, ClientTypes, LenProperties
<1>3. ASSUME NEW i \in DOMAIN cap[c], NEW j \in DOMAIN cap[c], i < j
      PROVE  cap[c][i].number < cap[c][j].number
  <2>1. /\ cap[c][i].number = skipped[c] + matched[c] + i
        /\ cap[c][j].number = skipped[c] + matched[c] + j
    BY <1>1, <1>2 DEF CapQueue
  <2> QED BY <1>2, <1>3, <2>1
<1>4. ASSUME NEW i \in DOMAIN tim[c], NEW j \in DOMAIN tim[c], i < j
      PROVE  tim[c][i].number < tim[c][j].number
  <2>1. PICK p \in 1..Len(timing) : IsEvent(c, i, p)
    BY <1>1, <1>2 DEF TimQueue
  <2>2. PICK q \in 1..Len(timing) : IsEvent(c, j, q)
    BY <1>1, <1>2 DEF TimQueue
  <2>3. /\ timing[p].number \in Nat /\ timing[p].place = matched[c] + i /\ timing[p].id = c
        /\ timing[q].number \in Nat /\ timing[q].place = matched[c] + j /\ timing[q].id = c
    BY <1>1, <2>1, <2>2, FileTypes DEF IsEvent
  <2>4. timing[p].place < timing[q].place
    BY <1>2, <1>4, <2>3
  <2>5. p < q
    <3> SUFFICES ASSUME ~(p < q) PROVE FALSE
      OBVIOUS
    <3>1. p # q
      BY <1>2, <2>3, <2>4
    <3>2. q < p
      BY <3>1
    <3>3. timing[q].place < timing[p].place
      BY <1>1, <2>3, <3>2 DEF TimingShape
    <3> QED BY <1>2, <2>3, <2>4, <3>3
  <2>6. timing[p].number - timing[p].place <= timing[q].number - timing[q].place
    BY <1>1, <2>3, <2>5 DEF TimingShape
  <2>7. timing[p].number < timing[q].number
    <3>1. \A a, b, x, y \in Nat : a - x <= b - y /\ x < y => a < b
      OBVIOUS
    <3>2. timing[p].place \in Nat /\ timing[q].place \in Nat
      BY <1>1, FileTypes
    <3> QED BY <2>3, <2>4, <2>6, <3>1, <3>2
  <2> QED BY <2>1, <2>2, <2>7 DEF IsEvent
<1> QED
  BY <1>3, <1>4

\* Types, and whenever compare reads on, everything that can be matched is matched:
\* only the client that is being drained has entries in both queues.
THEOREM QueuesHold == Spec => []QueuesServe
<1>1. IInv => QueuesServe
  BY InvOrder DEF QueuesServe, IInv
<1> QED
  BY Invariance, <1>1, PTL

\* Matching by kind (drain) never runs ahead of the truth, is exact when nothing of
\* the client is missing, and skips no more messages than events are missing.
THEOREM MatchesTrue == Spec => []NeverAhead
<1>1. IInv => NeverAhead
  BY DEF IInv, NeverAhead, PairsTrue, SkipsLost
<1> QED
  BY Invariance, <1>1, PTL

\* Every recorded event of a captured message finds a message, however many events
\* are missing and however the two files mix the clients.
THEOREM EveryEventMatched == Spec => []AllMatched
<1>1. IInv => AllMatched
  <2> SUFFICES ASSUME IInv, pc = "done", NEW c \in Clients, NEW i \in DOMAIN tim[c]
               PROVE  tim[c][i].number > Len(sends[c])
    BY DEF AllMatched
  <2>1. /\ Types /\ Drained /\ Waits /\ CaptureShape(c) /\ TimingShape(c)
        /\ CapQueue(c) /\ TimQueue(c) /\ SkipsLost(c)
    BY DEF IInv
  <2>2. /\ matched[c] \in Nat /\ skipped[c] \in Nat /\ Len(sends[c]) \in Nat
        /\ Len(tim[c]) \in Nat /\ DOMAIN tim[c] = 1..Len(tim[c]) /\ Len(capture) \in Nat
    BY <2>1, ClientTypes, FileTypes, LenProperties
  <2>3. cap[c] = <<>> /\ messages = Len(capture)
    <3>1. tim[c] # <<>>
      BY <2>2
    <3> QED BY <2>1, <3>1 DEF Drained, Both, Waits
  <2>4. ReadTo(c) = skipped[c] + matched[c]
    BY <2>2, <2>3 DEF ReadTo
  <2>5. Len(sends[c]) <= skipped[c] + matched[c]
    <3>1. CASE Len(sends[c]) = 0
      BY <2>2, <3>1
    <3>2. CASE Len(sends[c]) # 0
      <4>1. Len(sends[c]) \in 1..Len(sends[c])
        BY <2>2, <3>2
      <4>2. PICK p \in 1..Len(capture) :
              capture[p].id = c /\ Len(sends[c]) <= Through(capture[p])
        BY <2>1, <4>1 DEF CaptureShape
      <4>3. Through(capture[p]) <= skipped[c] + matched[c] /\ Through(capture[p]) \in Nat
        BY <2>1, <2>2, <2>3, <2>4, <4>2, FileTypes DEF CapQueue
      <4> QED BY <2>2, <4>2, <4>3
    <3> QED BY <3>1, <3>2
  <2>6. PICK p \in 1..Len(timing) : IsEvent(c, i, p)
    BY <2>1, <2>2 DEF TimQueue
  <2>7. /\ timing[p].id = c /\ timing[p].place = matched[c] + i
        /\ tim[c][i].number = timing[p].number /\ timing[p].number \in Nat
    BY <2>1, <2>6, FileTypes DEF IsEvent
  <2>8. timing[p].place > matched[c]
    BY <2>2, <2>7
  <2>9. skipped[c] <= timing[p].number - timing[p].place
    BY <2>1, <2>7, <2>8 DEF SkipsLost
  <2>10. \A a, b, x, z \in Nat : a <= x - (b + i) /\ z <= a + b => x > z
    BY <2>2
  <2> QED BY <2>2, <2>5, <2>7, <2>9, <2>10
<1> QED
  BY Invariance, <1>1, PTL
=============================================================================
