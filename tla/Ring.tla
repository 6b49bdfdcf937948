-------------------------------- MODULE Ring --------------------------------
(***************************************************************************)
(* The multi-producer single-consumer ring of ring.c: a circular array of   *)
(* headers and a circular byte array, with one step per access to shared    *)
(* memory that another process can fall between.                            *)
(*                                                                         *)
(* Producers reserve a header and a byte range under a spinlock, copy the   *)
(* message outside of it, and raise `ready`.  The consumer copies the       *)
(* message at htail out, lowers `ready`, then releases the bytes (dtail)    *)
(* and the header (htail).  The branch RingOverflow is left out: the        *)
(* consumer's buffer (channel.c:15) is as large as the largest message a    *)
(* producer builds (capture.c:15), so no message exceeds it.                *)
(***************************************************************************)
EXTENDS Integers, Sequences

CONSTANTS Producers,
          HeaderSize,   \* RING_HEADER_SIZE
          BufferSize,   \* RING_BUFFER_SIZE
          MsgLens,      \* lengths of the messages pushed
          MaxSent       \* bound: messages accepted

ASSUME RingAssumption ==
  /\ HeaderSize \in Nat \ {0} /\ BufferSize \in Nat \ {0}
  /\ MsgLens \subseteq 1 .. BufferSize
  /\ MaxSent \in Nat

VARIABLES hhead, dhead, htail, dtail, hdrs, data,
          ppc, slot,           \* producer: control, and its local h
          cpc, out,            \* consumer: control, and the buffer it fills
          sent,                \* history: accepted messages
          got                  \* history: buffers handed to the worker

vars == <<hhead, dhead, htail, dtail, hdrs, data, ppc, slot, cpc, out, sent, got>>

NoByte == <<0, 0>>             \* a byte nobody has written; others are <<i, k>>

Min2(a, b) == IF a < b THEN a ELSE b

Init ==
  /\ hhead = 0 /\ dhead = 0 /\ htail = 0 /\ dtail = 0
  /\ hdrs = [s \in 0 .. HeaderSize - 1 |-> [ready |-> FALSE, len |-> 0, off |-> 0]]
  /\ data = [x \in 0 .. BufferSize - 1 |-> NoByte]
  /\ ppc = [p \in Producers |-> "idle"]
  /\ slot = [p \in Producers |-> 0]
  /\ cpc = "idle" /\ out = <<>>
  /\ sent = <<>> /\ got = <<>>

----------------------------------------------------------------------------
(* ring_push                                                               *)

\* Faulty variant: one byte too many.
HasRoom_Byte(len) ==
  hhead - htail < HeaderSize /\ len <= BufferSize - (dhead - dtail) + 1
HasRoom(len) ==
  hhead - htail < HeaderSize /\ len <= BufferSize - (dhead - dtail)

\* The section under the spinlock.  It is one step: its only concurrent writer
\* is the consumer, which makes room and never takes any.
Reserve(p, len) ==
  /\ ppc[p] = "idle" /\ Len(sent) < MaxSent
  /\ HasRoom(len)
  /\ slot' = [slot EXCEPT ![p] = hhead]
  /\ hdrs' = [hdrs EXCEPT ![hhead % HeaderSize].off = dhead,
                          ![hhead % HeaderSize].len = len]
  /\ hhead' = hhead + 1
  /\ dhead' = dhead + len
  /\ sent' = Append(sent, [by |-> p, no |-> hhead + 1, len |-> len])
  /\ ppc' = [ppc EXCEPT ![p] = "copy"]
  /\ UNCHANGED <<htail, dtail, data, cpc, out, got>>

Pos(h) == h.off % BufferSize
First(h) == Min2(h.len, BufferSize - Pos(h))
HdrOf(i) == hdrs[i % HeaderSize]

\* Bytes k of the message numbered i + 1.
Byte(i, k) == <<i + 1, k>>

\* memcpy up to the end of the byte array ...
CopyIn(p) ==
  LET h == HdrOf(slot[p]) IN
  /\ ppc[p] = "copy"
  /\ data' = [x \in DOMAIN data |->
                IF x \in Pos(h) .. Pos(h) + First(h) - 1
                  THEN Byte(slot[p], x - Pos(h) + 1) ELSE data[x]]
  /\ ppc' = [ppc EXCEPT ![p] = IF First(h) < h.len THEN "wrap" ELSE "ready"]
  /\ UNCHANGED <<hhead, dhead, htail, dtail, hdrs, slot, cpc, out, sent, got>>

\* ... and the rest at its start.
CopyInWrapped(p) ==
  LET h == HdrOf(slot[p]) IN
  /\ ppc[p] = "wrap"
  /\ data' = [x \in DOMAIN data |->
                IF x < h.len - First(h)
                  THEN Byte(slot[p], First(h) + x + 1) ELSE data[x]]
  /\ ppc' = [ppc EXCEPT ![p] = "ready"]
  /\ UNCHANGED <<hhead, dhead, htail, dtail, hdrs, slot, cpc, out, sent, got>>

\* The write barrier keeps the copies before this store.
Publish(p) ==
  /\ ppc[p] = "ready"
  /\ hdrs' = [hdrs EXCEPT ![slot[p] % HeaderSize].ready = TRUE]
  /\ ppc' = [ppc EXCEPT ![p] = "idle"]
  /\ UNCHANGED <<hhead, dhead, htail, dtail, data, slot, cpc, out, sent, got>>

----------------------------------------------------------------------------
(* ring_pop                                                                *)

\* Faulty variant: there is something to pop, ready or not.
CanPop_Reserved == htail < hhead
CanPop == HdrOf(htail).ready

\* Faulty variant: the copy runs past the end of the array.
CopyOut_NoWrap ==
  LET h == HdrOf(htail) IN
  /\ cpc = "idle" /\ CanPop
  /\ out' = [k \in 1 .. h.len |->
               IF Pos(h) + k - 1 \in DOMAIN data THEN data[Pos(h) + k - 1] ELSE <<>>]
  /\ cpc' = "clear"
  /\ UNCHANGED <<hhead, dhead, htail, dtail, hdrs, data, ppc, slot, sent, got>>
CopyOut ==
  LET h == HdrOf(htail) IN
  /\ cpc = "idle" /\ CanPop
  /\ out' = [k \in 1 .. First(h) |-> data[Pos(h) + k - 1]]
  /\ cpc' = IF First(h) < h.len THEN "wrap" ELSE "clear"
  /\ UNCHANGED <<hhead, dhead, htail, dtail, hdrs, data, ppc, slot, sent, got>>

CopyOutWrapped ==
  LET h == HdrOf(htail) IN
  /\ cpc = "wrap"
  /\ out' = out \o [k \in 1 .. h.len - First(h) |-> data[k - 1]]
  /\ cpc' = "clear"
  /\ UNCHANGED <<hhead, dhead, htail, dtail, hdrs, data, ppc, slot, sent, got>>

ClearReady ==
  /\ cpc = "clear"
  /\ hdrs' = [hdrs EXCEPT ![htail % HeaderSize].ready = FALSE]
  /\ cpc' = "bytes"
  /\ UNCHANGED <<hhead, dhead, htail, dtail, data, ppc, slot, out, sent, got>>

ReleaseBytes ==
  /\ cpc = "bytes"
  /\ dtail' = HdrOf(htail).off + HdrOf(htail).len
  /\ cpc' = "header"
  /\ UNCHANGED <<hhead, dhead, htail, hdrs, data, ppc, slot, out, sent, got>>

\* Faulty variant: nothing of the message is handed on.
ReleaseHeader_Drop ==
  /\ cpc = "header"
  /\ htail' = htail + 1
  /\ out' = <<>>
  /\ cpc' = "idle"
  /\ UNCHANGED <<hhead, dhead, dtail, hdrs, data, ppc, slot, sent, got>>
ReleaseHeader ==
  /\ cpc = "header"
  /\ htail' = htail + 1
  /\ got' = Append(got, out)
  /\ out' = <<>>
  /\ cpc' = "idle"
  /\ UNCHANGED <<hhead, dhead, dtail, hdrs, data, ppc, slot, sent>>

----------------------------------------------------------------------------

Push(p) == CopyIn(p) \/ CopyInWrapped(p) \/ Publish(p)

Pop == CopyOut \/ CopyOutWrapped \/ ClearReady \/ ReleaseBytes \/ ReleaseHeader

Next ==
  \/ \E p \in Producers : (\E len \in MsgLens : Reserve(p, len)) \/ Push(p)
  \/ Pop

Spec == Init /\ [][Next]_vars

\* A producer that has reserved runs on, and the worker polls the ring.
FairSpec == Spec /\ WF_vars(Pop) /\ \A p \in Producers : WF_vars(Push(p))

----------------------------------------------------------------------------
(* Properties.                                                             *)

Hdr == [ready : BOOLEAN, len : Nat, off : Nat]

\* Type correctness of the ring and of both ends.
TypeOK ==
  /\ hhead \in Nat /\ dhead \in Nat /\ htail \in Nat /\ dtail \in Nat
  /\ hdrs \in [0 .. HeaderSize - 1 -> Hdr]
  /\ data \in [0 .. BufferSize - 1 -> Nat \X Nat]
  /\ ppc \in [Producers -> {"idle", "copy", "wrap", "ready"}]
  /\ slot \in [Producers -> Nat]
  /\ cpc \in {"idle", "wrap", "clear", "bytes", "header"}
  /\ out \in Seq(Nat \X Nat)
  /\ sent \in Seq([by : Producers, no : Nat, len : MsgLens])
  /\ got \in Seq(Seq(Nat \X Nat))

Writing == {p \in Producers : ppc[p] # "idle"}

\* The bytes of the array a header stands for.
Region(h) == {(h.off + k) % BufferSize : k \in 0 .. h.len - 1}

\* Two producers copying at the same time, and a producer and the consumer,
\* work on different headers and different bytes, although the copies run
\* without the lock: room is only given out once its last user released it.
Exclusive ==
  \A p \in Writing :
    /\ \A q \in Writing \ {p} :
         /\ slot[p] % HeaderSize # slot[q] % HeaderSize
         /\ Region(HdrOf(slot[p])) \cap Region(HdrOf(slot[q])) = {}
    /\ cpc # "idle" =>
         /\ slot[p] % HeaderSize # htail % HeaderSize
         /\ cpc \in {"wrap", "clear"} =>
              Region(HdrOf(slot[p])) \cap Region(HdrOf(htail)) = {}

\* The headers in use, by number.
Live == htail .. hhead - 1

WrittenNow == {slot[p] : p \in Writing}

\* The message numbered i + 1.
Bytes(i) == [k \in 1 .. sent[i + 1].len |-> Byte(i, k)]

\* Byte k of that message is where its header says.
At(i, k) == data[(HdrOf(i).off + k - 1) % BufferSize] = Byte(i, k)

\* The counters never pass each other, nor the sizes.
Counters ==
  /\ htail <= hhead /\ hhead - htail <= HeaderSize
  /\ dtail <= dhead /\ dhead - dtail <= BufferSize
  /\ Len(sent) = hhead /\ Len(got) = htail

\* The byte ranges of the headers in use lie in their order between dtail and dhead.
Layout ==
  /\ \A i \in Live :
       /\ HdrOf(i).len = sent[i + 1].len
       /\ HdrOf(i).off + HdrOf(i).len <= dhead
       /\ i # htail \/ cpc # "header" => dtail <= HdrOf(i).off
  /\ \A i, j \in Live : i < j => HdrOf(i).off + HdrOf(i).len <= HdrOf(j).off

\* Each header in use is at one producer, or ready, or at the consumer.
Owners ==
  /\ \A p \in Writing : slot[p] \in Live /\ ~HdrOf(slot[p]).ready
  /\ \A p, q \in Writing : p # q => slot[p] # slot[q]
  /\ cpc # "idle" => htail \in Live \ WrittenNow
  /\ cpc # "idle" => (HdrOf(htail).ready <=> cpc \in {"wrap", "clear"})
  /\ \A s \in DOMAIN hdrs : hdrs[s].ready => \E i \in Live : s = i % HeaderSize

\* What has been copied, in and out, is what the messages hold.
Contents ==
  /\ \A i \in Live \ WrittenNow :
       i # htail \/ cpc \in {"idle", "wrap", "clear"} => \A k \in 1 .. HdrOf(i).len : At(i, k)
  /\ \A p \in Writing :
       /\ ppc[p] = "wrap" => \A k \in 1 .. First(HdrOf(slot[p])) : At(slot[p], k)
       /\ ppc[p] = "ready" => \A k \in 1 .. HdrOf(slot[p]).len : At(slot[p], k)
  /\ cpc = "wrap" => out = [k \in 1 .. First(HdrOf(htail)) |-> Byte(htail, k)]
  /\ cpc \in {"clear", "bytes", "header"} => out = Bytes(htail)
  /\ \A i \in 1 .. Len(got) : got[i] = Bytes(i - 1)

\* The invariant that carries Exclusive and ImplementsQueue: who owns each header and
\* byte, and that the copies have left in the array what they were given.
IInv == TypeOK /\ Counters /\ Layout /\ Owners /\ Contents

\* A buffer the consumer filled is decoded to the message whose bytes it holds.
Garbage == [by |-> "nobody", no |-> 0, len |-> 0]

Decode(o) ==
  IF \E i \in DOMAIN sent : o = [k \in 1 .. sent[i].len |-> Byte(i - 1, k)]
    THEN sent[CHOOSE i \in DOMAIN sent :
                o = [k \in 1 .. sent[i].len |-> Byte(i - 1, k)]]
    ELSE Garbage

\* The positions no producer is at any more, and the messages the worker was handed.
Committed == DOMAIN sent \ {slot[p] + 1 : p \in Writing}
Delivered == [i \in DOMAIN got |-> Decode(got[i])]

\* The ring implements the queue: accepted in the order of reservation,
\* committed when no producer is at it any more, delivered byte for byte.
Queue == INSTANCE MsgQueue WITH
  Msgs      <- [by : Producers, no : 1 .. MaxSent, len : MsgLens],
  accepted  <- sent,
  committed <- Committed,
  delivered <- Delivered

\* Everything pushed reaches the worker whole, once and in order, whatever the
\* interleaving of copies: the ring's steps are steps of the queue.
ImplementsQueue == Queue!QSpec

\* Every accepted message is delivered, also the one that waits behind a slower
\* producer or at the wrap of either array.
AllDelivered == \A n \in 1 .. MaxSent : Len(sent) = n ~> Len(got) >= n
=============================================================================
