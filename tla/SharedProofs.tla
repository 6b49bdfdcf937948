---------------------------- MODULE SharedProofs ----------------------------
(***************************************************************************)
(* Theorems of what the processes of the server share: the ring and the     *)
(* directory of recordings.                                                *)
(*                                                                         *)
(* Ring, for every size of the two arrays and any number of producers:      *)
(* nobody works on a header or a byte of somebody else, and the ring        *)
(* implements the queue MsgQueue.                                          *)
(*                                                                         *)
(* ReserveId, for any number of callers, any directory and whatever the     *)
(* listings return: ids are unique and dense.  The loop over the listing is *)
(* shown to end at the lowest free number, by induction over the numbers it *)
(* has gone through.                                                       *)
(***************************************************************************)
EXTENDS Ring, ReserveId, SequenceTheorems, FiniteSetTheorems, WellFoundedInduction, TLAPS

----------------------------------------------------------------------------
(* Places in a circular array.                                             *)

\* Division with remainder.
LEMMA DivMod ==
  ASSUME NEW N \in Nat \ {0}, NEW a \in Nat
  PROVE /\ a % N \in 0 .. N - 1
        /\ \E q \in Nat : a = N * q + (a % N)
<1>1. a % N \in 0 .. N - 1
  OBVIOUS
<1>2. a % N = a - (a \div N) * N
  BY Z3
<1>3. a \div N \in Int
  OBVIOUS
<1> DEFINE q == a \div N
           r == a % N
<1> HIDE DEF q, r
<1>4. a = N * q + r /\ q \in Int /\ r \in 0 .. N - 1
  BY <1>1, <1>2, <1>3 DEF q, r
<1>5. q >= 0
  BY <1>4
<1>6. q \in Nat /\ a = N * q + r
  BY <1>4, <1>5
<1>7. q \in Nat /\ a = N * q + (a % N)
  BY <1>6 DEF r
<1>8. \E q0 \in Nat : a = N * q0 + (a % N)
  BY <1>7
<1> QED BY <1>1, <1>8

\* The remainder is the one below N.
LEMMA ModIs ==
  ASSUME NEW N \in Nat \ {0}, NEW q \in Nat, NEW r \in 0 .. N - 1
  PROVE (N * q + r) % N = r
OBVIOUS

\* Numbers less than N apart fall on different places.
LEMMA ModWindow ==
  ASSUME NEW N \in Nat \ {0}, NEW a \in Nat, NEW b \in Nat, a < b, b - a < N
  PROVE  a % N # b % N
<1>1. PICK p \in Nat : a = N * p + (a % N)
  BY DivMod
<1>2. PICK q \in Nat : b = N * q + (b % N)
  BY DivMod
<1> SUFFICES ASSUME a % N = b % N PROVE FALSE
  OBVIOUS
<1>3. a % N \in Int
  BY DivMod
<1>4. b - a = N * (q - p)
  BY <1>1, <1>2, <1>3
<1>5. CASE q - p <= 0
  BY <1>4, <1>5
<1>6. CASE q - p >= 1
  BY <1>4, <1>6
<1> QED BY <1>5, <1>6

\* Going on from a place wraps at most once.
LEMMA ModAdd ==
  ASSUME NEW N \in Nat \ {0}, NEW a \in Nat, NEW k \in Nat, k <= N
  PROVE (a + k) % N = IF (a % N) + k < N THEN (a % N) + k ELSE (a % N) + k - N
<1>1. PICK p \in Nat : a = N * p + (a % N)
  BY DivMod
<1> DEFINE r == a % N
<1>2. r \in 0 .. N - 1
  BY DivMod
<1> HIDE DEF r
<1>3. CASE r + k < N
  <2>1. a = N * p + r
    BY <1>1 DEF r
  <2>2. a + k = N * p + (r + k) /\ r + k \in 0 .. N - 1
    BY <1>2, <1>3, <2>1
  <2>3. (N * p + (r + k)) % N = r + k
    BY <2>2, ModIs
  <2>4. (a + k) % N = r + k
    BY <2>2, <2>3
  <2> QED BY <2>4, <1>3 DEF r
<1>4. CASE r + k >= N
  <2>0. a = N * p + r
    BY <1>1 DEF r
  <2>1. a + k = N * (p + 1) + (r + k - N) /\ r + k - N \in 0 .. N - 1 /\ p + 1 \in Nat
    BY <2>0, <1>2, <1>4
  <2>2. (N * (p + 1) + (r + k - N)) % N = r + k - N
    BY <2>1, ModIs
  <2>3. (a + k) % N = r + k - N
    BY <2>1, <2>2
  <2> QED BY <2>3, <1>4, <1>2 DEF r
<1> QED BY <1>2, <1>3, <1>4

----------------------------------------------------------------------------
(* The layout of the ring.                                                 *)

\* Where the bytes of a message are: up to the end of the array, the rest at its start.
LEMMA Places ==
  ASSUME NEW h \in Hdr, h.len <= BufferSize
  PROVE  /\ Pos(h) \in 0 .. BufferSize - 1
         /\ First(h) \in 0 .. h.len /\ First(h) <= BufferSize - Pos(h)
         /\ \A k \in 1 .. First(h) : (h.off + k - 1) % BufferSize = Pos(h) + k - 1
         /\ \A k \in First(h) + 1 .. h.len :
              (h.off + k - 1) % BufferSize = k - 1 - First(h)
<1>1. /\ h.off \in Nat /\ h.len \in Nat /\ BufferSize \in Nat \ {0}
  BY RingAssumption DEF Hdr
<1>2. Pos(h) \in 0 .. BufferSize - 1
  BY <1>1, DivMod DEF Pos
<1>3. First(h) = IF h.len < BufferSize - Pos(h) THEN h.len ELSE BufferSize - Pos(h)
  BY DEF First, Min2
<1>4. \A k \in 1 .. h.len :
        (h.off + k - 1) % BufferSize =
          IF Pos(h) + (k - 1) < BufferSize THEN Pos(h) + (k - 1) ELSE Pos(h) + (k - 1) - BufferSize
  <2> SUFFICES ASSUME NEW k \in 1 .. h.len
               PROVE  (h.off + k - 1) % BufferSize =
                        IF Pos(h) + (k - 1) < BufferSize THEN Pos(h) + (k - 1)
                        ELSE Pos(h) + (k - 1) - BufferSize
    OBVIOUS
  <2>1. k - 1 \in Nat /\ k - 1 <= BufferSize /\ h.off + k - 1 = h.off + (k - 1)
    BY <1>1
  <2> QED BY <2>1, <1>1, ModAdd DEF Pos
<1> QED BY <1>1, <1>2, <1>3, <1>4

\* What the type invariant says of the counters.
LEMMA Numbers ==
  ASSUME TypeOK
  PROVE  /\ hhead \in Nat /\ dhead \in Nat /\ htail \in Nat /\ dtail \in Nat
         /\ HeaderSize \in Nat \ {0} /\ BufferSize \in Nat \ {0}
         /\ \A i \in Live : i \in Nat
BY RingAssumption DEF TypeOK, Live

\* What the type invariant says of the headers in use.
LEMMA LiveHeader ==
  ASSUME TypeOK, Counters, Layout, NEW i \in Live
  PROVE  /\ i \in Nat /\ i % HeaderSize \in DOMAIN hdrs
         /\ HdrOf(i) \in Hdr /\ HdrOf(i).len \in MsgLens
         /\ HdrOf(i).len \in 1 .. BufferSize /\ HdrOf(i).off \in Nat
<1>1. i \in Nat /\ i + 1 \in DOMAIN sent
  BY DEF TypeOK, Counters, Live
<1>2. i % HeaderSize \in 0 .. HeaderSize - 1
  BY <1>1, RingAssumption, DivMod
<1>3. sent[i + 1].len \in MsgLens
  <2> DEFINE M == [by : Producers, no : Nat, len : MsgLens]
  <2>1. sent \in Seq(M)
    BY DEF TypeOK
  <2>2. \A m \in M : m.len \in MsgLens
    OBVIOUS
  <2> HIDE DEF M
  <2>3. sent[i + 1] \in M
    BY <1>1, <2>1
  <2> QED BY <2>2, <2>3
<1>4. HdrOf(i) \in Hdr /\ i % HeaderSize \in DOMAIN hdrs
  BY <1>2 DEF TypeOK, HdrOf
<1>5. HdrOf(i).len \in MsgLens
  BY <1>3 DEF Layout
<1> QED BY <1>1, <1>4, <1>5, RingAssumption DEF Hdr

\* Headers in use have different places.
LEMMA OwnSlot ==
  ASSUME TypeOK, Counters, NEW i \in Live, NEW j \in Live, i # j
  PROVE  i % HeaderSize # j % HeaderSize
<1>1. i \in Nat /\ j \in Nat /\ HeaderSize \in Nat \ {0}
      /\ j - i < HeaderSize /\ i - j < HeaderSize
  BY Numbers DEF Live, Counters
<1>2. CASE i < j
  BY <1>1, <1>2, ModWindow
<1>3. CASE j < i
  BY <1>1, <1>3, ModWindow
<1> QED BY <1>1, <1>2, <1>3

\* Messages in use have different bytes, while the consumer has not released them.
LEMMA OwnBytes ==
  ASSUME TypeOK, Counters, Layout, NEW i \in Live, NEW j \in Live, i # j,
         i # htail \/ cpc # "header", j # htail \/ cpc # "header",
         NEW k \in 1 .. HdrOf(i).len, NEW l \in 1 .. HdrOf(j).len
  PROVE  (HdrOf(i).off + k - 1) % BufferSize # (HdrOf(j).off + l - 1) % BufferSize
<1> DEFINE a == HdrOf(i).off + k - 1
           b == HdrOf(j).off + l - 1
<1>1. /\ HdrOf(i).off \in Nat /\ HdrOf(j).off \in Nat /\ i \in Nat /\ j \in Nat
      /\ HdrOf(i).len \in Nat /\ HdrOf(j).len \in Nat /\ BufferSize \in Nat \ {0}
  BY LiveHeader, RingAssumption
<1>2. /\ a \in Nat /\ b \in Nat /\ dtail <= a /\ a < dhead /\ dtail <= b /\ b < dhead
  BY <1>1, Numbers DEF Layout
<1>3. i < j => a < b
  BY <1>1 DEF Layout
<1>4. j < i => b < a
  BY <1>1 DEF Layout
<1> HIDE DEF a, b
<1>5. b - a < BufferSize /\ a - b < BufferSize
  BY <1>2, Numbers DEF Counters
<1>6. a < b \/ b < a
  BY <1>1, <1>3, <1>4
<1>7. a % BufferSize # b % BufferSize
  <2>1. CASE a < b
    BY <2>1, <1>1, <1>2, <1>5, ModWindow
  <2>2. CASE b < a
    BY <2>2, <1>1, <1>2, <1>5, ModWindow
  <2> QED BY <2>1, <2>2, <1>6
<1> QED BY <1>7 DEF a, b

\* The copies of two processes meet neither in a header nor in a byte.
LEMMA ApartNow == IInv => Exclusive
<1> SUFFICES ASSUME IInv, NEW p \in Writing
             PROVE  /\ \A q \in Writing \ {p} :
                         /\ slot[p] % HeaderSize # slot[q] % HeaderSize
                         /\ Region(HdrOf(slot[p])) \cap Region(HdrOf(slot[q])) = {}
                    /\ cpc # "idle" =>
                         /\ slot[p] % HeaderSize # htail % HeaderSize
                         /\ cpc \in {"wrap", "clear"} =>
                              Region(HdrOf(slot[p])) \cap Region(HdrOf(htail)) = {}
  BY DEF Exclusive
<1>1. slot[p] \in Live /\ (cpc # "idle" => slot[p] # htail /\ htail \in Live)
  BY DEF IInv, Owners, WrittenNow
<1>2. ASSUME NEW i \in Live, NEW j \in Live, i # j,
             i # htail \/ cpc # "header", j # htail \/ cpc # "header"
      PROVE  Region(HdrOf(i)) \cap Region(HdrOf(j)) = {}
  <2> SUFFICES ASSUME NEW x \in Region(HdrOf(i)), x \in Region(HdrOf(j)) PROVE FALSE
    OBVIOUS
  <2>1. HdrOf(i).len \in Nat /\ HdrOf(j).len \in Nat /\ HdrOf(i).off \in Nat /\ HdrOf(j).off \in Nat
    BY LiveHeader DEF IInv
  <2>2. PICK k \in 0 .. HdrOf(i).len - 1 : x = (HdrOf(i).off + k) % BufferSize
    BY DEF Region
  <2>3. PICK l \in 0 .. HdrOf(j).len - 1 : x = (HdrOf(j).off + l) % BufferSize
    BY DEF Region
  <2>4. /\ k + 1 \in 1 .. HdrOf(i).len /\ l + 1 \in 1 .. HdrOf(j).len
        /\ HdrOf(i).off + (k + 1) - 1 = HdrOf(i).off + k
        /\ HdrOf(j).off + (l + 1) - 1 = HdrOf(j).off + l
    BY <2>1
  <2>5. (HdrOf(i).off + (k + 1) - 1) % BufferSize # (HdrOf(j).off + (l + 1) - 1) % BufferSize
    BY <1>2, <2>4, OwnBytes DEF IInv
  <2> QED BY <2>2, <2>3, <2>4, <2>5
<1>3. ASSUME NEW q \in Writing \ {p}
      PROVE  /\ slot[p] % HeaderSize # slot[q] % HeaderSize
             /\ Region(HdrOf(slot[p])) \cap Region(HdrOf(slot[q])) = {}
  <2>1. slot[q] \in Live /\ slot[p] # slot[q] /\ (cpc = "header" => slot[p] # htail /\ slot[q] # htail)
    BY DEF IInv, Owners, WrittenNow
  <2> QED BY <1>1, <1>2, <2>1, OwnSlot DEF IInv
<1>4. ASSUME cpc # "idle"
      PROVE  /\ slot[p] % HeaderSize # htail % HeaderSize
             /\ cpc \in {"wrap", "clear"} =>
                  Region(HdrOf(slot[p])) \cap Region(HdrOf(htail)) = {}
  BY <1>1, <1>2, <1>4, OwnSlot DEF IInv
<1> QED BY <1>3, <1>4

----------------------------------------------------------------------------
(* Types.                                                                  *)

\* Headers keep their type when a field is set.
LEMMA HdrsType ==
  ASSUME TypeOK, NEW s \in DOMAIN hdrs, NEW h \in Hdr
  PROVE  [hdrs EXCEPT ![s] = h] \in [0 .. HeaderSize - 1 -> Hdr]
BY DEF TypeOK

\* The program starts with empty arrays.
LEMMA InitIInv == Init => IInv
<1> SUFFICES ASSUME Init PROVE IInv
  OBVIOUS
<1>1. TypeOK
  <2>1. hdrs \in [0 .. HeaderSize - 1 -> Hdr]
    BY DEF Init, Hdr
  <2>2. data \in [0 .. BufferSize - 1 -> Nat \X Nat]
    BY DEF Init, NoByte
  <2> QED BY <2>1, <2>2 DEF Init, TypeOK
<1>2. Counters /\ Live = {} /\ Writing = {}
  BY RingAssumption DEF Init, Counters, Live, Writing
<1>3. Layout /\ Owners /\ Contents
  BY <1>2 DEF Init, Layout, Owners, Contents, WrittenNow
<1> QED BY <1>1, <1>2, <1>3 DEF IInv

\* What the section under the spinlock does.
LEMMA ReserveDoes ==
  ASSUME IInv, NEW p \in Producers, NEW len \in MsgLens, Reserve(p, len)
  PROVE  /\ hhead \in Nat /\ hhead % HeaderSize \in DOMAIN hdrs
         /\ ~hdrs[hhead % HeaderSize].ready
         /\ \E h \in Hdr : /\ ~h.ready /\ h.len = len /\ h.off = dhead
                          /\ hdrs' = [hdrs EXCEPT ![hhead % HeaderSize] = h]
         /\ \A i \in Live : hhead % HeaderSize # i % HeaderSize
<1>1. /\ hhead \in Nat /\ HeaderSize \in Nat \ {0} /\ hhead % HeaderSize \in 0 .. HeaderSize - 1
      /\ dhead \in Nat /\ len \in Nat
  BY Numbers, DivMod, RingAssumption DEF IInv
<1>2. hhead % HeaderSize \in DOMAIN hdrs /\ hdrs[hhead % HeaderSize] \in Hdr
  BY <1>1 DEF IInv, TypeOK
<1>3. \A i \in Live : hhead % HeaderSize # i % HeaderSize
  <2> SUFFICES ASSUME NEW i \in Live PROVE hhead % HeaderSize # i % HeaderSize
    OBVIOUS
  <2>1. hhead - htail < HeaderSize
    BY DEF Reserve, HasRoom
  <2>2. htail \in Nat /\ i \in htail .. hhead - 1
    BY Numbers DEF IInv, Live
  <2>3. i \in Nat /\ i < hhead /\ hhead - i < HeaderSize
    BY <1>1, <2>1, <2>2
  <2> QED BY <2>3, <1>1, ModWindow
<1>4. ~hdrs[hhead % HeaderSize].ready
  BY <1>2, <1>3 DEF IInv, Owners
<1>5. \A h \in Hdr : ~h.ready =>
        LET new == [[h EXCEPT !.off = dhead] EXCEPT !.len = len]
        IN  new \in Hdr /\ ~new.ready /\ new.len = len /\ new.off = dhead
  BY <1>1 DEF Hdr
<1> DEFINE s == hhead % HeaderSize
           new == [[hdrs[s] EXCEPT !.off = dhead] EXCEPT !.len = len]
<1>6. new \in Hdr /\ ~new.ready /\ new.len = len /\ new.off = dhead
  BY <1>2, <1>4, <1>5
<1>7. hdrs' = [hdrs EXCEPT ![s] = new]
  <2>1. hdrs' = [hdrs EXCEPT ![s].off = dhead, ![s].len = len] /\ s \in DOMAIN hdrs
    BY <1>2 DEF Reserve
  <2> HIDE DEF s
  <2> QED BY <2>1
<1> HIDE DEF new
<1> QED BY <1>1, <1>2, <1>3, <1>4, <1>6, <1>7

\* A `ready` that is set or cleared: the place and the size of every header stay.
LEMMA FlagDoes ==
  ASSUME TypeOK, NEW s \in DOMAIN hdrs, NEW b \in BOOLEAN,
         hdrs' = [hdrs EXCEPT ![s].ready = b]
  PROVE  /\ hdrs' \in [0 .. HeaderSize - 1 -> Hdr]
         /\ \A t \in DOMAIN hdrs : /\ hdrs'[t].len = hdrs[t].len /\ hdrs'[t].off = hdrs[t].off
                                   /\ t # s => hdrs'[t] = hdrs[t]
         /\ hdrs'[s].ready = b
<1>1. hdrs \in [0 .. HeaderSize - 1 -> Hdr] /\ hdrs[s] \in Hdr
  BY DEF TypeOK
<1>2. \A h \in Hdr : LET new == [h EXCEPT !.ready = b]
                    IN  new \in Hdr /\ new.ready = b /\ new.len = h.len /\ new.off = h.off
  BY DEF Hdr
<1> DEFINE new == [hdrs[s] EXCEPT !.ready = b]
<1>3. hdrs' = [hdrs EXCEPT ![s] = new]
  OBVIOUS
<1>4. new \in Hdr /\ new.ready = b /\ new.len = hdrs[s].len /\ new.off = hdrs[s].off
  BY <1>1, <1>2
<1> HIDE DEF new
<1> QED BY <1>1, <1>3, <1>4

\* The consumer works on the oldest header in use, which no producer is at.
LEMMA PopAt ==
  ASSUME IInv, cpc # "idle" \/ CanPop
  PROVE  htail \in Live \ WrittenNow /\ htail \in Nat
<1>1. htail \in Nat /\ hhead \in Nat /\ htail % HeaderSize \in DOMAIN hdrs
  BY DivMod, RingAssumption DEF IInv, TypeOK
<1>2. CASE cpc # "idle"
  BY <1>1, <1>2 DEF IInv, Owners
<1>3. CASE CanPop
  <2>1. PICK i \in Live : htail % HeaderSize = i % HeaderSize
    BY <1>1, <1>3 DEF CanPop, HdrOf, IInv, Owners
  <2>2. htail \in Live
    BY <1>1, <2>1 DEF Live
  <2>3. htail \notin WrittenNow
    BY <1>3 DEF CanPop, WrittenNow, IInv, Owners
  <2> QED BY <1>1, <2>2, <2>3
<1> QED BY <1>2, <1>3

\* The bytes of the message at htail.
LEMMA PopReads ==
  ASSUME IInv, cpc \in {"idle", "wrap"}, cpc = "idle" => CanPop
  PROVE  LET h == HdrOf(htail) IN
         /\ htail \in Nat /\ h.len \in Nat /\ First(h) \in 0 .. h.len /\ h.len >= 1
         /\ h.len = sent[htail + 1].len
         /\ \A k \in 1 .. First(h) : data[Pos(h) + k - 1] = Byte(htail, k)
         /\ \A k \in First(h) + 1 .. h.len : data[k - 1 - First(h)] = Byte(htail, k)
<1> DEFINE h == HdrOf(htail)
<1>1. htail \in Live \ WrittenNow /\ htail \in Nat
  BY PopAt
<1>2. h \in Hdr /\ h.len \in 1 .. BufferSize
  BY <1>1, LiveHeader DEF IInv
<1>3. \A k \in 1 .. h.len : data[(h.off + k - 1) % BufferSize] = Byte(htail, k)
  BY <1>1 DEF IInv, Contents, At
<1>4. h.len = sent[htail + 1].len
  BY <1>1 DEF IInv, Layout
<1> HIDE DEF h
<1>5. h.len \in Nat /\ BufferSize \in Nat /\ h.len <= BufferSize
  BY <1>2, RingAssumption DEF Hdr
<1>6. /\ First(h) \in 0 .. h.len
      /\ \A k \in 1 .. First(h) : (h.off + k - 1) % BufferSize = Pos(h) + k - 1
      /\ \A k \in First(h) + 1 .. h.len : (h.off + k - 1) % BufferSize = k - 1 - First(h)
  BY <1>2, <1>5, Places
<1>7. \A k \in 1 .. First(h) : k \in 1 .. h.len
  BY <1>5, <1>6
<1>8. \A k \in First(h) + 1 .. h.len : k \in 1 .. h.len
  BY <1>5, <1>6
<1>9. \A k \in 1 .. First(h) : data[Pos(h) + k - 1] = Byte(htail, k)
  BY <1>3, <1>6, <1>7
<1>10. \A k \in First(h) + 1 .. h.len : data[k - 1 - First(h)] = Byte(htail, k)
  BY <1>3, <1>6, <1>8
<1> QED BY <1>1, <1>2, <1>4, <1>5, <1>6, <1>9, <1>10 DEF h

\* The first copy of the consumer fills its buffer with what the message holds ...
LEMMA CopyOutDoes ==
  ASSUME IInv, CopyOut
  PROVE  /\ out' = [k \in 1 .. First(HdrOf(htail)) |-> Byte(htail, k)]
         /\ First(HdrOf(htail)) \in Nat /\ htail \in Nat
         /\ cpc' = "clear" => out' = Bytes(htail)
<1>1. cpc = "idle" /\ CanPop
  BY DEF CopyOut
<1> DEFINE n == First(HdrOf(htail))
<1>2. \A k \in 1 .. n : data[Pos(HdrOf(htail)) + k - 1] = Byte(htail, k)
  BY <1>1, PopReads
<1>3. out' = [k \in 1 .. n |-> Byte(htail, k)]
  BY <1>2 DEF CopyOut
<1>4. n \in 0 .. HdrOf(htail).len /\ HdrOf(htail).len \in Nat /\ htail \in Nat
      /\ HdrOf(htail).len = sent[htail + 1].len
  BY <1>1, PopReads
<1>5. cpc' = "clear" => n = HdrOf(htail).len
  BY <1>4 DEF CopyOut
<1> QED BY <1>3, <1>4, <1>5 DEF Bytes

\* ... and the second completes it.
LEMMA CopyOutWrappedDoes ==
  ASSUME IInv, CopyOutWrapped
  PROVE  out' = Bytes(htail) /\ htail \in Nat /\ sent[htail + 1].len \in Nat
<1>1. cpc = "wrap"
  BY DEF CopyOutWrapped
<1> DEFINE n == First(HdrOf(htail))
           len == HdrOf(htail).len
           rest == [k \in 1 .. len - n |-> data[k - 1]]
<1>2. /\ htail \in Nat /\ len \in Nat /\ n \in 0 .. len /\ len = sent[htail + 1].len
      /\ \A k \in n + 1 .. len : data[k - 1 - n] = Byte(htail, k)
  BY <1>1, PopReads
<1>3. out = [k \in 1 .. n |-> Byte(htail, k)] /\ out' = out \o rest
  BY <1>1 DEF IInv, Contents, CopyOutWrapped
<1> HIDE DEF n, len
<1>4. n \in Nat /\ len - n \in Nat
  BY <1>2
<1>5. \A k \in 1 .. len - n : rest[k] = Byte(htail, n + k)
  <2> SUFFICES ASSUME NEW k \in 1 .. len - n PROVE rest[k] = Byte(htail, n + k)
    OBVIOUS
  <2>1. n + k \in n + 1 .. len /\ n + k - 1 - n = k - 1
    BY <1>2, <1>4
  <2> QED BY <1>2, <2>1
<1> DEFINE B == Nat \X Nat
<1>6. Len(rest) = len - n
  BY <1>4
<1> HIDE DEF rest
<1>11. rest \in Seq(B)
  <2>1. \A k \in 1 .. len - n : rest[k] \in B
    <3> SUFFICES ASSUME NEW k \in 1 .. len - n PROVE rest[k] \in B
      OBVIOUS
    <3>1. htail + 1 \in Nat /\ n + k \in Nat
      BY <1>2, <1>4
    <3> QED BY <1>5, <3>1 DEF Byte
  <2> HIDE DEF B
  <2> QED BY <1>4, <2>1 DEF rest
<1>12. out \in Seq(B) /\ Len(out) = n
  BY <1>3, <1>4 DEF IInv, TypeOK
<1> HIDE DEF B
<1>7. /\ out \o rest \in Seq(B) /\ Len(out \o rest) = n + (len - n)
      /\ \A k \in 1 .. n + (len - n) :
           (out \o rest)[k] = IF k <= n THEN out[k] ELSE rest[k - n]
  BY <1>6, <1>11, <1>12, ConcatProperties
<1>8. ASSUME NEW k \in 1 .. len PROVE (out \o rest)[k] = Byte(htail, k)
  <2>1. k \in Nat /\ k \in 1 .. n + (len - n)
    BY <1>2, <1>4
  <2>2. CASE k <= n
    <3>1. (out \o rest)[k] = out[k] /\ k \in 1 .. n
      BY <1>4, <1>7, <2>1, <2>2
    <3> QED BY <1>3, <3>1
  <2>3. CASE k > n
    <3>1. (out \o rest)[k] = rest[k - n]
      BY <1>4, <1>7, <2>1, <2>3
    <3>2. k - n \in 1 .. len - n /\ n + (k - n) = k
      BY <1>2, <1>4, <2>1, <2>3
    <3>3. rest[k - n] = Byte(htail, n + (k - n))
      BY <1>5, <3>2
    <3>4. Byte(htail, n + (k - n)) = Byte(htail, k)
      BY <3>2
    <3> HIDE DEF n, len
    <3> QED BY <3>1, <3>3, <3>4
  <2>4. k <= n \/ k > n
    BY <1>4, <2>1
  <2> QED BY <2>2, <2>3, <2>4
<1> DEFINE t == out \o rest
<1>9. t \in Seq(B) /\ Len(t) = len /\ \A k \in 1 .. len : t[k] = Byte(htail, k)
  <2>1. n + (len - n) = len
    BY <1>2, <1>4
  <2>2. \A k \in 1 .. len : t[k] = Byte(htail, k)
    BY <1>8
  <2>3. t \in Seq(B) /\ Len(t) = n + (len - n)
    BY <1>7
  <2> QED BY <2>1, <2>2, <2>3
<1> HIDE DEF t
<1>10. t = [k \in 1 .. len |-> Byte(htail, k)]
  BY <1>9
<1> QED BY <1>2, <1>3, <1>10 DEF Bytes, t

\* Every step keeps the types.
LEMMA StepType == IInv /\ [Next]_vars => TypeOK'
<1> SUFFICES ASSUME IInv, [Next]_vars PROVE TypeOK'
  OBVIOUS
<1> USE RingAssumption
<1>0. TypeOK
  BY DEF IInv
<1>1. ASSUME NEW p \in Producers, NEW len \in MsgLens, Reserve(p, len) PROVE TypeOK'
  <2>1. hdrs' \in [0 .. HeaderSize - 1 -> Hdr]
    BY <1>1, ReserveDoes DEF IInv, TypeOK
  <2>2. sent' \in Seq([by : Producers, no : Nat, len : MsgLens])
    <3> DEFINE m == [by |-> p, no |-> hhead + 1, len |-> len]
               M == [by : Producers, no : Nat, len : MsgLens]
    <3>1. m \in M
      BY <1>0, <1>1 DEF TypeOK
    <3>2. sent \in Seq(M) /\ sent' = Append(sent, m)
      BY <1>0, <1>1 DEF TypeOK, Reserve
    <3> HIDE DEF m, M
    <3>3. sent' \in Seq(M)
      BY <3>1, <3>2
    <3> QED BY <3>3 DEF M
  <2>3. hhead' \in Nat /\ dhead' \in Nat /\ slot' \in [Producers -> Nat]
        /\ ppc' \in [Producers -> {"idle", "copy", "wrap", "ready"}]
    <3>1. len \in Nat
      BY RingAssumption
    <3>2. hhead' \in Nat /\ dhead' \in Nat
      <4>1. hhead' = hhead + 1 /\ dhead' = dhead + len
        BY <1>1 DEF Reserve
      <4> QED BY <1>0, <3>1, <4>1 DEF TypeOK
    <3>3. slot' = [slot EXCEPT ![p] = hhead] /\ ppc' = [ppc EXCEPT ![p] = "copy"]
      BY <1>1 DEF Reserve
    <3> QED BY <1>0, <3>2, <3>3 DEF TypeOK
  <2>4. UNCHANGED <<htail, dtail, data, cpc, out, got>>
    BY <1>1 DEF Reserve
  <2> QED BY <1>0, <2>1, <2>2, <2>3, <2>4 DEF TypeOK
<1>2. ASSUME NEW p \in Producers, Push(p) PROVE TypeOK'
  <2>1. ppc' \in [Producers -> {"idle", "copy", "wrap", "ready"}]
    BY <1>0, <1>2 DEF TypeOK, Push, CopyIn, CopyInWrapped, Publish
  <2>2. UNCHANGED <<hhead, dhead, htail, dtail, slot, cpc, out, sent, got>>
    BY <1>2 DEF Push, CopyIn, CopyInWrapped, Publish
  <2>3. ppc[p] # "idle" => /\ slot[p] \in Live /\ slot[p] \in Nat
                           /\ slot[p] % HeaderSize \in DOMAIN hdrs
                           /\ HdrOf(slot[p]) \in Hdr /\ HdrOf(slot[p]).len <= BufferSize
    BY LiveHeader DEF IInv, Owners, Writing
  <2>4. hdrs' \in [0 .. HeaderSize - 1 -> Hdr]
    BY <1>0, <1>2, <2>3, FlagDoes DEF TypeOK, Push, CopyIn, CopyInWrapped, Publish
  <2>5. data' \in [0 .. BufferSize - 1 -> Nat \X Nat]
    <3>1. CASE CopyIn(p)
      <4>1. /\ Pos(HdrOf(slot[p])) \in Nat /\ First(HdrOf(slot[p])) \in Nat
        BY <2>3, <3>1, Places DEF CopyIn
      <4> DEFINE S == Pos(HdrOf(slot[p])) .. Pos(HdrOf(slot[p])) + First(HdrOf(slot[p])) - 1
      <4>2. \A x \in S : Byte(slot[p], x - Pos(HdrOf(slot[p])) + 1) \in Nat \X Nat
        BY <2>3, <3>1, <4>1 DEF CopyIn, Byte
      <4>3. data' = [x \in DOMAIN data |->
                       IF x \in S THEN Byte(slot[p], x - Pos(HdrOf(slot[p])) + 1) ELSE data[x]]
        BY <3>1 DEF CopyIn
      <4>4. data \in [0 .. BufferSize - 1 -> Nat \X Nat]
        BY <1>0 DEF TypeOK
      <4> HIDE DEF S
      <4> QED BY <4>2, <4>3, <4>4
    <3>2. CASE CopyInWrapped(p)
      <4>1. /\ First(HdrOf(slot[p])) \in Nat
        BY <2>3, <3>2, Places DEF CopyInWrapped
      <4>2. \A x \in Nat : Byte(slot[p], First(HdrOf(slot[p])) + x + 1) \in Nat \X Nat
        BY <2>3, <3>2, <4>1 DEF CopyInWrapped, Byte
      <4>3. data' = [x \in DOMAIN data |->
                       IF x < HdrOf(slot[p]).len - First(HdrOf(slot[p]))
                         THEN Byte(slot[p], First(HdrOf(slot[p])) + x + 1) ELSE data[x]]
        BY <3>2 DEF CopyInWrapped
      <4>4. data \in [0 .. BufferSize - 1 -> Nat \X Nat]
        BY <1>0 DEF TypeOK
      <4> QED BY <4>2, <4>3, <4>4
    <3>3. CASE Publish(p)
      BY <1>0, <3>3 DEF Publish, TypeOK
    <3> QED BY <1>2, <3>1, <3>2, <3>3 DEF Push
  <2> QED BY <1>0, <2>1, <2>2, <2>4, <2>5 DEF TypeOK
<1>3. ASSUME Pop PROVE TypeOK'
  <2>1. UNCHANGED <<hhead, dhead, data, ppc, slot, sent>>
    BY <1>3 DEF Pop, CopyOut, CopyOutWrapped, ClearReady, ReleaseBytes, ReleaseHeader
  <2>2. cpc' \in {"idle", "wrap", "clear", "bytes", "header"} /\ htail' \in Nat
    <3>1. htail \in Nat
      BY <1>0 DEF TypeOK
    <3> QED BY <3>1, <1>3
       DEF Pop, CopyOut, CopyOutWrapped, ClearReady, ReleaseBytes, ReleaseHeader
  <2>3. htail \in Nat /\ htail % HeaderSize \in DOMAIN hdrs /\ HdrOf(htail) \in Hdr
    BY <1>0, DivMod DEF TypeOK, HdrOf
  <2>4. hdrs' \in [0 .. HeaderSize - 1 -> Hdr]
    BY <1>0, <1>3, <2>3, FlagDoes
    DEF TypeOK, Pop, CopyOut, CopyOutWrapped, ClearReady, ReleaseBytes, ReleaseHeader
  <2>5. dtail' \in Nat
    <3>2. \A h \in Hdr : h.off + h.len \in Nat
      BY DEF Hdr
    <3>1. dtail \in Nat /\ HdrOf(htail).off + HdrOf(htail).len \in Nat
      BY <1>0, <2>3, <3>2 DEF TypeOK
    <3> QED BY <3>1, <1>3
       DEF Pop, CopyOut, CopyOutWrapped, ClearReady, ReleaseBytes, ReleaseHeader
  <2>6. out' \in Seq(Nat \X Nat)
    <3> DEFINE B == Nat \X Nat
    <3>1. out \in Seq(B) /\ data \in [0 .. BufferSize - 1 -> B]
      BY <1>0 DEF TypeOK
    <3> HIDE DEF B
    <3>0. ASSUME NEW i \in Nat, NEW n \in Nat
          PROVE  [k \in 1 .. n |-> Byte(i, k)] \in Seq(Nat \X Nat)
      BY DEF Byte
    <3>2. CASE CopyOut
      BY <3>0, <3>2, CopyOutDoes DEF B
    <3>3. CASE CopyOutWrapped
      <4>1. out' = Bytes(htail) /\ htail \in Nat /\ sent[htail + 1].len \in Nat
        BY <3>3, CopyOutWrappedDoes
      <4> DEFINE n == sent[htail + 1].len
      <4>2. out' = [k \in 1 .. n |-> Byte(htail, k)]
        BY <4>1 DEF Bytes
      <4>3. n \in Nat
        BY <4>1
      <4> HIDE DEF n
      <4>4. [k \in 1 .. n |-> Byte(htail, k)] \in Seq(Nat \X Nat)
        BY <3>0, <4>1, <4>3
      <4> QED BY <4>2, <4>4 DEF B
    <3>4. CASE ReleaseHeader \/ ClearReady \/ ReleaseBytes
      <4>1. out' = out \/ out' = <<>>
        BY <3>4 DEF ReleaseHeader, ClearReady, ReleaseBytes
      <4>2. <<>> \in Seq(B)
        OBVIOUS
      <4> QED BY <3>1, <4>1, <4>2 DEF B
    <3> QED BY <1>3, <3>2, <3>3, <3>4 DEF Pop, B
  <2>7. got' \in Seq(Seq(Nat \X Nat))
    <3> DEFINE B == Seq(Nat \X Nat)
    <3>1. out \in B /\ got \in Seq(B)
      BY <1>0 DEF TypeOK
    <3> HIDE DEF B
    <3>2. got' \in Seq(B)
      <4>1. CASE ReleaseHeader
        <5>1. Append(got, out) \in Seq(B)
          BY <3>1
        <5> QED BY <3>1, <4>1, <5>1 DEF ReleaseHeader
      <4>2. CASE CopyOut \/ CopyOutWrapped \/ ClearReady \/ ReleaseBytes
        <5>1. got' = got
          BY <4>2 DEF CopyOut, CopyOutWrapped, ClearReady, ReleaseBytes
        <5> QED BY <3>1, <5>1
      <4> QED BY <1>3, <4>1, <4>2 DEF Pop
    <3> QED BY <3>2 DEF B
  <2> QED BY <1>0, <2>1, <2>2, <2>4, <2>5, <2>6, <2>7 DEF TypeOK
<1>4. ASSUME UNCHANGED vars PROVE TypeOK'
  BY <1>0, <1>4 DEF TypeOK, vars
<1> QED BY <1>1, <1>2, <1>3, <1>4 DEF Next

\* A producer between its two critical steps is at a header in use.
LEMMA WriterAt ==
  ASSUME IInv, NEW p \in Writing
  PROVE  LET h == HdrOf(slot[p]) IN
         /\ slot[p] \in Live /\ slot[p] \in Nat /\ slot[p] \in WrittenNow
         /\ h \in Hdr /\ h.len \in 1 .. BufferSize /\ h.off \in Nat
         /\ BufferSize \in Nat \ {0}
<1>1. slot[p] \in Live
  BY DEF IInv, Owners
<1> QED BY <1>1, LiveHeader, RingAssumption DEF IInv, WrittenNow

\* A copy into the ring changes only the places of its own message.
LEMMA CopyInWrites ==
  ASSUME IInv, NEW p \in Producers, CopyIn(p) \/ CopyInWrapped(p)
  PROVE  LET h == HdrOf(slot[p]) IN
         \A x \in DOMAIN data :
           \/ data'[x] = data[x]
           \/ \E l \in 1 .. h.len : x = (h.off + l - 1) % BufferSize
<1>0. p \in Writing
  BY DEF Writing, CopyIn, CopyInWrapped
<1> DEFINE h == HdrOf(slot[p])
           i == slot[p]
<1>1. /\ h \in Hdr /\ h.len \in 1 .. BufferSize /\ BufferSize \in Nat \ {0}
      /\ DOMAIN data = 0 .. BufferSize - 1
  BY <1>0, WriterAt DEF IInv, TypeOK
<1>2. /\ \/ data' = [x \in DOMAIN data |->
                IF x \in Pos(h) .. Pos(h) + First(h) - 1
                  THEN Byte(i, x - Pos(h) + 1) ELSE data[x]]
         \/ data' = [x \in DOMAIN data |->
                IF x < h.len - First(h)
                  THEN Byte(i, First(h) + x + 1) ELSE data[x]]
  BY DEF CopyIn, CopyInWrapped
<1> HIDE DEF h, i
<1>3. /\ Pos(h) \in 0 .. BufferSize - 1
      /\ First(h) \in 0 .. h.len /\ First(h) <= BufferSize - Pos(h)
      /\ \A k \in 1 .. First(h) : (h.off + k - 1) % BufferSize = Pos(h) + k - 1
      /\ \A k \in First(h) + 1 .. h.len : (h.off + k - 1) % BufferSize = k - 1 - First(h)
  BY <1>1, Places
<1>4. SUFFICES ASSUME NEW x \in 0 .. BufferSize - 1, data'[x] # data[x]
               PROVE  \E l \in 1 .. h.len : x = (h.off + l - 1) % BufferSize
  BY <1>1 DEF h
<1>5. x \in Pos(h) .. Pos(h) + First(h) - 1 \/ x < h.len - First(h)
  BY <1>1, <1>2, <1>4
<1>6. CASE x \in Pos(h) .. Pos(h) + First(h) - 1
  <2> DEFINE l == x - Pos(h) + 1
  <2>1. l \in 1 .. First(h) /\ l \in 1 .. h.len /\ x = Pos(h) + l - 1
    BY <1>1, <1>3, <1>6
  <2> HIDE DEF l
  <2> QED BY <1>3, <2>1
<1>7. CASE x < h.len - First(h)
  <2> DEFINE l == First(h) + x + 1
  <2>1. l \in First(h) + 1 .. h.len /\ l \in 1 .. h.len /\ x = l - 1 - First(h)
    BY <1>1, <1>3, <1>7
  <2> HIDE DEF l
  <2> QED BY <1>3, <2>1
<1> QED BY <1>5, <1>6, <1>7

\* The messages of the others stay as they are.
LEMMA CopyInKeeps ==
  ASSUME IInv, NEW p \in Producers, CopyIn(p) \/ CopyInWrapped(p),
         NEW i \in Live, i # slot[p], i # htail \/ cpc # "header",
         NEW k \in 1 .. HdrOf(i).len, At(i, k)
  PROVE  At(i, k)'
<1>0. p \in Writing /\ hdrs' = hdrs
  BY DEF Writing, CopyIn, CopyInWrapped
<1>2. slot[p] \in Live /\ (slot[p] # htail \/ cpc # "header")
  BY <1>0, WriterAt DEF IInv, Owners
<1> DEFINE x == (HdrOf(i).off + k - 1) % BufferSize
<1>3. x \in DOMAIN data
  <2>1. HdrOf(i).off \in Nat /\ HdrOf(i).len \in Nat /\ BufferSize \in Nat \ {0}
    BY LiveHeader, RingAssumption DEF IInv
  <2>2. HdrOf(i).off + k - 1 \in Nat
    BY <2>1
  <2>3. x \in 0 .. BufferSize - 1
    BY <2>1, <2>2, DivMod
  <2> QED BY <2>3 DEF IInv, TypeOK
<1>4. \A l \in 1 .. HdrOf(slot[p]).len : x # (HdrOf(slot[p]).off + l - 1) % BufferSize
  BY <1>2, OwnBytes DEF IInv
<1>5. data'[x] = data[x]
  BY <1>3, <1>4, CopyInWrites
<1> QED BY <1>0, <1>5 DEF At, HdrOf

\* The copy up to the end of the array puts the bytes where the header says ...
LEMMA CopyInDoes ==
  ASSUME IInv, NEW p \in Producers, CopyIn(p)
  PROVE  \A k \in 1 .. First(HdrOf(slot[p])) : At(slot[p], k)'
<1>0. p \in Writing /\ hdrs' = hdrs /\ slot' = slot
  BY DEF Writing, CopyIn
<1> DEFINE h == HdrOf(slot[p])
           i == slot[p]
<1>1. /\ h \in Hdr /\ h.len \in 1 .. BufferSize /\ BufferSize \in Nat \ {0}
      /\ DOMAIN data = 0 .. BufferSize - 1 /\ h' = h /\ i' = i /\ HdrOf(i) = h
  BY <1>0, WriterAt DEF IInv, TypeOK, HdrOf
<1>2. data' = [x \in DOMAIN data |->
                IF x \in Pos(h) .. Pos(h) + First(h) - 1
                  THEN Byte(i, x - Pos(h) + 1) ELSE data[x]]
  BY DEF CopyIn
<1>3. \A k \in 1 .. First(h) : At(i, k)' <=> data'[(h.off + k - 1) % BufferSize] = Byte(i, k)
  BY <1>0, <1>1 DEF At, HdrOf, Byte
<1> HIDE DEF h, i
<1>4. /\ Pos(h) \in 0 .. BufferSize - 1
      /\ First(h) \in 0 .. h.len /\ First(h) <= BufferSize - Pos(h)
      /\ \A k \in 1 .. First(h) : (h.off + k - 1) % BufferSize = Pos(h) + k - 1
  BY <1>1, Places
<1>5. ASSUME NEW k \in 1 .. First(h) PROVE data'[(h.off + k - 1) % BufferSize] = Byte(i, k)
  <2>1. Pos(h) + k - 1 \in DOMAIN data /\ Pos(h) + k - 1 \in Pos(h) .. Pos(h) + First(h) - 1
        /\ (Pos(h) + k - 1) - Pos(h) + 1 = k
    BY <1>1, <1>4
  <2>2. data'[Pos(h) + k - 1] = Byte(i, (Pos(h) + k - 1) - Pos(h) + 1)
    BY <1>2, <2>1
  <2> QED BY <1>4, <2>1, <2>2
<1>6. \A k \in 1 .. First(h) : At(i, k)'
  BY <1>3, <1>5
<1> QED BY <1>6 DEF h, i

\* ... and so does the rest, which leaves the first part alone.
LEMMA CopyInWrappedDoes ==
  ASSUME IInv, NEW p \in Producers, CopyInWrapped(p)
  PROVE  \A k \in 1 .. HdrOf(slot[p]).len : At(slot[p], k)'
<1>0. p \in Writing /\ hdrs' = hdrs /\ slot' = slot /\ ppc[p] = "wrap"
  BY DEF Writing, CopyInWrapped
<1> DEFINE h == HdrOf(slot[p])
           i == slot[p]
<1>1. /\ h \in Hdr /\ h.len \in 1 .. BufferSize /\ BufferSize \in Nat \ {0}
      /\ DOMAIN data = 0 .. BufferSize - 1 /\ h' = h /\ i' = i /\ HdrOf(i) = h
  BY <1>0, WriterAt DEF IInv, TypeOK, HdrOf
<1>2. data' = [x \in DOMAIN data |->
                IF x < h.len - First(h) THEN Byte(i, First(h) + x + 1) ELSE data[x]]
  BY DEF CopyInWrapped
<1>3. \A k \in 1 .. h.len : At(i, k)' <=> data'[(h.off + k - 1) % BufferSize] = Byte(i, k)
  BY <1>0, <1>1 DEF At, HdrOf, Byte
<1>4. \A k \in 1 .. First(h) : data[(h.off + k - 1) % BufferSize] = Byte(i, k)
  BY <1>0 DEF IInv, Contents, At
<1>5. First(h) = IF h.len < BufferSize - Pos(h) THEN h.len ELSE BufferSize - Pos(h)
  BY DEF First, Min2
<1> HIDE DEF h, i
<1>6. /\ Pos(h) \in 0 .. BufferSize - 1
      /\ First(h) \in 0 .. h.len /\ First(h) <= BufferSize - Pos(h)
      /\ \A k \in 1 .. First(h) : (h.off + k - 1) % BufferSize = Pos(h) + k - 1
      /\ \A k \in First(h) + 1 .. h.len : (h.off + k - 1) % BufferSize = k - 1 - First(h)
  BY <1>1, Places
<1>7. ASSUME NEW k \in 1 .. h.len PROVE data'[(h.off + k - 1) % BufferSize] = Byte(i, k)
  <2>1. CASE k \in 1 .. First(h)
    <3>1. Pos(h) + k - 1 \in DOMAIN data /\ ~(Pos(h) + k - 1 < h.len - First(h))
      BY <1>1, <1>5, <1>6, <2>1
    <3>2. data'[Pos(h) + k - 1] = data[Pos(h) + k - 1]
      BY <1>2, <3>1
    <3> QED BY <1>4, <1>6, <2>1, <3>2
  <2>2. CASE k \in First(h) + 1 .. h.len
    <3>1. /\ k - 1 - First(h) \in DOMAIN data /\ k - 1 - First(h) < h.len - First(h)
          /\ First(h) + (k - 1 - First(h)) + 1 = k
      BY <1>1, <1>6, <2>2
    <3>2. data'[k - 1 - First(h)] = Byte(i, First(h) + (k - 1 - First(h)) + 1)
      BY <1>2, <3>1
    <3> QED BY <1>6, <2>2, <3>1, <3>2
  <2>3. k \in 1 .. First(h) \/ k \in First(h) + 1 .. h.len
    BY <1>1, <1>6
  <2> QED BY <2>1, <2>2, <2>3
<1>8. \A k \in 1 .. h.len : At(i, k)'
  BY <1>3, <1>7
<1> QED BY <1>8 DEF h, i

----------------------------------------------------------------------------
(* The invariant, step by step.                                            *)

\* A step that moves no counter and no message leaves the layout alone.
LEMMA StillLayout ==
  ASSUME IInv, UNCHANGED <<hhead, dhead, htail, dtail, sent, got>>,
         cpc = "header" => cpc' = "header",
         \A i \in Live : HdrOf(i)'.len = HdrOf(i).len /\ HdrOf(i)'.off = HdrOf(i).off
  PROVE  Live' = Live /\ Counters' /\ Layout'
<1>1. Live' = Live
  BY DEF Live
<1>2. Counters'
  BY DEF IInv, Counters
<1>3. \A i \in Live : HdrOf(i)' = hdrs'[i % HeaderSize]
  BY DEF HdrOf
<1>4. Layout'
  <2>1. \A i \in Live : HdrOf(i)'.len = sent[i + 1].len
    BY DEF IInv, Layout
  <2>2. \A i \in Live : HdrOf(i)'.off + HdrOf(i)'.len <= dhead
    BY DEF IInv, Layout
  <2>3. ASSUME NEW i \in Live, i # htail \/ cpc' # "header" PROVE dtail <= HdrOf(i)'.off
    <3>1. i # htail \/ cpc # "header"
      BY <2>3
    <3>2. dtail <= HdrOf(i).off
      BY <3>1 DEF IInv, Layout
    <3> QED BY <3>2
  <2>4. \A i, j \in Live : i < j => HdrOf(i)'.off + HdrOf(i)'.len <= HdrOf(j)'.off
    BY DEF IInv, Layout
  <2> QED BY <1>1, <2>1, <2>2, <2>3, <2>4 DEF Layout
<1> QED BY <1>1, <1>2, <1>4

\* Copying in.
LEMMA CopyInStep ==
  ASSUME IInv, NEW p \in Producers, CopyIn(p) \/ CopyInWrapped(p)
  PROVE  Counters' /\ Layout' /\ Owners' /\ Contents'
<1>1. /\ UNCHANGED <<hhead, dhead, htail, dtail, sent, got, hdrs, slot, cpc, out>>
      /\ ppc[p] \in {"copy", "wrap"}
      /\ ppc'[p] \in {"wrap", "ready"} /\ \A q \in Producers \ {p} : ppc'[q] = ppc[q]
      /\ ppc'[p] = "wrap" => CopyIn(p)
      /\ ppc'[p] = "ready" /\ CopyIn(p) => First(HdrOf(slot[p])) >= HdrOf(slot[p]).len
  <2>1. ppc \in [Producers -> {"idle", "copy", "wrap", "ready"}]
    BY DEF IInv, TypeOK
  <2>2. p \in Writing
    BY DEF Writing, CopyIn, CopyInWrapped
  <2>3. First(HdrOf(slot[p])) \in Int /\ HdrOf(slot[p]).len \in Int
    BY <2>2, WriterAt, Places
  <2> QED BY <2>1, <2>3 DEF CopyIn, CopyInWrapped
<1>2. Live' = Live /\ Counters' /\ Layout'
  BY <1>1, StillLayout DEF HdrOf
<1>3. Writing' = Writing /\ WrittenNow' = WrittenNow /\ p \in Writing
  BY <1>1 DEF Writing, WrittenNow
<1>4. Owners'
  BY <1>1, <1>2, <1>3 DEF IInv, Owners, HdrOf
<1>5. Contents'
  <2>1. ASSUME NEW i \in Live \ WrittenNow, i # htail \/ cpc \in {"idle", "wrap", "clear"},
               NEW k \in 1 .. HdrOf(i).len
        PROVE  At(i, k)'
    <3>1. At(i, k) /\ i # slot[p] /\ (i # htail \/ cpc # "header")
      BY <1>3, <2>1 DEF IInv, Contents, WrittenNow
    <3> QED BY <3>1, CopyInKeeps
  <2>2. ASSUME NEW q \in Writing \ {p}
        PROVE  /\ ppc[q] = "wrap" => \A k \in 1 .. First(HdrOf(slot[q])) : At(slot[q], k)'
               /\ ppc[q] = "ready" => \A k \in 1 .. HdrOf(slot[q]).len : At(slot[q], k)'
    <3> DEFINE i == slot[q]
    <3>1. i \in Live /\ i # slot[p] /\ (i # htail \/ cpc # "header")
      BY <1>3 DEF IInv, Owners, WrittenNow
    <3>2. HdrOf(i) \in Hdr /\ HdrOf(i).len \in 1 .. BufferSize /\ BufferSize \in Nat
      BY WriterAt
    <3>3. First(HdrOf(i)) \in 0 .. HdrOf(i).len
      BY <3>2, Places
    <3>4. \A k \in 1 .. First(HdrOf(i)) : k \in 1 .. HdrOf(i).len
      BY <3>2, <3>3
    <3>5. \A k \in 1 .. HdrOf(i).len : At(i, k) => data'[(HdrOf(i).off + k - 1) % BufferSize] = Byte(i, k)
      BY <1>1, <3>1, CopyInKeeps DEF At, HdrOf
    <3>6. \A k : At(i, k)' <=> data'[(HdrOf(i).off + k - 1) % BufferSize] = Byte(i, k)
      BY <1>1 DEF At, HdrOf, Byte
    <3> QED BY <3>4, <3>5, <3>6 DEF IInv, Contents
  <2>3. /\ ppc'[p] = "wrap" => \A k \in 1 .. First(HdrOf(slot[p])) : At(slot[p], k)'
        /\ ppc'[p] = "ready" => \A k \in 1 .. HdrOf(slot[p]).len : At(slot[p], k)'
    <3>1. First(HdrOf(slot[p])) \in 0 .. HdrOf(slot[p]).len /\ HdrOf(slot[p]).len \in Nat
      BY <1>3, WriterAt, Places
    <3>2. CASE CopyIn(p)
      <4>1. ppc'[p] = "ready" => First(HdrOf(slot[p])) = HdrOf(slot[p]).len
        BY <1>1, <3>1, <3>2
      <4> QED BY <3>2, <4>1, CopyInDoes
    <3>3. CASE CopyInWrapped(p)
      BY <1>1, <3>3, CopyInWrappedDoes DEF CopyIn, CopyInWrapped
    <3> QED BY <3>2, <3>3
  <2>4. /\ \A i : HdrOf(i)' = HdrOf(i)
        /\ \A i : First(HdrOf(i))' = First(HdrOf(i))
        /\ \A i : Bytes(i)' = Bytes(i)
        /\ htail' = htail /\ out' = out /\ got' = got /\ cpc' = cpc /\ slot' = slot
    BY <1>1 DEF HdrOf, First, Pos, Bytes
  <2>5. \A i \in Live' \ WrittenNow' :
       i # htail' \/ cpc' \in {"idle", "wrap", "clear"} => \A k \in 1 .. HdrOf(i)'.len : At(i, k)'
    BY <1>2, <1>3, <2>1, <2>4
  <2>6. \A q \in Writing' :
       /\ ppc'[q] = "wrap" => \A k \in 1 .. First(HdrOf(slot[q]))' : At(slot[q], k)'
       /\ ppc'[q] = "ready" => \A k \in 1 .. HdrOf(slot[q])'.len : At(slot[q], k)'
    BY <1>1, <1>3, <2>2, <2>3 DEF HdrOf, First, Pos, Writing
  <2>7. /\ cpc' = "wrap" => out' = [k \in 1 .. First(HdrOf(htail))' |-> Byte(htail, k)']
        /\ cpc' \in {"clear", "bytes", "header"} => out' = Bytes(htail)'
        /\ \A i \in 1 .. Len(got') : got'[i] = Bytes(i - 1)'
    BY <1>1 DEF IInv, Contents, HdrOf, First, Pos, Bytes, Byte
  <2> QED BY <2>5, <2>6, <2>7 DEF Contents
<1> QED BY <1>2, <1>4, <1>5

\* Raising `ready`.
LEMMA PublishStep ==
  ASSUME IInv, NEW p \in Producers, Publish(p)
  PROVE  Counters' /\ Layout' /\ Owners' /\ Contents'
<1>0. p \in Writing /\ ppc[p] = "ready"
  BY DEF Writing, Publish
<1>1. /\ UNCHANGED <<hhead, dhead, htail, dtail, sent, got, data, slot, cpc, out>>
      /\ hdrs' = [hdrs EXCEPT ![slot[p] % HeaderSize].ready = TRUE]
      /\ ppc'[p] = "idle" /\ \A q \in Producers \ {p} : ppc'[q] = ppc[q]
  BY DEF IInv, TypeOK, Publish
<1>2. slot[p] \in Live /\ slot[p] % HeaderSize \in DOMAIN hdrs /\ slot[p] \in WrittenNow
  BY <1>0, WriterAt, LiveHeader DEF IInv
<1>3. \A i \in Live : i % HeaderSize \in DOMAIN hdrs
  BY LiveHeader DEF IInv
<1> DEFINE w == slot[p] % HeaderSize
<1>4. \A t \in DOMAIN hdrs : /\ hdrs'[t].len = hdrs[t].len /\ hdrs'[t].off = hdrs[t].off
                             /\ t # w => hdrs'[t] = hdrs[t]
  BY <1>1, <1>2, FlagDoes DEF IInv
<1>11. DOMAIN hdrs' = DOMAIN hdrs
  BY <1>1
<1> HIDE DEF w
<1>5. \A i \in Live : HdrOf(i)'.len = HdrOf(i).len /\ HdrOf(i)'.off = HdrOf(i).off
  <2> SUFFICES ASSUME NEW i \in Live
               PROVE  HdrOf(i)'.len = HdrOf(i).len /\ HdrOf(i)'.off = HdrOf(i).off
    OBVIOUS
  <2> DEFINE s == i % HeaderSize
  <2>1. s \in DOMAIN hdrs /\ HdrOf(i)' = hdrs'[s] /\ HdrOf(i) = hdrs[s]
    BY <1>3 DEF HdrOf
  <2> HIDE DEF s
  <2> QED BY <1>4, <2>1
<1>6. ASSUME NEW i \in Live, i # slot[p] PROVE hdrs'[i % HeaderSize] = HdrOf(i)
  <2>1. i % HeaderSize # slot[p] % HeaderSize
    BY <1>2, <1>6, OwnSlot DEF IInv
  <2> DEFINE s == i % HeaderSize
  <2>2. s \in DOMAIN hdrs /\ s # w /\ HdrOf(i) = hdrs[s]
    BY <1>3, <2>1 DEF HdrOf, w
  <2> HIDE DEF s
  <2>3. hdrs'[s] = HdrOf(i)
    BY <1>4, <2>2
  <2> QED BY <2>3 DEF s
<1>7. Live' = Live /\ Counters' /\ Layout'
  BY <1>1, <1>5, StillLayout
<1>8. Writing' = Writing \ {p} /\ WrittenNow' = WrittenNow \ {slot[p]}
  <2>1. Writing' = Writing \ {p}
    BY <1>1 DEF Writing
  <2>2. \A q \in Writing \ {p} : slot[q] # slot[p]
    BY <1>0 DEF IInv, Owners
  <2> QED BY <1>1, <2>1, <2>2 DEF WrittenNow
<1>9. Owners'
  <2>1. ASSUME NEW q \in Writing \ {p}
        PROVE  slot[q] \in Live /\ ~hdrs'[slot[q] % HeaderSize].ready
    <3>1. slot[q] \in Live /\ slot[q] # slot[p] /\ ~HdrOf(slot[q]).ready
      BY <1>0 DEF IInv, Owners
    <3> QED BY <1>6, <3>1
  <2>2. \A q, r \in Writing' : q # r => slot'[q] # slot'[r]
    BY <1>1, <1>8 DEF IInv, Owners
  <2>3. ASSUME cpc # "idle"
        PROVE  /\ htail \in Live /\ htail \notin WrittenNow'
               /\ hdrs'[htail % HeaderSize].ready <=> cpc \in {"wrap", "clear"}
    <3>1. /\ htail \in Live /\ htail \notin WrittenNow
          /\ HdrOf(htail).ready <=> cpc \in {"wrap", "clear"}
      BY <2>3 DEF IInv, Owners
    <3>2. htail # slot[p]
      BY <1>2, <3>1
    <3> QED BY <1>6, <1>8, <3>1, <3>2
  <2>4. ASSUME NEW s \in DOMAIN hdrs, hdrs'[s].ready
        PROVE  \E i \in Live : s = i % HeaderSize
    <3>1. CASE s = w
      BY <1>2, <3>1 DEF w
    <3>2. CASE s # w
      <4>1. hdrs[s].ready
        BY <1>4, <2>4, <3>2
      <4> QED BY <4>1 DEF IInv, Owners
    <3> QED BY <3>1, <3>2
  <2>5. DOMAIN hdrs' = DOMAIN hdrs
    BY <1>11
  <2> QED BY <1>1, <1>7, <1>8, <2>1, <2>2, <2>3, <2>4, <2>5 DEF Owners, HdrOf
<1>10. Contents'
  <2>1. \A i \in Live : \A k : At(i, k)' <=> At(i, k)
    BY <1>1, <1>5 DEF At, HdrOf, Byte
  <2>2. \A i \in Live' \ WrittenNow' :
       i # htail' \/ cpc' \in {"idle", "wrap", "clear"} => \A k \in 1 .. HdrOf(i)'.len : At(i, k)'
    <3> SUFFICES ASSUME NEW i \in Live, i \notin WrittenNow',
                        i # htail \/ cpc \in {"idle", "wrap", "clear"},
                        NEW k \in 1 .. HdrOf(i).len
                 PROVE  At(i, k)
      BY <1>1, <1>5, <1>7, <2>1
    <3>1. CASE i = slot[p]
      BY <1>0, <3>1 DEF IInv, Contents
    <3>2. CASE i # slot[p]
      BY <1>8, <3>2 DEF IInv, Contents
    <3> QED BY <3>1, <3>2
  <2>3. \A q \in Writing' :
       /\ ppc'[q] = "wrap" => \A k \in 1 .. First(HdrOf(slot[q]))' : At(slot[q], k)'
       /\ ppc'[q] = "ready" => \A k \in 1 .. HdrOf(slot[q])'.len : At(slot[q], k)'
    <3> SUFFICES ASSUME NEW q \in Writing \ {p}
                 PROVE /\ ppc'[q] = "wrap" => \A k \in 1 .. First(HdrOf(slot[q]))' : At(slot[q], k)'
                       /\ ppc'[q] = "ready" => \A k \in 1 .. HdrOf(slot[q])'.len : At(slot[q], k)'
      BY <1>8
    <3>1. slot[q] \in Live /\ slot[q] # slot[p] /\ ppc'[q] = ppc[q]
      BY <1>0, <1>1 DEF IInv, Owners, Writing
    <3>2. hdrs'[slot[q] % HeaderSize] = hdrs[slot[q] % HeaderSize] /\ slot' = slot /\ data' = data
      BY <1>1, <1>6, <3>1 DEF HdrOf
    <3> QED BY <3>1, <3>2 DEF IInv, Contents, At, HdrOf, First, Pos, Byte
  <2>4. /\ cpc' = "wrap" => out' = [k \in 1 .. First(HdrOf(htail))' |-> Byte(htail, k)']
        /\ cpc' \in {"clear", "bytes", "header"} => out' = Bytes(htail)'
        /\ \A i \in 1 .. Len(got') : got'[i] = Bytes(i - 1)'
    <3>1. cpc = "wrap" => First(HdrOf(htail))' = First(HdrOf(htail))
      <4>1. cpc = "wrap" => htail \in Live /\ htail # slot[p]
        BY <1>2 DEF IInv, Owners
      <4>2. cpc = "wrap" => hdrs'[htail % HeaderSize] = hdrs[htail % HeaderSize]
        BY <4>1, <1>6 DEF HdrOf
      <4> QED BY <1>1, <4>2 DEF HdrOf, First, Pos
    <3> QED BY <1>1, <3>1 DEF IInv, Contents, Bytes, Byte
  <2> QED BY <2>2, <2>3, <2>4 DEF Contents
<1> QED BY <1>7, <1>9, <1>10

\* Copying out.
LEMMA CopyOutStep ==
  ASSUME IInv, CopyOut \/ CopyOutWrapped
  PROVE  Counters' /\ Layout' /\ Owners' /\ Contents'
<1>1. /\ UNCHANGED <<hhead, dhead, htail, dtail, sent, got, data, slot, ppc, hdrs>>
      /\ cpc \in {"idle", "wrap"} /\ cpc' \in {"wrap", "clear"}
      /\ cpc = "idle" => CanPop
      /\ cpc' = "wrap" => CopyOut
  BY DEF CopyOut, CopyOutWrapped
<1>2. Live' = Live /\ Counters' /\ Layout'
  BY <1>1, StillLayout DEF HdrOf
<1>3. Writing' = Writing /\ WrittenNow' = WrittenNow
  BY <1>1 DEF Writing, WrittenNow
<1>4. htail \in Live \ WrittenNow /\ HdrOf(htail).ready
  BY <1>1, PopAt DEF IInv, Owners, CanPop
<1>5. Owners'
  BY <1>1, <1>2, <1>3, <1>4 DEF IInv, Owners, HdrOf
<1>6. /\ cpc' = "wrap" => out' = [k \in 1 .. First(HdrOf(htail)) |-> Byte(htail, k)]
      /\ cpc' = "clear" => out' = Bytes(htail)
  BY <1>1, CopyOutDoes, CopyOutWrappedDoes
<1>7. Contents'
  <2>1. \A i \in Live' \ WrittenNow' :
       i # htail' \/ cpc' \in {"idle", "wrap", "clear"} => \A k \in 1 .. HdrOf(i)'.len : At(i, k)'
    <3> SUFFICES ASSUME NEW i \in Live \ WrittenNow, NEW k \in 1 .. HdrOf(i).len PROVE At(i, k)
      BY <1>1, <1>2, <1>3 DEF At, HdrOf, Byte
    <3> QED BY <1>1 DEF IInv, Contents
  <2>2. \A p \in Writing' :
       /\ ppc'[p] = "wrap" => \A k \in 1 .. First(HdrOf(slot[p]))' : At(slot[p], k)'
       /\ ppc'[p] = "ready" => \A k \in 1 .. HdrOf(slot[p])'.len : At(slot[p], k)'
    BY <1>1, <1>3 DEF IInv, Contents, At, HdrOf, First, Pos, Byte
  <2>3. /\ cpc' = "wrap" => out' = [k \in 1 .. First(HdrOf(htail))' |-> Byte(htail, k)']
        /\ cpc' \in {"clear", "bytes", "header"} => out' = Bytes(htail)'
    BY <1>1, <1>6 DEF HdrOf, First, Pos, Bytes, Byte
  <2>4. \A i \in 1 .. Len(got') : got'[i] = Bytes(i - 1)'
    BY <1>1 DEF IInv, Contents, Bytes, Byte
  <2> QED BY <2>1, <2>2, <2>3, <2>4 DEF Contents
<1> QED BY <1>2, <1>5, <1>7

\* Lowering `ready`: no producer is at that header, so nobody else's changes.
LEMMA ClearReadyStep ==
  ASSUME IInv, ClearReady
  PROVE  Counters' /\ Layout' /\ Owners' /\ Contents'
<1>1. /\ UNCHANGED <<hhead, dhead, htail, dtail, sent, got, data, slot, ppc, out>>
      /\ cpc = "clear" /\ cpc' = "bytes"
      /\ hdrs' = [hdrs EXCEPT ![htail % HeaderSize].ready = FALSE]
  BY DEF ClearReady
<1>2. htail \in Live /\ htail \notin WrittenNow
  BY <1>1, PopAt
<1>3. \A i \in Live : i % HeaderSize \in DOMAIN hdrs
  BY LiveHeader DEF IInv
<1> DEFINE w == htail % HeaderSize
<1>4. /\ w \in DOMAIN hdrs
      /\ ~hdrs'[w].ready
      /\ \A t \in DOMAIN hdrs : hdrs'[t].len = hdrs[t].len /\ hdrs'[t].off = hdrs[t].off
      /\ \A t \in DOMAIN hdrs : t # w => hdrs'[t] = hdrs[t]
  BY <1>1, <1>2, <1>3, FlagDoes DEF IInv
<1>5. DOMAIN hdrs' = DOMAIN hdrs
  BY <1>1
<1> HIDE DEF w
<1>6. \A i \in Live : HdrOf(i)'.len = HdrOf(i).len /\ HdrOf(i)'.off = HdrOf(i).off
  <2> SUFFICES ASSUME NEW i \in Live
               PROVE  HdrOf(i)'.len = HdrOf(i).len /\ HdrOf(i)'.off = HdrOf(i).off
    OBVIOUS
  <2> DEFINE s == i % HeaderSize
  <2>1. s \in DOMAIN hdrs /\ HdrOf(i)' = hdrs'[s] /\ HdrOf(i) = hdrs[s]
    BY <1>3 DEF HdrOf
  <2> HIDE DEF s
  <2> QED BY <1>4, <2>1
<1>7. ASSUME NEW i \in Live, i # htail PROVE hdrs'[i % HeaderSize] = HdrOf(i)
  <2>1. i % HeaderSize # htail % HeaderSize
    BY <1>2, <1>7, OwnSlot DEF IInv
  <2> DEFINE s == i % HeaderSize
  <2>2. s \in DOMAIN hdrs /\ s # w /\ HdrOf(i) = hdrs[s]
    BY <1>3, <2>1 DEF HdrOf, w
  <2> HIDE DEF s
  <2>3. hdrs'[s] = HdrOf(i)
    BY <1>4, <2>2
  <2> QED BY <2>3 DEF s
<1>8. Live' = Live /\ Counters' /\ Layout'
  BY <1>1, <1>6, StillLayout
<1>9. Writing' = Writing /\ WrittenNow' = WrittenNow
  BY <1>1 DEF Writing, WrittenNow
<1>10. \A p \in Writing : slot[p] \in Live /\ slot[p] # htail
  BY <1>2, WriterAt
<1>11. Owners'
  <2>1. ASSUME NEW p \in Writing
        PROVE  slot[p] \in Live /\ ~hdrs'[slot[p] % HeaderSize].ready
    <3>1. ~HdrOf(slot[p]).ready
      BY DEF IInv, Owners
    <3> QED BY <1>7, <1>10, <3>1
  <2>2. ASSUME NEW s \in DOMAIN hdrs, hdrs'[s].ready
        PROVE  \E i \in Live : s = i % HeaderSize
    <3>1. s # w
      BY <1>4, <2>2
    <3>2. hdrs[s].ready
      BY <1>4, <2>2, <3>1
    <3> QED BY <3>2 DEF IInv, Owners
  <2>3. ~hdrs'[htail % HeaderSize].ready
    BY <1>4 DEF w
  <2>4. \A p, q \in Writing : p # q => slot[p] # slot[q]
    BY DEF IInv, Owners
  <2> QED BY <1>1, <1>2, <1>5, <1>8, <1>9, <2>1, <2>2, <2>3, <2>4 DEF Owners, HdrOf
<1>12. Contents'
  <2>1. \A i \in Live' \ WrittenNow' :
       i # htail' \/ cpc' \in {"idle", "wrap", "clear"} => \A k \in 1 .. HdrOf(i)'.len : At(i, k)'
    <3> SUFFICES ASSUME NEW i \in Live \ WrittenNow, i # htail, NEW k \in 1 .. HdrOf(i).len
                 PROVE  data[(HdrOf(i)'.off + k - 1) % BufferSize] = Byte(i, k)
      BY <1>1, <1>6, <1>8, <1>9 DEF At, Byte
    <3>1. At(i, k)
      BY <1>1 DEF IInv, Contents
    <3> QED BY <1>6, <3>1 DEF At
  <2>2. \A p \in Writing' :
       /\ ppc'[p] = "wrap" => \A k \in 1 .. First(HdrOf(slot[p]))' : At(slot[p], k)'
       /\ ppc'[p] = "ready" => \A k \in 1 .. HdrOf(slot[p])'.len : At(slot[p], k)'
    <3> SUFFICES ASSUME NEW p \in Writing
                 PROVE /\ ppc'[p] = "wrap" => \A k \in 1 .. First(HdrOf(slot[p]))' : At(slot[p], k)'
                       /\ ppc'[p] = "ready" => \A k \in 1 .. HdrOf(slot[p])'.len : At(slot[p], k)'
      BY <1>9
    <3>1. /\ hdrs'[slot[p] % HeaderSize] = hdrs[slot[p] % HeaderSize]
          /\ ppc' = ppc /\ slot' = slot /\ data' = data
      BY <1>1, <1>7, <1>10 DEF HdrOf
    <3> QED BY <3>1 DEF IInv, Contents, At, HdrOf, First, Pos, Byte
  <2>3. /\ cpc' \in {"clear", "bytes", "header"} => out' = Bytes(htail)'
        /\ \A i \in 1 .. Len(got') : got'[i] = Bytes(i - 1)'
    BY <1>1 DEF IInv, Contents, Bytes, Byte
  <2>4. cpc' # "wrap"
    BY <1>1
  <2> QED BY <2>1, <2>2, <2>3, <2>4 DEF Contents
<1> QED BY <1>8, <1>11, <1>12

\* Releasing the bytes: the ranges of the other messages lie behind this one's.
LEMMA ReleaseBytesStep ==
  ASSUME IInv, ReleaseBytes
  PROVE  Counters' /\ Layout' /\ Owners' /\ Contents'
<1>1. /\ UNCHANGED <<hhead, dhead, htail, sent, got, data, slot, ppc, out, hdrs>>
      /\ cpc = "bytes" /\ cpc' = "header"
      /\ dtail' = HdrOf(htail).off + HdrOf(htail).len
  BY DEF ReleaseBytes
<1>2. htail \in Live /\ htail \notin WrittenNow
  BY <1>1, PopAt
<1>3. Live' = Live /\ Writing' = Writing /\ WrittenNow' = WrittenNow
  BY <1>1 DEF Live, Writing, WrittenNow
<1>4. /\ HdrOf(htail).off \in Nat /\ HdrOf(htail).len \in Nat
      /\ dtail <= HdrOf(htail).off /\ HdrOf(htail).off + HdrOf(htail).len <= dhead
  BY <1>1, <1>2, LiveHeader DEF IInv, Layout
<1>5. Counters'
  BY <1>1, <1>4, Numbers DEF IInv, Counters
<1>6. Layout'
  <2>1. ASSUME NEW i \in Live, i # htail PROVE dtail' <= HdrOf(i).off
    <3>1. htail < i
      BY <1>2, <2>1, Numbers DEF Live, IInv
    <3> QED BY <1>1, <1>2, <3>1 DEF IInv, Layout
  <2> QED BY <1>1, <1>3, <2>1 DEF IInv, Layout, HdrOf
<1>7. Owners'
  <2>1. Owners /\ cpc # "idle" /\ cpc' # "idle"
        /\ (cpc' \in {"wrap", "clear"} <=> cpc \in {"wrap", "clear"})
    BY <1>1 DEF IInv
  <2> QED BY <1>1, <1>3, <2>1 DEF Owners, HdrOf
<1>8. Contents'
  <2>1. Contents /\ cpc # "wrap" /\ cpc' # "wrap"
        /\ (cpc' \in {"idle", "wrap", "clear"} <=> cpc \in {"idle", "wrap", "clear"})
        /\ (cpc' \in {"clear", "bytes", "header"} <=> cpc \in {"clear", "bytes", "header"})
    BY <1>1 DEF IInv
  <2>2. /\ \A i : HdrOf(i)' = HdrOf(i) /\ Bytes(i)' = Bytes(i)
        /\ \A i, k : At(i, k)' = At(i, k)
    BY <1>1 DEF At, HdrOf, Bytes, Byte
  <2>3. \A i : First(HdrOf(i))' = First(HdrOf(i))
    BY <1>1 DEF HdrOf, First, Pos
  <2> QED BY <1>1, <1>3, <2>1, <2>2, <2>3 DEF Contents, Byte
<1> QED BY <1>5, <1>6, <1>7, <1>8

\* Releasing the header.
LEMMA ReleaseHeaderStep ==
  ASSUME IInv, ReleaseHeader
  PROVE  Counters' /\ Layout' /\ Owners' /\ Contents'
<1>1. /\ UNCHANGED <<hhead, dhead, dtail, sent, data, slot, ppc, hdrs>>
      /\ cpc = "header" /\ cpc' = "idle" /\ htail' = htail + 1
      /\ got' = Append(got, out)
  BY DEF ReleaseHeader
<1>2. htail \in Live /\ htail \notin WrittenNow /\ htail \in Nat /\ hhead \in Nat
  BY <1>1, PopAt, Numbers DEF IInv
<1>3. Live' = Live \ {htail} /\ Writing' = Writing /\ WrittenNow' = WrittenNow
  BY <1>1, <1>2 DEF Live, Writing, WrittenNow
<1>4. /\ Len(got') = Len(got) + 1 /\ got'[Len(got) + 1] = out
      /\ \A i \in 1 .. Len(got) : got'[i] = got[i]
      /\ Len(got) = htail
  <2> DEFINE B == Seq(Nat \X Nat)
  <2>1. got \in Seq(B) /\ out \in B
    BY DEF IInv, TypeOK
  <2> HIDE DEF B
  <2> QED BY <1>1, <2>1 DEF IInv, Counters
<1>5. Counters'
  BY <1>1, <1>2, <1>4, Numbers DEF IInv, Counters, Live
<1>6. Layout'
  BY <1>1, <1>3 DEF IInv, Layout, HdrOf
<1>7. Owners'
  <2>1. \A p \in Writing : slot[p] \in Live \ {htail} /\ ~HdrOf(slot[p]).ready
    BY <1>2 DEF IInv, Owners, WrittenNow
  <2>2. ASSUME NEW s \in DOMAIN hdrs, hdrs[s].ready
        PROVE  \E i \in Live \ {htail} : s = i % HeaderSize
    <3>1. PICK i \in Live : s = i % HeaderSize
      BY <2>2 DEF IInv, Owners
    <3>2. ~HdrOf(htail).ready
      BY <1>1 DEF IInv, Owners
    <3>3. i # htail
      BY <2>2, <3>1, <3>2 DEF HdrOf
    <3> QED BY <3>1, <3>3
  <2> QED BY <1>1, <1>3, <2>1, <2>2 DEF IInv, Owners, HdrOf
<1>8. Contents'
  <2>1. ASSUME NEW i \in Live \ WrittenNow, i # htail, NEW k \in 1 .. HdrOf(i).len
        PROVE  At(i, k)
    BY <2>1 DEF IInv, Contents
  <2>2. \A i \in 1 .. Len(got') : got'[i] = Bytes(i - 1)
    <3> SUFFICES ASSUME NEW i \in 1 .. htail + 1 PROVE got'[i] = Bytes(i - 1)
      BY <1>4
    <3>1. CASE i \in 1 .. htail
      BY <1>4, <3>1 DEF IInv, Contents
    <3>2. CASE i = htail + 1
      <4>1. out = Bytes(htail) /\ i - 1 = htail
        BY <1>1, <1>2, <3>2 DEF IInv, Contents
      <4> QED BY <1>4, <3>2, <4>1
    <3> QED BY <1>2, <3>1, <3>2
  <2>3. \A p \in Writing :
          /\ ppc[p] = "wrap" => \A k \in 1 .. First(HdrOf(slot[p])) : At(slot[p], k)
          /\ ppc[p] = "ready" => \A k \in 1 .. HdrOf(slot[p]).len : At(slot[p], k)
    BY DEF IInv, Contents
  <2>4. /\ \A i, k : At(i, k)' <=> At(i, k)
        /\ \A i : Bytes(i)' = Bytes(i) /\ HdrOf(i)' = HdrOf(i)
    BY <1>1 DEF At, HdrOf, Pos, Bytes, Byte
  <2>5. \A p : HdrOf(slot[p])' = HdrOf(slot[p]) /\ First(HdrOf(slot[p]))' = First(HdrOf(slot[p]))
    BY <1>1 DEF HdrOf, First
  <2>6. \A p, k : At(slot[p], k)' <=> At(slot[p], k)
    BY <1>1 DEF At, HdrOf, Pos, Byte
  <2> QED BY <1>1, <1>3, <2>1, <2>2, <2>3, <2>4, <2>5, <2>6 DEF Contents
<1> QED BY <1>5, <1>6, <1>7, <1>8

\* Reserving: the new header and its bytes lie behind all that are in use.
LEMMA ReserveStep ==
  ASSUME IInv, NEW p \in Producers, NEW len \in MsgLens, Reserve(p, len)
  PROVE  Counters' /\ Layout' /\ Owners' /\ Contents'
<1>0. /\ UNCHANGED <<htail, dtail, data, cpc, out, got>>
      /\ hhead' = hhead + 1 /\ dhead' = dhead + len
      /\ ppc[p] = "idle" /\ HasRoom(len)
  BY DEF Reserve
<1>1. /\ ppc'[p] = "copy" /\ \A q \in Producers \ {p} : ppc'[q] = ppc[q]
      /\ slot'[p] = hhead /\ \A q \in Producers \ {p} : slot'[q] = slot[q]
  BY DEF IInv, TypeOK, Reserve
<1> DEFINE w == hhead % HeaderSize
<1>2. PICK h \in Hdr : /\ ~h.ready /\ h.len = len /\ h.off = dhead
                       /\ hdrs' = [hdrs EXCEPT ![w] = h]
  BY ReserveDoes
<1>3. w \in DOMAIN hdrs /\ ~hdrs[w].ready /\ \A i \in Live : w # i % HeaderSize
  BY ReserveDoes
<1>4. hdrs'[hhead % HeaderSize] = h
  BY <1>2, <1>3
<1>5. \A i \in Live : hdrs'[i % HeaderSize] = HdrOf(i)
  <2> SUFFICES ASSUME NEW i \in Live PROVE hdrs'[i % HeaderSize] = HdrOf(i)
    OBVIOUS
  <2> DEFINE s == i % HeaderSize
  <2>1. s \in DOMAIN hdrs /\ s # w /\ HdrOf(i) = hdrs[s]
    BY <1>3, LiveHeader DEF HdrOf, IInv
  <2> HIDE DEF s, w
  <2>2. hdrs'[s] = hdrs[s]
    BY <1>2, <2>1
  <2> QED BY <2>1, <2>2 DEF s
<1> HIDE DEF w
<1>6. /\ hhead \in Nat /\ htail \in Nat /\ dhead \in Nat /\ dtail \in Nat /\ len \in Nat
      /\ HeaderSize \in Nat /\ BufferSize \in Nat
      /\ htail <= hhead /\ dtail <= dhead
      /\ hhead - htail < HeaderSize /\ len <= BufferSize - (dhead - dtail)
  BY <1>0, Numbers, RingAssumption DEF IInv, Counters, HasRoom
<1>7. /\ Len(sent) = hhead /\ Len(sent') = hhead + 1
      /\ sent'[hhead + 1].len = len
      /\ \A i \in 1 .. hhead : sent'[i] = sent[i]
  <2> DEFINE M == [by : Producers, no : Nat, len : MsgLens]
             m == [by |-> p, no |-> hhead + 1, len |-> len]
  <2>3. m \in M /\ m.len = len
    BY <1>6
  <2>4. sent \in Seq(M)
    BY DEF IInv, TypeOK
  <2>5. sent' = Append(sent, m)
    BY DEF Reserve
  <2>1. sent \in Seq(M) /\ m \in M /\ m.len = len /\ sent' = Append(sent, m)
    BY <2>3, <2>4, <2>5
  <2>2. Len(sent) = hhead
    BY DEF IInv, Counters
  <2> HIDE DEF M, m
  <2> QED BY <1>6, <2>1, <2>2
<1>8. Live' = Live \cup {hhead} /\ hhead \notin Live
  BY <1>0, <1>6 DEF Live
<1>9. \A i \in Live : sent'[i + 1] = sent[i + 1] /\ i \in Nat /\ i < hhead
  BY <1>6, <1>7 DEF Live
<1>10. /\ p \notin Writing /\ Writing' = Writing \cup {p}
       /\ \A q \in Writing : slot'[q] = slot[q] /\ ppc'[q] = ppc[q] /\ q # p
       /\ WrittenNow' = WrittenNow \cup {hhead}
  <2>1. p \notin Writing /\ Writing' = Writing \cup {p}
    BY <1>0, <1>1 DEF Writing
  <2>2. \A q \in Writing : slot'[q] = slot[q] /\ ppc'[q] = ppc[q] /\ q # p
    BY <1>1, <2>1 DEF Writing
  <2> QED BY <1>1, <2>1, <2>2 DEF WrittenNow
<1>11. Counters'
  BY <1>0, <1>6, <1>7 DEF IInv, Counters
<1>12. Layout'
  <2>1. \A i \in Live : /\ HdrOf(i).len = sent'[i + 1].len
                        /\ HdrOf(i).off + HdrOf(i).len <= dhead
                        /\ HdrOf(i).off \in Nat /\ HdrOf(i).len \in Nat
                        /\ i # htail \/ cpc # "header" => dtail <= HdrOf(i).off
    BY <1>9, LiveHeader DEF IInv, Layout
  <2>2. \A i, j \in Live : i < j => HdrOf(i).off + HdrOf(i).len <= HdrOf(j).off
    BY DEF IInv, Layout
  <2>3. ASSUME NEW i \in Live'
        PROVE  /\ hdrs'[i % HeaderSize].len = sent'[i + 1].len
               /\ hdrs'[i % HeaderSize].off + hdrs'[i % HeaderSize].len <= dhead + len
               /\ i # htail \/ cpc # "header" => dtail <= hdrs'[i % HeaderSize].off
    <3>1. CASE i = hhead
      BY <1>2, <1>4, <1>6, <1>7, <3>1
    <3>2. CASE i \in Live
      <4>1. HdrOf(i).off + HdrOf(i).len <= dhead + len
        BY <1>6, <2>1, <3>2
      <4> QED BY <1>5, <2>1, <3>2, <4>1
    <3> QED BY <1>8, <3>1, <3>2
  <2>4. ASSUME NEW i \in Live', NEW j \in Live', i < j
        PROVE  hdrs'[i % HeaderSize].off + hdrs'[i % HeaderSize].len <= hdrs'[j % HeaderSize].off
    <3>1. i \in Live
      BY <1>6, <1>8, <1>9, <2>4
    <3>2. hdrs'[i % HeaderSize].off + hdrs'[i % HeaderSize].len <= dhead
      BY <1>5, <2>1, <3>1
    <3>3. CASE j = hhead
      BY <1>2, <1>4, <3>2, <3>3
    <3>4. CASE j \in Live
      BY <1>5, <2>2, <2>4, <3>1, <3>4
    <3> QED BY <1>8, <3>3, <3>4
  <2> QED BY <1>0, <2>3, <2>4 DEF Layout, HdrOf
<1>13. Owners'
  <2>1. ASSUME NEW q \in Writing'
        PROVE  slot'[q] \in Live' /\ ~hdrs'[slot'[q] % HeaderSize].ready
    <3>1. CASE q = p
      BY <1>1, <1>2, <1>4, <1>8, <3>1
    <3>2. CASE q \in Writing
      <4>1. slot[q] \in Live /\ ~HdrOf(slot[q]).ready
        BY <3>2 DEF IInv, Owners
      <4> QED BY <1>5, <1>8, <1>10, <3>2, <4>1
    <3> QED BY <1>10, <3>1, <3>2
  <2>2. ASSUME NEW q \in Writing', NEW r \in Writing', q # r PROVE slot'[q] # slot'[r]
    <3>1. \A x \in Writing : slot[x] \in Live /\ slot[x] # hhead
      BY <1>8 DEF IInv, Owners
    <3> QED BY <1>1, <1>10, <2>2, <3>1 DEF IInv, Owners
  <2>3. ASSUME cpc # "idle"
        PROVE  /\ htail \in Live' \ WrittenNow'
               /\ hdrs'[htail % HeaderSize].ready <=> cpc \in {"wrap", "clear"}
    <3>1. /\ htail \in Live /\ htail \notin WrittenNow
          /\ HdrOf(htail).ready <=> cpc \in {"wrap", "clear"}
      BY <2>3 DEF IInv, Owners
    <3> QED BY <1>5, <1>8, <1>10, <3>1
  <2>4. ASSUME NEW s \in DOMAIN hdrs, hdrs'[s].ready
        PROVE  \E i \in Live' : s = i % HeaderSize
    <3>1. s # w
      BY <1>2, <1>4, <2>4 DEF w
    <3>2. hdrs[s].ready
      BY <1>2, <2>4, <3>1
    <3> QED BY <1>8, <3>2 DEF IInv, Owners
  <2>5. DOMAIN hdrs' = DOMAIN hdrs
    BY <1>2
  <2> QED BY <1>0, <2>1, <2>2, <2>3, <2>4, <2>5 DEF Owners, HdrOf
<1>14. Contents'
  <2>1. ASSUME NEW i \in Live' \ WrittenNow', i # htail \/ cpc \in {"idle", "wrap", "clear"},
               NEW k \in 1 .. hdrs'[i % HeaderSize].len
        PROVE  data[(hdrs'[i % HeaderSize].off + k - 1) % BufferSize] = Byte(i, k)
    <3>1. i \in Live \ WrittenNow /\ hdrs'[i % HeaderSize] = HdrOf(i)
      BY <1>5, <1>8, <1>10
    <3> QED BY <2>1, <3>1 DEF IInv, Contents, At
  <2>2. ASSUME NEW q \in Writing'
        PROVE  /\ ppc'[q] = "wrap" => \A k \in 1 .. First(HdrOf(slot[q]))' : At(slot[q], k)'
               /\ ppc'[q] = "ready" => \A k \in 1 .. HdrOf(slot[q])'.len : At(slot[q], k)'
    <3>1. CASE q = p
      BY <1>1, <3>1
    <3>2. CASE q \in Writing
      <4>1. slot[q] \in Live
        BY <3>2 DEF IInv, Owners
      <4>2. /\ hdrs'[slot[q] % HeaderSize] = hdrs[slot[q] % HeaderSize]
            /\ ppc'[q] = ppc[q] /\ slot'[q] = slot[q] /\ data' = data
        BY <1>0, <1>5, <1>10, <3>2, <4>1 DEF HdrOf
      <4>3. /\ ppc[q] = "wrap" => \A k \in 1 .. First(HdrOf(slot[q])) : At(slot[q], k)
            /\ ppc[q] = "ready" => \A k \in 1 .. HdrOf(slot[q]).len : At(slot[q], k)
        BY <3>2 DEF IInv, Contents
      <4> QED BY <4>2, <4>3 DEF At, HdrOf, First, Pos, Byte
    <3> QED BY <1>10, <3>1, <3>2
  <2>3. cpc = "wrap" => out = [k \in 1 .. First(HdrOf(htail))' |-> Byte(htail, k)']
    <3> SUFFICES ASSUME cpc = "wrap" PROVE out = [k \in 1 .. First(HdrOf(htail))' |-> Byte(htail, k)']
      OBVIOUS
    <3>1. htail \in Live
      BY DEF IInv, Owners
    <3>2. hdrs'[htail % HeaderSize] = hdrs[htail % HeaderSize]
      BY <1>5, <3>1 DEF HdrOf
    <3> QED BY <1>0, <3>2 DEF IInv, Contents, HdrOf, First, Pos, Byte
  <2>4. \A i \in 0 .. hhead - 1 : Bytes(i)' = Bytes(i)
    <3> SUFFICES ASSUME NEW i \in 0 .. hhead - 1 PROVE Bytes(i)' = Bytes(i)
      OBVIOUS
    <3>1. sent'[i + 1] = sent[i + 1]
      BY <1>6, <1>7
    <3> QED BY <3>1 DEF Bytes, Byte
  <2>5. cpc \in {"clear", "bytes", "header"} => out = Bytes(htail)'
    <3> SUFFICES ASSUME cpc \in {"clear", "bytes", "header"} PROVE out = Bytes(htail)'
      OBVIOUS
    <3>1. htail \in Live /\ out = Bytes(htail)
      BY DEF IInv, Owners, Contents
    <3>2. sent'[htail + 1] = sent[htail + 1]
      BY <1>9, <3>1
    <3> QED BY <1>0, <3>1, <3>2 DEF Bytes, Byte
  <2>6. \A i \in 1 .. Len(got) : got[i] = Bytes(i - 1)'
    <3> SUFFICES ASSUME NEW i \in 1 .. Len(got) PROVE got[i] = Bytes(i - 1)'
      OBVIOUS
    <3>1. i - 1 \in 0 .. hhead - 1 /\ got[i] = Bytes(i - 1)
      BY <1>6 DEF IInv, Counters, Contents
    <3> QED BY <2>4, <3>1
  <2> QED BY <1>0, <2>1, <2>2, <2>3, <2>5, <2>6 DEF Contents, At, HdrOf, Byte
<1> QED BY <1>11, <1>12, <1>13, <1>14

\* Every step of the ring keeps the invariant.
LEMMA StepIInv == IInv /\ [Next]_vars => IInv'
<1> SUFFICES ASSUME IInv, [Next]_vars PROVE IInv'
  OBVIOUS
<1>1. TypeOK'
  BY StepType
<1>2. CASE UNCHANGED vars
  <2>1. UNCHANGED <<hhead, dhead, htail, dtail, hdrs, data, ppc, slot, cpc, out, sent, got>>
    BY <1>2 DEF vars
  <2>2. Live' = Live /\ Counters' /\ Layout'
    BY <2>1, StillLayout DEF HdrOf
  <2>3. Writing' = Writing /\ WrittenNow' = WrittenNow
    BY <2>1 DEF Writing, WrittenNow
  <2>4. Owners'
    BY <2>1, <2>2, <2>3 DEF IInv, Owners, HdrOf
  <2>5. Contents'
    <3>1. Contents
      BY DEF IInv
    <3>2. /\ \A i : HdrOf(i)' = HdrOf(i) /\ Bytes(i)' = Bytes(i)
          /\ \A i, k : At(i, k)' = At(i, k)
      BY <2>1 DEF At, HdrOf, Bytes, Byte
    <3>3. \A i : First(HdrOf(i))' = First(HdrOf(i))
      BY <2>1 DEF HdrOf, First, Pos
    <3> QED BY <2>1, <2>2, <2>3, <3>1, <3>2, <3>3 DEF Contents, Byte
  <2> QED BY <1>1, <2>2, <2>4, <2>5 DEF IInv
<1>3. CASE Next
  BY <1>1, <1>3, ReserveStep, CopyInStep, PublishStep, CopyOutStep, ClearReadyStep,
     ReleaseBytesStep, ReleaseHeaderStep DEF Next, Push, Pop, IInv
<1> QED BY <1>2, <1>3

\* The invariant that carries the others: who owns each header and byte, and that the
\* copies of ring_push and ring_pop leave what they were given.
THEOREM RingInvariant == Spec => []IInv
<1> QED BY InitIInv, StepIInv, PTL DEF Spec

\* No two processes work on the same header or byte, although ring_push and ring_pop
\* copy without the lock.
THEOREM RingExclusive == Spec => []Exclusive
<1> QED BY RingInvariant, ApartNow, PTL

----------------------------------------------------------------------------
(* The ring implements the queue.                                          *)

\* Every byte says which message it is of, so a whole message is taken for itself.
LEMMA Decoded ==
  ASSUME IInv, NEW j \in DOMAIN sent
  PROVE  Decode(Bytes(j - 1)) = sent[j]
<1> DEFINE M == [by : Producers, no : Nat, len : MsgLens]
           O(i) == [k \in 1 .. sent[i].len |-> Byte(i - 1, k)]
<1>1. DOMAIN sent = 1 .. Len(sent) /\ Len(sent) \in Nat /\ j \in Nat /\ j - 1 + 1 = j
  <2>1. sent \in Seq(M)
    BY DEF IInv, TypeOK
  <2> HIDE DEF M
  <2> QED BY <2>1
<1>2. \A i \in DOMAIN sent : sent[i].len \in Nat /\ sent[i].len >= 1 /\ i \in Nat
  <2>1. sent \in Seq(M)
    BY DEF IInv, TypeOK
  <2>2. \A l \in MsgLens : l \in Nat /\ l >= 1
    BY RingAssumption
  <2>3. \A m \in M : m.len \in MsgLens
    OBVIOUS
  <2>4. \A i \in DOMAIN sent : i \in Nat
    BY <1>1
  <2> HIDE DEF M
  <2>5. \A i \in DOMAIN sent : sent[i] \in M
    BY <2>1
  <2> QED BY <2>2, <2>3, <2>4, <2>5
<1>3. Bytes(j - 1) = O(j)
  BY <1>1 DEF Bytes
<1>4. ASSUME NEW i \in DOMAIN sent, O(j) = O(i) PROVE i = j
  <2>1. O(j)[1] = <<j - 1 + 1, 1>> /\ O(i)[1] = <<i - 1 + 1, 1>>
    BY <1>2 DEF Byte
  <2>2. j - 1 + 1 = i - 1 + 1
    <3> HIDE DEF O
    <3> QED BY <1>4, <2>1
  <2> QED BY <1>2, <2>2
<1>5. Decode(O(j)) = sent[CHOOSE i \in DOMAIN sent : O(j) = O(i)]
  BY DEF Decode
<1> HIDE DEF O
<1>6. (CHOOSE i \in DOMAIN sent : O(j) = O(i)) = j
  BY <1>4
<1> QED BY <1>3, <1>5, <1>6

\* The worker was handed the first messages.
Handed ==
  /\ Delivered = [i \in 1 .. htail |-> sent[i]]
  /\ htail \in Nat /\ hhead \in Nat /\ htail <= hhead
  /\ DOMAIN sent = 1 .. hhead

\* That is what the buffers ring_pop filled are decoded to.
LEMMA DeliveredIs == IInv => Handed
<1> SUFFICES ASSUME IInv PROVE Handed
  OBVIOUS
<1>1. htail \in Nat /\ hhead \in Nat /\ htail <= hhead /\ Len(sent) = hhead /\ Len(got) = htail
  BY Numbers DEF IInv, Counters
<1>2. DOMAIN sent = 1 .. hhead /\ DOMAIN got = 1 .. htail
  <2> DEFINE M == [by : Producers, no : Nat, len : MsgLens]
             B == Seq(Nat \X Nat)
  <2>1. sent \in Seq(M) /\ got \in Seq(B)
    BY DEF IInv, TypeOK
  <2> HIDE DEF M, B
  <2> QED BY <1>1, <2>1
<1>3. ASSUME NEW i \in 1 .. htail PROVE Decode(got[i]) = sent[i]
  <2>1. got[i] = Bytes(i - 1)
    BY <1>1 DEF IInv, Contents
  <2>2. i \in DOMAIN sent
    BY <1>1, <1>2
  <2> QED BY <2>1, <2>2, Decoded
<1> QED BY <1>1, <1>2, <1>3 DEF Delivered, Handed

\* A step that moves neither messages nor writers does nothing in the queue.
LEMMA Quiet ==
  ASSUME IInv, IInv', UNCHANGED <<sent, htail>>, Committed' = Committed
  PROVE  UNCHANGED Queue!qvars
<1>1. Handed
  BY DeliveredIs
<1>2. IInv' => Handed'
  BY DeliveredIs, PTL
<1> QED BY <1>1, <1>2 DEF Queue!qvars, Handed

\* Every step of the ring is a step of the queue, or none.
LEMMA StepQueue == IInv /\ IInv' /\ [Next]_vars => [Queue!QNext]_Queue!qvars
<1> SUFFICES ASSUME IInv, IInv', [Next]_vars PROVE [Queue!QNext]_Queue!qvars
  OBVIOUS
<1>1. /\ Delivered = [i \in 1 .. htail |-> sent[i]]
      /\ htail \in Nat /\ hhead \in Nat /\ htail <= hhead
      /\ DOMAIN sent = 1 .. hhead
  BY DeliveredIs DEF Handed
<1>2. /\ Delivered' = [i \in 1 .. htail' |-> sent'[i]]
      /\ DOMAIN sent' = 1 .. hhead'
  <2>1. IInv' => Handed'
    BY DeliveredIs, PTL
  <2> QED BY <2>1 DEF Handed
<1>3. ASSUME NEW p \in Producers, NEW len \in MsgLens, Reserve(p, len)
      PROVE  Queue!QNext
  <2> DEFINE m == [by |-> p, no |-> hhead + 1, len |-> len]
  <2>1. m \in [by : Producers, no : 1 .. MaxSent, len : MsgLens]
    <3>1. Len(sent) < MaxSent /\ Len(sent) = hhead /\ MaxSent \in Nat
      BY <1>3, RingAssumption DEF Reserve, IInv, Counters
    <3>2. hhead + 1 \in 1 .. MaxSent
      BY <1>1, <3>1
    <3> QED BY <3>2
  <2>2. sent' = Append(sent, m) /\ htail' = htail /\ hhead' = hhead + 1
    BY <1>3 DEF Reserve
  <2>3. Committed' = Committed
    <3>1. /\ Writing' = Writing \cup {p} /\ slot'[p] = hhead
          /\ \A q \in Writing : slot'[q] = slot[q] /\ q # p
      BY <1>3 DEF Reserve, Writing, IInv, TypeOK
    <3>2. {slot'[q] + 1 : q \in Writing'} = {slot[q] + 1 : q \in Writing} \cup {hhead + 1}
      BY <3>1
    <3>3. DOMAIN sent' = DOMAIN sent \cup {hhead + 1} /\ hhead + 1 \notin DOMAIN sent
      BY <1>1, <1>2, <2>2
    <3> QED BY <3>2, <3>3 DEF Committed
  <2>4. Delivered' = Delivered
    <3>1. \A i \in 1 .. htail : sent'[i] = sent[i]
      <4> DEFINE M == [by : Producers, no : Nat, len : MsgLens]
      <4>1. sent \in Seq(M) /\ Len(sent) = hhead
        BY DEF IInv, TypeOK, Counters
      <4> HIDE DEF M, m
      <4> QED BY <1>1, <2>2, <4>1
    <3> QED BY <1>1, <1>2, <2>2, <3>1
  <2>5. Queue!Accept(m)
    BY <2>2, <2>3, <2>4 DEF Queue!Accept
  <2> QED BY <2>1, <2>5 DEF Queue!QNext
<1>4. ASSUME NEW p \in Producers, CopyIn(p) \/ CopyInWrapped(p)
      PROVE  UNCHANGED Queue!qvars
  <2>1. sent' = sent /\ htail' = htail /\ slot' = slot /\ Writing' = Writing
    BY <1>4 DEF CopyIn, CopyInWrapped, Writing, IInv, TypeOK
  <2>2. Committed' = Committed
    BY <2>1 DEF Committed
  <2> QED BY <2>1, <2>2, Quiet
<1>5. ASSUME NEW p \in Producers, Publish(p)
      PROVE  Queue!QNext
  <2>1. p \in Writing /\ Writing' = Writing \ {p} /\ slot' = slot /\ sent' = sent /\ htail' = htail
    BY <1>5 DEF Publish, Writing, IInv, TypeOK
  <2>2. slot[p] \in Live /\ slot[p] \in Nat
    BY <2>1, WriterAt
  <2>3. \A q \in Writing \ {p} : slot[q] \in Nat /\ slot[q] # slot[p]
    BY <2>1, WriterAt DEF IInv, Owners
  <2> DEFINE i == slot[p] + 1
  <2>4. i \in DOMAIN sent
    BY <1>1, <2>2 DEF Live
  <2>5. i \notin Committed
    BY <2>1 DEF Committed
  <2>6. i \notin {slot[q] + 1 : q \in Writing \ {p}}
    BY <2>2, <2>3
  <2>7. {slot[q] + 1 : q \in Writing} = {slot[q] + 1 : q \in Writing \ {p}} \cup {i}
    BY <2>1
  <2>8. Committed' = Committed \cup {i}
    <3>1. Committed' = DOMAIN sent \ {slot[q] + 1 : q \in Writing \ {p}}
      BY <2>1 DEF Committed
    <3> HIDE DEF i
    <3> QED BY <2>4, <2>6, <2>7, <3>1 DEF Committed
  <2>9. Delivered' = Delivered
    BY <1>1, <1>2, <2>1
  <2>10. Queue!CommitAt(i)
    BY <2>1, <2>4, <2>5, <2>8, <2>9 DEF Queue!CommitAt
  <2> QED BY <2>4, <2>10 DEF Queue!QNext
<1>6. ASSUME CopyOut \/ CopyOutWrapped \/ ClearReady \/ ReleaseBytes
      PROVE  UNCHANGED Queue!qvars
  <2>1. sent' = sent /\ htail' = htail /\ slot' = slot /\ ppc' = ppc
    BY <1>6 DEF CopyOut, CopyOutWrapped, ClearReady, ReleaseBytes
  <2>2. Committed' = Committed
    BY <2>1 DEF Committed, Writing
  <2> QED BY <2>1, <2>2, Quiet
<1>7. ASSUME ReleaseHeader
      PROVE  Queue!QNext
  <2>1. sent' = sent /\ htail' = htail + 1 /\ slot' = slot /\ ppc' = ppc /\ cpc = "header"
    BY <1>7 DEF ReleaseHeader
  <2>2. htail \in Live /\ htail \notin WrittenNow
    BY <2>1, PopAt
  <2>3. htail + 1 \in Committed
    <3>1. htail + 1 \in DOMAIN sent
      BY <1>1, <2>2 DEF Live
    <3>2. \A q \in Writing : slot[q] \in Nat /\ slot[q] # htail
      BY <2>2, WriterAt DEF WrittenNow
    <3> QED BY <1>1, <3>1, <3>2 DEF Committed
  <2>4. Committed' = Committed
    BY <2>1 DEF Committed, Writing
  <2>5. Len(Delivered) = htail
    BY <1>1
  <2>6. Delivered' = Append(Delivered, sent[htail + 1])
    <3>1. Delivered' = [i \in 1 .. htail + 1 |-> sent[i]]
      BY <1>2, <2>1
    <3> QED BY <1>1, <2>5, <3>1
  <2>7. Queue!Deliver
    BY <2>1, <2>3, <2>4, <2>5, <2>6 DEF Queue!Deliver, Queue!NextOut
  <2> QED BY <2>7 DEF Queue!QNext
<1>8. ASSUME UNCHANGED vars
      PROVE  UNCHANGED Queue!qvars
  <2>1. sent' = sent /\ htail' = htail /\ slot' = slot /\ ppc' = ppc
    BY <1>8 DEF vars
  <2>2. Committed' = Committed
    BY <2>1 DEF Committed, Writing
  <2> QED BY <2>1, <2>2, Quiet
<1> QED BY <1>3, <1>4, <1>5, <1>6, <1>7, <1>8 DEF Next, Push, Pop

\* The queue starts empty.
LEMMA InitQueue == Init => Queue!QInit
BY DEF Init, Queue!QInit, Committed, Delivered

\* What channel_push accepts reaches the worker whole, once and in the order of the
\* reservations, whatever the interleaving of the copies.
THEOREM RingImplements == Spec => ImplementsQueue
<1>1. IInv /\ IInv' /\ [Next]_vars => [Queue!QNext]_Queue!qvars
  BY StepQueue
<1> QED BY <1>1, InitQueue, RingInvariant, PTL DEF Spec, ImplementsQueue, Queue!QSpec

----------------------------------------------------------------------------
(* The ids of recordings.                                                  *)

\* Induction over a set of naturals: a number it lacks would have a least one.
LEMMA SetInduction ==
  ASSUME NEW T \in SUBSET Nat, 0 \in T, \A n \in T : n + 1 \in T
  PROVE  T = Nat
<1> SUFFICES ASSUME Nat \ T # {} PROVE FALSE
  OBVIOUS
<1> DEFINE R == OpToRel(<, Nat)
<1>1. IsWellFoundedOn(R, Nat)
  BY NatLessThanWellFounded
<1>2. \A n, m \in Nat : n < m => <<n, m>> \in R
  BY DEF OpToRel
<1> HIDE DEF R
<1>3. PICK n \in Nat \ T : \A m \in Nat \ T : <<m, n>> \notin R
  <2>1. (Nat \ T) \subseteq Nat
    OBVIOUS
  <2> QED BY <1>1, <2>1, WFMin
<1>4. n \in Nat /\ n # 0 /\ n - 1 \in Nat /\ n - 1 < n
  BY <1>3
<1>5. n - 1 \in T
  BY <1>2, <1>3, <1>4
<1>6. (n - 1) + 1 \in T
  BY <1>5
<1>7. (n - 1) + 1 = n
  BY <1>4
<1> QED BY <1>3, <1>6, <1>7

\* What the loop has after i numbers.
After(S, f, i) ==
  IF i = 0 THEN 1
  ELSE IF f[i - 1] \in S THEN f[i - 1] + 1 ELSE f[i - 1]

\* The loop can be run, however many numbers there are.
LEMMA LoopRuns ==
  ASSUME NEW S, NEW k \in Nat
  PROVE  \E f : f = [i \in 0 .. k |-> After(S, f, i)]
<1> DEFINE Runs(n) == \E f : f = [i \in 0 .. n |-> After(S, f, i)]
           T == {n \in Nat : Runs(n)}
<1>1. Runs(0)
  <2> DEFINE f == [i \in 0 .. 0 |-> 1]
  <2>1. f = [i \in 0 .. 0 |-> After(S, f, i)]
    BY DEF After
  <2> QED BY <2>1
<1>2. ASSUME NEW n \in Nat, Runs(n) PROVE Runs(n + 1)
  <2>1. PICK f : f = [i \in 0 .. n |-> After(S, f, i)]
    BY <1>2
  <2> DEFINE g == [i \in 0 .. n + 1 |-> IF i = n + 1 THEN After(S, f, i) ELSE f[i]]
  <2>2. ASSUME NEW i \in 0 .. n + 1 PROVE g[i] = After(S, g, i)
    <3>1. g[i] = After(S, f, i)
      <4>1. CASE i = n + 1
        BY <4>1
      <4>2. CASE i # n + 1
        <5>1. i \in 0 .. n /\ g[i] = f[i]
          BY <4>2
        <5> HIDE DEF g
        <5> QED BY <2>1, <5>1
      <4> QED BY <4>1, <4>2
    <3>2. i # 0 => g[i - 1] = f[i - 1]
      OBVIOUS
    <3> HIDE DEF g
    <3> QED BY <3>1, <3>2 DEF After
  <2>3. g = [i \in 0 .. n + 1 |-> g[i]]
    OBVIOUS
  <2> HIDE DEF g
  <2>4. g = [i \in 0 .. n + 1 |-> After(S, g, i)]
    BY <2>2, <2>3
  <2> QED BY <2>4
<1> HIDE DEF Runs
<1>3. T = Nat
  <2>1. T \in SUBSET Nat /\ 0 \in T /\ \A n \in T : n + 1 \in T
    BY <1>1, <1>2
  <2> HIDE DEF T
  <2> QED BY <2>1, SetInduction
<1>4. Runs(k)
  BY <1>3
<1> QED BY <1>4 DEF Runs

\* FirstFree is where the loop ends.
LEMMA FirstFreeLoop ==
  ASSUME NEW S, IsFiniteSet(S)
  PROVE  \E f : /\ \A i \in 0 .. Cardinality(S) : f[i] = After(S, f, i)
                /\ FirstFree(S) = f[Cardinality(S)]
<1> DEFINE k == Cardinality(S)
           Loop(f) == f = [i \in 0 .. k |-> After(S, f, i)]
           F == CHOOSE f : Loop(f)
<1>1. k \in Nat
  BY FS_CardinalityType
<1>2. FirstFree(S) = F[k]
  BY DEF FirstFree, After
<1> HIDE DEF k
<1>3. PICK f : Loop(f)
  BY <1>1, LoopRuns
<1>4. Loop(F)
  <2> HIDE DEF Loop
  <2> QED BY <1>3
<1>5. \A i \in 0 .. k : F[i] = After(S, F, i)
  <2> HIDE DEF F
  <2> QED BY <1>4
<1> HIDE DEF F
<1> QED
  BY <1>2, <1>5 DEF k

\* The loop ends at the lowest number that is not in S: the listing of n files has a
\* free number among the first n + 1, and the loop goes past none.
LEMMA FirstFreeLowest ==
  ASSUME NEW S, IsFiniteSet(S)
  PROVE  /\ FirstFree(S) \in Nat \ {0} /\ FirstFree(S) \notin S
         /\ 1 .. FirstFree(S) - 1 \subseteq S
<1> DEFINE k == Cardinality(S)
<1>1. k \in Nat
  BY FS_CardinalityType
<1>2. PICK f : /\ \A i \in 0 .. k : f[i] = After(S, f, i)
               /\ FirstFree(S) = f[k]
  BY FirstFreeLoop
<1> DEFINE Passed(i) == /\ f[i] \in Nat \ {0} /\ 1 .. f[i] - 1 \subseteq S
                        /\ f[i] \in S => f[i] = i + 1
           T == {i \in Nat : i <= k => Passed(i)}
<1> HIDE DEF k
<1>3. Passed(0)
  <2>1. f[0] = 1
    BY <1>1, <1>2 DEF After
  <2> QED BY <2>1
<1>4. ASSUME NEW i \in Nat, i + 1 <= k, Passed(i) PROVE Passed(i + 1)
  <2>1. f[i + 1] = IF f[i] \in S THEN f[i] + 1 ELSE f[i]
    <3>1. i + 1 \in 0 .. k /\ i + 1 # 0 /\ (i + 1) - 1 = i
      BY <1>1, <1>4
    <3> QED BY <1>2, <3>1 DEF After
  <2>2. CASE f[i] \in S
    BY <1>4, <2>1, <2>2
  <2>3. CASE f[i] \notin S
    BY <1>4, <2>1, <2>3
  <2> QED BY <2>2, <2>3
<1>5. T = Nat
  <2>1. T \in SUBSET Nat /\ 0 \in T
    BY <1>3
  <2>2. ASSUME NEW i \in T PROVE i + 1 \in T
    <3> HIDE DEF Passed
    <3>1. CASE i + 1 <= k
      <4>1. i <= k
        BY <1>1, <3>1
      <4>2. Passed(i)
        BY <4>1
      <4> QED BY <1>4, <3>1, <4>2
    <3>2. CASE ~(i + 1 <= k)
      BY <3>2
    <3> QED BY <3>1, <3>2
  <2> HIDE DEF T
  <2> QED BY <2>1, <2>2, SetInduction
<1>6. Passed(k)
  <2>1. k \in T /\ k <= k
    BY <1>1, <1>5
  <2> HIDE DEF Passed
  <2> QED BY <2>1
<1>7. f[k] \notin S
  <2> SUFFICES ASSUME f[k] \in S PROVE FALSE
    OBVIOUS
  <2>1. f[k] = k + 1 /\ 1 .. k + 1 \subseteq S
    BY <1>1, <1>6
  <2>2. Cardinality(1 .. k + 1) = k + 1
    BY <1>1, FS_Interval
  <2>3. Cardinality(1 .. k + 1) <= k
    BY <2>1, FS_Subset DEF k
  <2> QED BY <1>1, <2>2, <2>3
<1> QED BY <1>2, <1>6, <1>7

\* Creating a file exclusively adds an id that nobody has.
LEMMA CreateUnique ==
  ASSUME UniqueInv, NEW c \in Callers, Create(c)
  PROVE  UniqueInv'
<1> DEFINE n == id[c]
<1>1. /\ n \notin files /\ files' = files \cup {n} /\ handed' = Append(handed, n)
      /\ handed \in Seq(files) /\ Existing \subseteq files
  BY DEF Create, Created, UniqueInv
<1> HIDE DEF n
<1>2. handed' \in Seq(files') /\ Existing \subseteq files'
  BY <1>1
<1>3. Unique'
  <2>1. \A i \in DOMAIN handed : handed[i] \in files /\ handed[i] # n
    BY <1>1
  <2>2. Unique
    BY DEF UniqueInv
  <2>3. /\ Len(handed) \in Nat /\ DOMAIN handed = 1 .. Len(handed)
        /\ DOMAIN handed' = 1 .. Len(handed) + 1
        /\ handed'[Len(handed) + 1] = n
        /\ \A i \in DOMAIN handed : handed'[i] = handed[i]
    BY <1>1
  <2> QED BY <1>1, <2>1, <2>2, <2>3 DEF Unique
<1> QED BY <1>2, <1>3 DEF UniqueInv

\* No recording gets the id of another one: neither of one that exists already
\* nor of one that another session starts at the same time.
THEOREM IdsUnique == ReserveSpec => []Unique
<1>1. ReserveInit => UniqueInv
  BY DEF ReserveInit, UniqueInv, Unique
<1>2. UniqueInv /\ [ReserveNext]_reserve_vars => UniqueInv'
  <2> SUFFICES ASSUME UniqueInv, [ReserveNext]_reserve_vars PROVE UniqueInv'
    OBVIOUS
  <2>1. CASE UNCHANGED <<files, handed>>
    BY <2>1 DEF UniqueInv, Unique
  <2>2. CASE \E c \in Callers : Create(c)
    BY <2>2, CreateUnique
  <2> QED BY <2>1, <2>2 DEF ReserveNext, Step, Call, OpenDir, ReadDir, Retry, Fail, reserve_vars
<1>3. UniqueInv => Unique
  BY DEF UniqueInv
<1> QED BY <1>1, <1>2, <1>3, PTL DEF ReserveSpec

\* A listing is of files of the directory, which may grow meanwhile.
LEMMA ReadDirDense ==
  ASSUME DenseInv, NEW c \in Callers, ReadDir(c)
  PROVE  DenseInv'
<1>1. PICK new \in SUBSET (files \ listed[c]) :
        id' = [id EXCEPT ![c] = FirstFree(listed[c] \cup new)]
  BY DEF ReadDir
<1> DEFINE S == listed[c] \cup new
           n == FirstFree(S)
<1>2. S \subseteq files /\ IsFiniteSet(S)
  <2>1. S \in SUBSET files
    BY DEF DenseInv
  <2> QED BY <2>1, FS_Subset DEF DenseInv
<1>3. n \in Nat /\ 1 .. n - 1 \subseteq files
  BY <1>2, FirstFreeLowest
<1> HIDE DEF n
<1>4. /\ pc' = [pc EXCEPT ![c] = "create"] /\ id' = [id EXCEPT ![c] = n]
      /\ UNCHANGED <<files, listed, handed>>
  BY <1>1 DEF ReadDir, n
<1> QED BY <1>3, <1>4 DEF DenseInv, Dense

\* The new id closes the gap below which everything is taken.
LEMMA CreateDense ==
  ASSUME DenseInv, NEW c \in Callers, Create(c)
  PROVE  DenseInv'
<1> DEFINE n == id[c]
<1>1. /\ n \in Nat /\ 1 .. n - 1 \subseteq files
      /\ files' = files \cup {n} /\ handed' = Append(handed, n)
      /\ pc' = [pc EXCEPT ![c] = "idle"] /\ UNCHANGED <<listed, id>>
  BY DEF Create, DenseInv
<1> HIDE DEF n
<1>2. IsFiniteSet(files')
  BY <1>1, FS_AddElement DEF DenseInv
<1>3. handed' \in Seq(Nat) /\ Dense'
  <2>1. handed \in Seq(Nat) /\ Dense
    BY DEF DenseInv
  <2>2. /\ handed' \in Seq(Nat) /\ Len(handed) \in Nat
        /\ DOMAIN handed = 1 .. Len(handed)
        /\ DOMAIN handed' = 1 .. Len(handed) + 1
        /\ handed'[Len(handed) + 1] = n
        /\ \A i \in DOMAIN handed : handed'[i] = handed[i]
    BY <1>1, <2>1
  <2>3. 1 .. n \subseteq files'
    BY <1>1
  <2>4. \A i \in DOMAIN handed : 1 .. handed'[i] \subseteq files'
    BY <1>1, <2>1, <2>2 DEF Dense
  <2> QED BY <2>2, <2>3, <2>4 DEF Dense
<1> QED BY <1>1, <1>2, <1>3 DEF DenseInv

\* The ids of a directory leave no number out, although every caller chooses its id
\* from a listing that other callers, and the listing itself, may have left behind.
THEOREM IdsDense == ReserveSpec => []Dense
<1>1. ReserveInit => DenseInv
  BY ReserveIdAssumption DEF ReserveInit, DenseInv, Dense
<1>2. DenseInv /\ [ReserveNext]_reserve_vars => DenseInv'
  <2> SUFFICES ASSUME DenseInv, [ReserveNext]_reserve_vars PROVE DenseInv'
    OBVIOUS
  <2>1. CASE UNCHANGED reserve_vars
    BY <2>1 DEF reserve_vars, DenseInv, Dense
  <2>2. CASE \E c \in Callers : Call(c)
    BY <2>2 DEF Call, DenseInv, Dense
  <2>3. CASE \E c \in Callers : OpenDir(c)
    BY <2>3 DEF OpenDir, DenseInv, Dense
  <2>4. CASE \E c \in Callers : ReadDir(c)
    BY <2>4, ReadDirDense
  <2>5. CASE \E c \in Callers : Create(c)
    BY <2>5, CreateDense
  <2>6. CASE \E c \in Callers : Retry(c)
    BY <2>6 DEF Retry, DenseInv, Dense
  <2>7. CASE \E c \in Callers : Fail(c)
    BY <2>7 DEF Fail, DenseInv, Dense
  <2> QED BY <2>1, <2>2, <2>3, <2>4, <2>5, <2>6, <2>7 DEF ReserveNext, Step
<1>3. DenseInv => Dense
  BY DEF DenseInv
<1> QED BY <1>1, <1>2, <1>3, PTL DEF ReserveSpec
=============================================================================
