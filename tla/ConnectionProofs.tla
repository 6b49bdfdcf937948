-------------------------- MODULE ConnectionProofs --------------------------
(***************************************************************************)
(* Theorems of Connection: whatever the frames, the sizes of the buffers    *)
(* and the failures, both directions of the dialog convey every byte once   *)
(* and in order (Conveyed), and wherever reads, writes and compactions cut  *)
(* the bytes, the client handles whole frames (Framed); and the connection  *)
(* takes the steps of Dialog and no others.  They rest on what the          *)
(* operations of a Stream do to its contents, and on counting the frames    *)
(* that begin in a prefix of the bytes.                                     *)
(***************************************************************************)
EXTENDS Connection, SequenceTheorems, FiniteSetTheorems, TLAPS

----------------------------------------------------------------------------
(* Sequences of cells.                                                     *)

\* What is left of a sequence without its first n elements.
LEMMA Rest ==
  ASSUME NEW s \in Seq(Cells), NEW n \in Nat, n <= Len(s)
  PROVE  /\ SubSeq(s, n + 1, Len(s)) \in Seq(Cells)
         /\ Len(SubSeq(s, n + 1, Len(s))) = Len(s) - n
         /\ \A i \in 1 .. Len(s) - n : SubSeq(s, n + 1, Len(s))[i] = s[n + i]
<1> DEFINE len == Len(s)
           r == SubSeq(s, n + 1, len)
<1>1. len \in Nat /\ \A i \in 1 .. len : s[i] \in Cells
  BY ElementOfSeq, LenProperties
<1>2. \A i \in n + 1 .. len : s[i] \in Cells
  BY <1>1
<1>3. n + 1 \in Int /\ len \in Int
  BY <1>1
<1> HIDE DEF len
<1>4. /\ r \in Seq(Cells)
      /\ Len(r) = IF n + 1 <= len THEN len - (n + 1) + 1 ELSE 0
      /\ \A i \in 1 .. len - (n + 1) + 1 : r[i] = s[n + 1 + i - 1]
  BY <1>2, <1>3, SubSeqProperties
<1>5. len >= n
  BY DEF len
<1>6. Len(r) = len - n
  BY <1>1, <1>4, <1>5
<1>7. ASSUME NEW i \in 1 .. len - n PROVE r[i] = s[n + i]
  <2>1. i \in 1 .. len - (n + 1) + 1 /\ n + 1 + i - 1 = n + i
    BY <1>1
  <2> QED BY <1>4, <2>1
<1> QED BY <1>4, <1>6, <1>7 DEF len

\* A sequence is what is cut off its front and what is left.
LEMMA Cut ==
  ASSUME NEW s \in Seq(Cells), NEW n \in Nat, n <= Len(s)
  PROVE  /\ SubSeq(s, 1, n) \in Seq(Cells)
         /\ SubSeq(s, n + 1, Len(s)) \in Seq(Cells)
         /\ SubSeq(s, 1, n) \o SubSeq(s, n + 1, Len(s)) = s
<1>1. Len(s) \in Nat /\ \A i \in 1 .. Len(s) : s[i] \in Cells
  BY ElementOfSeq, LenProperties
<1>2. SubSeq(s, 1, n) \in Seq(Cells)
  <2>1. \A i \in 1 .. n : s[i] \in Cells
    BY <1>1
  <2>2. 1 \in Int /\ n \in Int
    OBVIOUS
  <2> QED BY <2>1, <2>2, SubSeqProperties
<1>3. SubSeq(s, 1, n) \o SubSeq(s, n + 1, Len(s)) = SubSeq(s, 1, Len(s))
  <2>1. 1 \in 1 .. Len(s) + 1 /\ n \in 1 - 1 .. Len(s) /\ Len(s) \in n .. Len(s)
    BY <1>1
  <2> QED BY <2>1, ConcatAdjacentSubSeq
<1> QED BY <1>2, <1>3, Rest, SubSeqFull

\* Leaving out k elements and then n is leaving out k + n.
LEMMA RestOfRest ==
  ASSUME NEW s \in Seq(Cells), NEW k \in Nat, NEW n \in Nat, k + n <= Len(s)
  PROVE  LET t == SubSeq(s, k + 1, Len(s)) IN
         SubSeq(s, k + n + 1, Len(s)) = SubSeq(t, n + 1, Len(t))
<1> DEFINE t == SubSeq(s, k + 1, Len(s))
           u == SubSeq(s, k + n + 1, Len(s))
           v == SubSeq(t, n + 1, Len(t))
<1>1. Len(s) \in Nat
  BY LenProperties
<1>2. /\ t \in Seq(Cells) /\ Len(t) = Len(s) - k
      /\ \A i \in 1 .. Len(s) - k : t[i] = s[k + i]
  <2>1. k <= Len(s)
    BY <1>1
  <2> QED BY <2>1, Rest
<1>3. /\ u \in Seq(Cells) /\ Len(u) = Len(s) - (k + n)
      /\ \A i \in 1 .. Len(s) - (k + n) : u[i] = s[k + n + i]
  <2>1. k + n \in Nat
    OBVIOUS
  <2> QED BY <2>1, Rest
<1> HIDE DEF t, u
<1>4. /\ v \in Seq(Cells) /\ Len(v) = Len(t) - n
      /\ \A i \in 1 .. Len(t) - n : v[i] = t[n + i]
  <2>1. n <= Len(t)
    BY <1>1, <1>2
  <2> QED BY <1>2, <2>1, Rest
<1> HIDE DEF v
<1>5. Len(u) = Len(v)
  BY <1>1, <1>2, <1>3, <1>4
<1>6. ASSUME NEW i \in 1 .. Len(u) PROVE u[i] = v[i]
  <2>1. u[i] = s[k + n + i]
    BY <1>1, <1>3
  <2>2. v[i] = t[n + i]
    BY <1>1, <1>2, <1>3, <1>4
  <2>3. n + i \in 1 .. Len(s) - k
    BY <1>1, <1>3
  <2>4. t[n + i] = s[k + (n + i)]
    BY <1>2, <2>3
  <2>5. k + (n + i) = k + n + i
    BY <1>1, <1>3
  <2> QED BY <2>1, <2>2, <2>4, <2>5
<1>7. u = v
  BY <1>3, <1>4, <1>5, <1>6, SeqEqual
<1> QED BY <1>7 DEF t, u, v

----------------------------------------------------------------------------
(* Streams.                                                                *)

\* The committed bytes of a stream are all it holds from read_offset on.
LEMMA DataIsRest ==
  ASSUME NEW s, IsStream(s)
  PROVE  /\ s.read_offset - s.data_offset \in Nat
         /\ s.read_offset - s.data_offset <= Len(s.data)
         /\ Data(s) = SubSeq(s.data, (s.read_offset - s.data_offset) + 1, Len(s.data))
         /\ Data(s) \in Seq(Cells)
         /\ Len(Data(s)) = s.committed_offset - s.read_offset
<1> DEFINE g == s.read_offset - s.data_offset
<1>1. s.data \in Seq(Cells) /\ Len(s.data) \in Nat
  BY LenProperties DEF IsStream
<1>2. g \in Nat /\ g <= Len(s.data) /\ s.committed_offset - s.data_offset = Len(s.data)
  BY <1>1 DEF IsStream
<1>3. Data(s) = SubSeq(s.data, g + 1, Len(s.data))
  BY <1>2 DEF Data
<1> HIDE DEF g
<1>4. Data(s) \in Seq(Cells) /\ Len(Data(s)) = Len(s.data) - g
  BY <1>1, <1>2, <1>3, Rest
<1>5. Len(s.data) - g = s.committed_offset - s.read_offset
  BY <1>1 DEF g, IsStream
<1> QED BY <1>2, <1>3, <1>4, <1>5 DEF g

\* A new stream is an empty one.
LEMMA NewStream ==
  ASSUME NEW n \in Nat
  PROVE  IsStream(Stream(n)) /\ Data(Stream(n)) = <<>>
<1>1. <<>> \in Seq(Cells) /\ Len(<<>>) = 0
  OBVIOUS
<1>2. IsStream(Stream(n))
  BY <1>1 DEF IsStream, Stream
<1>3. Data(Stream(n)) = SubSeq(<<>>, 1, 0)
  BY DEF Data, Stream
<1> QED BY <1>2, <1>3, SubSeqEmpty

\* compact changes what is stored, never what there is to read.
LEMMA CompactedData ==
  ASSUME NEW s, IsStream(s)
  PROVE  IsStream(Compacted(s)) /\ Data(Compacted(s)) = Data(s)
<1> DEFINE g == s.read_offset - s.data_offset
           c == [s EXCEPT !.data = SubSeq(@, g + 1, Len(@)), !.data_offset = s.read_offset]
<1>1. /\ g \in Nat /\ g <= Len(s.data)
      /\ Data(s) = SubSeq(s.data, g + 1, Len(s.data))
      /\ Data(s) \in Seq(Cells)
      /\ Len(Data(s)) = s.committed_offset - s.read_offset
  BY DataIsRest
<1>2. CASE g > s.compact_threshold
  <2>1. Compacted(s) = c
    BY <1>2 DEF Compacted
  <2>2. /\ c.data = Data(s) /\ c.data_offset = s.read_offset
        /\ c.read_offset = s.read_offset /\ c.committed_offset = s.committed_offset
        /\ c.compact_threshold = s.compact_threshold
        /\ c \in [data : Seq(Cells), compact_threshold : Nat, data_offset : Nat,
                  read_offset : Nat, committed_offset : Nat]
    BY <1>1 DEF IsStream
  <2> HIDE DEF c
  <2>9. /\ s.read_offset \in Nat /\ s.committed_offset \in Nat
        /\ s.read_offset <= s.committed_offset
    BY DEF IsStream
  <2>10. c.committed_offset = c.data_offset + Len(c.data)
    BY <1>1, <2>2, <2>9
  <2>3. IsStream(c)
    BY <2>2, <2>9, <2>10 DEF IsStream
  <2>4. Data(c) = SubSeq(c.data, (c.read_offset - c.data_offset) + 1, Len(c.data))
    BY <2>3, DataIsRest
  <2>5. c.read_offset - c.data_offset = 0
    BY <2>2 DEF IsStream
  <2>6. Data(c) = SubSeq(Data(s), 1, Len(Data(s)))
    BY <2>2, <2>4, <2>5
  <2>7. Data(c) = Data(s)
    BY <1>1, <2>6, SubSeqFull
  <2> QED BY <2>1, <2>3, <2>7
<1>3. CASE ~(g > s.compact_threshold)
  BY <1>3 DEF Compacted
<1> QED BY <1>2, <1>3

\* write adds to what there is to read.
LEMMA WrittenData ==
  ASSUME NEW s, IsStream(s), NEW bytes \in Seq(Cells)
  PROVE  IsStream(Written(s, bytes)) /\ Data(Written(s, bytes)) = Data(s) \o bytes
<1> DEFINE g == s.read_offset - s.data_offset
           d == s.data
           w == Written(s, bytes)
           all == d \o bytes
<1>1. d \in Seq(Cells) /\ Len(d) \in Nat /\ Len(bytes) \in Nat
  BY LenProperties DEF IsStream
<1>2. all \in Seq(Cells) /\ Len(all) = Len(d) + Len(bytes)
  BY <1>1, ConcatProperties
<1>3. /\ w.data = all /\ w.data_offset = s.data_offset /\ w.read_offset = s.read_offset
      /\ w.committed_offset = s.data_offset + Len(d) + Len(bytes)
      /\ w \in [data : Seq(Cells), compact_threshold : Nat, data_offset : Nat,
                read_offset : Nat, committed_offset : Nat]
  <2>1. w = [s EXCEPT !.data = all, !.committed_offset = s.data_offset + Len(d) + Len(bytes)]
    BY DEF Written
  <2>2. s.data_offset + Len(d) + Len(bytes) \in Nat
    BY <1>1 DEF IsStream
  <2> QED BY <1>2, <2>1, <2>2 DEF IsStream
<1>4. IsStream(w)
  BY <1>1, <1>2, <1>3 DEF IsStream
<1>5. /\ g \in Nat /\ g <= Len(d)
      /\ Data(s) = SubSeq(d, g + 1, Len(d))
      /\ Data(s) \in Seq(Cells)
  BY DataIsRest
<1>6. Data(w) = SubSeq(all, g + 1, Len(all))
  BY <1>3, <1>4, DataIsRest
<1> HIDE DEF g, d, w
<1>7. SubSeq(all, g + 1, Len(all)) = SubSeq(d, g + 1, Len(d)) \o bytes
  <2> DEFINE a == SubSeq(all, g + 1, Len(all))
             r == SubSeq(d, g + 1, Len(d))
             b == r \o bytes
  <2>1. /\ a \in Seq(Cells) /\ Len(a) = Len(all) - g
        /\ \A i \in 1 .. Len(all) - g : a[i] = all[g + i]
    <3>1. g <= Len(all)
      BY <1>1, <1>2, <1>5
    <3> QED BY <1>2, <1>5, <3>1, Rest
  <2>2. /\ r \in Seq(Cells) /\ Len(r) = Len(d) - g
        /\ \A i \in 1 .. Len(d) - g : r[i] = d[g + i]
    BY <1>1, <1>5, Rest
  <2>3. \A i \in 1 .. Len(d) + Len(bytes) :
          all[i] = IF i <= Len(d) THEN d[i] ELSE bytes[i - Len(d)]
    BY <1>1, ConcatProperties
  <2> HIDE DEF a, r
  <2>4. /\ b \in Seq(Cells) /\ Len(b) = Len(r) + Len(bytes)
        /\ \A i \in 1 .. Len(r) + Len(bytes) :
             b[i] = IF i <= Len(r) THEN r[i] ELSE bytes[i - Len(r)]
    BY <2>2, ConcatProperties
  <2> HIDE DEF b, all
  <2>5. Len(a) = Len(b)
    BY <1>1, <1>2, <1>5, <2>1, <2>2, <2>4
  <2>6. ASSUME NEW i \in 1 .. Len(a) PROVE a[i] = b[i]
    <3>1. i \in Nat /\ 1 <= i /\ i <= Len(d) - g + Len(bytes)
      BY <1>1, <1>2, <1>5, <2>1
    <3>2. a[i] = all[g + i]
      BY <1>1, <1>2, <1>5, <2>1
    <3>3. g + i \in 1 .. Len(d) + Len(bytes)
      BY <1>1, <1>5, <3>1
    <3>4. i \in 1 .. Len(r) + Len(bytes)
      BY <1>1, <1>5, <2>2, <3>1
    <3>5. CASE i <= Len(d) - g
      <4>1. i \in 1 .. Len(d) - g /\ g + i <= Len(d) /\ i <= Len(r)
        BY <1>1, <1>5, <2>2, <3>1, <3>5
      <4> QED BY <2>2, <2>3, <2>4, <3>2, <3>3, <3>4, <4>1
    <3>6. CASE ~(i <= Len(d) - g)
      <4>1. ~(g + i <= Len(d)) /\ ~(i <= Len(r)) /\ g + i - Len(d) = i - Len(r)
        BY <1>1, <1>5, <2>2, <3>1, <3>6
      <4>2. all[g + i] = bytes[g + i - Len(d)]
        <5>1. PICK j \in 1 .. Len(d) + Len(bytes) : j = g + i
          BY <3>3
        <5>2. all[j] = bytes[j - Len(d)]
          BY <2>3, <4>1, <5>1
        <5>3. g + i - Len(d) = j - Len(d)
          BY <1>1, <1>5, <3>1, <5>1
        <5>4. all[j] = all[g + i]
          BY <5>1
        <5> QED BY <5>2, <5>3, <5>4
      <4>3. b[i] = bytes[i - Len(r)]
        BY <2>4, <3>4, <4>1
      <4> QED BY <3>2, <4>1, <4>2, <4>3
    <3> QED BY <3>5, <3>6
  <2>7. a = b
    BY <2>1, <2>4, <2>5, <2>6, SeqEqual
  <2> QED BY <2>7 DEF a, b, r
<1> QED BY <1>4, <1>5, <1>6, <1>7 DEF w

\* mark_read takes the first n bytes of what there is to read.
LEMMA MarkedReadData ==
  ASSUME NEW s, IsStream(s), NEW n \in Nat, n <= Len(Data(s))
  PROVE  /\ IsStream(MarkedRead(s, n))
         /\ Data(MarkedRead(s, n)) = SubSeq(Data(s), n + 1, Len(Data(s)))
<1> DEFINE g == s.read_offset - s.data_offset
           m == [s EXCEPT !.read_offset = s.read_offset + n]
<1>1. /\ g \in Nat /\ g <= Len(s.data)
      /\ Data(s) = SubSeq(s.data, g + 1, Len(s.data))
      /\ Len(Data(s)) = s.committed_offset - s.read_offset
  BY DataIsRest
<1>2. s.data \in Seq(Cells) /\ Len(s.data) \in Nat
  BY LenProperties DEF IsStream
<1>3. s.read_offset + n <= s.data_offset + Len(s.data)
  <2>1. /\ s.read_offset \in Nat /\ s.committed_offset \in Nat
        /\ s.committed_offset = s.data_offset + Len(s.data)
    BY DEF IsStream
  <2>2. n <= s.committed_offset - s.read_offset
    BY <1>1
  <2> QED BY <2>1, <2>2
<1>4. MarkedRead(s, n) = Compacted(m)
  BY <1>3 DEF MarkedRead
<1>5. /\ m.data = s.data /\ m.data_offset = s.data_offset
      /\ m.read_offset = s.read_offset + n /\ m.committed_offset = s.committed_offset
      /\ m \in [data : Seq(Cells), compact_threshold : Nat, data_offset : Nat,
                read_offset : Nat, committed_offset : Nat]
  BY DEF IsStream
<1> HIDE DEF m
<1>6. IsStream(m)
  BY <1>2, <1>3, <1>5 DEF IsStream
<1>7. Data(m) = SubSeq(s.data, (m.read_offset - m.data_offset) + 1, Len(s.data))
  BY <1>5, <1>6, DataIsRest
<1>8. m.read_offset - m.data_offset = g + n /\ g + n <= Len(s.data)
  BY <1>2, <1>3, <1>5 DEF IsStream
<1> HIDE DEF g
<1>9. Data(m) = SubSeq(Data(s), n + 1, Len(Data(s)))
  <2>1. Data(m) = SubSeq(s.data, g + n + 1, Len(s.data))
    BY <1>7, <1>8
  <2>2. SubSeq(s.data, g + n + 1, Len(s.data)) =
          SubSeq(SubSeq(s.data, g + 1, Len(s.data)), n + 1,
                 Len(SubSeq(s.data, g + 1, Len(s.data))))
    BY <1>1, <1>2, <1>8, RestOfRest
  <2> QED BY <1>1, <2>1, <2>2
<1> QED BY <1>4, <1>6, <1>9, CompactedData

\* mark_read_all leaves nothing to read.
LEMMA MarkedReadAllData ==
  ASSUME NEW s, IsStream(s)
  PROVE  IsStream(MarkedReadAll(s)) /\ Data(MarkedReadAll(s)) = <<>>
<1> DEFINE m == [s EXCEPT !.read_offset = s.committed_offset]
<1>1. /\ m.data = s.data /\ m.data_offset = s.data_offset
      /\ m.read_offset = s.committed_offset /\ m.committed_offset = s.committed_offset
      /\ m \in [data : Seq(Cells), compact_threshold : Nat, data_offset : Nat,
                read_offset : Nat, committed_offset : Nat]
  BY DEF IsStream
<1> HIDE DEF m
<1>2. IsStream(m)
  BY <1>1 DEF IsStream
<1>3. Data(m) \in Seq(Cells) /\ Len(Data(m)) = 0
  BY <1>1, <1>2, DataIsRest DEF IsStream
<1>4. Data(m) = <<>>
  BY <1>3, EmptySeq
<1> QED BY <1>2, <1>4, CompactedData DEF MarkedReadAll, m

----------------------------------------------------------------------------
(* Frames.                                                                 *)

\* A frame is a sequence of cells, FrameLen of them.
LEMMA FrameType ==
  ASSUME NEW tag \in Tags
  PROVE  FrameLen(tag) \in Nat /\ Frame(tag) \in Seq(Cells)
<1>1. FrameLen(tag) \in Nat
  BY ConnectionAssumption DEF FrameLen
<1>2. \A k \in 1 .. FrameLen(tag) : <<tag, k>> \in Cells
  BY <1>1 DEF Cells
<1>3. Frame(tag) \in [1 .. FrameLen(tag) -> Cells]
  BY <1>2 DEF Frame
<1>4. Frame(tag) \in Seq(Cells)
  BY <1>1, <1>3, SeqDef
<1> QED BY <1>1, <1>4

\* A frame is only read when the bytes for it have come.
LEMMA TryReadFrameLen ==
  ASSUME NEW buf \in Seq(Cells), TryReadFrame(buf) # NoFrame
  PROVE  TryReadFrame(buf).len \in Nat /\ TryReadFrame(buf).len <= Len(buf)
<1>1. ~(Len(buf) < HeaderLen)
  BY DEF TryReadFrame
<1>2. HeaderLen \in 1 .. Len(buf)
  BY <1>1, ConnectionAssumption, LenProperties
<1>3. buf[HeaderLen][1] \in Tags
  BY <1>2, ElementOfSeq DEF Cells
<1>4. ~(Len(buf) < FrameLen(buf[HeaderLen][1]))
  BY <1>1 DEF TryReadFrame
<1>5. TryReadFrame(buf).len = FrameLen(buf[HeaderLen][1])
  BY <1>1, <1>4 DEF TryReadFrame
<1>6. FrameLen(buf[HeaderLen][1]) \in Nat
  BY <1>3, FrameType
<1> QED BY <1>4, <1>5, <1>6, LenProperties

----------------------------------------------------------------------------
(* The algebra of concatenation, front and rest, without their definitions. *)

Cat(s, t) == s \o t
Front(s, n) == SubSeq(s, 1, n)
Back(s, n) == SubSeq(s, n + 1, Len(s))

\* Concatenation, as the operator the lemmas below use.
LEMMA CatFacts ==
  /\ \A s, t \in Seq(Cells) : Cat(s, t) \in Seq(Cells)
  /\ \A s, t, u \in Seq(Cells) : Cat(Cat(s, t), u) = Cat(s, Cat(t, u))
  /\ <<>> \in Seq(Cells) /\ \A s \in Seq(Cells) : Cat(s, <<>>) = s
<1>1. \A s, t \in Seq(Cells) : Cat(s, t) \in Seq(Cells)
  BY ConcatProperties DEF Cat
<1>2. \A s, t, u \in Seq(Cells) : Cat(Cat(s, t), u) = Cat(s, Cat(t, u))
  BY ConcatAssociative DEF Cat
<1>3. <<>> \in Seq(Cells) /\ \A s \in Seq(Cells) : Cat(s, <<>>) = s
  BY ConcatEmptySeq, EmptySeq DEF Cat
<1> QED BY <1>1, <1>2, <1>3

\* Front and Back are the two parts of a sequence.
LEMMA CutFacts ==
  ASSUME NEW s \in Seq(Cells), NEW n \in Nat, n <= Len(s)
  PROVE  Front(s, n) \in Seq(Cells) /\ Back(s, n) \in Seq(Cells)
         /\ Cat(Front(s, n), Back(s, n)) = s
BY Cut DEF Cat, Front, Back

\* What is moved from the front of one sequence to the end of another stays where
\* it is in their concatenation.
LEMMA Move ==
  ASSUME NEW h \in Seq(Cells), NEW p \in Seq(Cells), NEW s \in Seq(Cells),
         NEW n \in Nat, n <= Len(s)
  PROVE  /\ Cat(Cat(h, Front(s, n)), Back(s, n)) = Cat(h, s)
         /\ Cat(Cat(h, Cat(p, Front(s, n))), Back(s, n)) = Cat(Cat(h, p), s)
BY CatFacts, CutFacts

\* The operations of a stream, in these terms.
LEMMA StreamFacts ==
  ASSUME NEW s, IsStream(s)
  PROVE  /\ Data(s) \in Seq(Cells)
         /\ \A bytes \in Seq(Cells) :
              /\ IsStream(Written(s, bytes))
              /\ Data(Written(s, bytes)) = Cat(Data(s), bytes)
         /\ \A n \in Nat :
              n <= Len(Data(s)) => /\ IsStream(MarkedRead(s, n))
                                   /\ Data(MarkedRead(s, n)) = Back(Data(s), n)
         /\ IsStream(MarkedReadAll(s)) /\ Data(MarkedReadAll(s)) = <<>>
BY DataIsRest, WrittenData, MarkedReadData, MarkedReadAllData DEF Cat, Back

\* The two directions of the dialog.
LEMMA Wires ==
  /\ WireOut <=> Cat(Cat(Cat(rcvd, net_out), Data(write_stream)), Data(outbox)) = queued
  /\ WireIn <=> Cat(Cat(Cat(handled, Data(parse_stream)), net_in), srv_out) = said
BY DEF WireOut, WireIn, Cat

\* The two directions in the next state.
LEMMA WiresNext ==
  /\ WireOut' <=> Cat(Cat(Cat(rcvd', net_out'), Data(write_stream')), Data(outbox')) = queued'
  /\ WireIn' <=> Cat(Cat(Cat(handled', Data(parse_stream')), net_in'), srv_out') = said'
BY DEF WireOut, WireIn, Cat

\* send_frame puts a frame at the end of all that is on its way to the server.
LEMMA SendFrameWire ==
  ASSUME TypeOK, WireOut, NEW tag \in Tags, SendFrame(tag),
         UNCHANGED <<rcvd, net_out, write_stream>>
  PROVE  IsStream(outbox') /\ queued' \in Seq(Cells) /\ frames' \in Seq(Tags) /\ WireOut'
<1>1. /\ rcvd \in Seq(Cells) /\ net_out \in Seq(Cells) /\ queued \in Seq(Cells)
      /\ IsStream(write_stream) /\ IsStream(outbox) /\ Frame(tag) \in Seq(Cells)
  BY FrameType DEF TypeOK
<1>2. /\ Data(write_stream) \in Seq(Cells) /\ Data(outbox) \in Seq(Cells)
      /\ IsStream(outbox') /\ Data(outbox') = Cat(Data(outbox), Frame(tag))
  BY <1>1, StreamFacts DEF SendFrame
<1>3. queued' = Cat(queued, Frame(tag))
  BY DEF SendFrame, Cat
<1>4. queued' \in Seq(Cells)
  BY <1>1, <1>3, CatFacts
<1>5. Cat(Cat(Cat(rcvd, net_out), Data(write_stream)), Data(outbox)) = queued
  BY Wires
<1>6. Cat(Cat(Cat(rcvd, net_out), Data(write_stream)), Data(outbox')) = queued'
  <2>1. PICK before : before = Cat(Cat(rcvd, net_out), Data(write_stream))
    OBVIOUS
  <2>2. before \in Seq(Cells)
    BY <1>1, <1>2, <2>1, CatFacts
  <2>3. Cat(before, Cat(Data(outbox), Frame(tag))) = Cat(Cat(before, Data(outbox)), Frame(tag))
    BY <1>1, <1>2, <2>2, CatFacts
  <2> QED BY <1>2, <1>3, <1>5, <2>1, <2>3
<1>7. frames' \in Seq(Tags)
  BY DEF SendFrame, TypeOK
<1> QED BY <1>2, <1>4, <1>6, <1>7, WiresNext

\* A step that leaves a direction alone.
LEMMA WireOutKept ==
  ASSUME WireOut, UNCHANGED <<rcvd, net_out, write_stream, outbox, queued>>
  PROVE  WireOut'
BY DEF WireOut

\* A step that leaves the other direction alone.
LEMMA WireInKept ==
  ASSUME WireIn, UNCHANGED <<handled, parse_stream, net_in, srv_out, said>>
  PROVE  WireIn'
BY DEF WireIn

\* What the types of the next state come down to.
StreamsOK == IsStream(parse_stream) /\ IsStream(outbox) /\ IsStream(write_stream)

----------------------------------------------------------------------------
(* The invariant.                                                          *)

\* Nothing has been said and nothing is on its way.
LEMMA InitConveyed == Init => Conveyed
<1> SUFFICES ASSUME Init PROVE Conveyed
  OBVIOUS
<1>1. IsStream(Stream(Threshold)) /\ Data(Stream(Threshold)) = <<>>
  BY ConnectionAssumption, NewStream
<1>2. <<>> \in Seq(Cells) /\ Cat(<<>>, <<>>) = <<>>
  BY CatFacts
<1>3. TypeOK
  <2>1. <<>> \in Seq(Tags) /\ <<>> \in Seq(Kinds)
    OBVIOUS
  <2> QED BY <1>1, <1>2, <2>1 DEF Init, TypeOK
<1>4. WireOut /\ WireIn
  BY <1>1, <1>2, Wires DEF Init
<1> QED BY <1>3, <1>4 DEF Init, Conveyed

\* connect_client queues the startup frame.
LEMMA ConnectConveyed == Conveyed /\ ConnectClient => Conveyed'
<1> SUFFICES ASSUME Conveyed, ConnectClient PROVE Conveyed'
  OBVIOUS
<1>1. /\ IsStream(outbox') /\ queued' \in Seq(Cells) /\ frames' \in Seq(Tags)
      /\ WireOut'
  <2>1. CASE SendFrame("startup")
    BY <2>1, SendFrameWire DEF ConnectClient, Conveyed, Tags, ToServer, srv
  <2>2. CASE UNCHANGED <<outbox, queued, frames>>
    BY <2>2, WireOutKept DEF ConnectClient, Conveyed, TypeOK, srv
  <2> QED BY <2>1, <2>2 DEF ConnectClient
<1>2. StreamsOK'
  BY <1>1 DEF ConnectClient, Conveyed, TypeOK, StreamsOK
<1>3. awaiting' \in BOOLEAN
  BY DEF ConnectClient, Conveyed, TypeOK
<1>4. TypeOK'
  BY <1>1, <1>2, <1>3 DEF ConnectClient, Conveyed, TypeOK, StreamsOK, srv
<1>5. WireIn'
  BY WireInKept DEF ConnectClient, Conveyed, srv
<1> QED BY <1>1, <1>4, <1>5 DEF ConnectClient, Conveyed

\* handle_event moves no bytes before read_conn.
LEMMA EventConveyed == Conveyed /\ Event => Conveyed'
<1> SUFFICES ASSUME Conveyed, Event PROVE Conveyed'
  OBVIOUS
<1>1. StreamsOK'
  BY DEF Event, Conveyed, TypeOK, StreamsOK, cli
<1>2. TypeOK'
  <2>1. /\ conn' \in {"none", "open", "dropped"} /\ connected' \in BOOLEAN
        /\ lpc' \in {"poll", "read", "parse", "flush", "write", "done"}
        /\ cmd' \in {"none", "event"} \cup Kinds
        /\ tcp' \in {"closed", "opening", "open", "refused", "reset"}
    BY DEF Event, DropSlot, Conveyed, TypeOK
  <2>2. UNCHANGED <<awaiting, write_stream, cli, net_in, net_out, nospace, fin, srv,
                    queued, frames, handled, cmds>> /\ edge' = FALSE
    BY DEF Event
  <2>3. TypeOK
    BY DEF Conveyed
  <2>4. (/\ awaiting \in BOOLEAN /\ rfq \in BOOLEAN /\ sent_terminate \in BOOLEAN
         /\ state \in {"Connecting", "Normal", "Dead"}
         /\ edge \in BOOLEAN /\ nospace \in BOOLEAN /\ fin \in BOOLEAN
         /\ net_in \in Seq(Cells) /\ net_out \in Seq(Cells))'
    BY <2>2, <2>3 DEF TypeOK, cli
  <2> QED BY <1>1, <2>1, <2>2, <2>3, <2>4 DEF TypeOK, StreamsOK, srv
<1>3. WireIn' /\ WireOut'
  BY WireInKept, WireOutKept DEF Event, Conveyed, cli, srv
<1> QED BY <1>2, <1>3 DEF Event, DropSlot, Conveyed, cli

\* A read moves bytes from the socket to the parse stream.
LEMMA ReadConveyed == Conveyed /\ Read => Conveyed'
<1> SUFFICES ASSUME Conveyed, Read PROVE Conveyed'
  OBVIOUS
<1>0. /\ net_in \in Seq(Cells) /\ Len(net_in) \in Nat /\ ReadBuf \in Nat
      /\ handled \in Seq(Cells) /\ IsStream(parse_stream)
  BY ConnectionAssumption, LenProperties DEF Conveyed, TypeOK
<1>1. IsStream(parse_stream') /\ net_in' \in Seq(Cells) /\ WireIn'
  <2>1. CASE UNCHANGED <<parse_stream, net_in>>
    BY <1>0, <2>1, WireInKept DEF Read, Conveyed, srv
  <2>2. ASSUME NEW n \in Nat, n <= Len(net_in),
               parse_stream' = Written(parse_stream, Front(net_in, n)),
               net_in' = Back(net_in, n)
        PROVE  IsStream(parse_stream') /\ net_in' \in Seq(Cells) /\ WireIn'
    <3>1. Front(net_in, n) \in Seq(Cells) /\ net_in' \in Seq(Cells)
      BY <1>0, <2>2, CutFacts
    <3>2. /\ Data(parse_stream) \in Seq(Cells) /\ IsStream(parse_stream')
          /\ Data(parse_stream') = Cat(Data(parse_stream), Front(net_in, n))
      BY <1>0, <2>2, <3>1, StreamFacts
    <3>3. Cat(Cat(handled, Data(parse_stream')), net_in') =
            Cat(Cat(handled, Data(parse_stream)), net_in)
      BY <1>0, <2>2, <3>2, Move
    <3>4. handled' = handled /\ srv_out' = srv_out /\ said' = said
      BY DEF Read, srv
    <3>5. WireIn'
      BY <3>3, <3>4, Wires, WiresNext DEF Conveyed
    <3> QED BY <3>1, <3>2, <3>5
  <2>3. \/ UNCHANGED <<parse_stream, net_in>>
        \/ \E n \in Nat : /\ n <= Len(net_in)
                          /\ parse_stream' = Written(parse_stream, Front(net_in, n))
                          /\ net_in' = Back(net_in, n)
    <3> DEFINE n == IF Len(net_in) < ReadBuf THEN Len(net_in) ELSE ReadBuf
    <3>1. n \in Nat /\ n <= Len(net_in)
      BY <1>0
    <3>2. \/ UNCHANGED <<parse_stream, net_in>>
          \/ /\ parse_stream' = Written(parse_stream, Front(net_in, n))
             /\ net_in' = Back(net_in, n)
      BY DEF Read, Front, Back
    <3> QED BY <3>1, <3>2
  <2> QED BY <2>1, <2>2, <2>3
<1>2. StreamsOK'
  BY <1>1 DEF Read, Conveyed, TypeOK, StreamsOK, slt
<1>3. TypeOK'
  BY <1>1, <1>2 DEF Read, Conveyed, TypeOK, StreamsOK, slt, srv
<1>4. WireOut'
  BY WireOutKept DEF Read, Conveyed, slt, srv
<1> QED BY <1>1, <1>3, <1>4 DEF Read, Conveyed

\* on_read takes a frame from the parse stream, which may queue a password.
LEMMA ParseConveyed == Conveyed /\ Parse => Conveyed'
<1> SUFFICES ASSUME Conveyed, Parse PROVE Conveyed'
  OBVIOUS
<1>1. /\ IsStream(parse_stream) /\ Data(parse_stream) \in Seq(Cells)
      /\ handled \in Seq(Cells) /\ TypeOK
  BY StreamFacts DEF Conveyed, TypeOK
<1>2. /\ IsStream(parse_stream') /\ handled' \in Seq(Cells)
      /\ Cat(handled', Data(parse_stream')) = Cat(handled, Data(parse_stream))
  <2>1. CASE UNCHANGED <<parse_stream, handled>>
    BY <1>1, <2>1
  <2>2. ASSUME NEW n \in Nat, n <= Len(Data(parse_stream)),
               parse_stream' = MarkedRead(parse_stream, n),
               handled' = Cat(handled, Front(Data(parse_stream), n))
        PROVE  /\ IsStream(parse_stream') /\ handled' \in Seq(Cells)
               /\ Cat(handled', Data(parse_stream')) = Cat(handled, Data(parse_stream))
    <3>1. /\ IsStream(parse_stream')
          /\ Data(parse_stream') = Back(Data(parse_stream), n)
      BY <1>1, <2>2, StreamFacts
    <3>2. handled' \in Seq(Cells)
      BY <1>1, <2>2, CutFacts, CatFacts
    <3> QED BY <1>1, <2>2, <3>1, <3>2, Move
  <2>3. \/ UNCHANGED <<parse_stream, handled>>
        \/ \E n \in Nat : /\ n <= Len(Data(parse_stream))
                          /\ parse_stream' = MarkedRead(parse_stream, n)
                          /\ handled' = Cat(handled, Front(Data(parse_stream), n))
    <3>1. CASE TryReadFrame(Data(parse_stream)) = NoFrame
      BY <3>1 DEF Parse
    <3>2. CASE TryReadFrame(Data(parse_stream)) # NoFrame
      <4> DEFINE n == TryReadFrame(Data(parse_stream)).len
      <4>1. n \in Nat /\ n <= Len(Data(parse_stream))
        BY <1>1, <3>2, TryReadFrameLen
      <4>2. /\ parse_stream' = MarkedRead(parse_stream, n)
            /\ handled' = Cat(handled, Front(Data(parse_stream), n))
        BY <3>2 DEF Parse, Cat, Front
      <4> QED BY <4>1, <4>2
    <3> QED BY <3>1, <3>2
  <2> QED BY <2>1, <2>2, <2>3
<1>3. WireIn'
  <2>1. net_in' = net_in /\ srv_out' = srv_out /\ said' = said
    BY DEF Parse, net, srv
  <2> QED BY <1>2, <2>1, Wires, WiresNext DEF Conveyed
<1>4. /\ IsStream(outbox') /\ queued' \in Seq(Cells) /\ frames' \in Seq(Tags)
      /\ WireOut'
  <2>1. CASE SendFrame("pass")
    BY <2>1, SendFrameWire DEF Parse, Conveyed, Tags, ToServer, srv, net, slt
  <2>2. CASE UNCHANGED <<outbox, queued, frames>>
    BY <2>2, WireOutKept DEF Parse, Conveyed, TypeOK, srv, net, slt
  <2> QED BY <2>1, <2>2 DEF Parse, HandleFrame, HandleAuth
<1>5. StreamsOK'
  BY <1>1, <1>2, <1>4 DEF Parse, TypeOK, StreamsOK, slt
<1>6. /\ lpc' \in {"read", "parse", "flush"} /\ rfq' \in BOOLEAN
      /\ state' \in {"Connecting", "Normal", "Dead"}
  BY <1>1 DEF Parse, HandleFrame, HandleAuth, AfterChunk, TypeOK
<1>7. TypeOK'
  BY <1>1, <1>2, <1>4, <1>5, <1>6 DEF Parse, TypeOK, StreamsOK, slt, net, srv
<1> QED BY <1>3, <1>4, <1>6, <1>7 DEF Conveyed

\* flush_conn moves the outbox to the write stream.
LEMMA FlushConveyed == Conveyed /\ Flush => Conveyed'
<1> SUFFICES ASSUME Conveyed, Flush PROVE Conveyed'
  OBVIOUS
<1>1. /\ IsStream(write_stream) /\ IsStream(outbox) /\ rcvd \in Seq(Cells)
      /\ net_out \in Seq(Cells)
      /\ Data(write_stream) \in Seq(Cells) /\ Data(outbox) \in Seq(Cells)
  BY StreamFacts DEF Conveyed, TypeOK
<1>2. /\ IsStream(write_stream') /\ IsStream(outbox')
      /\ Data(write_stream') = Cat(Data(write_stream), Data(outbox))
      /\ Data(outbox') = <<>>
  BY <1>1, StreamFacts DEF Flush
<1>3. WireOut'
  <2>1. PICK before : before = Cat(rcvd, net_out)
    OBVIOUS
  <2>2. before \in Seq(Cells)
    BY <1>1, <2>1, CatFacts
  <2>3. Cat(before, Data(write_stream')) = Cat(Cat(before, Data(write_stream)), Data(outbox))
    BY <1>1, <1>2, <2>2, CatFacts
  <2>4. Cat(Cat(before, Data(write_stream')), <<>>) = Cat(before, Data(write_stream'))
    BY <1>1, <1>2, <2>2, CatFacts
  <2>5. rcvd' = rcvd /\ net_out' = net_out /\ queued' = queued
    BY DEF Flush, net, srv
  <2> QED BY <1>2, <2>1, <2>3, <2>4, <2>5, Wires, WiresNext DEF Conveyed
<1>4. WireIn'
  BY WireInKept DEF Flush, Conveyed, net, srv
<1>5. StreamsOK'
  BY <1>2 DEF Flush, Conveyed, TypeOK, StreamsOK
<1>6. TypeOK'
  BY <1>5 DEF Flush, Conveyed, TypeOK, StreamsOK, net, srv
<1> QED BY <1>3, <1>4, <1>6 DEF Flush, Conveyed

\* A write moves bytes from the write stream to the socket.
LEMMA WriteConveyed == Conveyed /\ Write => Conveyed'
<1> SUFFICES ASSUME Conveyed, Write PROVE Conveyed'
  OBVIOUS
<1>1. /\ IsStream(write_stream) /\ rcvd \in Seq(Cells) /\ net_out \in Seq(Cells)
      /\ Data(write_stream) \in Seq(Cells) /\ TypeOK
      /\ Len(Data(write_stream)) \in Nat /\ Len(net_out) \in Nat
  BY StreamFacts, LenProperties DEF Conveyed, TypeOK
<1>2. /\ IsStream(write_stream') /\ net_out' \in Seq(Cells) /\ WireOut'
  <2>0. rcvd' = rcvd /\ outbox' = outbox /\ queued' = queued
    BY DEF Write, srv
  <2>1. CASE UNCHANGED <<write_stream, net_out>>
    BY <1>1, <2>0, <2>1, WireOutKept DEF Conveyed
  <2>2. ASSUME NEW n \in Nat, n <= Len(Data(write_stream)),
               write_stream' = MarkedRead(write_stream, n),
               net_out' = Cat(net_out, Front(Data(write_stream), n))
        PROVE  /\ IsStream(write_stream') /\ net_out' \in Seq(Cells) /\ WireOut'
    <3>1. /\ IsStream(write_stream')
          /\ Data(write_stream') = Back(Data(write_stream), n)
      BY <1>1, <2>2, StreamFacts
    <3>2. net_out' \in Seq(Cells)
      BY <1>1, <2>2, CutFacts, CatFacts
    <3>3. Cat(Cat(rcvd, net_out'), Data(write_stream')) =
            Cat(Cat(rcvd, net_out), Data(write_stream))
      BY <1>1, <2>2, <3>1, Move
    <3>4. WireOut'
      BY <2>0, <3>3, Wires, WiresNext DEF Conveyed
    <3> QED BY <3>1, <3>2, <3>4
  <2>3. \/ UNCHANGED <<write_stream, net_out>>
        \/ \E n \in Nat : /\ n <= Len(Data(write_stream))
                          /\ write_stream' = MarkedRead(write_stream, n)
                          /\ net_out' = Cat(net_out, Front(Data(write_stream), n))
    <3> DEFINE space == NetCap - Len(net_out)
               n == IF Len(Data(write_stream)) < space THEN Len(Data(write_stream))
                    ELSE space
    <3>1. CASE UNCHANGED <<write_stream, net_out>>
      BY <3>1
    <3>2. CASE /\ space > 0
               /\ net_out' = net_out \o SubSeq(Data(write_stream), 1, n)
               /\ write_stream' = MarkedRead(write_stream, n)
      <4>1. n \in Nat /\ n <= Len(Data(write_stream))
        BY <1>1, <3>2, ConnectionAssumption
      <4>2. net_out' = Cat(net_out, Front(Data(write_stream), n))
        BY <3>2 DEF Cat, Front
      <4> QED BY <3>2, <4>1, <4>2
    <3> QED BY <3>1, <3>2 DEF Write
  <2> QED BY <2>1, <2>2, <2>3
<1>3. StreamsOK'
  BY <1>1, <1>2 DEF Write, TypeOK, StreamsOK
<1>4. nospace' \in BOOLEAN /\ state' \in {"Connecting", "Normal", "Dead"}
      /\ lpc' \in {"write", "done"}
  BY <1>1 DEF Write, TypeOK
<1>5. TypeOK'
  BY <1>1, <1>2, <1>3, <1>4 DEF Write, TypeOK, StreamsOK, srv
<1>6. WireIn'
  BY WireInKept DEF Write, Conveyed, srv
<1> QED BY <1>2, <1>4, <1>5, <1>6 DEF Conveyed

\* A client that has died gives up its slot.
LEMMA DoneConveyed == Conveyed /\ Done => Conveyed'
<1> SUFFICES ASSUME Conveyed, Done PROVE Conveyed'
  OBVIOUS
<1>1. StreamsOK'
  BY DEF Done, Conveyed, TypeOK, StreamsOK
<1>2. awaiting' \in BOOLEAN /\ rfq' \in BOOLEAN
  BY DEF Done, Conveyed, TypeOK
<1>3. /\ conn' \in {"none", "open", "dropped"} /\ lpc' = "poll"
      /\ tcp' \in {"closed", "opening", "open", "refused", "reset"}
  BY DEF Done, DropSlot, Conveyed, TypeOK
<1>4. TypeOK'
  <2>1. UNCHANGED <<cmd, connected, state, sent_terminate, net_in, net_out, edge,
                    nospace, fin, srv, queued, frames, handled, cmds>>
    BY DEF Done
  <2> QED BY <1>1, <1>2, <1>3, <2>1 DEF Conveyed, TypeOK, StreamsOK, srv
<1>5. WireIn' /\ WireOut'
  BY WireInKept, WireOutKept DEF Done, Conveyed, srv
<1> QED BY <1>4, <1>5 DEF Done, DropSlot, Conveyed

\* execute queues a frame, or nothing.
LEMMA ExecuteConveyed ==
  ASSUME Conveyed, NEW kind \in Kinds, Execute(kind)
  PROVE  Conveyed'
<1>1. /\ IsStream(outbox') /\ queued' \in Seq(Cells) /\ frames' \in Seq(Tags)
      /\ WireOut'
  <2>1. ASSUME NEW tag \in Tags, SendFrame(tag)
        PROVE  /\ IsStream(outbox') /\ queued' \in Seq(Cells) /\ frames' \in Seq(Tags)
               /\ WireOut'
    BY <2>1, SendFrameWire DEF Execute, Conveyed, srv, net, slt
  <2>2. CASE UNCHANGED <<outbox, queued, frames>>
    BY <2>2, WireOutKept DEF Execute, Conveyed, TypeOK, srv, net, slt
  <2>3. kind \in Tags \cup {"end"} /\ "term" \in Tags
    BY DEF Kinds, Tags, ToServer
  <2> QED BY <2>1, <2>2, <2>3 DEF Execute, ReplayFrame
<1>2. sent_terminate' \in BOOLEAN
  BY DEF Execute, ReplayFrame, Conveyed, TypeOK
<1>3. StreamsOK'
  BY <1>1 DEF Execute, Conveyed, TypeOK, StreamsOK, slt
<1>4. TypeOK'
  BY <1>1, <1>2, <1>3 DEF Execute, Conveyed, TypeOK, StreamsOK, slt, net, srv
<1>5. WireIn'
  BY WireInKept DEF Execute, Conveyed, net, srv
<1> QED BY <1>1, <1>4, <1>5 DEF Execute, Conveyed

\* The kernel and the server.
LEMMA NetworkConveyed ==
  Conveyed /\ (Establish \/ Spurious \/ ServerTake \/ ServerClose \/ ServerDrop \/ Reset) => Conveyed'
<1> SUFFICES ASSUME Conveyed,
                    Establish \/ Spurious \/ ServerTake \/ ServerClose \/ ServerDrop \/ Reset
             PROVE  Conveyed'
  OBVIOUS
<1>1. UNCHANGED <<parse_stream, outbox, write_stream, net_in, net_out, srv_out, queued, frames,
                  handled, rcvd, said, conn, lpc, state, cmd, connected, awaiting,
                  sent_terminate, rfq, nospace, cmds>>
  BY DEF Establish, Spurious, ServerTake, ServerClose, ServerDrop, Close, Reset, ctl, cli, slt, net, srv
<1>2. WireIn' /\ WireOut'
  BY <1>1, WireInKept, WireOutKept DEF Conveyed
<1>3. StreamsOK'
  BY <1>1 DEF Conveyed, TypeOK, StreamsOK
<1>4. srv_in' \in Seq(Cells)
  <2>1. CASE ServerTake
    <3>1. srv_in \in Seq(Cells) /\ srv_in # <<>> /\ FrameLen(srv_in[1][1]) <= Len(srv_in)
      BY <2>1, LenProperties DEF ServerTake, Conveyed, TypeOK
    <3>2. 1 \in 1 .. Len(srv_in)
      BY <3>1, EmptySeq
    <3>3. FrameLen(srv_in[1][1]) \in Nat
      BY <3>1, <3>2, ElementOfSeq, FrameType DEF Cells
    <3> QED BY <2>1, <3>1, <3>3, Cut DEF ServerTake
  <2>2. CASE ~ServerTake
    BY <2>2 DEF Establish, Spurious, ServerClose, ServerDrop, Close, Reset, srv, Conveyed, TypeOK
  <2> QED BY <2>1, <2>2
<1>5. /\ tcp' \in {"closed", "opening", "open", "refused", "reset"}
      /\ edge' \in BOOLEAN /\ fin' \in BOOLEAN
  BY DEF Establish, Spurious, ServerTake, ServerClose, ServerDrop, Close, Reset, Conveyed, TypeOK, net
<1>6. spc' \in {"startup", "auth", "password", "verify", "starting", "ready", "busy",
                "closing", "closed", "confused"}
  BY DEF Establish, Spurious, ServerTake, Taken, ServerClose, ServerDrop, Close, Reset, Conveyed, TypeOK, srv
<1>7. TypeOK'
  BY <1>1, <1>3, <1>4, <1>5, <1>6 DEF Conveyed, TypeOK, StreamsOK
<1> QED BY <1>1, <1>2, <1>7 DEF Conveyed

\* The server reads all there is in the socket.
LEMMA ServerRecvConveyed == Conveyed /\ ServerRecv => Conveyed'
<1> SUFFICES ASSUME Conveyed, ServerRecv PROVE Conveyed'
  OBVIOUS
<1>1. /\ rcvd \in Seq(Cells) /\ net_out \in Seq(Cells) /\ srv_in \in Seq(Cells)
  BY DEF Conveyed, TypeOK
<1>2. rcvd' = Cat(rcvd, net_out) /\ srv_in' = Cat(srv_in, net_out) /\ net_out' = <<>>
  BY DEF ServerRecv, Cat
<1>3. /\ rcvd' \in Seq(Cells) /\ srv_in' \in Seq(Cells) /\ net_out' \in Seq(Cells)
      /\ Cat(rcvd', net_out') = Cat(rcvd, net_out)
  BY <1>1, <1>2, CatFacts
<1>4. WireOut'
  <2>1. write_stream' = write_stream /\ outbox' = outbox /\ queued' = queued
    BY DEF ServerRecv, slt, cli
  <2> QED BY <1>3, <2>1, Wires, WiresNext DEF Conveyed
<1>5. WireIn'
  BY WireInKept DEF ServerRecv, Conveyed, cli
<1>6. StreamsOK'
  BY DEF ServerRecv, Conveyed, TypeOK, StreamsOK, slt, cli
<1>7. edge' \in BOOLEAN
  BY DEF ServerRecv, Conveyed, TypeOK
<1>8. /\ connected' \in BOOLEAN /\ awaiting' \in BOOLEAN
      /\ sent_terminate' \in BOOLEAN /\ rfq' \in BOOLEAN
      /\ nospace' \in BOOLEAN /\ fin' \in BOOLEAN
  BY DEF ServerRecv, Conveyed, TypeOK, cli, slt
<1>9. TypeOK'
  BY <1>3, <1>6, <1>7, <1>8 DEF ServerRecv, Conveyed, TypeOK, StreamsOK, ctl, cli, slt
<1> QED BY <1>4, <1>5, <1>9 DEF ServerRecv, Conveyed, ctl, cli

\* What the server says goes to its own buffer.
LEMMA SayConveyed ==
  ASSUME Conveyed, NEW tag \in Tags,
         NEW to \in {"password", "closing", "starting", "ready", "busy"}, Say(tag, to)
  PROVE  Conveyed'
<1>1. /\ handled \in Seq(Cells) /\ net_in \in Seq(Cells) /\ srv_out \in Seq(Cells)
      /\ said \in Seq(Cells) /\ Data(parse_stream) \in Seq(Cells)
      /\ Frame(tag) \in Seq(Cells)
  BY StreamFacts, FrameType DEF Conveyed, TypeOK
<1>2. srv_out' = Cat(srv_out, Frame(tag)) /\ said' = Cat(said, Frame(tag))
  BY DEF Say, Cat
<1>3. srv_out' \in Seq(Cells) /\ said' \in Seq(Cells)
  BY <1>1, <1>2, CatFacts
<1>4. WireIn'
  <2>1. PICK before : before = Cat(Cat(handled, Data(parse_stream)), net_in)
    OBVIOUS
  <2>2. before \in Seq(Cells)
    BY <1>1, <2>1, CatFacts
  <2>3. Cat(before, srv_out') = Cat(Cat(before, srv_out), Frame(tag))
    BY <1>1, <1>2, <2>2, CatFacts
  <2>4. handled' = handled /\ parse_stream' = parse_stream /\ net_in' = net_in
    BY DEF Say, cli, net
  <2> QED BY <1>2, <2>1, <2>3, <2>4, Wires, WiresNext DEF Conveyed
<1>5. WireOut'
  BY WireOutKept DEF Say, Conveyed, cli, slt, net
<1>6. StreamsOK'
  BY DEF Say, Conveyed, TypeOK, StreamsOK, slt, cli
<1>7. TypeOK'
  BY <1>3, <1>6 DEF Say, Conveyed, TypeOK, StreamsOK, ctl, cli, slt, net
<1> QED BY <1>4, <1>5, <1>7 DEF Say, Conveyed, ctl, cli

\* The server moves bytes from its buffer to the socket.
LEMMA ServerSendConveyed == Conveyed /\ ServerSend => Conveyed'
<1> SUFFICES ASSUME Conveyed, ServerSend PROVE Conveyed'
  OBVIOUS
<1>1. /\ handled \in Seq(Cells) /\ net_in \in Seq(Cells) /\ srv_out \in Seq(Cells)
      /\ Data(parse_stream) \in Seq(Cells) /\ Len(net_in) \in Nat
  BY StreamFacts, LenProperties DEF Conveyed, TypeOK
<1>2. PICK n \in 1 .. NetCap - Len(net_in) :
        /\ n <= Len(srv_out)
        /\ net_in' = net_in \o SubSeq(srv_out, 1, n)
        /\ srv_out' = SubSeq(srv_out, n + 1, Len(srv_out))
  BY DEF ServerSend
<1>3. n \in Nat /\ n <= Len(srv_out)
  BY <1>1, <1>2, ConnectionAssumption
<1>4. net_in' = Cat(net_in, Front(srv_out, n)) /\ srv_out' = Back(srv_out, n)
  BY <1>2 DEF Cat, Front, Back
<1>5. net_in' \in Seq(Cells) /\ srv_out' \in Seq(Cells)
  BY <1>1, <1>3, <1>4, CutFacts, CatFacts
<1>6. WireIn'
  <2>1. PICK before : before = Cat(handled, Data(parse_stream))
    OBVIOUS
  <2>2. before \in Seq(Cells)
    BY <1>1, <2>1, CatFacts
  <2>3. Cat(Cat(before, net_in'), srv_out') = Cat(Cat(before, net_in), srv_out)
    BY <1>1, <1>3, <1>4, <2>2, Move
  <2>4. handled' = handled /\ parse_stream' = parse_stream /\ said' = said
    BY DEF ServerSend, cli
  <2> QED BY <2>1, <2>3, <2>4, Wires, WiresNext DEF Conveyed
<1>7. WireOut'
  BY WireOutKept DEF ServerSend, Conveyed, cli, slt
<1>8. StreamsOK'
  BY DEF ServerSend, Conveyed, TypeOK, StreamsOK, slt, cli
<1>9. tcp' \in {"closed", "opening", "open", "refused", "reset"}
  BY DEF ServerSend, Conveyed, TypeOK
<1>10. TypeOK'
  BY <1>5, <1>8, <1>9 DEF ServerSend, Conveyed, TypeOK, StreamsOK, ctl, cli, slt
<1> QED BY <1>6, <1>7, <1>10 DEF ServerSend, Conveyed, ctl, cli

\* The invariant is inductive.
LEMMA NextConveyed == Conveyed /\ [Next]_vars => Conveyed'
<1> SUFFICES ASSUME Conveyed, [Next]_vars PROVE Conveyed'
  OBVIOUS
<1>1. CASE Loop
  BY <1>1, ConnectConveyed, EventConveyed, ReadConveyed, ParseConveyed, FlushConveyed,
     WriteConveyed, DoneConveyed DEF Loop
<1>2. ASSUME NEW kind \in Kinds, Execute(kind) PROVE Conveyed'
  BY <1>2, ExecuteConveyed
<1>3. CASE Environment
  <2>1. CASE ServerSay \/ ServerTell
    <3>1. \E tag \in Tags, to \in {"password", "closing", "starting", "ready", "busy"} :
            Say(tag, to)
      BY <2>1 DEF ServerSay, ServerTell, Tags, ToClient
    <3> QED BY <3>1, SayConveyed
  <2> QED BY <1>3, <2>1, NetworkConveyed, ServerRecvConveyed, ServerSendConveyed
          DEF Environment
<1>4. CASE UNCHANGED vars
  <2>1. UNCHANGED <<parse_stream, outbox, write_stream, net_in, net_out, srv_out, queued, frames,
                    handled, rcvd, said, conn, lpc, state, cmd, connected, awaiting,
                    sent_terminate, rfq, nospace, srv_in, tcp, edge, fin, spc, cmds>>
    BY <1>4 DEF vars, ctl, cli, slt, net, srv
  <2>2. WireIn' /\ WireOut'
    BY <2>1, WireInKept, WireOutKept DEF Conveyed
  <2>3. StreamsOK'
    BY <2>1 DEF Conveyed, TypeOK, StreamsOK
  <2>4. TypeOK'
    BY <2>1, <2>3 DEF Conveyed, TypeOK, StreamsOK
  <2> QED BY <2>1, <2>2, <2>4 DEF Conveyed
<1> QED BY <1>1, <1>2, <1>3, <1>4 DEF Next

\* Every byte replayed reaches the server once and in order, every byte the server
\* says is handled once and in order, and no dead client keeps its slot: whatever
\* the frames, the buffers' sizes and the failures.
THEOREM ConnectionConveys == Spec => []Conveyed
<1>1. Init => Conveyed
  BY InitConveyed
<1>2. Conveyed /\ [Next]_vars => Conveyed'
  BY NextConveyed
<1> QED BY <1>1, <1>2, PTL DEF Spec

----------------------------------------------------------------------------
(* Whole frames.                                                           *)

\* Cell i of s is a byte of a frame that lies in s as a whole, after o cells.
InFrame(s, i) ==
  \E o \in Nat, tag \in Tags :
    /\ o < i /\ i <= o + FrameLen(tag) /\ o + FrameLen(tag) <= Len(s)
    /\ \A n \in 1 .. FrameLen(tag) : s[o + n] = <<tag, n>>

\* A frame begins with cell i if the one before has ended.
Begins(s, i) == (i = 1 \/ s[i - 1][2] = FrameLen(s[i - 1][1])) => s[i][2] = 1

\* A sequence of frames, one after the other.
Frames(s) == \A i \in 1 .. Len(s) : InFrame(s, i) /\ Begins(s, i)

\* What the server says are frames, and what is handled ends with one.
FramesInv == Conveyed /\ Frames(said) /\ Framed

\* The elements of a concatenation.
LEMMA CatElements ==
  ASSUME NEW s \in Seq(Cells), NEW t \in Seq(Cells)
  PROVE  /\ s \o t \in Seq(Cells) /\ Len(s \o t) = Len(s) + Len(t)
         /\ \A i \in 1 .. Len(s) : (s \o t)[i] = s[i]
         /\ \A i \in 1 .. Len(t) : (s \o t)[Len(s) + i] = t[i]
OBVIOUS

\* A frame has at least its header.
LEMMA FrameElements ==
  ASSUME NEW tag \in Tags
  PROVE  /\ FrameLen(tag) \in Nat \ {0} /\ FrameLen(tag) >= HeaderLen
         /\ Frame(tag) \in Seq(Cells) /\ Len(Frame(tag)) = FrameLen(tag)
         /\ \A k \in 1 .. FrameLen(tag) : Frame(tag)[k] = <<tag, k>>
<1>1. FrameLen(tag) \in Nat \ {0} /\ FrameLen(tag) >= HeaderLen
  BY ConnectionAssumption DEF FrameLen
<1>2. Frame(tag) \in Seq(Cells)
  BY FrameType
<1>3. Len(Frame(tag)) = FrameLen(tag)
  BY <1>1, <1>2, LenProperties DEF Frame
<1>4. \A k \in 1 .. FrameLen(tag) : Frame(tag)[k] = <<tag, k>>
  BY DEF Frame
<1> QED
  BY <1>1, <1>2, <1>3, <1>4

\* What is said next is a frame too.
LEMMA FramesSaid ==
  ASSUME NEW s \in Seq(Cells), Frames(s), NEW tag \in Tags
  PROVE  Frames(s \o Frame(tag))
<1> DEFINE size == FrameLen(tag)
           f == Frame(tag)
           u == s \o f
<1>a. /\ f \in Seq(Cells) /\ Len(f) = size /\ size \in Nat \ {0}
      /\ \A k \in 1 .. size : f[k] = <<tag, k>>
  BY FrameElements
<1> HIDE DEF f, size
<1>b. f \in Seq(Cells) /\ Len(f) = size /\ Len(s) \in Nat
  BY <1>a, LenProperties
<1>c. Len(u) = Len(s) + size
  BY <1>b, CatElements
<1>d. \A i \in 1 .. Len(s) : u[i] = s[i]
  BY <1>b, CatElements
<1>e. \A k \in 1 .. size : u[Len(s) + k] = f[k]
  BY <1>b, CatElements
<1> HIDE DEF u
<1>f. \A k \in 1 .. size : u[Len(s) + k] = <<tag, k>>
  BY <1>a, <1>e
<1> USE DEF size
<1>1. /\ size \in Nat \ {0} /\ Len(s) \in Nat /\ Len(u) = Len(s) + size
      /\ \A i \in 1 .. Len(s) : u[i] = s[i]
      /\ \A k \in 1 .. size : u[Len(s) + k] = <<tag, k>>
  BY <1>a, <1>b, <1>c, <1>d, <1>f
<1>2. \A i \in 1 .. Len(s) : s[i][1] \in Tags
  BY ElementOfSeq DEF Cells
<1>3. ASSUME NEW i \in 1 .. Len(s)
      PROVE  InFrame(u, i) /\ Begins(u, i)
  <2>1. InFrame(s, i) /\ Begins(s, i) /\ u[i] = s[i]
    BY <1>1 DEF Frames
  <2>2. PICK o \in Nat, t \in Tags :
          /\ o < i /\ i <= o + FrameLen(t) /\ o + FrameLen(t) <= Len(s)
          /\ \A n \in 1 .. FrameLen(t) : s[o + n] = <<t, n>>
    BY <2>1 DEF InFrame
  <2>3. FrameLen(t) \in Nat
    BY FrameElements
  <2>4. \A n \in 1 .. FrameLen(t) : o + n \in 1 .. Len(s)
    BY <1>1, <2>2, <2>3
  <2>5. \A n \in 1 .. FrameLen(t) : u[o + n] = <<t, n>>
    BY <1>1, <2>2, <2>4
  <2>6. o + FrameLen(t) <= Len(u)
    BY <1>1, <2>2, <2>3
  <2>7. InFrame(u, i)
    BY <2>2, <2>5, <2>6 DEF InFrame
  <2>8. i = 1 \/ i - 1 \in 1 .. Len(s)
    BY <1>1
  <2>9. Begins(u, i)
    BY <1>1, <2>1, <2>8 DEF Begins
  <2> QED
    BY <2>7, <2>9
<1>4. ASSUME NEW k \in 1 .. size
      PROVE  InFrame(u, Len(s) + k) /\ Begins(u, Len(s) + k)
  <2>1. u[Len(s) + k] = <<tag, k>>
    BY <1>1
  <2>2. Len(s) < Len(s) + k /\ Len(s) + k <= Len(s) + size /\ Len(s) + size <= Len(u)
    BY <1>1
  <2>3. InFrame(u, Len(s) + k)
    BY <1>1, <2>2 DEF InFrame
  <2>4. CASE k = 1
    <3>1. u[Len(s) + k][2] = 1
      BY <2>1, <2>4
    <3> QED
      BY <3>1, <2>3 DEF Begins
  <2>5. CASE k # 1
    <3>1. k - 1 \in 1 .. size /\ Len(s) + k - 1 = Len(s) + (k - 1) /\ Len(s) + k # 1
      BY <1>1, <2>5
    <3>2. u[Len(s) + k - 1] = <<tag, k - 1>>
      BY <1>1, <3>1
    <3>3. k - 1 # size
      BY <1>1
    <3>4. ~(u[Len(s) + k - 1][2] = FrameLen(u[Len(s) + k - 1][1]))
      BY <3>2, <3>3
    <3> QED
      BY <2>3, <3>1, <3>4 DEF Begins
  <2> QED
    BY <2>3, <2>4, <2>5
<1>5. \A i \in 1 .. Len(u) : i \in 1 .. Len(s) \/ \E k \in 1 .. size : i = Len(s) + k
  <2> SUFFICES ASSUME NEW i \in 1 .. Len(u), i \notin 1 .. Len(s)
               PROVE  \E k \in 1 .. size : i = Len(s) + k
    OBVIOUS
  <2>1. i - Len(s) \in 1 .. size /\ i = Len(s) + (i - Len(s))
    BY <1>1
  <2> QED
    BY <2>1
<1>6. Frames(u)
  BY <1>3, <1>4, <1>5 DEF Frames
<1> QED
  BY <1>6 DEF u, f

\* What try_read_frame finds behind the frames handled so far is the next frame.
LEMMA NextFrame ==
  ASSUME NEW s \in Seq(Cells), Frames(s), NEW h \in Nat, NEW buf \in Seq(Cells),
         h + Len(buf) <= Len(s), h # 0 => s[h][2] = FrameLen(s[h][1]),
         \A i \in 1 .. Len(buf) : buf[i] = s[h + i],
         TryReadFrame(buf) # NoFrame
  PROVE  LET n == TryReadFrame(buf).len IN
         n \in 1 .. Len(buf) /\ buf[n][2] = FrameLen(buf[n][1])
<1>1. /\ HeaderLen \in Nat \ {0} /\ Len(buf) \in Nat /\ Len(s) \in Nat
      /\ HeaderLen <= Len(buf)
  <2>1. ~(Len(buf) < HeaderLen)
    BY DEF TryReadFrame
  <2> QED
    BY <2>1, ConnectionAssumption, LenProperties
<1>2. h + 1 \in 1 .. Len(s) /\ h + 1 - 1 = h
  BY <1>1
<1>3. InFrame(s, h + 1) /\ s[h + 1][2] = 1
  <2>1. InFrame(s, h + 1) /\ Begins(s, h + 1)
    BY <1>2 DEF Frames
  <2> QED
    BY <1>2, <2>1 DEF Begins
<1>4. PICK o \in Nat, tag \in Tags :
        /\ o < h + 1 /\ h + 1 <= o + FrameLen(tag) /\ o + FrameLen(tag) <= Len(s)
        /\ \A n \in 1 .. FrameLen(tag) : s[o + n] = <<tag, n>>
  BY <1>3 DEF InFrame
<1>5. FrameLen(tag) \in Nat \ {0} /\ HeaderLen <= FrameLen(tag)
  BY FrameElements
<1>6. \A n \in 1 .. FrameLen(tag) : s[h + n] = <<tag, n>>
  <2>1. h + 1 - o \in 1 .. FrameLen(tag) /\ o + (h + 1 - o) = h + 1
    BY <1>4, <1>5
  <2>2. s[h + 1] = <<tag, h + 1 - o>>
    BY <1>4, <2>1
  <2>3. h + 1 - o = 1
    BY <1>3, <2>2
  <2>4. o = h
    BY <2>3
  <2> QED
    BY <1>4, <2>4
<1>7. buf[HeaderLen] = <<tag, HeaderLen>>
  BY <1>1, <1>5, <1>6
<1>8. TryReadFrame(buf).len = FrameLen(tag) /\ FrameLen(tag) <= Len(buf)
  <2>1. buf[HeaderLen][1] = tag
    BY <1>7
  <2>2. ~(Len(buf) < FrameLen(tag))
    BY <1>1, <2>1 DEF TryReadFrame
  <2> QED
    BY <1>1, <1>5, <2>1, <2>2 DEF TryReadFrame
<1>9. buf[FrameLen(tag)] = <<tag, FrameLen(tag)>>
  <2>1. FrameLen(tag) \in 1 .. FrameLen(tag) /\ FrameLen(tag) \in 1 .. Len(buf)
    BY <1>1, <1>5, <1>8
  <2> QED
    BY <1>6, <2>1
<1> QED
  <2>1. buf[FrameLen(tag)][2] = FrameLen(buf[FrameLen(tag)][1])
    BY <1>9
  <2>2. FrameLen(tag) \in 1 .. Len(buf)
    BY <1>1, <1>5, <1>8
  <2> QED
    BY <1>8, <2>1, <2>2

\* What is handled and what has been read are the beginning of what was said.
LEMMA Prefix ==
  ASSUME Conveyed
  PROVE  LET buf == Data(parse_stream) IN
         /\ said \in Seq(Cells) /\ handled \in Seq(Cells) /\ buf \in Seq(Cells)
         /\ Len(handled) + Len(buf) <= Len(said)
         /\ \A i \in 1 .. Len(handled) : said[i] = handled[i]
         /\ \A i \in 1 .. Len(buf) : said[Len(handled) + i] = buf[i]
<1> DEFINE buf == Data(parse_stream)
           read == handled \o buf
           sent == read \o net_in
<1>1. /\ said \in Seq(Cells) /\ handled \in Seq(Cells) /\ buf \in Seq(Cells)
      /\ net_in \in Seq(Cells) /\ srv_out \in Seq(Cells)
  BY StreamFacts DEF Conveyed, TypeOK
<1>2. said = sent \o srv_out
  BY DEF Conveyed, WireIn
<1> HIDE DEF buf
<1>3. /\ read \in Seq(Cells) /\ Len(read) = Len(handled) + Len(buf)
      /\ \A i \in 1 .. Len(handled) : read[i] = handled[i]
      /\ \A i \in 1 .. Len(buf) : read[Len(handled) + i] = buf[i]
  BY <1>1, CatElements
<1> HIDE DEF read
<1>4. /\ sent \in Seq(Cells) /\ Len(sent) = Len(read) + Len(net_in)
      /\ \A i \in 1 .. Len(read) : sent[i] = read[i]
  BY <1>1, <1>3, CatElements
<1> HIDE DEF sent
<1>5. /\ Len(said) = Len(sent) + Len(srv_out)
      /\ \A i \in 1 .. Len(sent) : said[i] = sent[i]
  BY <1>1, <1>2, <1>4, CatElements
<1>6. /\ Len(handled) \in Nat /\ Len(buf) \in Nat /\ Len(net_in) \in Nat
      /\ Len(srv_out) \in Nat
  BY <1>1, LenProperties
<1>7. Len(handled) + Len(buf) <= Len(said)
  BY <1>3, <1>4, <1>5, <1>6
<1>8. \A i \in 1 .. Len(read) : said[i] = read[i]
  BY <1>3, <1>4, <1>5, <1>6
<1>9. \A i \in 1 .. Len(handled) : said[i] = handled[i]
  BY <1>3, <1>6, <1>8
<1>10. \A i \in 1 .. Len(buf) : said[Len(handled) + i] = buf[i]
  BY <1>3, <1>6, <1>8
<1> QED
  BY <1>1, <1>7, <1>9, <1>10 DEF buf

\* A step of the parser handles nothing or one frame.
LEMMA ParseFramed ==
  ASSUME FramesInv, Conveyed', Parse
  PROVE  FramesInv'
<1> DEFINE buf == Data(parse_stream)
           h == Len(handled)
<1>1. said' = said
  BY DEF Parse, srv
<1>2. /\ said \in Seq(Cells) /\ handled \in Seq(Cells) /\ buf \in Seq(Cells)
      /\ h + Len(buf) <= Len(said)
      /\ \A i \in 1 .. h : said[i] = handled[i]
      /\ \A i \in 1 .. Len(buf) : said[h + i] = buf[i]
  BY Prefix DEF FramesInv
<1>3. CASE TryReadFrame(buf) = NoFrame
  <2>1. handled' = handled
    BY <1>3 DEF Parse
  <2> QED
    BY <1>1, <2>1 DEF FramesInv, Framed
<1>4. CASE TryReadFrame(buf) # NoFrame
  <2> DEFINE n == TryReadFrame(buf).len
             front == SubSeq(buf, 1, n)
  <2>1. handled' = handled \o front
    BY <1>4 DEF Parse
  <2>2. h \in Nat /\ Len(buf) \in Nat
    BY <1>2, LenProperties
  <2>3. h # 0 => said[h][2] = FrameLen(said[h][1])
    BY <1>2, <2>2 DEF FramesInv, Framed
  <2>4. n \in 1 .. Len(buf) /\ buf[n][2] = FrameLen(buf[n][1])
    BY <1>2, <1>4, <2>2, <2>3, NextFrame DEF FramesInv
  <2> HIDE DEF n, buf
  <2>5. front \in Seq(Cells) /\ Len(front) = n /\ front[n] = buf[n]
    BY <1>2, <2>2, <2>4
  <2> HIDE DEF front
  <2>6. Len(handled') = h + n /\ handled'[h + n] = buf[n]
    <3>1. Len(handled') = h + Len(front)
      BY <1>2, <2>1, <2>5, CatElements
    <3>2. \A i \in 1 .. Len(front) : handled'[h + i] = front[i]
      BY <1>2, <2>1, <2>5, CatElements
    <3>3. n \in 1 .. Len(front)
      BY <2>2, <2>4, <2>5
    <3> QED
      BY <2>5, <3>1, <3>2, <3>3
  <2>7. Framed'
    BY <2>4, <2>6 DEF Framed
  <2> QED
    BY <1>1, <2>7 DEF FramesInv
<1> QED
  BY <1>3, <1>4

\* Every step handles whole frames.
LEMMA FramesStep == FramesInv /\ [Next]_vars => FramesInv'
<1> SUFFICES ASSUME FramesInv, [Next]_vars PROVE FramesInv'
  OBVIOUS
<1>1. Conveyed'
  BY NextConveyed DEF FramesInv
<1>2. CASE Parse
  BY <1>1, <1>2, ParseFramed
<1>3. ASSUME NEW tag \in Tags, NEW to, Say(tag, to) PROVE FramesInv'
  <2>1. handled' = handled /\ said' = said \o Frame(tag)
    BY <1>3 DEF Say
  <2>2. Frames(said')
    BY <2>1, FramesSaid DEF FramesInv, Conveyed, TypeOK
  <2> QED
    BY <1>1, <2>1, <2>2 DEF FramesInv, Framed
<1>4. CASE UNCHANGED <<said, handled>>
  BY <1>1, <1>4 DEF FramesInv, Framed
<1>5. CASE Loop
  <2>1. CASE ConnectClient \/ Event \/ Read
    BY <1>4, <2>1 DEF ConnectClient, Event, Read, srv
  <2>2. CASE Flush \/ Write \/ Done
    BY <1>4, <2>2 DEF Flush, Write, Done, srv
  <2> QED
    BY <1>2, <1>5, <2>1, <2>2 DEF Loop
<1>6. CASE Environment
  <2>1. CASE ServerSay \/ ServerTell
    BY <1>3, <2>1 DEF ServerSay, ServerTell, Tags, ToClient
  <2>2. CASE Establish \/ Spurious \/ ServerRecv \/ ServerTake
    BY <1>4, <2>2 DEF Establish, Spurious, ServerRecv, ServerTake, srv
  <2>3. CASE ServerSend \/ ServerClose \/ ServerDrop \/ Reset
    BY <1>4, <2>3 DEF ServerSend, ServerClose, ServerDrop, Close, Reset, srv
  <2> QED
    BY <1>6, <2>1, <2>2, <2>3 DEF Environment
<1>7. CASE \E kind \in Kinds : Execute(kind)
  BY <1>4, <1>7 DEF Execute, srv
<1>8. CASE UNCHANGED vars
  BY <1>4, <1>8 DEF vars, srv
<1> QED
  BY <1>5, <1>6, <1>7, <1>8 DEF Next

\* handle_frame is called with a frame as a whole, whatever the sizes of frames,
\* reads, sockets and the compaction threshold.
THEOREM FramesWhole == Spec => []Framed
<1>1. Init => FramesInv
  <2> SUFFICES ASSUME Init PROVE FramesInv
    OBVIOUS
  <2>1. said = <<>> /\ handled = <<>> /\ Len(said) = 0
    BY DEF Init
  <2> QED
    BY <2>1, InitConveyed DEF FramesInv, Frames, Framed
<1>2. FramesInv => Framed
  BY DEF FramesInv
<1> QED
  BY <1>1, <1>2, FramesStep, PTL DEF Spec
----------------------------------------------------------------------------
(* The dialog.                                                             *)

\* Position h of a sequence of frames is the end of one, or the beginning.
Aligned(s, h) ==
  /\ h \in 0 .. Len(s)
  /\ h # 0 => s[h][2] = FrameLen(s[h][1])

\* The cells the server has taken from what it has received.
Took == Len(rcvd) - Len(srv_in)

Asking == {"startup", "block"}

AskedBy(n) == Cardinality(Starts(queued, n, Asking))
ReadyBy(n) == Cardinality(Starts(said, n, {"Z"}))

\* The server reads from where it has taken the last frame.
Taking ==
  /\ Frames(queued) /\ Aligned(queued, Took)
  /\ \A i \in 1 .. Len(srv_in) : srv_in[i] = rcvd[Took + i]

\* The server says ReadyForQuery at most once for each frame it has taken that asks
\* for it, and has not yet for the one it is serving.
Answering ==
  /\ ReadyBy(Len(said)) <= AskedBy(Took)
  /\ spc \in {"auth", "password", "verify", "starting", "busy"} =>
       ReadyBy(Len(said)) < AskedBy(Took)

\* The server asks for a password once, before anything else, and goes on only when
\* one has been sent, which is after the client has read the request.
Asks(i) == said[i] = <<"auth_pass", 1>>
Passing ==
  /\ spc \in {"startup", "auth"} => said = <<>>
  /\ \A i, j \in 1 .. Len(said) : Asks(i) /\ Asks(j) => i = j
  /\ \A i \in 1 .. Len(said) :
       /\ Asks(i)
       /\ \/ spc \in {"verify", "starting", "ready", "busy"}
          \/ Starts(said, Len(said), {"Z"}) # {}
       => Starts(queued, Len(queued), {"pass"}) # {}
  /\ Starts(queued, Len(queued), {"pass"}) # {} =>
       \E i \in 1 .. Len(handled) : Asks(i)

\* Where the loop is in its work.
Working ==
  /\ lpc # "poll" => conn = "open"
  /\ lpc \in {"read", "parse"} => cmd = "event"
  /\ lpc \in {"flush", "write", "done"} /\ cmd # "event" => cmd \in Kinds /\ ~awaiting
  /\ rfq => cmd = "event" /\ lpc # "poll"
  /\ conn = "none" => cmds = <<>> /\ ~awaiting /\ queued = <<>> /\ frames = <<>>
  /\ state = "Connecting" => cmds = <<>> /\ ReadyBy(Len(handled)) = 0
  /\ (\E i \in DOMAIN frames : frames[i] = "term") =>
       sent_terminate /\ \E i \in DOMAIN cmds : cmds[i] \in {"term", "end"}

\* The client waits for the server and has not yet read its answer.
Owed == (awaiting \/ Executing) /\ ~rfq

\* A client that waits has one frame to be answered, one that does not has none.
Awaiting ==
  /\ conn = "open" =>
       /\ AskedBy(Len(queued)) >= 1
       /\ AskedBy(Len(queued)) = ReadyBy(Len(handled)) + (IF Owed THEN 1 ELSE 0)

DialogInv == FramesInv /\ Taking /\ Answering /\ Passing /\ Working /\ Awaiting

----------------------------------------------------------------------------
(* Counting frames.                                                        *)

\* The frames that begin in a prefix can be counted.
LEMMA StartsFinite ==
  ASSUME NEW s, NEW n \in Nat, NEW T
  PROVE  IsFiniteSet(Starts(s, n, T)) /\ Cardinality(Starts(s, n, T)) \in Nat
<1>1. IsFiniteSet(1 .. n)
  BY FS_Interval
<1>2. Starts(s, n, T) \subseteq 1 .. n
  BY DEF Starts
<1> QED
  BY <1>1, <1>2, FS_Subset, FS_CardinalityType

\* No more frames begin in a shorter prefix.
LEMMA StartsMono ==
  ASSUME NEW s, NEW n \in Nat, NEW m \in Nat, n <= m, NEW T
  PROVE  Cardinality(Starts(s, n, T)) <= Cardinality(Starts(s, m, T))
<1>1. Starts(s, n, T) \subseteq Starts(s, m, T)
  BY DEF Starts
<1> QED
  BY <1>1, StartsFinite, FS_Subset

\* The same cells, the same frames.
LEMMA StartsSame ==
  ASSUME NEW s, NEW t, NEW n \in Nat, \A i \in 1 .. n : s[i] = t[i], NEW T
  PROVE  Starts(s, n, T) = Starts(t, n, T)
BY DEF Starts

\* A frame begins once.
LEMMA StartsFrame ==
  ASSUME NEW s, NEW n \in Nat, NEW tag \in Tags, NEW T,
         \A k \in 1 .. FrameLen(tag) : s[n + k] = <<tag, k>>
  PROVE  /\ Starts(s, n + FrameLen(tag), T) =
              Starts(s, n, T) \cup (IF tag \in T THEN {n + 1} ELSE {})
         /\ Cardinality(Starts(s, n + FrameLen(tag), T)) =
              Cardinality(Starts(s, n, T)) + (IF tag \in T THEN 1 ELSE 0)
<1> DEFINE size == FrameLen(tag)
<1>1. size \in Nat \ {0}
  BY FrameElements
<1> HIDE DEF size
<1>2. \A k \in 1 .. size : s[n + k] = <<tag, k>>
  BY DEF size
<1>3. \A i \in 1 .. (n + size) : i \in 1 .. n \/ \E k \in 1 .. size : i = n + k
  <2> SUFFICES ASSUME NEW i \in 1 .. (n + size), i \notin 1 .. n
               PROVE  \E k \in 1 .. size : i = n + k
    OBVIOUS
  <2>1. i - n \in 1 .. size /\ i = n + (i - n)
    BY <1>1
  <2> QED BY <2>1
<1>4. /\ \A i \in 1 .. n : i \in 1 .. (n + size)
      /\ \A k \in 1 .. size : n + k \in 1 .. (n + size) /\ (k = 1 <=> n + k = n + 1)
      /\ 1 \in 1 .. size /\ n + 1 \notin 1 .. n
  BY <1>1
<1>5. \A k \in 1 .. size : s[n + k][2] = k /\ s[n + k][1] = tag
  BY <1>2
<1>6. Starts(s, n + size, T) = Starts(s, n, T) \cup (IF tag \in T THEN {n + 1} ELSE {})
  <2>1. ASSUME NEW i \in 1 .. (n + size), s[i][2] = 1, s[i][1] \in T
        PROVE  i \in Starts(s, n, T) \/ (tag \in T /\ i = n + 1)
    BY <1>3, <1>4, <1>5, <2>1 DEF Starts
  <2>2. ASSUME NEW i \in Starts(s, n, T) PROVE i \in Starts(s, n + size, T)
    BY <1>4, <2>2 DEF Starts
  <2>3. tag \in T => n + 1 \in Starts(s, n + size, T)
    BY <1>4, <1>5 DEF Starts
  <2>4. Starts(s, n + size, T) \subseteq
          Starts(s, n, T) \cup (IF tag \in T THEN {n + 1} ELSE {})
    BY <2>1 DEF Starts
  <2> QED BY <2>2, <2>3, <2>4
<1>7. IsFiniteSet(Starts(s, n, T)) /\ Cardinality(Starts(s, n, T)) \in Nat
  BY StartsFinite
<1>8. n + 1 \notin Starts(s, n, T)
  BY <1>4 DEF Starts
<1>9. Cardinality(Starts(s, n, T) \cup {n + 1}) = Cardinality(Starts(s, n, T)) + 1
  BY <1>7, <1>8, FS_AddElement
<1>10. CASE tag \in T
  BY <1>6, <1>9, <1>10 DEF size
<1>11. CASE tag \notin T
  <2>1. Starts(s, n + size, T) = Starts(s, n, T)
    BY <1>6, <1>11
  <2> QED BY <1>6, <1>7, <1>11, <2>1 DEF size
<1> QED
  BY <1>10, <1>11

LEMMA CountFrame ==
  ASSUME NEW s, NEW n \in Nat, NEW tag \in Tags, NEW T,
         \A k \in 1 .. FrameLen(tag) : s[n + k] = <<tag, k>>
  PROVE  Cardinality(Starts(s, n + FrameLen(tag), T)) =
           Cardinality(Starts(s, n, T)) + (IF tag \in T THEN 1 ELSE 0)
BY StartsFrame

\* A frame at the end of a sequence adds its beginning.
LEMMA StartsAppend ==
  ASSUME NEW s \in Seq(Cells), NEW tag \in Tags, NEW T
  PROVE  LET t == s \o Frame(tag) IN
         /\ t \in Seq(Cells) /\ Len(s) \in Nat /\ Len(t) \in Nat /\ Len(s) <= Len(t)
         /\ Len(t) = Len(s) + FrameLen(tag)
         /\ \A i \in 1 .. Len(s) : t[i] = s[i]
         /\ \A n \in 0 .. Len(s) : Starts(t, n, T) = Starts(s, n, T)
         /\ Starts(t, Len(t), T) =
              Starts(s, Len(s), T) \cup (IF tag \in T THEN {Len(s) + 1} ELSE {})
         /\ Cardinality(Starts(t, Len(t), T)) =
              Cardinality(Starts(s, Len(s), T)) + (IF tag \in T THEN 1 ELSE 0)
<1> DEFINE t == s \o Frame(tag)
           n == Len(s)
           size == FrameLen(tag)
<1>1. /\ Frame(tag) \in Seq(Cells) /\ Len(Frame(tag)) = size /\ size \in Nat
      /\ \A k \in 1 .. size : Frame(tag)[k] = <<tag, k>>
  BY FrameElements
<1>2. /\ t \in Seq(Cells) /\ Len(t) = n + size
      /\ \A i \in 1 .. n : t[i] = s[i]
      /\ \A k \in 1 .. size : t[n + k] = <<tag, k>>
  <2> DEFINE f == Frame(tag)
  <2>1. f \in Seq(Cells) /\ Len(f) = size /\ \A k \in 1 .. size : f[k] = <<tag, k>>
    BY <1>1
  <2> HIDE DEF f, size
  <2>2. /\ s \o f \in Seq(Cells) /\ Len(s \o f) = n + Len(f)
        /\ \A i \in 1 .. n : (s \o f)[i] = s[i]
        /\ \A i \in 1 .. Len(f) : (s \o f)[n + i] = f[i]
    BY <2>1, CatElements
  <2>3. t = s \o f
    BY DEF f
  <2> QED BY <2>1, <2>2, <2>3
<1>3. n \in Nat
  BY LenProperties
<1> HIDE DEF t, n
<1>4. n + size \in Nat /\ n <= n + size
  BY <1>1, <1>3
<1>5. ASSUME NEW m \in 0 .. n PROVE Starts(t, m, T) = Starts(s, m, T)
  <2>1. m \in Nat /\ \A i \in 1 .. m : i \in 1 .. n
    BY <1>3
  <2>2. \A i \in 1 .. m : t[i] = s[i]
    BY <1>2, <2>1
  <2> QED BY <2>1, <2>2, StartsSame
<1>6. Starts(t, n, T) = Starts(s, n, T)
  <2>1. n \in 0 .. n
    BY <1>3
  <2> QED BY <1>5, <2>1
<1>7. /\ Starts(t, n + size, T) = Starts(t, n, T) \cup (IF tag \in T THEN {n + 1} ELSE {})
      /\ Cardinality(Starts(t, n + size, T)) =
           Cardinality(Starts(t, n, T)) + (IF tag \in T THEN 1 ELSE 0)
  <2>1. \A k \in 1 .. FrameLen(tag) : t[n + k] = <<tag, k>>
    BY <1>2
  <2>2. Starts(t, n + FrameLen(tag), T) =
          Starts(t, n, T) \cup (IF tag \in T THEN {n + 1} ELSE {})
    BY <1>3, <2>1, StartsFrame
  <2>3. Cardinality(Starts(t, n + FrameLen(tag), T)) =
          Cardinality(Starts(t, n, T)) + (IF tag \in T THEN 1 ELSE 0)
    BY <1>3, <2>1, CountFrame
  <2> QED BY <2>2, <2>3
<1> QED
  BY <1>2, <1>3, <1>4, <1>5, <1>6, <1>7 DEF t, n

\* Behind the end of a frame there is a whole frame.
LEMMA FrameAt ==
  ASSUME NEW s \in Seq(Cells), Frames(s), NEW h, Aligned(s, h), h < Len(s)
  PROVE  LET tag == s[h + 1][1] IN
         /\ tag \in Tags /\ FrameLen(tag) \in Nat \ {0} /\ HeaderLen <= FrameLen(tag)
         /\ h \in Nat /\ Len(s) \in Nat /\ h + FrameLen(tag) <= Len(s)
         /\ \A k \in 1 .. FrameLen(tag) : s[h + k] = <<tag, k>>
         /\ Aligned(s, h + FrameLen(tag))
         /\ \A T : Cardinality(Starts(s, h + FrameLen(tag), T)) =
                     Cardinality(Starts(s, h, T)) + (IF tag \in T THEN 1 ELSE 0)
<1>1. h \in Nat /\ Len(s) \in Nat /\ h + 1 \in 1 .. Len(s) /\ h + 1 - 1 = h
  BY LenProperties DEF Aligned
<1>2. InFrame(s, h + 1) /\ s[h + 1][2] = 1
  <2>1. InFrame(s, h + 1) /\ Begins(s, h + 1)
    BY <1>1 DEF Frames
  <2>2. h + 1 = 1 \/ s[h][2] = FrameLen(s[h][1])
    BY <1>1 DEF Aligned
  <2> QED
    BY <1>1, <2>1, <2>2 DEF Begins
<1>3. PICK o \in Nat, tag \in Tags :
        /\ o < h + 1 /\ h + 1 <= o + FrameLen(tag) /\ o + FrameLen(tag) <= Len(s)
        /\ \A n \in 1 .. FrameLen(tag) : s[o + n] = <<tag, n>>
  BY <1>2 DEF InFrame
<1>4. FrameLen(tag) \in Nat \ {0} /\ HeaderLen <= FrameLen(tag)
  BY FrameElements
<1>5. o = h /\ s[h + 1][1] = tag
  <2>1. h + 1 - o \in 1 .. FrameLen(tag) /\ o + (h + 1 - o) = h + 1
    BY <1>1, <1>3, <1>4
  <2>2. s[h + 1] = <<tag, h + 1 - o>>
    BY <1>3, <2>1
  <2>3. h + 1 - o = 1
    BY <1>2, <2>2
  <2> QED
    BY <1>1, <2>2, <2>3
<1>6. \A k \in 1 .. FrameLen(tag) : s[h + k] = <<tag, k>>
  BY <1>3, <1>5
<1>7. h + FrameLen(tag) <= Len(s)
  BY <1>3, <1>5
<1>8. Aligned(s, h + FrameLen(tag))
  <2>1. FrameLen(tag) \in 1 .. FrameLen(tag) /\ h + FrameLen(tag) \in 0 .. Len(s)
    BY <1>1, <1>4, <1>7
  <2>2. s[h + FrameLen(tag)] = <<tag, FrameLen(tag)>>
    BY <1>6, <2>1
  <2> QED
    BY <2>1, <2>2 DEF Aligned
<1>9. \A T : Cardinality(Starts(s, h + FrameLen(tag), T)) =
               Cardinality(Starts(s, h, T)) + (IF tag \in T THEN 1 ELSE 0)
  BY <1>1, <1>6, StartsFrame
<1> QED
  BY <1>1, <1>4, <1>5, <1>6, <1>7, <1>8, <1>9

----------------------------------------------------------------------------
(* What the invariant says.                                                *)

\* What the server has received is the beginning of what was sent.
LEMMA PrefixOut ==
  ASSUME Conveyed
  PROVE  /\ rcvd \in Seq(Cells) /\ queued \in Seq(Cells)
         /\ Len(rcvd) \in Nat /\ Len(queued) \in Nat /\ Len(rcvd) <= Len(queued)
         /\ \A i \in 1 .. Len(rcvd) : queued[i] = rcvd[i]
<1>0. /\ Data(write_stream) \in Seq(Cells) /\ Data(outbox) \in Seq(Cells)
      /\ rcvd \in Seq(Cells) /\ queued \in Seq(Cells) /\ net_out \in Seq(Cells)
      /\ rcvd \o net_out \o Data(write_stream) \o Data(outbox) = queued
  BY StreamFacts DEF Conveyed, TypeOK, WireOut
<1> DEFINE written == Data(write_stream)
           left == Data(outbox)
           a == rcvd \o net_out
           b == a \o written
<1>1. /\ rcvd \in Seq(Cells) /\ queued \in Seq(Cells) /\ net_out \in Seq(Cells)
      /\ written \in Seq(Cells) /\ left \in Seq(Cells)
  BY <1>0
<1>2. queued = b \o left
  BY <1>0
<1> HIDE DEF written, left
<1>3. /\ a \in Seq(Cells) /\ Len(a) = Len(rcvd) + Len(net_out)
      /\ \A i \in 1 .. Len(rcvd) : a[i] = rcvd[i]
  BY <1>1, CatElements
<1> HIDE DEF a
<1>4. /\ b \in Seq(Cells) /\ Len(b) = Len(a) + Len(written)
      /\ \A i \in 1 .. Len(a) : b[i] = a[i]
  BY <1>1, <1>3, CatElements
<1> HIDE DEF b
<1>5. /\ Len(queued) = Len(b) + Len(left)
      /\ \A i \in 1 .. Len(b) : queued[i] = b[i]
  <2>1. b \in Seq(Cells) /\ left \in Seq(Cells) /\ queued = b \o left
    BY <1>1, <1>2, <1>4
  <2> HIDE DEF b
  <2> QED BY <2>1, CatElements
<1>6. /\ Len(rcvd) \in Nat /\ Len(queued) \in Nat /\ Len(net_out) \in Nat
      /\ Len(written) \in Nat /\ Len(left) \in Nat
  BY <1>1, LenProperties
<1>7. Len(rcvd) <= Len(a) /\ Len(a) <= Len(b) /\ Len(b) <= Len(queued)
  BY <1>3, <1>4, <1>5, <1>6
<1>8. \A i \in 1 .. Len(rcvd) : i \in 1 .. Len(a) /\ i \in 1 .. Len(b)
  BY <1>3, <1>4, <1>6
<1>9. Len(rcvd) <= Len(queued)
  BY <1>3, <1>4, <1>5, <1>6
<1> QED
  BY <1>1, <1>3, <1>4, <1>5, <1>6, <1>8, <1>9

\* The counts of the invariant are numbers, in this order.
LEMMA Counts ==
  ASSUME DialogInv
  PROVE  /\ said \in Seq(Cells) /\ handled \in Seq(Cells) /\ queued \in Seq(Cells)
         /\ rcvd \in Seq(Cells) /\ srv_in \in Seq(Cells) /\ frames \in Seq(Tags)
         /\ Len(said) \in Nat /\ Len(handled) \in Nat /\ Len(queued) \in Nat
         /\ Len(rcvd) \in Nat /\ Len(srv_in) \in Nat /\ Took \in Nat
         /\ Len(handled) <= Len(said) /\ Took <= Len(queued) /\ Took <= Len(rcvd)
         /\ Took = Len(rcvd) - Len(srv_in) /\ Len(rcvd) <= Len(queued)
         /\ AskedBy(Took) \in Nat /\ AskedBy(Len(queued)) \in Nat
         /\ AskedBy(Took) <= AskedBy(Len(queued))
         /\ ReadyBy(Len(handled)) \in Nat /\ ReadyBy(Len(said)) \in Nat
         /\ ReadyBy(Len(handled)) <= ReadyBy(Len(said))
         /\ ReadyBy(Len(said)) <= AskedBy(Took)
<1>1. /\ said \in Seq(Cells) /\ handled \in Seq(Cells) /\ queued \in Seq(Cells)
      /\ rcvd \in Seq(Cells) /\ srv_in \in Seq(Cells) /\ frames \in Seq(Tags)
  BY DEF DialogInv, FramesInv, Conveyed, TypeOK
<1>2. /\ Len(said) \in Nat /\ Len(handled) \in Nat /\ Len(queued) \in Nat
      /\ Len(rcvd) \in Nat /\ Len(srv_in) \in Nat
  BY <1>1, LenProperties
<1>3. Len(handled) <= Len(said)
  <2>1. Conveyed
    BY DEF DialogInv, FramesInv
  <2>2. Len(handled) + Len(Data(parse_stream)) <= Len(said) /\ Data(parse_stream) \in Seq(Cells)
    BY <2>1, Prefix
  <2>3. Len(Data(parse_stream)) \in Nat
    BY <2>2, LenProperties
  <2> QED BY <1>2, <2>2, <2>3
<1>4. Len(rcvd) <= Len(queued)
  BY PrefixOut DEF DialogInv, FramesInv
<1>5. Took \in 0 .. Len(queued) /\ Took = Len(rcvd) - Len(srv_in)
  BY DEF DialogInv, Taking, Aligned, Took
<1>6. Took \in Nat /\ Took <= Len(queued) /\ Took <= Len(rcvd)
  BY <1>2, <1>5
<1>7. /\ AskedBy(Took) \in Nat /\ AskedBy(Len(queued)) \in Nat
      /\ AskedBy(Took) <= AskedBy(Len(queued))
  BY <1>2, <1>6, StartsFinite, StartsMono DEF AskedBy
<1>8. /\ ReadyBy(Len(handled)) \in Nat /\ ReadyBy(Len(said)) \in Nat
      /\ ReadyBy(Len(handled)) <= ReadyBy(Len(said))
  BY <1>2, <1>3, StartsFinite, StartsMono DEF ReadyBy
<1> QED
  BY <1>1, <1>2, <1>3, <1>4, <1>5, <1>6, <1>7, <1>8 DEF DialogInv, Answering

\* A step that leaves the bytes of the dialog and the server's state alone.
LEMMA Kept ==
  ASSUME DialogInv, UNCHANGED <<queued, frames, rcvd, srv_in, said, handled>>,
         spc' \in {spc, "closed"}
  PROVE  /\ Taking' /\ Answering' /\ Passing'
         /\ AskedBy(Len(queued))' = AskedBy(Len(queued))
         /\ ReadyBy(Len(handled))' = ReadyBy(Len(handled))
         /\ ReadyBy(Len(said))' = ReadyBy(Len(said))
<1>1. Taking'
  BY DEF DialogInv, Taking, Took
<1>2. Took' = Took
  BY DEF Took
<1>3. /\ AskedBy(Took)' = AskedBy(Took) /\ AskedBy(Len(queued))' = AskedBy(Len(queued))
      /\ ReadyBy(Len(handled))' = ReadyBy(Len(handled))
      /\ ReadyBy(Len(said))' = ReadyBy(Len(said))
  BY <1>2 DEF AskedBy, ReadyBy
<1>4. Answering'
  BY <1>3 DEF DialogInv, Answering
<1>5. Passing'
  BY DEF DialogInv, Passing, Asks
<1> QED
  BY <1>1, <1>3, <1>4, <1>5

\* The abstract state: nothing happens while neither side says anything.
LEMMA ReadyKept ==
  ASSUME UNCHANGED <<queued, frames, said>>, Phase' = Phase
  PROVE  UNCHANGED Abstract!vars
BY DEF Abstract!vars

Refines == [Abstract!Next]_(Abstract!vars)

LEMMA InitDialog == Init => DialogInv /\ Abstract!Init
<1> SUFFICES ASSUME Init PROVE DialogInv /\ Abstract!Init
  OBVIOUS
<1>1. said = <<>> /\ handled = <<>> /\ queued = <<>> /\ rcvd = <<>> /\ srv_in = <<>>
  BY DEF Init
<1>2. FramesInv
  BY <1>1, InitConveyed DEF FramesInv, Frames, Framed
<1>3. \A T : Starts(<<>>, 0, T) = {} /\ Cardinality(Starts(<<>>, 0, T)) = 0
  BY FS_EmptySet DEF Starts
<1>4. Took = 0 /\ Len(said) = 0 /\ Len(handled) = 0 /\ Len(queued) = 0
  BY <1>1 DEF Took
<1>5. /\ AskedBy(Took) = 0 /\ AskedBy(Len(queued)) = 0
      /\ ReadyBy(Len(said)) = 0 /\ ReadyBy(Len(handled)) = 0
  BY <1>1, <1>3, <1>4 DEF AskedBy, ReadyBy
<1>6. Taking
  BY <1>1, <1>4 DEF Taking, Frames, Aligned
<1>7. Answering
  BY <1>5 DEF Init, Answering
<1>8. Passing
  BY <1>1, <1>3, <1>4 DEF Init, Passing
<1>9. Working
  BY <1>5 DEF Init, Working
<1>10. Awaiting
  BY <1>5 DEF Init, Awaiting
<1>11. Abstract!Init
  BY <1>1, <1>3, <1>4 DEF Init, Abstract!Init, Phase
<1> QED
  BY <1>2, <1>6, <1>7, <1>8, <1>9, <1>10, <1>11 DEF DialogInv

----------------------------------------------------------------------------
(* The steps of the loop that send nothing and read no frame.              *)

\* The connection goes on waiting or not, or is left.
Stays == Phase' = Phase \/ (Phase # "gone" /\ Phase' = "gone")

\* What a step amounts to in which nothing is sent, said or answered: only where the
\* loop is in its work has to be looked at, and whether the client waits.
LEMMA NothingSaid ==
  ASSUME DialogInv, FramesInv', UNCHANGED <<queued, frames, said>>,
         Taking', Answering', Passing', Working', Stays,
         ReadyBy(Len(handled))' = ReadyBy(Len(handled)),
         conn' = "open" => conn = "open" /\ Owed' = Owed
  PROVE  DialogInv' /\ Refines
<1>1. AskedBy(Len(queued))' = AskedBy(Len(queued))
  BY DEF AskedBy
<1>2. Awaiting'
  BY <1>1 DEF DialogInv, Awaiting
<1>3. Refines
  <2>1. CASE Phase' = Phase
    <3>1. UNCHANGED Abstract!vars
      BY <2>1, ReadyKept
    <3> QED BY <3>1 DEF Refines
  <2>2. CASE Phase # "gone" /\ Phase' = "gone"
    <3>1. Abstract!Leave
      BY <2>2 DEF Abstract!Leave
    <3> QED BY <3>1 DEF Refines, Abstract!Next
  <2> QED BY <2>1, <2>2 DEF Stays
<1> QED
  BY <1>2, <1>3 DEF DialogInv

LEMMA LoopKept ==
  ASSUME DialogInv, FramesInv',
         UNCHANGED <<queued, frames, rcvd, srv_in, said, handled, spc>>, Working', Stays,
         conn' = "open" => conn = "open" /\ Owed' = Owed
  PROVE  DialogInv' /\ Refines
<1>1. /\ Taking' /\ Answering' /\ Passing'
      /\ ReadyBy(Len(handled))' = ReadyBy(Len(handled))
  BY Kept
<1> QED
  BY <1>1, NothingSaid

\* The part of Working that none of these steps can disturb but by lpc, cmd and conn.
LEMMA WorkingKept ==
  ASSUME DialogInv,
         UNCHANGED <<queued, frames, rcvd, srv_in, said, handled, spc, cmds, sent_terminate>>,
         state' \in {state, "Dead"}, conn' = "none" => conn = "none" /\ awaiting' = awaiting,
         lpc' # "poll" => conn' = "open",
         lpc' \in {"read", "parse"} => cmd' = "event",
         lpc' \in {"flush", "write", "done"} /\ cmd' # "event" =>
           cmd' \in Kinds /\ ~awaiting',
         rfq' => cmd' = "event" /\ lpc' # "poll"
  PROVE  Working'
<1>1. ReadyBy(Len(handled))' = ReadyBy(Len(handled))
  BY Kept
<1> QED
  BY <1>1 DEF DialogInv, Working

\* handle_event, up to read_conn.
LEMMA EventDialog ==
  ASSUME DialogInv, FramesInv', Event
  PROVE  DialogInv' /\ Refines
<1>1. /\ UNCHANGED <<queued, frames, rcvd, srv_in, said, handled, spc, cmds, sent_terminate,
                     state, awaiting, rfq>>
      /\ conn = "open" /\ lpc = "poll"
      /\ \/ UNCHANGED <<conn, lpc, cmd>>
         \/ conn' = "dropped" /\ UNCHANGED <<lpc, cmd>>
         \/ conn' = conn /\ lpc' = "read" /\ cmd' = "event"
  BY DEF Event, DropSlot, cli, srv
<1>2. Working'
  <2>1. rfq' => cmd' = "event" /\ lpc' # "poll"
    BY <1>1 DEF DialogInv, Working
  <2> QED BY <1>1, <2>1, WorkingKept
<1>3. Owed' = Owed
  BY <1>1 DEF Owed, Executing
<1>4. Stays
  BY <1>1 DEF Stays, Phase, Executing
<1> QED
  BY <1>1, <1>2, <1>3, <1>4, LoopKept

\* read_conn: one read.
LEMMA ReadDialog ==
  ASSUME DialogInv, FramesInv', Read
  PROVE  DialogInv' /\ Refines
<1>1. /\ UNCHANGED <<queued, frames, rcvd, srv_in, said, handled, spc, cmds, sent_terminate,
                     awaiting, rfq, conn, cmd>>
      /\ lpc = "read" /\ lpc' \in {"parse", "flush"} /\ state' \in {state, "Dead"}
  BY DEF Read, slt, srv
<1>2. conn = "open" /\ cmd = "event"
  BY <1>1 DEF DialogInv, Working
<1>3. Working'
  BY <1>1, <1>2, WorkingKept
<1>4. Owed' = Owed
  BY <1>1, <1>2 DEF Owed, Executing
<1>5. Stays
  BY <1>1, <1>2 DEF Stays, Phase, Executing
<1> QED
  BY <1>1, <1>2, <1>3, <1>4, <1>5, LoopKept

\* flush_conn, before and in its loop.
LEMMA FlushDialog ==
  ASSUME DialogInv, FramesInv', Flush \/ Write
  PROVE  DialogInv' /\ Refines
<1>1. /\ UNCHANGED <<queued, frames, rcvd, srv_in, said, handled, spc, cmds, sent_terminate,
                     awaiting, rfq, conn, cmd>>
      /\ lpc \in {"flush", "write"} /\ lpc' \in {"write", "done"} /\ state' \in {state, "Dead"}
  BY DEF Flush, Write, srv
<1>2. conn = "open" /\ (rfq => cmd = "event") /\ (cmd # "event" => cmd \in Kinds /\ ~awaiting)
  BY <1>1 DEF DialogInv, Working
<1>3. Working'
  BY <1>1, <1>2, WorkingKept
<1>4. Owed' = Owed
  BY <1>1 DEF Owed, Executing
<1>5. Stays
  BY <1>1 DEF Stays, Phase, Executing
<1> QED
  BY <1>1, <1>2, <1>3, <1>4, <1>5, LoopKept

\* handle_event and execute, after flush_conn: a client that has read ReadyForQuery is
\* the one that had a frame to be answered, and the server has answered them all.
LEMMA DoneDialog ==
  ASSUME DialogInv, FramesInv', Done
  PROVE  DialogInv' /\ Refines
<1>1. /\ UNCHANGED <<queued, frames, rcvd, srv_in, said, handled, spc, cmds, sent_terminate,
                     state, cmd>>
      /\ lpc = "done" /\ lpc' = "poll"
      /\ awaiting' = IF cmd = "event" THEN awaiting /\ ~rfq ELSE cmd = "block"
      /\ rfq' = IF cmd = "event" THEN FALSE ELSE rfq
      /\ conn' \in {conn, "dropped"}
  BY DEF Done, DropSlot, srv
<1>2. /\ conn = "open" /\ (rfq => cmd = "event")
      /\ (cmd # "event" => cmd \in Kinds /\ ~awaiting)
      /\ awaiting \in BOOLEAN /\ rfq \in BOOLEAN
  BY <1>1 DEF DialogInv, Working, FramesInv, Conveyed, TypeOK
<1>3. ~rfq'
  BY <1>1, <1>2
<1>4. Working'
  BY <1>1, <1>2, <1>3, WorkingKept
<1>5. Owed' = Owed
  BY <1>1, <1>2, <1>3 DEF Owed, Executing
<1>6. CASE conn' = "open" /\ cmd = "event" /\ awaiting /\ rfq
  <2>1. /\ Taking' /\ Answering' /\ Passing'
        /\ AskedBy(Len(queued))' = AskedBy(Len(queued))
        /\ ReadyBy(Len(handled))' = ReadyBy(Len(handled))
        /\ ReadyBy(Len(said))' = ReadyBy(Len(said))
    BY <1>1, Kept
  <2>2. Awaiting'
    BY <1>2, <1>5, <2>1 DEF DialogInv, Awaiting
  <2>3. ReadyBy(Len(said)) = AskedBy(Len(queued))
    <3>1. AskedBy(Len(queued)) = ReadyBy(Len(handled))
      BY <1>2, <1>6, Counts DEF DialogInv, Awaiting, Owed
    <3> QED BY <3>1, Counts
  <2>4. Phase \in {"connecting", "busy"} /\ Phase' = "idle"
    BY <1>1, <1>2, <1>6 DEF Phase, Executing
  <2>5. Abstract!Answered
    BY <1>1, <2>1, <2>3, <2>4 DEF Abstract!Answered, AskedBy, ReadyBy, Asking
  <2> QED
    BY <1>4, <2>1, <2>2, <2>5 DEF DialogInv, Refines, Abstract!Next
<1>7. CASE ~(conn' = "open" /\ cmd = "event" /\ awaiting /\ rfq)
  <2>1. Stays
    BY <1>1, <1>2, <1>7 DEF Stays, Phase, Executing
  <2> QED
    BY <1>1, <1>2, <1>4, <1>5, <2>1, LoopKept
<1> QED
  BY <1>6, <1>7

----------------------------------------------------------------------------
(* The steps of the loop that send a frame.                                *)

\* A frame is put behind the ones that were sent: the server has not seen it yet.
LEMMA SendKept ==
  ASSUME DialogInv, NEW tag \in Tags, SendFrame(tag),
         UNCHANGED <<rcvd, srv_in, said, spc>>, Len(handled) <= Len(handled'),
         Len(handled') \in Nat,
         tag = "pass" => \E i \in 1 .. Len(handled') : Asks(i)
  PROVE  /\ Taking' /\ Answering' /\ Passing'
         /\ AskedBy(Len(queued))' =
              AskedBy(Len(queued)) + (IF tag \in Asking THEN 1 ELSE 0)
         /\ ReadyBy(Len(said))' = ReadyBy(Len(said))
<1>1. /\ queued \in Seq(Cells) /\ Len(queued) \in Nat /\ Took \in Nat
      /\ Took <= Len(queued) /\ Len(handled) \in Nat
  BY Counts
<1>2. queued' = queued \o Frame(tag)
  BY DEF SendFrame
<1>3. /\ queued' \in Seq(Cells) /\ Len(queued') \in Nat /\ Len(queued) <= Len(queued')
      /\ \A i \in 1 .. Len(queued) : queued'[i] = queued[i]
      /\ \A n \in 0 .. Len(queued) : \A T : Starts(queued', n, T) = Starts(queued, n, T)
      /\ \A T : Starts(queued', Len(queued'), T) =
           Starts(queued, Len(queued), T) \cup (IF tag \in T THEN {Len(queued) + 1} ELSE {})
  BY <1>1, <1>2, StartsAppend
<1>4. Took' = Took
  BY DEF Took
<1>5. Taking'
  <2>1. Frames(queued')
    BY <1>1, <1>2, FramesSaid DEF DialogInv, Taking
  <2>2. Aligned(queued, Took)
    BY DEF DialogInv, Taking
  <2>3. PICK h : h = Took
    OBVIOUS
  <2>4. Aligned(queued, h) /\ h \in Nat /\ h <= Len(queued)
    BY <1>1, <2>2, <2>3
  <2>5. Aligned(queued', h)
    BY <1>1, <1>3, <2>4 DEF Aligned
  <2>6. \A i \in 1 .. Len(srv_in') : srv_in'[i] = rcvd'[h + i]
    BY <2>3 DEF DialogInv, Taking
  <2> QED BY <1>4, <2>1, <2>3, <2>5, <2>6 DEF Taking
<1>6. AskedBy(Took)' = AskedBy(Took) /\ ReadyBy(Len(said))' = ReadyBy(Len(said))
  <2>1. Took \in 0 .. Len(queued)
    BY <1>1
  <2>2. Starts(queued', Took, Asking) = Starts(queued, Took, Asking)
    BY <1>3, <2>1
  <2> QED BY <1>4, <2>2 DEF AskedBy, ReadyBy
<1>7. Answering'
  BY <1>6 DEF DialogInv, Answering
<1>8. Passing'
  <2>1. Starts(queued', Len(queued'), {"pass"}) =
          Starts(queued, Len(queued), {"pass"}) \cup
            (IF tag \in {"pass"} THEN {Len(queued) + 1} ELSE {})
    BY <1>3
  <2>2. \A i : Asks(i)' <=> Asks(i)
    BY DEF Asks
  <2>3. \A i \in 1 .. Len(handled) : i \in 1 .. Len(handled')
    BY <1>1
  <2>4. Starts(queued', Len(queued'), {"pass"}) # {} =>
          \E i \in 1 .. Len(handled') : Asks(i)'
    BY <2>1, <2>2, <2>3 DEF DialogInv, Passing
  <2>5. Starts(queued, Len(queued), {"pass"}) # {} =>
          Starts(queued', Len(queued'), {"pass"}) # {}
    BY <2>1
  <2> QED BY <2>2, <2>4, <2>5 DEF DialogInv, Passing
<1>9. AskedBy(Len(queued))' = AskedBy(Len(queued)) + (IF tag \in Asking THEN 1 ELSE 0)
  BY <1>1, <1>2, StartsAppend DEF AskedBy
<1> QED
  BY <1>5, <1>6, <1>7, <1>8, <1>9

\* connect_client: the startup asks the server for its first answer.
LEMMA ConnectDialog ==
  ASSUME DialogInv, FramesInv', ConnectClient
  PROVE  DialogInv' /\ Refines
<1>1. /\ UNCHANGED <<rcvd, srv_in, said, handled, spc, cmds, sent_terminate, state, lpc, cmd,
                     rfq>>
      /\ conn = "none"
  BY DEF ConnectClient, srv
<1>2. /\ lpc = "poll" /\ ~rfq /\ cmds = <<>> /\ ~awaiting /\ queued = <<>> /\ frames = <<>>
  BY <1>1 DEF DialogInv, Working, FramesInv, Conveyed, TypeOK
<1>3. ReadyBy(Len(handled))' = ReadyBy(Len(handled))
  BY <1>1 DEF ReadyBy
<1>4. CASE conn' = "open"
  <2>1. SendFrame("startup") /\ awaiting'
    BY <1>4 DEF ConnectClient
  <2>2. AskedBy(Len(queued)) = 0
    <3>1. Len(queued) = 0 /\ Starts(queued, 0, Asking) = {}
      BY <1>2 DEF Starts
    <3> QED BY <3>1, FS_EmptySet DEF AskedBy
  <2>3. ReadyBy(Len(handled)) = 0 /\ Len(handled) \in Nat
    BY <2>2, Counts
  <2>4. /\ Taking' /\ Answering' /\ Passing'
        /\ AskedBy(Len(queued))' = 1 /\ ReadyBy(Len(said))' = ReadyBy(Len(said))
    <3>1. /\ "startup" \in Tags /\ "startup" \in Asking /\ "startup" # "pass"
          /\ Len(handled) <= Len(handled') /\ Len(handled') \in Nat
      BY <1>1, <2>3 DEF Tags, ToServer, Asking
    <3>2. /\ Taking' /\ Answering' /\ Passing'
          /\ AskedBy(Len(queued))' = AskedBy(Len(queued)) + 1
          /\ ReadyBy(Len(said))' = ReadyBy(Len(said))
      BY <1>1, <2>1, <3>1, SendKept
    <3> QED BY <2>2, <3>2
  <2>5. frames' = <<"startup">>
    BY <1>2, <2>1 DEF SendFrame
  <2>6. Working'
    <3>1. ~(\E i \in DOMAIN frames' : frames'[i] = "term")
      BY <2>5
    <3> QED BY <1>1, <1>2, <1>3, <1>4, <2>3, <3>1 DEF Working
  <2>7. Awaiting'
    BY <1>1, <1>2, <1>3, <1>4, <2>1, <2>3, <2>4 DEF Awaiting, Owed
  <2>8. Abstract!Connect
    <3>1. Phase = "none" /\ Phase' = "connecting"
      BY <1>1, <1>2, <1>4, <2>1 DEF Phase, Executing
    <3> QED BY <2>4, <2>5, <3>1 DEF Abstract!Connect, AskedBy, ReadyBy, Asking
  <2> QED
    BY <2>4, <2>6, <2>7, <2>8 DEF DialogInv, Refines, Abstract!Next
<1>5. CASE conn' # "open"
  <2>1. conn' = "dropped" /\ UNCHANGED <<queued, frames, awaiting>>
    BY <1>5 DEF ConnectClient
  <2>2. Working'
    BY <1>1, <1>2, <2>1, WorkingKept
  <2>3. Stays
    BY <1>1, <2>1 DEF Stays, Phase
  <2> QED
    BY <1>1, <2>1, <2>2, <2>3, LoopKept
<1> QED
  BY <1>4, <1>5

\* What holds when the loop executes a command: nothing is unanswered, and the client
\* is ready to send.
LEMMA Ready ==
  ASSUME DialogInv, conn = "open", lpc = "poll", ~awaiting
  PROVE  /\ state = "Normal" /\ ~rfq /\ ~Owed /\ Phase = "idle"
         /\ AskedBy(Len(queued)) = ReadyBy(Len(handled))
<1>1. ~Executing /\ ~rfq
  BY DEF DialogInv, Working, Executing
<1>2. ~Owed
  BY <1>1 DEF Owed
<1>3. AskedBy(Len(queued)) = ReadyBy(Len(handled)) /\ ReadyBy(Len(handled)) # 0
  BY <1>2, Counts DEF DialogInv, Awaiting
<1>4. state = "Normal"
  BY <1>3 DEF DialogInv, Working, FramesInv, Conveyed, TypeOK
<1>5. Phase = "idle"
  BY <1>1 DEF Phase
<1> QED
  BY <1>1, <1>2, <1>3, <1>4, <1>5

\* execute: a frame that is sent is the only one the server may have to answer, and
\* none follows Terminate.
LEMMA ExecuteDialog ==
  ASSUME DialogInv, FramesInv', NEW kind \in Kinds, kind \in Commands, Execute(kind)
  PROVE  DialogInv' /\ Refines
<1>1. /\ UNCHANGED <<rcvd, srv_in, said, handled, spc, state, rfq, conn, awaiting>>
      /\ conn = "open" /\ lpc = "poll" /\ ~awaiting
      /\ lpc' \in {"flush", "done"} /\ cmd' = kind /\ cmds' = Append(cmds, kind)
  BY DEF Execute, net, slt, srv
<1>2. /\ state = "Normal" /\ ~rfq /\ ~Owed /\ Phase = "idle"
      /\ AskedBy(Len(queued)) = ReadyBy(Len(handled))
  BY <1>1, Ready
<1>3. /\ cmds \in Seq(Kinds) /\ Len(cmds) \in Nat /\ frames \in Seq(Tags)
      /\ Len(handled) \in Nat /\ Len(handled) <= Len(handled')
  BY <1>1, Counts, LenProperties DEF DialogInv, FramesInv, Conveyed, TypeOK
<1>4. /\ DOMAIN cmds = 1 .. Len(cmds) /\ DOMAIN cmds' = 1 .. Len(cmds) + 1
      /\ \A i \in DOMAIN cmds : i \in DOMAIN cmds' /\ cmds'[i] = cmds[i]
      /\ Len(cmds) + 1 \in DOMAIN cmds' /\ cmds'[Len(cmds) + 1] = kind /\ cmds' # <<>>
  BY <1>1, <1>3
<1>5. ReadyBy(Len(handled))' = ReadyBy(Len(handled))
  BY <1>1 DEF ReadyBy
<1>6. /\ (\E i \in DOMAIN cmds : cmds[i] = "end") => FALSE
      /\ (\E i \in DOMAIN cmds : cmds[i] = "term") => kind = "end"
  BY DEF Commands
<1>7. (\E i \in DOMAIN frames : frames[i] = "term") => sent_terminate /\ kind = "end"
  BY <1>6 DEF DialogInv, Working
<1>8. Executing' = (kind = "block")
  BY <1>1 DEF Executing
<1>9. Owed' = (kind = "block")
  BY <1>1, <1>2, <1>8 DEF Owed
<1>10. Phase' = IF kind = "block" THEN "busy" ELSE "idle"
  BY <1>1, <1>4, <1>8 DEF Phase
<1>11. ASSUME NEW tag \in {"block", "plain", "term"}, SendFrame(tag),
              sent_terminate' = (sent_terminate \/ tag = "term"),
              tag = kind \/ (tag = "term" /\ kind = "end" /\ ~sent_terminate)
       PROVE  DialogInv' /\ Refines
  <2>1. /\ Taking' /\ Answering' /\ Passing'
        /\ AskedBy(Len(queued))' =
             AskedBy(Len(queued)) + (IF tag \in Asking THEN 1 ELSE 0)
        /\ ReadyBy(Len(said))' = ReadyBy(Len(said))
    <3>1. tag \in Tags /\ tag # "pass" /\ Len(handled') \in Nat
      BY <1>1, <1>3 DEF Tags, ToServer
    <3> QED BY <1>1, <1>3, <1>11, <3>1, SendKept
  <2>2. /\ frames' = Append(frames, tag) /\ Len(frames) \in Nat
        /\ DOMAIN frames' = 1 .. Len(frames) + 1 /\ DOMAIN frames = 1 .. Len(frames)
        /\ \A i \in DOMAIN frames : frames'[i] = frames[i]
        /\ frames'[Len(frames) + 1] = tag
    <3>1. frames' = Append(frames, tag) /\ Len(frames) \in Nat /\ tag \in Tags
      BY <1>3, <1>11, LenProperties DEF SendFrame, Tags, ToServer
    <3> QED BY <1>3, <3>1
  <2>3. ~(\E i \in DOMAIN frames : frames[i] = "term")
    BY <1>7, <1>11
  <2>4. (\E i \in DOMAIN frames' : frames'[i] = "term") =>
          sent_terminate' /\ \E i \in DOMAIN cmds' : cmds'[i] \in {"term", "end"}
    <3>1. \A i \in DOMAIN frames' : i \in DOMAIN frames \/ i = Len(frames) + 1
      BY <2>2
    <3>2. (\E i \in DOMAIN frames' : frames'[i] = "term") => tag = "term"
      BY <2>2, <2>3, <3>1
    <3>3. tag = "term" => sent_terminate' /\ kind \in {"term", "end"}
      BY <1>11
    <3> QED BY <1>4, <3>2, <3>3
  <2>5. Working'
    BY <1>1, <1>2, <2>4 DEF Working
  <2>6. tag \in Asking <=> kind = "block"
    BY <1>11 DEF Asking
  <2>7. Awaiting'
    <3>1. AskedBy(Len(queued)) \in Nat /\ AskedBy(Len(queued)) >= 1
      BY <1>1, Counts DEF DialogInv, Awaiting
    <3>2. AskedBy(Len(queued))' =
            ReadyBy(Len(handled))' + (IF kind = "block" THEN 1 ELSE 0)
      BY <1>2, <1>5, <2>1, <2>6
    <3>3. AskedBy(Len(queued))' >= 1
      BY <2>1, <3>1
    <3> QED
      BY <1>9, <3>2, <3>3 DEF Awaiting
  <2>8. tag = "block" <=> kind = "block"
    BY <1>11
  <2>9. Abstract!Send(tag)
    <3>1. ~Abstract!Terminated
      BY <2>3 DEF Abstract!Terminated
    <3>2. AskedBy(Len(queued))' =
            IF tag = "block" THEN AskedBy(Len(queued)) + 1 ELSE AskedBy(Len(queued))
      BY <2>1, <2>6, <2>8, Counts
    <3> QED
      BY <1>2, <1>10, <2>1, <2>2, <2>8, <3>1, <3>2 DEF Abstract!Send, AskedBy, ReadyBy, Asking
  <2> QED
    BY <2>1, <2>5, <2>7, <2>9 DEF DialogInv, Refines, Abstract!Next
<1>12. CASE kind # "end"
  <2>1. SendFrame(kind) /\ sent_terminate' = (sent_terminate \/ kind = "term")
    BY <1>2, <1>12 DEF Execute, ReplayFrame
  <2>2. kind \in {"block", "plain", "term"}
    BY <1>12 DEF Kinds
  <2> QED BY <1>11, <2>1, <2>2
<1>13. CASE kind = "end" /\ ~sent_terminate
  <2>1. SendFrame("term") /\ sent_terminate' = (sent_terminate \/ "term" = "term")
    BY <1>2, <1>13 DEF Execute, ReplayFrame
  <2> QED BY <1>11, <1>13, <2>1
<1>14. CASE kind = "end" /\ sent_terminate
  <2>1. UNCHANGED <<sent_terminate, outbox, queued, frames>>
    BY <1>14 DEF Execute
  <2>2. /\ Taking' /\ Answering' /\ Passing'
    BY <1>1, <2>1, Kept
  <2>3. Working'
    BY <1>1, <1>2, <1>4, <1>14, <2>1 DEF DialogInv, Working
  <2>4. Stays /\ Owed' = Owed
    <3>1. Phase' = "idle" /\ ~Owed'
      BY <1>9, <1>10, <1>14
    <3>2. Owed \in BOOLEAN /\ Owed' \in BOOLEAN
      BY DEF Owed
    <3> QED BY <1>2, <3>1, <3>2 DEF Stays
  <2> QED
    BY <1>1, <1>5, <2>1, <2>2, <2>3, <2>4, NothingSaid
<1> QED
  BY <1>12, <1>13, <1>14

----------------------------------------------------------------------------
(* The parser.                                                             *)

\* What try_read_frame finds is the next frame the server has said, with its tag.
LEMMA FrameRead ==
  ASSUME DialogInv, TryReadFrame(Data(parse_stream)) # NoFrame
  PROVE  LET frame == TryReadFrame(Data(parse_stream))
             h == Len(handled)
             tag == said[h + 1][1]
         IN  /\ Len(said) \in Nat /\ h + 1 \in 1 .. Len(said) /\ tag \in Tags
             /\ said[h + 1] = <<tag, 1>>
             /\ frame.tag = tag /\ frame.len = FrameLen(tag) /\ FrameLen(tag) \in Nat
             /\ frame.len <= Len(Data(parse_stream))
             /\ h + FrameLen(tag) <= Len(said)
             /\ \A T : Cardinality(Starts(said, h + FrameLen(tag), T)) =
                         Cardinality(Starts(said, h, T)) + (IF tag \in T THEN 1 ELSE 0)
<1> DEFINE buf == Data(parse_stream)
           h == Len(handled)
           tag == said[h + 1][1]
<1>1. /\ said \in Seq(Cells) /\ handled \in Seq(Cells) /\ buf \in Seq(Cells)
      /\ h + Len(buf) <= Len(said)
      /\ \A i \in 1 .. h : said[i] = handled[i]
      /\ \A i \in 1 .. Len(buf) : said[h + i] = buf[i]
  BY Prefix DEF DialogInv, FramesInv
<1>2. /\ h \in Nat /\ Len(buf) \in Nat /\ Len(said) \in Nat
  BY <1>1, LenProperties
<1>3. HeaderLen \in Nat \ {0} /\ HeaderLen <= Len(buf)
  <2>1. ~(Len(buf) < HeaderLen)
    BY DEF TryReadFrame
  <2> QED BY <1>2, <2>1, ConnectionAssumption
<1>4. Aligned(said, h) /\ h < Len(said) /\ Frames(said)
  <2>1. h # 0 => said[h][2] = FrameLen(said[h][1])
    BY <1>1, <1>2 DEF DialogInv, FramesInv, Framed
  <2>2. h \in 0 .. Len(said) /\ h < Len(said)
    BY <1>1, <1>2, <1>3
  <2> QED BY <2>1, <2>2 DEF Aligned, DialogInv, FramesInv
<1>5. /\ tag \in Tags /\ FrameLen(tag) \in Nat \ {0} /\ HeaderLen <= FrameLen(tag)
      /\ h + FrameLen(tag) <= Len(said)
      /\ \A k \in 1 .. FrameLen(tag) : said[h + k] = <<tag, k>>
      /\ \A T : Cardinality(Starts(said, h + FrameLen(tag), T)) =
                  Cardinality(Starts(said, h, T)) + (IF tag \in T THEN 1 ELSE 0)
  BY <1>1, <1>4, FrameAt
<1> HIDE DEF tag, h, buf
<1>6. buf[HeaderLen] = <<tag, HeaderLen>> /\ buf[1] = <<tag, 1>> /\ said[h + 1] = <<tag, 1>>
  <2>1. /\ HeaderLen \in 1 .. Len(buf) /\ 1 \in 1 .. Len(buf)
        /\ HeaderLen \in 1 .. FrameLen(tag) /\ 1 \in 1 .. FrameLen(tag)
    BY <1>2, <1>3, <1>5
  <2>2. /\ buf[HeaderLen] = said[h + HeaderLen] /\ buf[1] = said[h + 1]
    BY <1>1, <2>1
  <2>3. said[h + HeaderLen] = <<tag, HeaderLen>> /\ said[h + 1] = <<tag, 1>>
    BY <1>5, <2>1
  <2> QED BY <2>2, <2>3
<1>7. /\ TryReadFrame(buf).tag = tag /\ TryReadFrame(buf).len = FrameLen(tag)
      /\ FrameLen(tag) <= Len(buf)
  <2>1. TryReadFrame(buf) # NoFrame
    BY DEF buf
  <2>2. buf[HeaderLen][1] = tag /\ buf[1][2] = 1 /\ buf[1][1] = tag
    BY <1>6
  <2>3. ~(Len(buf) < HeaderLen) /\ ~(Len(buf) < FrameLen(tag))
    BY <2>1, <2>2 DEF TryReadFrame
  <2>4. TryReadFrame(buf) = [tag |-> tag, len |-> FrameLen(tag)]
    BY <2>2, <2>3 DEF TryReadFrame
  <2> QED BY <1>2, <1>5, <2>3, <2>4
<1>8. h + 1 \in 1 .. Len(said)
  BY <1>2, <1>4
<1> QED
  BY <1>2, <1>5, <1>6, <1>7, <1>8 DEF tag, h, buf

\* on_read: what is handled of a frame is the frame as a whole, so the count of the
\* ReadyForQuery that were read grows with handle_frame's "Z" and with nothing else.
LEMMA ParseDialog ==
  ASSUME DialogInv, FramesInv', Parse
  PROVE  DialogInv' /\ Refines
<1> DEFINE buf == Data(parse_stream)
           frame == TryReadFrame(buf)
           h == Len(handled)
<1>1. /\ UNCHANGED <<conn, cmd, awaiting, sent_terminate, rcvd, srv_in, said, spc, cmds>>
      /\ lpc = "parse" /\ lpc' \in {"read", "parse", "flush"}
  BY DEF Parse, slt, srv, AfterChunk
<1>2. conn = "open" /\ cmd = "event"
  BY <1>1 DEF DialogInv, Working
<1>3. Phase' = Phase
  BY <1>1, <1>2 DEF Phase, Executing
<1>4. Stays /\ ~Executing /\ ~Executing'
  BY <1>1, <1>2, <1>3 DEF Stays, Executing
<1>5. CASE frame = NoFrame
  <2>1. UNCHANGED <<state, rfq, queued, frames, handled>>
    BY <1>5 DEF Parse
  <2>2. Working'
    BY <1>1, <1>2, <2>1, WorkingKept
  <2>3. Owed' = Owed
    BY <1>1, <1>4, <2>1 DEF Owed
  <2> QED
    BY <1>1, <1>2, <1>4, <2>1, <2>2, <2>3, LoopKept
<1>6. CASE frame # NoFrame
  <2> DEFINE tag == said[h + 1][1]
             len == FrameLen(tag)
  <2>1. /\ h + 1 \in 1 .. Len(said) /\ tag \in Tags /\ said[h + 1] = <<tag, 1>>
        /\ frame.tag = tag /\ frame.len = len /\ len \in Nat /\ len <= Len(buf)
        /\ h + len <= Len(said) /\ Len(said) \in Nat
        /\ Cardinality(Starts(said, h + len, {"Z"})) =
             Cardinality(Starts(said, h, {"Z"})) + (IF tag \in {"Z"} THEN 1 ELSE 0)
    BY <1>6, FrameRead
  <2>2. HandleFrame(tag) /\ handled' = handled \o SubSeq(buf, 1, len)
    BY <1>6, <2>1 DEF Parse
  <2>3. h \in Nat /\ handled \in Seq(Cells) /\ buf \in Seq(Cells)
    BY Counts, Prefix DEF DialogInv, FramesInv
  <2>4. Len(handled') = h + len
    <3>1. SubSeq(buf, 1, len) \in Seq(Cells) /\ Len(SubSeq(buf, 1, len)) = len
      <4> HIDE DEF buf, len
      <4> QED BY <2>1, <2>3
    <3> QED BY <2>2, <2>3, <3>1, CatElements
  <2>5. h <= Len(handled') /\ Len(handled') \in Nat
    BY <2>1, <2>3, <2>4
  <2>6. ReadyBy(Len(handled))' = ReadyBy(Len(handled)) + (IF tag = "Z" THEN 1 ELSE 0)
    BY <1>1, <2>1, <2>4 DEF ReadyBy
  <2>7. /\ ReadyBy(Len(handled)) \in Nat /\ ReadyBy(Len(handled))' \in Nat
        /\ ReadyBy(Len(handled))' <= ReadyBy(Len(said))
    <3>1. Len(handled') <= Len(said)
      BY <2>1, <2>4
    <3> QED
      BY <1>1, <2>1, <2>5, <3>1, Counts, StartsFinite, StartsMono DEF ReadyBy
  <2> HIDE DEF tag, len, frame, buf
  <2>8. CASE UNCHANGED <<queued, frames>>
    <3>1. Taking' /\ Answering'
      <4>1. Taking'
        BY <1>1, <2>8 DEF DialogInv, Taking, Took
      <4>2. Took' = Took
        BY <1>1 DEF Took
      <4>3. AskedBy(Took)' = AskedBy(Took) /\ ReadyBy(Len(said))' = ReadyBy(Len(said))
        BY <1>1, <2>8, <4>2 DEF AskedBy, ReadyBy
      <4>4. Answering'
        BY <1>1, <4>3 DEF DialogInv, Answering
      <4> QED BY <4>1, <4>4
    <3>2. Passing'
      <4>1. \A i \in 1 .. h : i \in 1 .. Len(handled')
        BY <2>3, <2>5
      <4> QED BY <1>1, <2>8, <4>1 DEF DialogInv, Passing, Asks
    <3>3. CASE tag = "Z"
      <4>1. state' = "Normal" /\ rfq'
        BY <2>2, <3>3 DEF HandleFrame, HandleAuth
      <4>2. /\ AskedBy(Len(queued)) = ReadyBy(Len(handled)) + (IF Owed THEN 1 ELSE 0)
            /\ AskedBy(Len(queued)) >= 1
        BY <1>2 DEF DialogInv, Awaiting
      <4>3. Owed /\ AskedBy(Len(queued)) = ReadyBy(Len(handled))'
        BY <2>6, <2>7, <3>3, <4>2, Counts
      <4>4. ~Owed'
        BY <4>1 DEF Owed
      <4>5. AskedBy(Len(queued))' = AskedBy(Len(queued))
        BY <2>8 DEF AskedBy
      <4>6. Awaiting'
        BY <2>7, <4>2, <4>3, <4>4, <4>5 DEF Awaiting
      <4>7. Working'
        <5>1. state' # "Dead"
          BY <4>1
        <5>2. lpc' = "parse"
          BY <1>6, <5>1 DEF Parse, frame, buf
        <5> QED BY <1>1, <1>2, <2>8, <4>1, <5>2 DEF DialogInv, Working
      <4>8. UNCHANGED Abstract!vars
        BY <1>1, <1>3, <2>8, ReadyKept
      <4> QED
        BY <3>1, <3>2, <4>6, <4>7, <4>8 DEF DialogInv, Refines
    <3>4. CASE tag # "Z"
      <4>1. UNCHANGED rfq /\ state' \in {state, "Dead"}
        BY <2>2, <3>4 DEF HandleFrame, HandleAuth
      <4>2. ReadyBy(Len(handled))' = ReadyBy(Len(handled))
        BY <2>6, <2>7, <3>4
      <4>3. Owed' = Owed
        BY <1>1, <1>4, <4>1 DEF Owed
      <4>4. Working'
        BY <1>1, <1>2, <2>8, <4>1, <4>2 DEF DialogInv, Working
      <4> QED
        BY <1>1, <1>2, <1>4, <2>8, <3>1, <3>2, <4>2, <4>3, <4>4, NothingSaid
    <3> QED BY <3>3, <3>4
  <2>9. CASE ~UNCHANGED <<queued, frames>>
    <3>1. /\ tag = "auth_pass" /\ state = "Connecting" /\ SendFrame("pass")
          /\ UNCHANGED <<state, rfq>>
      BY <2>2, <2>9 DEF HandleFrame, HandleAuth
    <3>2. Asks(h + 1)
      BY <2>1, <3>1 DEF Asks
    <3>3. /\ Taking' /\ Answering' /\ Passing'
          /\ AskedBy(Len(queued))' = AskedBy(Len(queued)) + 0
          /\ ReadyBy(Len(said))' = ReadyBy(Len(said))
      <4>1. h + 1 \in 1 .. Len(handled')
        <5>1. len # 0
          BY <2>1, FrameElements DEF len
        <5> QED BY <2>1, <2>3, <2>4, <5>1
      <4>2. "pass" \in Tags /\ "pass" \notin Asking
        BY DEF Tags, ToServer, Asking
      <4>3. \E i \in 1 .. Len(handled') : Asks(i)
        BY <3>2, <4>1
      <4> QED BY <1>1, <2>5, <3>1, <4>2, <4>3, SendKept
    <3>4. cmds = <<>> /\ ReadyBy(Len(handled)) = 0
      BY <3>1 DEF DialogInv, Working
    <3>5. AskedBy(Len(queued)) >= 1 /\ Owed
      BY <1>2, <3>4, Counts DEF DialogInv, Awaiting
    <3>6. awaiting /\ Phase = "connecting"
      BY <1>2, <1>4, <3>4, <3>5 DEF Owed, Phase
    <3>7. frames' = Append(frames, "pass")
      BY <3>1 DEF SendFrame
    <3>8. Starts(said, Len(said), {"Z"}) = {}
      <4>1. h + 1 \notin 1 .. h
        BY <2>3
      <4>2. \A i \in 1 .. h : ~Asks(i)
        <5>1. \A i \in 1 .. h : i \in 1 .. Len(said)
          BY <2>1, <2>3
        <5> QED BY <2>1, <3>2, <4>1, <5>1 DEF DialogInv, Passing
      <4>3. Starts(queued, Len(queued), {"pass"}) = {}
        BY <4>2 DEF DialogInv, Passing
      <4> QED BY <2>1, <3>2, <4>3 DEF DialogInv, Passing
    <3>9. ReadyBy(Len(said)) = 0
      BY <3>8, FS_EmptySet DEF ReadyBy
    <3>10. Abstract!Password
      <4>1. AskedBy(Len(queued))' = AskedBy(Len(queued))
        BY <3>3, Counts
      <4> QED
        BY <1>3, <3>3, <3>6, <3>7, <3>9, <4>1 DEF Abstract!Password, AskedBy, ReadyBy, Asking
    <3>11. ReadyBy(Len(handled))' = 0
      BY <2>6, <3>1, <3>4
    <3>12. Working'
      <4>1. /\ frames \in Seq(Tags) /\ "pass" \in Tags /\ "pass" # "term"
        BY Counts DEF Tags, ToServer
      <4>2. /\ DOMAIN frames' = 1 .. Len(frames) + 1 /\ DOMAIN frames = 1 .. Len(frames)
            /\ \A i \in DOMAIN frames : frames'[i] = frames[i]
            /\ frames'[Len(frames) + 1] = "pass" /\ Len(frames) \in Nat
        BY <3>7, <4>1
      <4>3. \A i \in DOMAIN frames' : i \in DOMAIN frames \/ i = Len(frames) + 1
        BY <4>2
      <4>4. (\E i \in DOMAIN frames' : frames'[i] = "term") =>
              \E i \in DOMAIN frames : frames[i] = "term"
        BY <4>1, <4>2, <4>3
      <4> QED BY <1>1, <1>2, <3>1, <3>4, <3>11, <4>4 DEF DialogInv, Working
    <3>13. Awaiting'
      <4>1. Owed'
        BY <1>1, <3>1, <3>5, <3>6 DEF Owed
      <4>2. AskedBy(Len(queued)) = 1
        BY <1>2, <3>4, <3>5 DEF DialogInv, Awaiting
      <4> QED BY <3>3, <3>11, <4>1, <4>2 DEF Awaiting
    <3> QED
      BY <3>3, <3>10, <3>12, <3>13 DEF DialogInv, Refines, Abstract!Next
  <2> QED BY <2>8, <2>9
<1> QED
  BY <1>5, <1>6

----------------------------------------------------------------------------
(* The kernel and the server.                                              *)

\* A step that is not the client's, and in which the server says nothing.
LEMMA SilentDialog ==
  ASSUME DialogInv, FramesInv',
         UNCHANGED <<conn, lpc, cmd, awaiting, state, sent_terminate, rfq, queued, frames,
                     said, handled, cmds>>,
         Taking', Answering', Passing'
  PROVE  DialogInv' /\ Refines
<1>1. ReadyBy(Len(handled))' = ReadyBy(Len(handled))
  BY DEF ReadyBy
<1>2. Working'
  BY <1>1 DEF DialogInv, Working
<1>3. Stays /\ Owed' = Owed
  BY DEF Stays, Phase, Owed, Executing
<1> QED
  BY <1>1, <1>2, <1>3, NothingSaid

\* The network, and the end of the server.
LEMMA NetworkDialog ==
  ASSUME DialogInv, FramesInv',
         \/ Establish \/ Spurious \/ ServerSend \/ ServerClose \/ ServerDrop \/ Reset
         \/ UNCHANGED vars
  PROVE  DialogInv' /\ Refines
<1>1. /\ UNCHANGED <<conn, lpc, cmd, awaiting, state, sent_terminate, rfq, queued, frames,
                     said, handled, cmds, rcvd, srv_in>>
      /\ spc' \in {spc, "closed"}
  BY DEF Establish, Spurious, ServerSend, ServerClose, ServerDrop, Close, Reset, vars, ctl, cli, slt, srv
<1>2. Taking' /\ Answering' /\ Passing'
  BY <1>1, Kept
<1> QED
  BY <1>1, <1>2, SilentDialog

\* The server reads what has come, behind what it has not taken yet.
LEMMA ServerRecvDialog ==
  ASSUME DialogInv, FramesInv', ServerRecv
  PROVE  DialogInv' /\ Refines
<1>1. /\ UNCHANGED <<conn, lpc, cmd, awaiting, state, sent_terminate, rfq, queued, frames,
                     said, handled, cmds, spc>>
      /\ rcvd' = rcvd \o net_out /\ srv_in' = srv_in \o net_out
  BY DEF ServerRecv, ctl, cli, slt
<1>2. /\ rcvd \in Seq(Cells) /\ srv_in \in Seq(Cells) /\ net_out \in Seq(Cells)
      /\ Took \in Nat /\ Took = Len(rcvd) - Len(srv_in)
      /\ Len(rcvd) \in Nat /\ Len(srv_in) \in Nat
  BY Counts DEF DialogInv, FramesInv, Conveyed, TypeOK
<1>3. /\ Len(rcvd') = Len(rcvd) + Len(net_out) /\ Len(srv_in') = Len(srv_in) + Len(net_out)
      /\ \A i \in 1 .. Len(rcvd) : rcvd'[i] = rcvd[i]
      /\ \A i \in 1 .. Len(srv_in) : srv_in'[i] = srv_in[i]
      /\ \A i \in 1 .. Len(net_out) : rcvd'[Len(rcvd) + i] = net_out[i]
      /\ \A i \in 1 .. Len(net_out) : srv_in'[Len(srv_in) + i] = net_out[i]
  BY <1>1, <1>2, CatElements
<1>4. Len(net_out) \in Nat
  BY <1>2, LenProperties
<1>5. Took' = Took
  BY <1>2, <1>3, <1>4 DEF Took
<1>6. PICK t : t = Took
  OBVIOUS
<1>7. ASSUME NEW i \in 1 .. Len(srv_in') PROVE srv_in'[i] = rcvd'[t + i]
  <2>1. CASE i \in 1 .. Len(srv_in)
    <3>1. t + i \in 1 .. Len(rcvd)
      BY <1>2, <1>6, <2>1
    <3> QED BY <1>3, <1>6, <2>1, <3>1 DEF DialogInv, Taking
  <2>2. CASE i \notin 1 .. Len(srv_in)
    <3>0. i \in 1 .. Len(srv_in) + Len(net_out) /\ t = Len(rcvd) - Len(srv_in)
      BY <1>2, <1>3, <1>6
    <3>1. /\ i - Len(srv_in) \in 1 .. Len(net_out)
          /\ Len(srv_in) + (i - Len(srv_in)) = i
          /\ Len(rcvd) + (i - Len(srv_in)) = t + i
      BY <1>2, <1>4, <2>2, <3>0
    <3>2. /\ srv_in'[i] = net_out[i - Len(srv_in)] /\ rcvd'[t + i] = net_out[i - Len(srv_in)]
      BY <1>3, <3>1
    <3> QED BY <3>2
  <2> QED BY <2>1, <2>2
<1>8. Taking'
  <2>1. Frames(queued') /\ Aligned(queued', t)
    BY <1>1, <1>6 DEF DialogInv, Taking
  <2> QED BY <1>5, <1>6, <1>7, <2>1 DEF Taking
<1>9. AskedBy(Took)' = AskedBy(Took) /\ ReadyBy(Len(said))' = ReadyBy(Len(said))
  BY <1>1, <1>5 DEF AskedBy, ReadyBy
<1>10. Answering'
  BY <1>1, <1>9 DEF DialogInv, Answering
<1>11. Passing'
  BY <1>1 DEF DialogInv, Passing, Asks
<1> QED
  BY <1>1, <1>8, <1>10, <1>11, SilentDialog

\* The server takes a frame: what it finds first is the beginning of the next frame
\* that was sent.
LEMMA ServerTakeDialog ==
  ASSUME DialogInv, FramesInv', ServerTake
  PROVE  DialogInv' /\ Refines
<1> DEFINE tag == srv_in[1][1]
           len == FrameLen(tag)
<1>1. /\ UNCHANGED <<conn, lpc, cmd, awaiting, state, sent_terminate, rfq, queued, frames,
                     said, handled, cmds, rcvd>>
      /\ spc \in {"startup", "password", "ready"} /\ spc' = Taken(tag)
      /\ srv_in # <<>> /\ Len(srv_in) >= len
      /\ srv_in' = SubSeq(srv_in, len + 1, Len(srv_in))
  BY DEF ServerTake, ctl, cli, slt, net
<1>2. /\ rcvd \in Seq(Cells) /\ srv_in \in Seq(Cells) /\ queued \in Seq(Cells)
      /\ Took \in Nat /\ Took = Len(rcvd) - Len(srv_in)
      /\ Len(rcvd) \in Nat /\ Len(srv_in) \in Nat /\ Len(queued) \in Nat
      /\ Len(rcvd) <= Len(queued)
  BY Counts
<1>3. \A i \in 1 .. Len(rcvd) : queued[i] = rcvd[i]
  BY PrefixOut DEF DialogInv, FramesInv
<1>4. PICK t : t = Took
  OBVIOUS
<1>5. 1 \in 1 .. Len(srv_in)
  BY <1>1, <1>2
<1>6. srv_in[1] = queued[t + 1] /\ t \in Nat /\ t < Len(queued)
  <2>1. srv_in[1] = rcvd[t + 1]
    BY <1>4, <1>5 DEF DialogInv, Taking
  <2>2. t = Len(rcvd) - Len(srv_in) /\ t \in Nat
    BY <1>2, <1>4
  <2>3. t + 1 \in 1 .. Len(rcvd) /\ t < Len(queued)
    BY <1>2, <1>5, <2>2
  <2> QED BY <1>3, <2>1, <2>2, <2>3
<1>7. /\ tag \in Tags /\ len \in Nat \ {0}
      /\ \A k \in 1 .. len : queued[t + k] = <<tag, k>>
      /\ Aligned(queued, t + len)
      /\ Cardinality(Starts(queued, t + len, Asking)) =
           Cardinality(Starts(queued, t, Asking)) + (IF tag \in Asking THEN 1 ELSE 0)
  <2>1. Frames(queued) /\ Aligned(queued, t)
    BY <1>4 DEF DialogInv, Taking
  <2>2. tag = queued[t + 1][1]
    BY <1>6
  <2> QED BY <1>2, <1>6, <2>1, <2>2, FrameAt
<1> HIDE DEF tag, len
<1>8. /\ Len(srv_in') = Len(srv_in) - len
      /\ \A i \in 1 .. Len(srv_in) - len : srv_in'[i] = srv_in[len + i]
  BY <1>1, <1>2, <1>7, Rest
<1>9. Took' = t + len
  BY <1>1, <1>2, <1>4, <1>7, <1>8 DEF Took
<1>10. Taking'
  <2>1. ASSUME NEW i \in 1 .. Len(srv_in') PROVE srv_in'[i] = rcvd'[t + len + i]
    <3>1. /\ i \in 1 .. Len(srv_in) - len /\ len + i \in 1 .. Len(srv_in)
          /\ t + (len + i) = t + len + i
      BY <1>1, <1>2, <1>6, <1>7, <1>8
    <3>2. srv_in[len + i] = rcvd[t + (len + i)]
      BY <1>4, <3>1 DEF DialogInv, Taking
    <3> QED BY <1>1, <1>8, <3>1, <3>2
  <2>2. Frames(queued') /\ Aligned(queued', t + len)
    BY <1>1, <1>7 DEF DialogInv, Taking
  <2> QED BY <1>9, <2>1, <2>2 DEF Taking
<1>11. /\ AskedBy(Took)' = AskedBy(Took) + (IF tag \in Asking THEN 1 ELSE 0)
       /\ ReadyBy(Len(said))' = ReadyBy(Len(said))
       /\ AskedBy(Took) \in Nat /\ ReadyBy(Len(said)) \in Nat
       /\ ReadyBy(Len(said)) <= AskedBy(Took)
  <2>1. AskedBy(Took)' = Cardinality(Starts(queued, t + len, Asking))
    BY <1>1, <1>9 DEF AskedBy
  <2>2. AskedBy(Took) = Cardinality(Starts(queued, t, Asking))
    BY <1>4 DEF AskedBy
  <2>3. ReadyBy(Len(said))' = ReadyBy(Len(said))
    BY <1>1 DEF ReadyBy
  <2> QED BY <1>7, <2>1, <2>2, <2>3, Counts
<1>12. \/ spc' = "auth" /\ spc = "startup" /\ tag = "startup"
       \/ spc' = "verify" /\ spc = "password" /\ tag = "pass"
       \/ spc' = "busy" /\ spc = "ready" /\ tag = "block"
       \/ spc' = "ready" /\ spc = "ready"
       \/ spc' \in {"closing", "confused"}
  BY <1>1 DEF Taken
<1>13. Answering'
  <2>1. spc' = "auth" \/ spc' = "busy" => tag \in Asking
    BY <1>12 DEF Asking
  <2>2. spc' = "verify" => ReadyBy(Len(said)) < AskedBy(Took)
    BY <1>12 DEF DialogInv, Answering
  <2>3. ReadyBy(Len(said))' <= AskedBy(Took)'
    BY <1>11
  <2>4. spc' \in {"auth", "password", "verify", "starting", "busy"} =>
          ReadyBy(Len(said))' < AskedBy(Took)'
    BY <1>11, <1>12, <2>1, <2>2
  <2> QED BY <2>3, <2>4 DEF Answering
<1>14. Passing'
  <2>1. spc' = "verify" => Starts(queued, Len(queued), {"pass"}) # {}
    <3>1. queued[t + 1] = <<tag, 1>> /\ t + 1 \in 1 .. Len(queued)
      BY <1>2, <1>6, <1>7
    <3> QED BY <1>12, <3>1 DEF Starts
  <2> QED BY <1>1, <1>12, <2>1 DEF DialogInv, Passing, Asks
<1> QED
  BY <1>1, <1>10, <1>13, <1>14, SilentDialog

\* The server says a frame.  It says ReadyForQuery only when it has taken a frame that
\* asks for it, and then the client is waiting for it, or has gone.
LEMMA SayDialog ==
  ASSUME DialogInv, FramesInv', NEW tag \in Tags, NEW to, Say(tag, to),
         \/ spc = "auth" /\ tag = "auth_pass" /\ to = "password"
         \/ spc = "auth" /\ tag = "auth_other" /\ to = "password"
         \/ spc \in {"auth", "verify"} /\ tag = "E" /\ to = "closing"
         \/ spc \in {"auth", "verify"} /\ tag = "auth_ok" /\ to = "starting"
         \/ spc \in {"starting", "busy"} /\ tag = "Z" /\ to = "ready"
         \/ spc \in {"starting", "ready", "busy"} /\ tag \in {"E", "other"} /\ to = spc
  PROVE  DialogInv' /\ Refines
<1>1. /\ UNCHANGED <<conn, lpc, cmd, awaiting, state, sent_terminate, rfq, queued, frames,
                     handled, cmds, rcvd, srv_in>>
      /\ spc' = to /\ said' = said \o Frame(tag)
  BY DEF Say, ctl, cli, slt
<1>2. /\ said \in Seq(Cells) /\ Len(said) \in Nat /\ Len(handled) \in Nat
      /\ Len(handled) <= Len(said)
      /\ AskedBy(Took) \in Nat /\ AskedBy(Len(queued)) \in Nat
      /\ AskedBy(Took) <= AskedBy(Len(queued))
      /\ ReadyBy(Len(handled)) \in Nat /\ ReadyBy(Len(said)) \in Nat
      /\ ReadyBy(Len(handled)) <= ReadyBy(Len(said))
  BY Counts
<1>3. /\ Len(said') \in Nat /\ Len(said) <= Len(said')
      /\ Len(said') = Len(said) + FrameLen(tag)
      /\ \A i \in 1 .. Len(said) : said'[i] = said[i]
      /\ \A n \in 0 .. Len(said) : Starts(said', n, {"Z"}) = Starts(said, n, {"Z"})
      /\ Starts(said', Len(said'), {"Z"}) =
           Starts(said, Len(said), {"Z"}) \cup (IF tag \in {"Z"} THEN {Len(said) + 1} ELSE {})
      /\ Cardinality(Starts(said', Len(said'), {"Z"})) =
           Cardinality(Starts(said, Len(said), {"Z"})) + (IF tag \in {"Z"} THEN 1 ELSE 0)
  BY <1>1, <1>2, StartsAppend
<1>4. /\ ReadyBy(Len(handled))' = ReadyBy(Len(handled))
      /\ ReadyBy(Len(said))' = ReadyBy(Len(said)) + (IF tag = "Z" THEN 1 ELSE 0)
  <2>1. Len(handled) \in 0 .. Len(said)
    BY <1>2
  <2>2. ReadyBy(Len(handled))' = ReadyBy(Len(handled))
    BY <1>1, <1>3, <2>1 DEF ReadyBy
  <2> QED BY <1>3, <2>2 DEF ReadyBy
<1>5. /\ AskedBy(Took)' = AskedBy(Took) /\ AskedBy(Len(queued))' = AskedBy(Len(queued))
  BY <1>1 DEF AskedBy, Took
<1>6. Taking'
  BY <1>1 DEF DialogInv, Taking, Took
<1>7. spc \in {"auth", "verify", "starting", "busy"} => ReadyBy(Len(said)) < AskedBy(Took)
  BY DEF DialogInv, Answering
<1>8. Answering'
  <2>1. tag # "Z" => ReadyBy(Len(said))' = ReadyBy(Len(said))
    BY <1>2, <1>4
  <2>2. CASE tag = "Z"
    <3>1. spc' = "ready" /\ ReadyBy(Len(said))' <= AskedBy(Took)'
      BY <1>1, <1>2, <1>4, <1>5, <1>7, <2>2
    <3> QED BY <3>1 DEF Answering
  <2>3. CASE tag # "Z"
    <3>1. ReadyBy(Len(said))' <= AskedBy(Took)'
      BY <1>5, <2>1, <2>3 DEF DialogInv, Answering
    <3>2. spc' \in {"auth", "password", "verify", "starting", "busy"} =>
            spc \in {"auth", "verify", "starting", "busy"}
      BY <1>1, <2>3
    <3> QED BY <1>5, <1>7, <2>1, <2>3, <3>1, <3>2 DEF Answering
  <2> QED BY <2>2, <2>3
<1>9. /\ \A i \in 1 .. Len(said) : Asks(i)' <=> Asks(i)
      /\ \A i \in 1 .. Len(said') : i \in 1 .. Len(said) \/
           (Asks(i)' => tag = "auth_pass" /\ i = Len(said) + 1)
  <2>1. \A i \in 1 .. Len(said) : Asks(i)' <=> Asks(i)
    BY <1>3 DEF Asks
  <2>2. ASSUME NEW i \in 1 .. Len(said'), i \notin 1 .. Len(said), said'[i] = <<"auth_pass", 1>>
        PROVE  tag = "auth_pass" /\ i = Len(said) + 1
    <3>1. /\ Frame(tag) \in Seq(Cells) /\ Len(Frame(tag)) = FrameLen(tag)
          /\ FrameLen(tag) \in Nat
          /\ \A k \in 1 .. FrameLen(tag) : Frame(tag)[k] = <<tag, k>>
      BY FrameElements
    <3>2. i - Len(said) \in 1 .. FrameLen(tag) /\ Len(said) + (i - Len(said)) = i
      BY <1>2, <1>3, <2>2, <3>1
    <3>3. \A k \in 1 .. FrameLen(tag) : said'[Len(said) + k] = <<tag, k>>
      <4> DEFINE f == Frame(tag)
      <4>1. f \in Seq(Cells) /\ \A k \in 1 .. Len(f) : f[k] = <<tag, k>>
        BY <3>1
      <4>2. Len(f) = FrameLen(tag) /\ said' = said \o f
        BY <1>1, <3>1
      <4> HIDE DEF f
      <4>3. \A k \in 1 .. Len(f) : (said \o f)[Len(said) + k] = f[k]
        BY <1>2, <4>1, CatElements
      <4> QED BY <4>1, <4>2, <4>3
    <3>4. said'[i] = <<tag, i - Len(said)>>
      BY <3>2, <3>3
    <3>5. tag = "auth_pass" /\ i - Len(said) = 1
      BY <2>2, <3>4
    <3> QED BY <1>2, <3>2, <3>5
  <2> QED BY <2>1, <2>2 DEF Asks
<1>10. Passing'
  <2>1. spc' \notin {"startup", "auth"}
    BY <1>1
  <2>2. tag = "auth_pass" => spc = "auth" /\ said = <<>> /\ Len(said) = 0 /\ spc' = "password"
    BY <1>1 DEF DialogInv, Passing
  <2>3. \A i, j \in 1 .. Len(said') : Asks(i)' /\ Asks(j)' => i = j
    <3>1. CASE tag = "auth_pass"
      <4>1. \A i \in 1 .. Len(said') : Asks(i)' => i = Len(said) + 1
        BY <1>9, <2>2, <3>1
      <4> QED BY <4>1
    <3>2. CASE tag # "auth_pass"
      <4>1. \A i \in 1 .. Len(said') : Asks(i)' => i \in 1 .. Len(said) /\ Asks(i)
        BY <1>9, <3>2
      <4> QED BY <4>1 DEF DialogInv, Passing
    <3> QED BY <3>1, <3>2
  <2>4. ASSUME NEW i \in 1 .. Len(said'), Asks(i)',
               \/ spc' \in {"verify", "starting", "ready", "busy"}
               \/ Starts(said', Len(said'), {"Z"}) # {}
        PROVE  Starts(queued, Len(queued), {"pass"}) # {}
    <3>1. CASE tag = "auth_pass"
      <4>1. Starts(said, Len(said), {"Z"}) = {}
        BY <2>2, <3>1 DEF Starts
      <4>2. Starts(said', Len(said'), {"Z"}) = {}
        BY <1>3, <3>1, <4>1
      <4> QED BY <2>2, <2>4, <3>1, <4>2
    <3>2. CASE tag # "auth_pass"
      <4>1. i \in 1 .. Len(said) /\ Asks(i)
        BY <1>9, <2>4, <3>2
      <4>2. said # <<>>
        BY <1>2, <4>1
      <4>3. spc # "auth"
        BY <4>2 DEF DialogInv, Passing
      <4>4. spc \in {"verify", "starting", "ready", "busy"}
        BY <4>3
      <4> QED BY <4>1, <4>4 DEF DialogInv, Passing
    <3> QED BY <3>1, <3>2
  <2>5. Starts(queued, Len(queued), {"pass"}) # {} => \E i \in 1 .. Len(handled) : Asks(i)'
    <3>1. \A i \in 1 .. Len(handled) : i \in 1 .. Len(said)
      BY <1>2
    <3> QED BY <1>9, <3>1 DEF DialogInv, Passing
  <2> QED BY <1>1, <2>1, <2>3, <2>4, <2>5 DEF Passing
<1>11. Working'
  BY <1>1, <1>4 DEF DialogInv, Working
<1>12. Owed' = Owed /\ Phase' = Phase
  BY <1>1 DEF Owed, Executing, Phase
<1>13. Awaiting'
  BY <1>1, <1>4, <1>5, <1>12 DEF DialogInv, Awaiting
<1>14. Refines
  <2>1. CASE tag # "Z"
    <3>1. ReadyBy(Len(said))' = ReadyBy(Len(said))
      BY <1>2, <1>4, <2>1
    <3>2. UNCHANGED Abstract!vars
      BY <1>1, <1>12, <3>1 DEF Abstract!vars, ReadyBy
    <3> QED BY <3>2 DEF Refines
  <2>2. CASE tag = "Z"
    <3>1. ReadyBy(Len(said)) < AskedBy(Len(queued))
      BY <1>2, <1>7, <2>2
    <3>2. conn # "none"
      <4>1. ASSUME queued = <<>> PROVE AskedBy(Len(queued)) = 0
        <5>1. Len(queued) = 0 /\ Starts(queued, 0, Asking) = {}
          BY <4>1 DEF Starts
        <5> QED BY <5>1, FS_EmptySet DEF AskedBy
      <4> QED BY <1>2, <3>1, <4>1 DEF DialogInv, Working
    <3>3. Phase \in {"connecting", "busy", "gone"}
      <4>1. CASE conn = "open"
        <5>1. Owed
          BY <1>2, <3>1, <4>1 DEF DialogInv, Awaiting
        <5> QED BY <4>1, <5>1 DEF Owed, Phase
      <4>2. CASE conn = "dropped"
        BY <4>2 DEF Phase
      <4> QED BY <3>2, <4>1, <4>2 DEF DialogInv, FramesInv, Conveyed, TypeOK
    <3>4. ReadyBy(Len(said))' = ReadyBy(Len(said)) + 1
      BY <1>4, <2>2
    <3>5. Abstract!Serve \/ Abstract!ServeLate
      BY <1>1, <1>5, <1>12, <3>1, <3>3, <3>4
         DEF Abstract!Serve, Abstract!ServeLate, AskedBy, ReadyBy, Asking
    <3> QED BY <3>5 DEF Refines, Abstract!Next
  <2> QED BY <2>1, <2>2
<1> QED
  BY <1>6, <1>8, <1>10, <1>11, <1>13, <1>14 DEF DialogInv

----------------------------------------------------------------------------
(* The refinement.                                                         *)

LEMMA DialogStep == DialogInv /\ [Next]_vars => DialogInv' /\ Refines
<1> SUFFICES ASSUME DialogInv, [Next]_vars PROVE DialogInv' /\ Refines
  OBVIOUS
<1>1. FramesInv'
  BY FramesStep DEF DialogInv
<1>2. CASE Loop
  BY <1>1, <1>2, ConnectDialog, EventDialog, ReadDialog, ParseDialog, FlushDialog, DoneDialog
     DEF Loop
<1>3. CASE \E kind \in Kinds : kind \in Commands /\ Execute(kind)
  BY <1>1, <1>3, ExecuteDialog
<1>4. CASE ServerSay
  <2>1. {"auth_pass", "auth_other", "E", "auth_ok", "Z"} \subseteq Tags
    BY DEF Tags, ToClient
  <2> QED BY <1>1, <1>4, <2>1, SayDialog DEF ServerSay
<1>5. CASE ServerTell
  <2>1. {"E", "other"} \subseteq Tags
    BY DEF Tags, ToClient
  <2> QED BY <1>1, <1>5, <2>1, SayDialog DEF ServerTell
<1>6. CASE Environment \/ UNCHANGED vars
  BY <1>1, <1>4, <1>5, <1>6, NetworkDialog, ServerRecvDialog, ServerTakeDialog DEF Environment
<1> QED
  BY <1>2, <1>3, <1>6 DEF Next

\* A connection takes the steps of the dialog and no others: a frame is replayed only
\* when the server has answered every one before, and none after Terminate; the password
\* is sent before the first answer; the server is never heard to answer what it was not
\* asked; and the loop takes the client for ready exactly when all is answered.
THEOREM DialogKept == Spec => ImplementsDialog
<1>1. Init => DialogInv /\ Abstract!Init
  BY InitDialog
<1>2. DialogInv /\ [Next]_vars => DialogInv' /\ [Abstract!Next]_(Abstract!vars)
  BY DialogStep DEF Refines
<1> QED
  BY <1>1, <1>2, PTL DEF Spec, ImplementsDialog, Abstract!Spec
=============================================================================
