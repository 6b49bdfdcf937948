--------------------------- MODULE AnalyzerProofs ---------------------------
(***************************************************************************)
(* Theorems of Analyzer, for every set of clients, names and queries, every  *)
(* capture and every mix of its replay: the rows tell the statements their   *)
(* records were written for and none is left out (Attributed), the chunks    *)
(* hold every row and find their peaks (ChunksServe), and the page is served *)
(* the entries its rows point to (Served).                                   *)
(*                                                                         *)
(* The inductive invariant follows the phases: while the capture is written  *)
(* nothing is known, while it is replayed each record carries the number     *)
(* that the message which caused it has among the messages of its client,    *)
(* and in the join the reader knows of a client what the messages read so    *)
(* far say.  Record and statement then meet by number, because the numbers   *)
(* of a client grow with its messages.  The text of a row is found again     *)
(* because what is written at an offset stays there (StorageOK, Carries), and *)
(* its parameters are where a second invariant says (ParamsKept).            *)
(***************************************************************************)
EXTENDS Analyzer, FiniteSetTheorems, WellFoundedInduction, TLAPS

\* Induction over a set of naturals: a number it lacks would have a least one.
LEMMA SetInduction ==
  ASSUME NEW T \in SUBSET Nat, 0 \in T, \A n \in T : n + 1 \in T
  PROVE  T = Nat
<1> SUFFICES ASSUME Nat \ T # {} PROVE FALSE
  OBVIOUS
<1> DEFINE R == OpToRel(<, Nat)
<1>1. IsWellFoundedOn(R, Nat)
  BY NatLessThanWellFounded
<1>2. \A n, m \in Nat : n < m => <<n, m>> \in R
  BY DEF OpToRel
<1> HIDE DEF R
<1>3. PICK n \in Nat \ T : \A m \in Nat \ T : <<m, n>> \notin R
  <2>1. (Nat \ T) \subseteq Nat
    OBVIOUS
  <2> QED BY <1>1, <2>1, WFMin
<1>4. n \in Nat /\ n # 0 /\ n - 1 \in Nat /\ n - 1 < n
  BY <1>3
<1>5. n - 1 \in T
  BY <1>2, <1>3, <1>4
<1>6. (n - 1) + 1 \in T
  BY <1>5
<1>7. (n - 1) + 1 = n
  BY <1>4
<1> QED BY <1>3, <1>6, <1>7

----------------------------------------------------------------------------
(* Sequences of sequences, one after the other.                            *)

\* What FlattenSeq has after i of the parts.
Joined(s, f, i) == IF i = 1 THEN s[i] ELSE f[i - 1] \o s[i]

\* The parts can be put one after the other, however many there are.
LEMMA JoinRuns ==
  ASSUME NEW s, NEW k \in Nat
  PROVE  \E f : f = [i \in 1 .. k |-> Joined(s, f, i)]
<1> DEFINE Runs(n) == \E f : f = [i \in 1 .. n |-> Joined(s, f, i)]
           T == {n \in Nat : Runs(n)}
<1>1. Runs(0)
  <2> DEFINE f == [i \in 1 .. 0 |-> 1]
  <2>1. f = [i \in 1 .. 0 |-> Joined(s, f, i)]
    OBVIOUS
  <2> QED BY <2>1
<1>2. ASSUME NEW n \in Nat, Runs(n) PROVE Runs(n + 1)
  <2>1. PICK f : f = [i \in 1 .. n |-> Joined(s, f, i)]
    BY <1>2
  <2> DEFINE g == [i \in 1 .. n + 1 |-> IF i = n + 1 THEN Joined(s, f, i) ELSE f[i]]
  <2>2. ASSUME NEW i \in 1 .. n + 1 PROVE g[i] = Joined(s, g, i)
    <3>1. g[i] = Joined(s, f, i)
      <4>1. CASE i = n + 1
        BY <4>1
      <4>2. CASE i # n + 1
        <5>1. i \in 1 .. n /\ g[i] = f[i]
          BY <4>2
        <5> HIDE DEF g
        <5> QED BY <2>1, <5>1
      <4> QED BY <4>1, <4>2
    <3>2. i # 1 => g[i - 1] = f[i - 1]
      OBVIOUS
    <3> HIDE DEF g
    <3> QED BY <3>1, <3>2 DEF Joined
  <2>3. g = [i \in 1 .. n + 1 |-> g[i]]
    OBVIOUS
  <2> HIDE DEF g
  <2>4. g = [i \in 1 .. n + 1 |-> Joined(s, g, i)]
    BY <2>2, <2>3
  <2> QED BY <2>4
<1> HIDE DEF Runs
<1>3. T = Nat
  <2>1. T \in SUBSET Nat /\ 0 \in T /\ \A n \in T : n + 1 \in T
    BY <1>1, <1>2
  <2> HIDE DEF T
  <2> QED BY <2>1, SetInduction
<1>4. Runs(k)
  BY <1>3
<1> QED BY <1>4 DEF Runs

\* FlattenSeq is where the joining ends.
LEMMA FlattenJoins ==
  ASSUME NEW s, Len(s) \in Nat, Len(s) # 0
  PROVE  \E f : /\ \A i \in 1 .. Len(s) : f[i] = Joined(s, f, i)
                /\ FlattenSeq(s) = f[Len(s)]
<1> DEFINE k == Len(s)
           Loop(f) == f = [i \in 1 .. k |-> Joined(s, f, i)]
           F == CHOOSE f : Loop(f)
<1>2. FlattenSeq(s) = F[k]
  BY DEF FlattenSeq, Joined
<1> HIDE DEF k
<1>3. PICK f : Loop(f)
  BY JoinRuns DEF k
<1>4. Loop(F)
  <2> HIDE DEF Loop
  <2> QED BY <1>3
<1>5. \A i \in 1 .. k : F[i] = Joined(s, F, i)
  <2> HIDE DEF F
  <2> QED BY <1>4
<1> HIDE DEF F
<1> QED
  BY <1>2, <1>5 DEF k

\* Two sequences one after the other.
LEMMA ConcatLen ==
  ASSUME NEW B, NEW a \in Seq(B), NEW b \in Seq(B)
  PROVE  a \o b \in Seq(B) /\ Len(a \o b) = Len(a) + Len(b)
OBVIOUS

\* Four sequences one after the other.
LEMMA Concat4 ==
  ASSUME NEW B, NEW a \in Seq(B), NEW b \in Seq(B), NEW c \in Seq(B), NEW d \in Seq(B)
  PROVE  /\ a \o b \o c \o d \in Seq(B)
         /\ Len(a \o b \o c \o d) = Len(a) + Len(b) + Len(c) + Len(d)
OBVIOUS

\* Where the elements of the first three of four sequences are.
LEMMA Concat4Element ==
  ASSUME NEW B, NEW a \in Seq(B), NEW b \in Seq(B), NEW c \in Seq(B), NEW d \in Seq(B)
  PROVE  /\ \A k \in 1 .. Len(a) : (a \o b \o c \o d)[k] = a[k]
         /\ \A k \in 1 .. Len(b) : (a \o b \o c \o d)[Len(a) + k] = b[k]
         /\ \A k \in 1 .. Len(c) : (a \o b \o c \o d)[Len(a) + Len(b) + k] = c[k]
OBVIOUS

\* Seven sequences one after the other.
LEMMA Concat7 ==
  ASSUME NEW B, NEW a \in Seq(B), NEW b \in Seq(B), NEW c \in Seq(B), NEW d \in Seq(B),
         NEW e \in Seq(B), NEW f \in Seq(B), NEW g \in Seq(B)
  PROVE  /\ a \o b \o c \o d \o e \o f \o g \in Seq(B)
         /\ Len(a \o b \o c \o d \o e \o f \o g)
              = Len(a) + Len(b) + Len(c) + Len(d) + Len(e) + Len(f) + Len(g)
OBVIOUS

\* An element of a sequence.
LEMMA Element ==
  ASSUME NEW B, NEW s \in Seq(B), NEW i \in 1 .. Len(s)
  PROVE  s[i] \in B
OBVIOUS

\* A function on 1 .. n is a sequence.
LEMMA Mapping ==
  ASSUME NEW B, NEW n \in Nat, NEW f, f = [i \in 1 .. n |-> f[i]], \A i \in 1 .. n : f[i] \in B
  PROVE  f \in Seq(B) /\ Len(f) = n /\ DOMAIN f = 1 .. n
<1>1. f \in [1 .. n -> B]
  OBVIOUS
<1> QED BY <1>1

\* The parts joined are a sequence of the same elements.
LEMMA FlattenType ==
  ASSUME NEW B, NEW s \in Seq(Seq(B))
  PROVE  FlattenSeq(s) \in Seq(B)
<1>1. CASE Len(s) = 0
  <2>1. s = <<>>
    BY <1>1
  <2> QED BY <1>1, <2>1 DEF FlattenSeq
<1>2. CASE Len(s) # 0
  <2> DEFINE k == Len(s)
  <2>1. k \in Nat
    OBVIOUS
  <2>2. PICK f : /\ \A i \in 1 .. k : f[i] = Joined(s, f, i)
                 /\ FlattenSeq(s) = f[k]
    BY <1>2, <2>1, FlattenJoins
  <2> DEFINE T == {i \in Nat : i + 1 \in 1 .. k => f[i + 1] \in Seq(B)}
  <2>3. 0 \in T
    BY <1>2, <2>1, <2>2 DEF Joined
  <2>4. ASSUME NEW i \in T PROVE i + 1 \in T
    <3> SUFFICES ASSUME i + 2 \in 1 .. k PROVE f[i + 2] \in Seq(B)
      OBVIOUS
    <3>1. f[i + 1] \in Seq(B) /\ s[i + 2] \in Seq(B)
      OBVIOUS
    <3>2. f[i + 2] = f[i + 1] \o s[i + 2]
      <4>1. i + 2 # 1 /\ (i + 2) - 1 = i + 1
        OBVIOUS
      <4> QED BY <2>2, <4>1 DEF Joined
    <3> QED BY <3>1, <3>2
  <2>5. T = Nat
    <3>1. T \in SUBSET Nat
      OBVIOUS
    <3> HIDE DEF T
    <3> QED BY <2>3, <2>4, <3>1, SetInduction
  <2>6. k - 1 \in T
    <3>1. k - 1 \in Nat
      BY <1>2, <2>1
    <3> HIDE DEF T
    <3> QED BY <2>5, <3>1
  <2>7. (k - 1) + 1 = k /\ k \in 1 .. k
    BY <1>2, <2>1
  <2> QED BY <2>2, <2>6, <2>7
<1> QED BY <1>1, <1>2

\* Parts of m elements each.
LEMMA FlattenLen ==
  ASSUME NEW B, NEW s \in Seq(Seq(B)), NEW m \in Nat, \A i \in 1 .. Len(s) : Len(s[i]) = m
  PROVE  Len(FlattenSeq(s)) = m * Len(s)
<1>1. CASE Len(s) = 0
  <2>1. s = <<>>
    BY <1>1
  <2> QED BY <1>1, <2>1 DEF FlattenSeq
<1>2. CASE Len(s) # 0
  <2> DEFINE k == Len(s)
  <2>1. k \in Nat
    OBVIOUS
  <2>2. PICK f : /\ \A i \in 1 .. k : f[i] = Joined(s, f, i)
                 /\ FlattenSeq(s) = f[k]
    BY <1>2, <2>1, FlattenJoins
  <2> DEFINE T == {i \in Nat : i + 1 \in 1 .. k => f[i + 1] \in Seq(B) /\ Len(f[i + 1]) = m * (i + 1)}
  <2>3. 0 \in T
    BY <1>2, <2>1, <2>2 DEF Joined
  <2>4. ASSUME NEW i \in T PROVE i + 1 \in T
    <3> SUFFICES ASSUME i + 2 \in 1 .. k
                 PROVE  f[i + 2] \in Seq(B) /\ Len(f[i + 2]) = m * (i + 2)
      OBVIOUS
    <3>1. f[i + 1] \in Seq(B) /\ s[i + 2] \in Seq(B) /\ Len(f[i + 1]) = m * (i + 1)
      OBVIOUS
    <3>2. f[i + 2] = f[i + 1] \o s[i + 2]
      <4>1. i + 2 # 1 /\ (i + 2) - 1 = i + 1
        OBVIOUS
      <4> QED BY <2>2, <4>1 DEF Joined
    <3>3. Len(f[i + 2]) = m * (i + 1) + m
      <4>1. Len(s[i + 2]) = m
        OBVIOUS
      <4> HIDE DEF T
      <4> QED BY <3>1, <3>2, <4>1, ConcatLen
    <3>4. m * (i + 1) + m = m * (i + 2)
      BY i \in Nat
    <3> QED BY <3>1, <3>2, <3>3, <3>4
  <2>5. T = Nat
    <3>1. T \in SUBSET Nat
      OBVIOUS
    <3> HIDE DEF T
    <3> QED BY <2>3, <2>4, <3>1, SetInduction
  <2>6. k - 1 \in T
    <3>1. k - 1 \in Nat
      BY <1>2, <2>1
    <3> HIDE DEF T
    <3> QED BY <2>5, <3>1
  <2>7. (k - 1) + 1 = k /\ k \in 1 .. k
    BY <1>2, <2>1
  <2> QED BY <2>2, <2>6, <2>7
<1> QED BY <1>1, <1>2

----------------------------------------------------------------------------
(* The bytes that are written.                                             *)

\* A byte of a file: a number, or a query, which stands for its text.
Byte == Nat \cup Queries

\* A number is a byte of the model, and so is a query.
LEMMA NatBytes == ASSUME NEW s \in Seq(Nat) PROVE s \in Seq(Byte)
<1>1. Len(s) \in Nat /\ s = [i \in 1 .. Len(s) |-> s[i]] /\ \A i \in 1 .. Len(s) : s[i] \in Nat
  OBVIOUS
<1>2. \A i \in 1 .. Len(s) : s[i] \in Byte
  BY <1>1 DEF Byte
<1> QED BY <1>1, <1>2

\* A number of n bytes is n bytes.
LEMMA LEType ==
  ASSUME NEW n \in Nat, NEW v \in Nat
  PROVE  LE(n, v) \in Seq(Nat) /\ LE(n, v) \in Seq(Byte) /\ Len(LE(n, v)) = n
<1>1. ASSUME NEW k \in 1 .. n
      PROVE  (IF k > 4 THEN 0 ELSE (v \div Weight[k]) % 256) \in Nat
  <2>1. CASE k > 4
    BY <2>1
  <2>2. CASE k = 1
    BY <2>2 DEF Weight
  <2>3. CASE k = 2
    BY <2>3 DEF Weight
  <2>4. CASE k = 3
    BY <2>4 DEF Weight
  <2>5. CASE k = 4
    BY <2>5 DEF Weight
  <2> QED BY <2>1, <2>2, <2>3, <2>4, <2>5
<1>2. LE(n, v) \in [1 .. n -> Nat]
  BY <1>1 DEF LE
<1>3. LE(n, v) \in Seq(Nat) /\ Len(LE(n, v)) = n
  BY <1>2
<1> QED BY <1>3 DEF Byte

\* A list of numbers of m bytes each.
LEMMA NumbersType ==
  ASSUME NEW m \in Nat, NEW s \in Seq(Nat)
  PROVE  LET list == FlattenSeq([i \in DOMAIN s |-> LE(m, s[i])])
         IN  list \in Seq(Byte) /\ Len(list) = m * Len(s)
<1> DEFINE parts == [i \in DOMAIN s |-> LE(m, s[i])]
<1>1. \A i \in DOMAIN s : LE(m, s[i]) \in Seq(Byte) /\ Len(LE(m, s[i])) = m
  <2>1. \A i \in DOMAIN s : s[i] \in Nat
    OBVIOUS
  <2> QED BY <2>1, LEType
<1>2. parts \in Seq(Seq(Byte)) /\ Len(parts) = Len(s) /\ \A i \in 1 .. Len(parts) : Len(parts[i]) = m
  BY <1>1
<1> HIDE DEF parts
<1>3. FlattenSeq(parts) \in Seq(Byte) /\ Len(FlattenSeq(parts)) = m * Len(s)
  BY <1>2, FlattenType, FlattenLen
<1> QED BY <1>3 DEF parts

\* An entry of the queries file has the size that is counted.
LEMMA QueryBytesType ==
  ASSUME NEW text \in Seq(Byte), NEW types \in Seq(Nat)
  PROVE  /\ QueryBytes(text, types) \in Seq(Byte)
         /\ Len(QueryBytes(text, types)) = QuerySize(text, types)
         /\ QuerySize(text, types) \in Nat
<1> DEFINE a == LE(4, Len(text))
           b == LE(2, Len(types))
           d == FlattenSeq([i \in DOMAIN types |-> LE(4, types[i])])
<1>1. Len(text) \in Nat /\ Len(types) \in Nat
  OBVIOUS
<1>2. a \in Seq(Byte) /\ Len(a) = 4 /\ b \in Seq(Byte) /\ Len(b) = 2
  BY <1>1, LEType
<1>3. d \in Seq(Byte) /\ Len(d) = 4 * Len(types)
  BY NumbersType
<1>4. QueryBytes(text, types) = a \o text \o b \o d
  BY DEF QueryBytes
<1> HIDE DEF a, b, d
<1>5. a \in Seq(Byte) /\ b \in Seq(Byte) /\ d \in Seq(Byte)
  BY <1>2, <1>3
<1>7. /\ a \o text \o b \o d \in Seq(Byte)
      /\ Len(a \o text \o b \o d) = Len(a) + Len(text) + Len(b) + Len(d)
  BY <1>5, Concat4
<1>8. QuerySize(text, types) = 4 + Len(text) + 2 + Len(types) * 4
  BY DEF QuerySize
<1> QED BY <1>1, <1>2, <1>3, <1>4, <1>7, <1>8

\* The fields of a parameter.
LEMMA Parameter ==
  ASSUME NEW params \in Seq([type_oid : Nat, value : Seq(Nat)])
  PROVE  \A i \in 1 .. Len(params) : params[i].type_oid \in Nat /\ params[i].value \in Seq(Nat)
<1>1. \A i \in 1 .. Len(params) : params[i] \in [type_oid : Nat, value : Seq(Nat)]
  BY Element
<1> QED BY <1>1

\* An entry of the parameters file is at least as long as it is counted: two bytes are
\* counted for a type that has four.
LEMMA ParamsBytesType ==
  ASSUME NEW offset \in Nat, NEW params \in Seq([type_oid : Nat, value : Seq(Nat)]),
         NEW formats \in Seq(Nat)
  PROVE  /\ ParamsBytes(offset, params, formats) \in Seq(Byte)
         /\ ParamsSize(params, formats) \in Nat
         /\ ParamsSize(params, formats) <= Len(ParamsBytes(offset, params, formats))
<1> DEFINE oids == [i \in DOMAIN params |-> params[i].type_oid]
           a == LE(8, offset)
           b == LE(2, Len(params))
           t == FlattenSeq([i \in DOMAIN params |-> LE(4, params[i].type_oid)])
           v == FlattenSeq([i \in DOMAIN params |-> ParamBytes(params[i].value)])
           n == LE(2, Len(formats))
           r == FlattenSeq([i \in DOMAIN formats |-> LE(2, formats[i])])
<1>1. Len(params) \in Nat /\ Len(formats) \in Nat
  OBVIOUS
<1>2. /\ a \in Seq(Byte) /\ Len(a) = 8 /\ b \in Seq(Byte) /\ Len(b) = 2
      /\ n \in Seq(Byte) /\ Len(n) = 2
  BY <1>1, LEType
<1>3. t \in Seq(Byte) /\ Len(t) = 4 * Len(params)
  <2>0. \A i \in 1 .. Len(params) : params[i].type_oid \in Nat
    BY Parameter
  <2>1. oids \in Seq(Nat) /\ DOMAIN oids = DOMAIN params /\ Len(oids) = Len(params)
    <3>1. oids = [i \in 1 .. Len(params) |-> oids[i]] /\ \A i \in 1 .. Len(params) : oids[i] \in Nat
      BY <2>0
    <3>2. Len(params) \in Nat /\ DOMAIN params = 1 .. Len(params)
      OBVIOUS
    <3> HIDE DEF oids
    <3> QED BY <3>1, <3>2, Mapping
  <2>2. [i \in DOMAIN oids |-> LE(4, oids[i])] = [i \in DOMAIN params |-> LE(4, params[i].type_oid)]
    OBVIOUS
  <2> HIDE DEF oids
  <2> QED BY <2>1, <2>2, NumbersType
<1>4. r \in Seq(Byte) /\ Len(r) = 2 * Len(formats)
  BY NumbersType
<1>5. v \in Seq(Byte) /\ Len(v) \in Nat
  <2> DEFINE parts == [i \in DOMAIN params |-> ParamBytes(params[i].value)]
  <2>1. ASSUME NEW i \in DOMAIN params PROVE ParamBytes(params[i].value) \in Seq(Byte)
    <3> DEFINE x == params[i].value
    <3>0. x \in Seq(Nat)
      BY Parameter
    <3>1. x \in Seq(Nat) /\ x \in Seq(Byte) /\ Len(x) \in Nat
      <4> HIDE DEF x
      <4> QED BY <3>0, NatBytes
    <3> HIDE DEF x
    <3>2. Null \in Seq(Byte)
      BY DEF Null, Byte
    <3>3. LE(4, Len(x)) \o x \in Seq(Byte)
      BY <3>1, LEType, ConcatLen
    <3>4. ParamBytes(x) \in Seq(Byte)
      BY <3>2, <3>3 DEF ParamBytes
    <3> QED BY <3>4 DEF x
  <2>2. parts \in Seq(Seq(Byte))
    <3>2. parts = [i \in 1 .. Len(params) |-> parts[i]] /\ \A i \in 1 .. Len(params) : parts[i] \in Seq(Byte)
      BY <2>1
    <3> HIDE DEF parts
    <3> QED BY <1>1, <3>2, Mapping
  <2> HIDE DEF parts
  <2>3. FlattenSeq(parts) \in Seq(Byte)
    BY <2>2, FlattenType
  <2> QED BY <2>3 DEF parts
<1>6. /\ ParamsBytes(offset, params, formats) = a \o b \o t \o b \o v \o n \o r
      /\ ParamsSize(params, formats) = 8 + 2 + Len(params) * 2 + 2 + Len(v) + 2 + Len(formats) * 2
  BY DEF ParamsBytes, ParamsSize
<1> HIDE DEF a, b, t, v, n, r
<1>8. /\ a \in Seq(Byte) /\ b \in Seq(Byte) /\ t \in Seq(Byte)
      /\ v \in Seq(Byte) /\ n \in Seq(Byte) /\ r \in Seq(Byte)
  BY <1>2, <1>3, <1>4, <1>5
<1>7. /\ a \o b \o t \o b \o v \o n \o r \in Seq(Byte)
      /\ Len(a \o b \o t \o b \o v \o n \o r)
           = Len(a) + Len(b) + Len(t) + Len(b) + Len(v) + Len(n) + Len(r)
  BY <1>8, Concat7
<1> QED BY <1>1, <1>2, <1>3, <1>4, <1>5, <1>6, <1>7

----------------------------------------------------------------------------
(* The writer.                                                             *)

\* An entry of query_map.
Entry == [text : Seq(Byte), offset : Nat]
TextTypes == {<<>>, Types}

\* The entry of a text is in the file at an offset.
Held(file, offset, text) ==
  \E types \in TextTypes :
    /\ offset + Len(QueryBytes(text, types)) <= Len(file)
    /\ \A k \in 1 .. Len(QueryBytes(text, types)) :
         file[offset + k] = QueryBytes(text, types)[k]

\* The offsets that the storage has handed out.
Offsets(s) == {e.offset : e \in Range(s.query_map)}

\* Each text of query_map is in the file at its offset.
StorageOK(s) ==
  /\ s \in [queries : Seq(Byte), query_offset : Nat, query_map : Seq(Entry),
            params : Seq(Byte), params_offset : Nat]
  /\ s.query_offset = Len(s.queries) /\ s.params_offset <= Len(s.params)
  /\ \A i \in 1 .. Len(s.query_map) :
       Held(s.queries, s.query_map[i].offset, s.query_map[i].text)

\* The types a text is stored with.
LEMMA TextTypesType == TextTypes \subseteq Seq(Nat)
BY AnalyzerAssumption DEF TextTypes

\* Writing goes on at the end.
LEMMA HeldStays ==
  ASSUME NEW file \in Seq(Byte), NEW more \in Seq(Byte), NEW o \in Nat, NEW text \in Seq(Byte),
         Held(file, o, text)
  PROVE  Held(file \o more, o, text)
<1>1. PICK types \in TextTypes :
        /\ o + Len(QueryBytes(text, types)) <= Len(file)
        /\ \A k \in 1 .. Len(QueryBytes(text, types)) :
             file[o + k] = QueryBytes(text, types)[k]
  BY DEF Held
<1> DEFINE bytes == QueryBytes(text, types)
<1>2. bytes \in Seq(Byte) /\ Len(bytes) \in Nat
  BY QueryBytesType, TextTypesType
<1>3. /\ o + Len(bytes) <= Len(file)
      /\ \A k \in 1 .. Len(bytes) : file[o + k] = bytes[k]
  BY <1>1
<1> HIDE DEF bytes
<1>4. Len(file) \in Nat /\ Len(file \o more) = Len(file) + Len(more) /\ Len(more) \in Nat
  BY ConcatLen
<1>5. \A k \in 1 .. Len(bytes) : (file \o more)[o + k] = bytes[k]
  <2> TAKE k \in 1 .. Len(bytes)
  <2>1. o + k \in 1 .. Len(file)
    BY <1>2, <1>3, <1>4
  <2>2. (file \o more)[o + k] = file[o + k]
    BY <2>1
  <2> QED BY <1>3, <2>2
<1>6. o + Len(bytes) <= Len(file \o more)
  BY <1>2, <1>3, <1>4
<1> QED BY <1>5, <1>6 DEF bytes, Held

\* An entry is found where write_query has put it, at the end of the file.
LEMMA HeldNew ==
  ASSUME NEW file \in Seq(Byte), NEW text \in Seq(Byte), NEW types \in TextTypes
  PROVE  Held(file \o QueryBytes(text, types), Len(file), text)
<1> DEFINE bytes == QueryBytes(text, types)
<1>2. bytes \in Seq(Byte) /\ Len(bytes) \in Nat
  BY QueryBytesType, TextTypesType
<1> HIDE DEF bytes
<1>3. Len(file) \in Nat /\ Len(file \o bytes) = Len(file) + Len(bytes)
  BY <1>2, ConcatLen
<1>4. \A k \in 1 .. Len(bytes) : (file \o bytes)[Len(file) + k] = bytes[k]
  BY <1>2, <1>3
<1> QED BY <1>3, <1>4 DEF bytes, Held

\* The fields of an entry of query_map.
LEMMA EntryFields ==
  ASSUME NEW map \in Seq(Entry), NEW i \in 1 .. Len(map)
  PROVE  map[i].text \in Seq(Byte) /\ map[i].offset \in Nat
<1>1. map[i] \in Entry
  BY Element
<1> QED BY <1>1 DEF Entry

\* The entry of a text that has one.
LEMMA OffsetHeld ==
  ASSUME NEW s, StorageOK(s), NEW text \in Seq(Byte), Mapped(s, text)
  PROVE  /\ OffsetOf(s, text) \in Nat /\ OffsetOf(s, text) \in Offsets(s)
         /\ Held(s.queries, OffsetOf(s, text), text)
<1> DEFINE i == CHOOSE j \in DOMAIN s.query_map : s.query_map[j].text = text
<1>1. i \in DOMAIN s.query_map /\ s.query_map[i].text = text
  BY DEF Mapped
<1>2. OffsetOf(s, text) = s.query_map[i].offset
  BY DEF OffsetOf
<1> HIDE DEF i
<1>3. s.query_map \in Seq(Entry)
  BY DEF StorageOK
<1>4. i \in 1 .. Len(s.query_map)
  BY <1>1, <1>3
<1>5. s.query_map[i].offset \in Nat /\ Held(s.queries, s.query_map[i].offset, text)
  BY <1>1, <1>3, <1>4, EntryFields DEF StorageOK
<1>6. s.query_map[i].offset \in Offsets(s)
  BY <1>1 DEF Offsets, Range
<1> QED BY <1>2, <1>5, <1>6

\* map_query: the text has an entry afterwards, and no entry is lost.
LEMMA MapQueryOK ==
  ASSUME NEW s, StorageOK(s), NEW text \in Seq(Byte), NEW types \in TextTypes, NEW r,
         r = MapQuery(s, text, types)
  PROVE  /\ StorageOK(r) /\ Mapped(r, text)
         /\ Offsets(s) \subseteq Offsets(r)
         /\ \A o \in Nat, t \in Seq(Byte) : Held(s.queries, o, t) => Held(r.queries, o, t)
         /\ r.params = s.params /\ r.params_offset = s.params_offset
<1>1. CASE Mapped(s, text)
  BY <1>1 DEF MapQuery
<1>2. CASE ~Mapped(s, text)
  <2> DEFINE bytes == QueryBytes(text, types)
             e == [text |-> text, offset |-> s.query_offset]
  <2>1. /\ bytes \in Seq(Byte) /\ Len(bytes) = QuerySize(text, types) /\ Len(bytes) \in Nat
    BY QueryBytesType, TextTypesType
  <2>2. Held(s.queries \o bytes, s.query_offset, text)
    BY HeldNew DEF StorageOK
  <2>3. r = [s EXCEPT !.queries = s.queries \o bytes,
                      !.query_map = Append(s.query_map, e),
                      !.query_offset = s.query_offset + Len(bytes)]
    BY <1>2, <2>1 DEF MapQuery
  <2>4. e \in Entry /\ e.text = text /\ e.offset = s.query_offset
    BY DEF Entry, StorageOK
  <2> HIDE DEF bytes, e
  <2>5. /\ s.queries \in Seq(Byte) /\ s.query_offset = Len(s.queries) /\ s.query_offset \in Nat
        /\ s.query_map \in Seq(Entry) /\ Len(s.query_map) \in Nat
        /\ s.params \in Seq(Byte) /\ s.params_offset \in Nat /\ s.params_offset <= Len(s.params)
    BY DEF StorageOK
  <2>6. /\ r.queries = s.queries \o bytes /\ r.query_map = Append(s.query_map, e)
        /\ r.query_offset = s.query_offset + Len(bytes)
        /\ r.params = s.params /\ r.params_offset = s.params_offset
    BY <2>3 DEF StorageOK
  <2>7. r \in [queries : Seq(Byte), query_offset : Nat, query_map : Seq(Entry),
               params : Seq(Byte), params_offset : Nat]
    <3>1. s.queries \o bytes \in Seq(Byte)
      BY <2>1, <2>5, ConcatLen
    <3>2. Append(s.query_map, e) \in Seq(Entry)
      BY <2>4, <2>5
    <3>3. s.query_offset + Len(bytes) \in Nat
      BY <2>1, <2>5
    <3> QED BY <2>3, <2>5, <3>1, <3>2, <3>3 DEF StorageOK
  <2>8. r.query_offset = Len(r.queries)
    BY <2>1, <2>5, <2>6, ConcatLen
  <2>9. ASSUME NEW o \in Nat, NEW t \in Seq(Byte), Held(s.queries, o, t)
        PROVE  Held(r.queries, o, t)
    BY <2>1, <2>5, <2>6, <2>9, HeldStays
  <2>10. /\ Len(r.query_map) = Len(s.query_map) + 1
         /\ r.query_map[Len(s.query_map) + 1] = e
         /\ \A i \in 1 .. Len(s.query_map) : r.query_map[i] = s.query_map[i]
         /\ DOMAIN s.query_map = 1 .. Len(s.query_map)
         /\ DOMAIN r.query_map = 1 .. Len(s.query_map) + 1
    BY <2>5, <2>6
  <2>11. ASSUME NEW i \in 1 .. Len(r.query_map)
         PROVE  Held(r.queries, r.query_map[i].offset, r.query_map[i].text)
    <3>1. CASE i = Len(s.query_map) + 1
      BY <2>2, <2>4, <2>6, <2>10, <3>1
    <3>2. CASE i # Len(s.query_map) + 1
      <4>1. i \in 1 .. Len(s.query_map) /\ r.query_map[i] = s.query_map[i]
        BY <2>5, <2>10, <3>2
      <4>2. /\ s.query_map[i].text \in Seq(Byte) /\ s.query_map[i].offset \in Nat
            /\ Held(s.queries, s.query_map[i].offset, s.query_map[i].text)
        BY <2>5, <4>1, EntryFields DEF StorageOK
      <4> QED BY <2>9, <4>1, <4>2
    <3> QED BY <3>1, <3>2
  <2>12. StorageOK(r)
    BY <2>5, <2>6, <2>7, <2>8, <2>11 DEF StorageOK
  <2>13. Mapped(r, text)
    BY <2>4, <2>5, <2>10 DEF Mapped
  <2>14. Offsets(s) \subseteq Offsets(r)
    BY <2>5, <2>10 DEF Offsets, Range
  <2> QED BY <2>6, <2>9, <2>12, <2>13, <2>14
<1> QED BY <1>1, <1>2

\* write_params leaves the texts alone.
LEMMA WriteParamsOK ==
  ASSUME NEW s, StorageOK(s), NEW offset \in Nat,
         NEW params \in Seq([type_oid : Nat, value : Seq(Nat)]), NEW formats \in Seq(Nat), NEW r,
         r = WriteParams(s, offset, params, formats)
  PROVE  StorageOK(r) /\ r.queries = s.queries /\ r.query_map = s.query_map
<1> DEFINE bytes == ParamsBytes(offset, params, formats)
           n == ParamsSize(params, formats)
<1>1. bytes \in Seq(Byte) /\ n \in Nat /\ n <= Len(bytes) /\ Len(bytes) \in Nat
  BY ParamsBytesType
<1>2. r = [s EXCEPT !.params = s.params \o bytes, !.params_offset = s.params_offset + n]
  BY DEF WriteParams
<1> HIDE DEF bytes, n
<1>3. /\ s.params \in Seq(Byte) /\ s.params_offset \in Nat /\ s.params_offset <= Len(s.params)
      /\ Len(s.params) \in Nat
  BY DEF StorageOK
<1>4. s.params \o bytes \in Seq(Byte) /\ Len(s.params \o bytes) = Len(s.params) + Len(bytes)
  BY <1>1, <1>3, ConcatLen
<1>5. s.params_offset + n \in Nat /\ s.params_offset + n <= Len(s.params \o bytes)
  BY <1>1, <1>3, <1>4
<1> QED BY <1>2, <1>4, <1>5 DEF StorageOK

----------------------------------------------------------------------------
(* The reader.                                                             *)

\* A number below 256 is one byte.
LEMMA OctetNat == ASSUME NEW v \in Nat, v < 256 PROVE v \in Octets
BY DEF Octets

\* A number of four bytes, the highest of them zero.
LEMMA Value4 ==
  ASSUME NEW s, DOMAIN s = 1 .. 4, Len(s) = 4, s[1] \in Octets, s[2] \in Octets,
         s[3] \in Octets, s[4] = 0
  PROVE  Value(s) = s[1] + 256 * s[2] + 65536 * s[3]
<1>1. \A k \in DOMAIN s : ~(s[k] \notin Octets \/ (k > 3 /\ s[k] # 0))
  <2> TAKE k \in DOMAIN s
  <2>1. k = 1 \/ k = 2 \/ k = 3 \/ k = 4
    OBVIOUS
  <2>2. s[4] \in Octets
    BY OctetNat
  <2> QED BY <2>1, <2>2
<1>2. ~(\E k \in DOMAIN s : s[k] \notin Octets \/ (k > 3 /\ s[k] # 0))
  BY <1>1
<1> QED BY <1>2 DEF Value

\* A number of two bytes.
LEMMA Value2 ==
  ASSUME NEW s, DOMAIN s = 1 .. 2, Len(s) = 2, s[1] \in Octets, s[2] \in Octets
  PROVE  Value(s) = s[1] + 256 * s[2]
<1>1. \A k \in DOMAIN s : ~(s[k] \notin Octets \/ (k > 3 /\ s[k] # 0))
  <2> TAKE k \in DOMAIN s
  <2>1. k = 1 \/ k = 2
    OBVIOUS
  <2> QED BY <2>1
<1>2. ~(\E k \in DOMAIN s : s[k] \notin Octets \/ (k > 3 /\ s[k] # 0))
  BY <1>1
<1> QED BY <1>2 DEF Value

\* The bytes of a number that two bytes hold.
LEMMA LETwo ==
  ASSUME NEW v \in Nat, v < 65536
  PROVE  /\ LE(2, v)[1] \in Octets /\ LE(2, v)[2] \in Octets
         /\ LE(2, v)[1] + 256 * LE(2, v)[2] = v
<1>1. v \div 1 = v
  OBVIOUS
<1>2. LE(2, v)[1] = (v \div 1) % 256 /\ LE(2, v)[2] = (v \div 256) % 256
  BY DEF LE, Weight
<1>3. /\ v % 256 \in Nat /\ v % 256 < 256
      /\ (v \div 256) % 256 \in Nat /\ (v \div 256) % 256 < 256
      /\ (v % 256) + 256 * ((v \div 256) % 256) = v
  OBVIOUS
<1>4. v % 256 \in Octets /\ (v \div 256) % 256 \in Octets
  BY <1>3, OctetNat
<1>5. LE(2, v)[1] = v % 256 /\ LE(2, v)[2] = (v \div 256) % 256
  BY <1>1, <1>2
<1> QED BY <1>3, <1>4, <1>5

\* The length of a text of one byte.
LEMMA LEOne == LE(4, 1)[1] = 1 /\ LE(4, 1)[2] = 0 /\ LE(4, 1)[3] = 0 /\ LE(4, 1)[4] = 0
BY DEF LE, Weight

\* The fields at the head of an entry.
LEMMA TextLen ==
  ASSUME NEW buf \in Seq(Byte), Len(buf) >= 7,
         buf[1] = 1, buf[2] = 0, buf[3] = 0, buf[4] = 0
  PROVE  At(buf, 0, 4) = 1
<1> DEFINE f == SubSeq(buf, 1, 4)
<1>1. /\ DOMAIN f = 1 .. 4 /\ Len(f) = 4
      /\ f[1] = buf[1] /\ f[2] = buf[2] /\ f[3] = buf[3] /\ f[4] = buf[4]
  OBVIOUS
<1>2. Field(buf, 0, 4) = f
  <2>1. 0 + 1 = 1 /\ 0 + 4 = 4
    OBVIOUS
  <2> QED BY <2>1 DEF Field
<1> HIDE DEF f
<1>3. f[1] = 1 /\ f[2] = 0 /\ f[3] = 0 /\ f[4] = 0 /\ 0 \in Octets /\ 1 \in Octets
  BY <1>1, OctetNat
<1>4. /\ DOMAIN f = 1 .. 4 /\ Len(f) = 4 /\ f[1] \in Octets /\ f[2] \in Octets
      /\ f[3] \in Octets /\ f[4] = 0
  BY <1>1, <1>3
<1>5. Value(f) = f[1] + 256 * f[2] + 65536 * f[3]
  BY <1>4, Value4
<1> QED BY <1>2, <1>3, <1>5 DEF At

\* The number of types follows a text of one byte.
LEMMA TypeCount ==
  ASSUME NEW buf \in Seq(Byte), Len(buf) >= 7, buf[6] \in Octets, buf[7] \in Octets
  PROVE  At(buf, 5, 2) = buf[6] + 256 * buf[7]
<1> DEFINE f == SubSeq(buf, 6, 7)
<1>1. DOMAIN f = 1 .. 2 /\ Len(f) = 2 /\ f[1] = buf[6] /\ f[2] = buf[7]
  OBVIOUS
<1>2. Field(buf, 5, 2) = f
  <2>1. 5 + 1 = 6 /\ 5 + 2 = 7
    OBVIOUS
  <2> QED BY <2>1 DEF Field
<1> HIDE DEF f
<1>3. Value(f) = f[1] + 256 * f[2]
  BY <1>1, Value2
<1> QED BY <1>1, <1>2, <1>3 DEF At

\* The text of one byte that follows its length.
LEMMA TextField ==
  ASSUME NEW buf \in Seq(Byte), Len(buf) >= 7
  PROVE  Field(buf, 4, 1) = <<buf[5]>>
<1>1. 4 + 1 = 5
  OBVIOUS
<1>2. SubSeq(buf, 5, 5) = <<buf[5]>>
  <2> DEFINE f == SubSeq(buf, 5, 5)
  <2>1. f \in Seq(Byte) /\ Len(f) = 1 /\ f[1] = buf[5]
    OBVIOUS
  <2> HIDE DEF f
  <2>2. f = <<f[1]>>
    BY <2>1
  <2> QED BY <2>1, <2>2 DEF f
<1> QED BY <1>1, <1>2 DEF Field

\* The bytes of an entry for a text of one byte.
LEMMA EntryBytes ==
  ASSUME NEW types \in TextTypes, NEW x \in Queries
  PROVE  \E n \in Nat : LET bytes == QueryBytes(<<x>>, types)
         IN  /\ n < 65536 /\ bytes \in Seq(Byte) /\ Len(bytes) = 7 + 4 * n
             /\ bytes[1] = 1 /\ bytes[2] = 0 /\ bytes[3] = 0 /\ bytes[4] = 0 /\ bytes[5] = x
             /\ bytes[6] \in Octets /\ bytes[7] \in Octets /\ bytes[6] + 256 * bytes[7] = n
<1>0. PICK bytes, n : bytes = QueryBytes(<<x>>, types) /\ n = Len(types)
  OBVIOUS
<1>1. types \in Seq(Nat) /\ n \in Nat /\ n < 65536
  <2>1. CASE types = <<>>
    BY <1>0, <2>1
  <2>2. CASE types = Types
    BY <1>0, <2>2, AnalyzerAssumption
  <2> QED BY <2>1, <2>2 DEF TextTypes
<1>2. /\ LE(4, 1) \in Seq(Byte) /\ Len(LE(4, 1)) = 4
      /\ LE(2, n) \in Seq(Byte) /\ Len(LE(2, n)) = 2
  <2>1. n \in Nat /\ 1 \in Nat /\ 2 \in Nat /\ 4 \in Nat
    BY <1>1
  <2> QED BY <2>1, LEType, Zenon
<1>3. PICK a, b, c, d :
        /\ a = LE(4, 1) /\ b = LE(2, n) /\ c = <<x>>
        /\ d = FlattenSeq([i \in DOMAIN types |-> LE(4, types[i])])
  OBVIOUS
<1>4. bytes = a \o c \o b \o d
  <2>1. Len(<<x>>) = 1
    OBVIOUS
  <2> QED BY <1>0, <1>3, <2>1 DEF QueryBytes
<1>5. a \in Seq(Byte) /\ Len(a) = 4 /\ b \in Seq(Byte) /\ Len(b) = 2
  BY <1>2, <1>3
<1>6. d \in Seq(Byte) /\ Len(d) = 4 * n
  <2>1. /\ FlattenSeq([i \in DOMAIN types |-> LE(4, types[i])]) \in Seq(Byte)
        /\ Len(FlattenSeq([i \in DOMAIN types |-> LE(4, types[i])])) = 4 * Len(types)
    <3>1. 4 \in Nat /\ types \in Seq(Nat)
      BY <1>1
    <3> QED BY <3>1, NumbersType, Zenon
  <2> QED BY <1>0, <1>3, <2>1
<1>7. c \in Seq(Byte) /\ Len(c) = 1 /\ c[1] = x
  BY <1>3 DEF Byte
<1>8. a \in Seq(Byte) /\ b \in Seq(Byte) /\ c \in Seq(Byte) /\ d \in Seq(Byte)
  BY <1>5, <1>6, <1>7
<1>9. bytes \in Seq(Byte) /\ Len(bytes) = Len(a) + Len(c) + Len(b) + Len(d)
  <2>1. /\ a \o c \o b \o d \in Seq(Byte)
        /\ Len(a \o c \o b \o d) = Len(a) + Len(c) + Len(b) + Len(d)
    BY <1>8
  <2> QED BY <1>4, <2>1
<1>10. /\ \A k \in 1 .. Len(a) : bytes[k] = a[k]
       /\ \A k \in 1 .. Len(c) : bytes[Len(a) + k] = c[k]
       /\ \A k \in 1 .. Len(b) : bytes[Len(a) + Len(c) + k] = b[k]
  <2>1. /\ \A k \in 1 .. Len(a) : (a \o c \o b \o d)[k] = a[k]
        /\ \A k \in 1 .. Len(c) : (a \o c \o b \o d)[Len(a) + k] = c[k]
        /\ \A k \in 1 .. Len(b) : (a \o c \o b \o d)[Len(a) + Len(c) + k] = b[k]
    BY <1>8
  <2> QED BY <1>4, <2>1
<1>11. /\ a[1] = 1 /\ a[2] = 0 /\ a[3] = 0 /\ a[4] = 0
       /\ b[1] \in Octets /\ b[2] \in Octets /\ b[1] + 256 * b[2] = n
  BY <1>1, <1>3, LEOne, LETwo
<1>12. /\ \A k \in 1 .. 4 : bytes[k] = a[k]
       /\ \A k \in 1 .. 1 : bytes[4 + k] = c[k]
       /\ \A k \in 1 .. 2 : bytes[5 + k] = b[k]
  <2>1. Len(a) = 4 /\ Len(c) = 1 /\ Len(b) = 2 /\ 4 + 1 = 5
    BY <1>5, <1>7
  <2> QED BY <1>10, <2>1
<1>13. /\ bytes[1] = a[1] /\ bytes[2] = a[2] /\ bytes[3] = a[3] /\ bytes[4] = a[4]
       /\ bytes[5] = c[1] /\ bytes[6] = b[1] /\ bytes[7] = b[2]
  <2>1. 4 + 1 = 5 /\ 5 + 1 = 6 /\ 5 + 2 = 7
    OBVIOUS
  <2> QED BY <1>12, <2>1
<1>14. /\ n \in Nat /\ n < 65536 /\ bytes \in Seq(Byte) /\ Len(bytes) = 7 + 4 * n
       /\ bytes[1] = 1 /\ bytes[2] = 0 /\ bytes[3] = 0 /\ bytes[4] = 0 /\ bytes[5] = x
       /\ bytes[6] \in Octets /\ bytes[7] \in Octets /\ bytes[6] + 256 * bytes[7] = n
  BY <1>1, <1>5, <1>6, <1>7, <1>9, <1>11, <1>13
<1> QED BY <1>0, <1>14

\* The server reads the text that was written (read_queries, map_query).
LEMMA ReadHeld ==
  ASSUME NEW file \in Seq(Byte), NEW o \in Nat, NEW x \in Queries, Held(file, o, <<x>>)
  PROVE  /\ ReadQuery(file, o) # Error
         /\ ReadQuery(file, o).text = <<x>>
<1>1. PICK types \in TextTypes :
        /\ o + Len(QueryBytes(<<x>>, types)) <= Len(file)
        /\ \A k \in 1 .. Len(QueryBytes(<<x>>, types)) :
             file[o + k] = QueryBytes(<<x>>, types)[k]
  BY DEF Held
<1>2. PICK bytes : bytes = QueryBytes(<<x>>, types)
  OBVIOUS
<1>3. PICK n \in Nat :
        /\ n < 65536 /\ bytes \in Seq(Byte) /\ Len(bytes) = 7 + 4 * n
        /\ bytes[1] = 1 /\ bytes[2] = 0 /\ bytes[3] = 0 /\ bytes[4] = 0 /\ bytes[5] = x
        /\ bytes[6] \in Octets /\ bytes[7] \in Octets /\ bytes[6] + 256 * bytes[7] = n
  BY <1>2, EntryBytes, SMTT(40)
<1>4. Len(file) \in Nat
  OBVIOUS
<1>5. o + (7 + 4 * n) <= Len(file) /\ \A k \in 1 .. 7 + 4 * n : file[o + k] = bytes[k]
  <2>1. /\ o + Len(bytes) <= Len(file)
        /\ \A k \in 1 .. Len(bytes) : file[o + k] = bytes[k]
    BY <1>1, <1>2
  <2>2. Len(bytes) = 7 + 4 * n
    BY <1>3
  <2> QED BY <2>1, <2>2
<1>6. PICK buf : buf = From(file, o)
  OBVIOUS
<1>7. /\ Len(buf) = Len(file) - o /\ buf \in Seq(Byte)
      /\ \A k \in 1 .. Len(file) - o : buf[k] = file[o + k]
  <2>1. buf = SubSeq(file, o + 1, Len(file))
    BY <1>6 DEF From
  <2>2. Len(file) - o \in Nat /\ o + 1 \in 1 .. Len(file) + 1
    BY <1>3, <1>4, <1>5
  <2>3. buf \in Seq(Byte) /\ Len(buf) = Len(file) - o
    BY <1>4, <2>1, <2>2
  <2>4. \A k \in 1 .. Len(file) - o : buf[k] = file[o + k]
    BY <1>4, <2>1, <2>2
  <2> QED BY <2>3, <2>4
<1>8. Len(file) - o >= 7 + 4 * n /\ Len(buf) >= 7
  BY <1>3, <1>4, <1>5, <1>7
<1>9. \A k \in 1 .. 7 : buf[k] = bytes[k]
  <2> TAKE k \in 1 .. 7
  <2>1. k \in 1 .. 7 + 4 * n /\ k \in 1 .. Len(file) - o
    BY <1>3, <1>4, <1>8
  <2> QED BY <1>5, <1>7, <2>1
<1>10. /\ buf[1] = 1 /\ buf[2] = 0 /\ buf[3] = 0 /\ buf[4] = 0 /\ buf[5] = x
       /\ buf[6] \in Octets /\ buf[7] \in Octets /\ buf[6] + 256 * buf[7] = n
  BY <1>3, <1>9
<1>11. At(buf, 0, 4) = 1
  BY <1>7, <1>8, <1>10, TextLen
<1>12. Field(buf, 4, 1) = <<x>>
  BY <1>7, <1>8, <1>10, TextField
<1>13. At(buf, 5, 2) = n
  <2>1. At(buf, 5, 2) = buf[6] + 256 * buf[7]
    BY <1>7, <1>8, <1>10, TypeCount
  <2> QED BY <1>10, <2>1
<1>14. /\ ~(o > Len(file) \/ Len(buf) < 4)
       /\ ~(Len(buf) < 5 + 2) /\ ~(Len(buf) < 5 + 2 + n * 4)
  BY <1>3, <1>4, <1>7, <1>8
<1>15. ReadQuery(file, o) =
         [total |-> 5 + 2 + n * 4, text |-> <<x>>,
          oids |-> [i \in 1 .. n |-> At(buf, 5 + 2 + (i - 1) * 4, 4)]]
  <2>1. 4 + 1 = 5
    OBVIOUS
  <2> QED BY <1>6, <1>11, <1>12, <1>13, <1>14, <2>1 DEF ReadQuery
<1>16. ReadQuery(file, o).text = <<x>>
  BY <1>15
<1>17. ReadQuery(file, o) # Error
  <2>1. "text" \in DOMAIN ReadQuery(file, o)
    BY <1>15
  <2>2. "text" \notin DOMAIN Error
    BY DEF Error
  <2> QED BY <2>1, <2>2
<1> QED BY <1>16, <1>17

----------------------------------------------------------------------------
(* Numbers: greatest and least elements, chunks, messages counted.          *)

\* The greatest of a set.
LEMMA MaxIs ==
  ASSUME NEW S, NEW m \in S, S \subseteq Int, \A y \in S : y <= m
  PROVE  Max(S) = m
<1>1. \A x \in S : (\A y \in S : x >= y) => x = m
  <2> TAKE x \in S
  <2> HAVE \A y \in S : x >= y
  <2> QED OBVIOUS
<1>2. m \in S /\ \A y \in S : m >= y
  OBVIOUS
<1> QED BY <1>1, <1>2 DEF Max

\* The least of a set.
LEMMA MinIs ==
  ASSUME NEW S, NEW m \in S, S \subseteq Int, \A y \in S : m <= y
  PROVE  Min(S) = m
<1>1. \A x \in S : (\A y \in S : x <= y) => x = m
  <2> TAKE x \in S
  <2> HAVE \A y \in S : x <= y
  <2> QED OBVIOUS
<1> QED BY <1>1 DEF Min

\* The first number of which something holds.
LEMMA First ==
  ASSUME NEW S \in SUBSET Nat, S # {}
  PROVE  Min(S) \in S /\ \A y \in S : Min(S) <= y
<1> DEFINE T == {n \in Nat : \A y \in S : n <= y}
<1>1. PICK m \in S : \A y \in S : m <= y
  <2> SUFFICES ASSUME \A m \in S : \E y \in S : ~(m <= y) PROVE FALSE
    OBVIOUS
  <2>1. T \in SUBSET Nat /\ 0 \in T
    OBVIOUS
  <2>2. ASSUME NEW n \in T PROVE n + 1 \in T
    <3>1. n \in Nat /\ n \notin S
      OBVIOUS
    <3>2. \A y \in S : n + 1 <= y
      BY <3>1
    <3> QED BY <3>1, <3>2
  <2>3. T = Nat
    <3> HIDE DEF T
    <3> QED BY <2>1, <2>2, SetInduction
  <2>4. PICK y \in S : TRUE
    OBVIOUS
  <2>5. y + 1 \in T /\ y \in Nat
    BY <2>3
  <2>6. y + 1 <= y
    BY <2>5
  <2> QED BY <2>5, <2>6
<1>2. Min(S) = m
  <2>1. S \subseteq Int
    OBVIOUS
  <2> QED BY <1>1, <2>1, MinIs, Zenon
<1> QED BY <1>1, <1>2

\* The number of a chunk.
LEMMA ChunkOf ==
  ASSUME NEW a \in Nat
  PROVE  a \div ChunkTs \in Nat
BY AnalyzerAssumption

\* A later time is not in an earlier chunk.
LEMMA ChunkOfMonotone ==
  ASSUME NEW a \in Nat, NEW b \in Nat, a <= b
  PROVE  a \div ChunkTs <= b \div ChunkTs
<1>1. PICK c \in Nat \ {0} : c = ChunkTs
  BY AnalyzerAssumption
<1> DEFINE x == a \div c
           y == b \div c
<1>2. x \in Nat /\ y \in Nat /\ c * x <= a /\ b < c * y + c
  OBVIOUS
<1> HIDE DEF x, y
<1>3. x <= y
  <2> SUFFICES ASSUME y + 1 <= x PROVE FALSE
    BY <1>2
  <2>1. c * (y + 1) <= c * x
    BY <1>2
  <2>2. c * (y + 1) = c * y + c
    BY <1>2
  <2> QED BY <1>2, <2>1, <2>2
<1> QED BY <1>1, <1>3 DEF x, y

\* What on_capture and the backends count.
CountedOf(c, p) == {q \in 1 .. p : capture[q].id = c /\ Counted(capture[q])}
\* The number of a client's statement at a message.
Number(c, p) == Cardinality(CountedOf(c, p))
Counts(c, p) == capture[p].id = c /\ Counted(capture[p])

\* There are no more numbered messages than messages.
LEMMA NumberType ==
  ASSUME NEW c, NEW p \in Nat
  PROVE  Number(c, p) \in Nat /\ IsFiniteSet(CountedOf(c, p)) /\ Number(c, p) <= p
<1>1. IsFiniteSet(1 .. p) /\ Cardinality(1 .. p) = p
  <2>1. IsFiniteSet(1 .. p) /\ Cardinality(1 .. p) = IF 1 > p THEN 0 ELSE p - 1 + 1
    BY FS_Interval
  <2> QED BY <2>1
<1>2. CountedOf(c, p) \in SUBSET (1 .. p)
  BY DEF CountedOf
<1>3. IsFiniteSet(CountedOf(c, p)) /\ Cardinality(CountedOf(c, p)) <= p
  BY <1>1, <1>2, FS_Subset
<1> QED BY <1>3, FS_CardinalityType DEF Number

\* Numbers grow with the messages, and each numbered message has one of its own.
LEMMA NumberGrows ==
  ASSUME NEW c, NEW p \in Nat, NEW q \in Nat, p <= q
  PROVE  /\ Number(c, p) <= Number(c, q)
         /\ p < q /\ Counts(c, q) => Number(c, p) < Number(c, q)
<1>1. IsFiniteSet(CountedOf(c, q)) /\ CountedOf(c, p) \in SUBSET CountedOf(c, q)
  <2>1. IsFiniteSet(CountedOf(c, q))
    BY NumberType
  <2>2. 1 .. p \subseteq 1 .. q
    OBVIOUS
  <2> QED BY <2>1, <2>2 DEF CountedOf
<1>2. Number(c, p) \in Nat /\ Number(c, q) \in Nat
  BY NumberType
<1>3. Number(c, p) <= Number(c, q)
  BY <1>1, FS_Subset DEF Number
<1>4. ASSUME p < q, Counts(c, q) PROVE Number(c, p) # Number(c, q)
  <2>1. q \in CountedOf(c, q) /\ q \notin CountedOf(c, p)
    BY <1>4 DEF CountedOf, Counts
  <2>2. CountedOf(c, p) # CountedOf(c, q)
    BY <2>1
  <2> QED BY <1>1, <2>2, FS_Subset DEF Number
<1> QED BY <1>2, <1>3, <1>4

\* Two counted messages of a client have different numbers.
LEMMA NumberUnique ==
  ASSUME NEW c, NEW p \in Nat, NEW q \in Nat, Counts(c, p), Counts(c, q),
         Number(c, p) = Number(c, q)
  PROVE  p = q
<1>1. Number(c, p) \in Nat
  BY NumberType
<1>2. ~(p < q) /\ ~(q < p)
  BY <1>1, NumberGrows
<1> QED BY <1>2

\* Between two messages of a client nothing of it is counted.
LEMMA NumberNext ==
  ASSUME NEW c, NEW p \in Nat, NEW q \in Nat, p < q,
         \A r \in p + 1 .. q - 1 : capture[r].id # c
  PROVE  Number(c, q) = IF Counts(c, q) THEN Number(c, p) + 1 ELSE Number(c, p)
<1>1. IsFiniteSet(CountedOf(c, p))
  BY NumberType
<1>2. \A r \in 1 .. q : Counts(c, r) => r \in 1 .. p \/ r = q
  BY DEF Counts
<1>3. CASE Counts(c, q)
  <2>1. CountedOf(c, q) = CountedOf(c, p) \cup {q} /\ q \notin CountedOf(c, p)
    BY <1>2, <1>3 DEF CountedOf, Counts
  <2> QED BY <1>1, <1>3, <2>1, FS_AddElement DEF Number
<1>4. CASE ~Counts(c, q)
  <2>1. CountedOf(c, q) = CountedOf(c, p)
    BY <1>2, <1>4 DEF CountedOf, Counts
  <2> QED BY <1>4, <2>1 DEF Number
<1> QED BY <1>3, <1>4

----------------------------------------------------------------------------
(* The chunks of the rows written so far.                                  *)

\* The records of the analyzer's tables.
Offset == Nat \cup {None}
Row == [id : Clients, query_offset : Nat, params_offset : Offset, ts : Nat,
        duration : Nat, record : Nat]
Chunk == [peak : Nat, start : Nat]

\* The chunk that a row is of, and the rows of a chunk.
RowChunk(row) == row.ts \div ChunkTs
Among(all, k) == {i \in 1 .. Len(all) : RowChunk(all[i]) = k}

\* A chunk begins at a row, the first that is not of an earlier chunk.
Begins(all, k, chunk) ==
  /\ chunk.start < Len(all)
  /\ RowChunk(all[chunk.start + 1]) >= k
  /\ \A i \in 1 .. chunk.start : RowChunk(all[i]) < k

\* Its peak is the longest of its rows.
Peaks(all, k, chunk) ==
  /\ \A i \in Among(all, k) : all[i].duration <= chunk.peak
  /\ IF Among(all, k) = {} THEN chunk.peak = 0
     ELSE \E i \in Among(all, k) : all[i].duration = chunk.peak

\* Every row has its chunk; a chunk begins where the rows of the earlier ones end, and
\* has the peak of its own rows.
ChunksOK(all, parts) ==
  /\ all \in Seq(Row) /\ parts \in Seq(Chunk)
  /\ \A i \in 1 .. Len(all) : RowChunk(all[i]) < Len(parts)
  /\ \A m \in 1 .. Len(parts) : Begins(all, m - 1, parts[m]) /\ Peaks(all, m - 1, parts[m])

\* The fields of a row that its chunk depends on.
LEMMA RowChunkType ==
  ASSUME NEW all \in Seq(Row), NEW i \in 1 .. Len(all)
  PROVE  all[i].ts \in Nat /\ all[i].duration \in Nat /\ RowChunk(all[i]) \in Nat
<1>1. all[i] \in Row
  BY Element
<1>2. all[i].ts \in Nat /\ all[i].duration \in Nat
  BY <1>1 DEF Row
<1> QED BY <1>2, ChunkOf DEF RowChunk

\* The chunks that on_trace adds in one go.
LEMMA NewChunks ==
  ASSUME NEW k \in Int, NEW at \in Nat
  PROVE  LET list == [j \in 1 .. k |-> [peak |-> 0, start |-> at]]
         IN  /\ list \in Seq(Chunk) /\ Len(list) = IF k > 0 THEN k ELSE 0
             /\ Len(list) \in Nat
             /\ \A j \in 1 .. Len(list) : list[j].peak = 0 /\ list[j].start = at
<1> DEFINE list == [j \in 1 .. k |-> [peak |-> 0, start |-> at]]
<1>1. [peak |-> 0, start |-> at] \in Chunk
  BY DEF Chunk
<1>2. list = [j \in 1 .. k |-> list[j]] /\ \A j \in 1 .. k : list[j] \in Chunk
  BY <1>1
<1>3. \A j \in 1 .. k : list[j].peak = 0 /\ list[j].start = at
  OBVIOUS
<1>4. ~(k > 0) => list = << >>
  OBVIOUS
<1> HIDE DEF list
<1>5. /\ list \in Seq(Chunk) /\ Len(list) = IF k > 0 THEN k ELSE 0
      /\ Len(list) \in Nat
      /\ \A j \in 1 .. Len(list) : list[j].peak = 0 /\ list[j].start = at
  <2>1. CASE k > 0
    <3>1. k \in Nat
      BY <2>1
    <3>2. list \in Seq(Chunk) /\ Len(list) = k
      BY <1>2, <3>1, Mapping
    <3> QED BY <1>3, <2>1, <3>1, <3>2
  <2>2. CASE ~(k > 0)
    <3>1. list \in Seq(Chunk) /\ Len(list) = 0
      BY <1>4, <2>2
    <3> QED BY <2>2, <3>1
  <2> QED BY <2>1, <2>2
<1> QED BY <1>5 DEF list

\* Where the elements of two sequences are.
LEMMA ConcatElements ==
  ASSUME NEW B, NEW a \in Seq(B), NEW b \in Seq(B), NEW c, c = a \o b
  PROVE  /\ c \in Seq(B) /\ Len(c) = Len(a) + Len(b)
         /\ \A m \in 1 .. Len(a) : c[m] = a[m]
         /\ \A m \in Len(a) + 1 .. Len(a) + Len(b) : c[m] = b[m - Len(a)]
OBVIOUS

\* The chunks that are missing.
LEMMA Widened ==
  ASSUME NEW parts \in Seq(Chunk), NEW chunk \in Nat, NEW at \in Nat
  PROVE  LET wide == parts \o [k \in 1 .. (chunk + 1 - Len(parts)) |->
                                 [peak |-> 0, start |-> at]]
         IN  /\ wide \in Seq(Chunk) /\ Len(wide) \in Nat
             /\ Len(wide) >= Len(parts) /\ chunk < Len(wide)
             /\ \A m \in 1 .. Len(parts) : wide[m] = parts[m]
             /\ \A m \in 1 .. Len(wide) : m > Len(parts) =>
                  m <= chunk + 1 /\ wide[m].peak = 0 /\ wide[m].start = at
<1> DEFINE k == chunk + 1 - Len(parts)
           list == [j \in 1 .. k |-> [peak |-> 0, start |-> at]]
           wide == parts \o list
<1>1. Len(parts) \in Nat
  OBVIOUS
<1>2. k \in Int /\ k = chunk + 1 - Len(parts)
  BY <1>1
<1>3. /\ list \in Seq(Chunk) /\ Len(list) = IF k > 0 THEN k ELSE 0
      /\ Len(list) \in Nat
      /\ \A j \in 1 .. Len(list) : list[j].peak = 0 /\ list[j].start = at
  <2> HIDE DEF k
  <2> QED BY <1>2, NewChunks, ZenonT(40)
<1> HIDE DEF list, k
<1>4. /\ wide \in Seq(Chunk) /\ Len(wide) = Len(parts) + Len(list)
      /\ \A m \in 1 .. Len(parts) : wide[m] = parts[m]
      /\ \A m \in Len(parts) + 1 .. Len(parts) + Len(list) : wide[m] = list[m - Len(parts)]
  <2>1. list \in Seq(Chunk)
    BY <1>3
  <2> QED BY <2>1, ConcatElements
<1> HIDE DEF wide
<1>5. PICK n, l : n = Len(wide) /\ l = Len(list)
  OBVIOUS
<1>6. l \in Nat /\ l = (IF k > 0 THEN k ELSE 0) /\ n = Len(parts) + l
  BY <1>3, <1>4, <1>5
<1>7. n \in Nat /\ n >= Len(parts) /\ chunk < n
  BY <1>1, <1>2, <1>6
<1>8. ASSUME NEW m \in 1 .. n, m > Len(parts)
      PROVE  m <= chunk + 1 /\ wide[m].peak = 0 /\ wide[m].start = at
  <2>1. m - Len(parts) \in 1 .. l /\ m \in Len(parts) + 1 .. Len(parts) + l /\ m <= chunk + 1
    BY <1>1, <1>2, <1>6, <1>8
  <2>2. wide[m] = list[m - Len(parts)]
    BY <1>4, <1>5, <2>1
  <2>3. list[m - Len(parts)].peak = 0 /\ list[m - Len(parts)].start = at
    BY <1>3, <1>5, <2>1
  <2> QED BY <2>1, <2>2, <2>3
<1>9. /\ wide \in Seq(Chunk) /\ Len(wide) \in Nat
      /\ Len(wide) >= Len(parts) /\ chunk < Len(wide)
      /\ \A m \in 1 .. Len(parts) : wide[m] = parts[m]
      /\ \A m \in 1 .. Len(wide) : m > Len(parts) =>
           m <= chunk + 1 /\ wide[m].peak = 0 /\ wide[m].start = at
  BY <1>4, <1>5, <1>7, <1>8
<1> QED BY <1>9 DEF wide, list, k

\* The peak of the chunk of the new row.
LEMMA Raised ==
  ASSUME NEW wide \in Seq(Chunk), NEW k \in 1 .. Len(wide), NEW d \in Nat
  PROVE  LET new == [wide EXCEPT ![k].peak = Peak(@, d)]
         IN  /\ new \in Seq(Chunk) /\ Len(new) = Len(wide)
             /\ \A m \in 1 .. Len(wide) :
                  /\ new[m].start = wide[m].start
                  /\ new[m].peak = IF m = k THEN Peak(wide[m].peak, d) ELSE wide[m].peak
<1> DEFINE new == [wide EXCEPT ![k].peak = Peak(@, d)]
<1>1. wide[k] \in Chunk
  BY Element
<1>2. PICK e : e = [wide[k] EXCEPT !.peak = Peak(@, d)]
  OBVIOUS
<1>3. new = [wide EXCEPT ![k] = e]
  BY <1>2
<1>4. e.start = wide[k].start /\ e.peak = Peak(wide[k].peak, d) /\ e \in Chunk
  BY <1>1, <1>2 DEF Chunk, Peak
<1>5. new \in Seq(Chunk) /\ Len(new) = Len(wide)
  BY <1>3, <1>4
<1>6. \A m \in 1 .. Len(wide) : new[m] = IF m = k THEN e ELSE wide[m]
  BY <1>3
<1> QED BY <1>4, <1>5, <1>6

\* A row more: a chunk that was there begins where it began.
LEMMA BeginsStays ==
  ASSUME NEW all \in Seq(Row), NEW more, Len(more) = Len(all) + 1,
         \A i \in 1 .. Len(all) : more[i] = all[i],
         NEW k \in Int, NEW old \in Chunk, Begins(all, k, old), NEW new, new.start = old.start
  PROVE  Begins(more, k, new)
<1>1. PICK s : s = old.start
  OBVIOUS
<1>2. s \in Nat /\ s < Len(all) /\ Len(all) \in Nat /\ new.start = s
  BY <1>1 DEF Chunk, Begins
<1>3. RowChunk(all[s + 1]) >= k /\ \A i \in 1 .. s : RowChunk(all[i]) < k
  BY <1>1 DEF Begins
<1>4. s + 1 \in 1 .. Len(all) /\ \A i \in 1 .. s : i \in 1 .. Len(all)
  BY <1>2
<1>5. more[s + 1] = all[s + 1] /\ \A i \in 1 .. s : more[i] = all[i]
  BY <1>4
<1>6. RowChunk(more[s + 1]) >= k /\ \A i \in 1 .. s : RowChunk(more[i]) < k
  BY <1>3, <1>5
<1>7. s < Len(more)
  BY <1>2
<1> QED BY <1>2, <1>6, <1>7 DEF Begins

\* One that is new begins at the new row.
LEMMA BeginsHere ==
  ASSUME NEW all \in Seq(Row), NEW more, Len(more) = Len(all) + 1,
         NEW k \in Int, \A i \in 1 .. Len(all) : more[i] = all[i] /\ RowChunk(all[i]) < k,
         RowChunk(more[Len(all) + 1]) >= k, NEW new, new.start = Len(all)
  PROVE  Begins(more, k, new)
BY DEF Begins

\* Its rows are those it had, and the new one if that is of the chunk.
LEMMA AmongMore ==
  ASSUME NEW all \in Seq(Row), NEW more, Len(more) = Len(all) + 1,
         \A i \in 1 .. Len(all) : more[i] = all[i], NEW k
  PROVE  Among(more, k) = IF RowChunk(more[Len(all) + 1]) = k
                          THEN Among(all, k) \cup {Len(all) + 1} ELSE Among(all, k)
<1>1. 1 .. Len(more) = (1 .. Len(all)) \cup {Len(all) + 1}
  <2>1. Len(all) \in Nat
    OBVIOUS
  <2> QED BY <2>1
<1>2. \A i \in 1 .. Len(all) : RowChunk(more[i]) = RowChunk(all[i])
  OBVIOUS
<1> QED BY <1>1, <1>2 DEF Among

\* A row of another chunk leaves a peak what it is.
LEMMA PeaksStays ==
  ASSUME NEW all \in Seq(Row), NEW more, Len(more) = Len(all) + 1,
         \A i \in 1 .. Len(all) : more[i] = all[i],
         NEW k, Among(more, k) = Among(all, k),
         NEW old, Peaks(all, k, old), NEW new, new.peak = old.peak
  PROVE  Peaks(more, k, new)
<1>1. \A i \in Among(all, k) : more[i].duration = all[i].duration
  BY DEF Among
<1> QED BY <1>1 DEF Peaks

\* A new row of a chunk raises its peak to its duration, or leaves it.
LEMMA PeaksRaised ==
  ASSUME NEW all \in Seq(Row), NEW more, Len(more) = Len(all) + 1,
         \A i \in 1 .. Len(all) : more[i] = all[i],
         NEW k, Among(more, k) = Among(all, k) \cup {Len(all) + 1},
         NEW d \in Nat, more[Len(all) + 1].duration = d,
         NEW old, old.peak \in Nat, Peaks(all, k, old), NEW new, new.peak = Peak(old.peak, d)
  PROVE  Peaks(more, k, new)
<1>1. PICK p, q : p = old.peak /\ q = new.peak
  OBVIOUS
<1>2. p \in Nat /\ q = IF d > p THEN d ELSE p
  BY <1>1 DEF Peak
<1>3. \A i \in Among(all, k) : more[i].duration = all[i].duration /\ all[i].duration \in Nat
  BY RowChunkType DEF Among
<1>4. \A i \in Among(all, k) : all[i].duration <= p
  BY <1>1 DEF Peaks
<1>5. \A i \in Among(more, k) : more[i].duration <= q
  BY <1>2, <1>3, <1>4
<1>6. \E i \in Among(more, k) : more[i].duration = q
  <2>1. CASE d > p
    BY <1>2, <2>1
  <2>2. CASE ~(d > p)
    <3>1. CASE Among(all, k) = {}
      <4>1. p = 0
        BY <1>1, <3>1 DEF Peaks
      <4>2. d = q
        BY <1>2, <2>2, <4>1
      <4> QED BY <4>2
    <3>2. CASE Among(all, k) # {}
      <4>1. PICK i \in Among(all, k) : all[i].duration = p
        BY <1>1, <3>2 DEF Peaks
      <4> QED BY <1>2, <1>3, <2>2, <4>1
    <3> QED BY <3>1, <3>2
  <2> QED BY <2>1, <2>2
<1>7. Among(more, k) # {}
  OBVIOUS
<1> QED BY <1>1, <1>5, <1>6, <1>7 DEF Peaks

\* write_trace: the chunks that are missing start at the new row.
LEMMA ChunksGrow ==
  ASSUME NEW all, NEW parts, ChunksOK(all, parts), NEW row \in Row
  PROVE  LET chunk == RowChunk(row)
              wide == parts \o [k \in 1 .. (chunk + 1 - Len(parts)) |->
                                  [peak |-> 0, start |-> Len(all)]]
         IN  ChunksOK(Append(all, row), [wide EXCEPT ![chunk + 1].peak = Peak(@, row.duration)])
<1> DEFINE chunk == RowChunk(row)
           wide == parts \o [k \in 1 .. (chunk + 1 - Len(parts)) |->
                                [peak |-> 0, start |-> Len(all)]]
           new  == [wide EXCEPT ![chunk + 1].peak = Peak(@, row.duration)]
           more == Append(all, row)
<1>1. all \in Seq(Row) /\ parts \in Seq(Chunk) /\ Len(all) \in Nat /\ Len(parts) \in Nat
  BY DEF ChunksOK
<1>2. chunk \in Nat /\ row.duration \in Nat
  BY ChunkOf DEF RowChunk, Row
<1> HIDE DEF chunk
<1>3. /\ more \in Seq(Row) /\ Len(more) = Len(all) + 1 /\ more[Len(all) + 1] = row
      /\ \A i \in 1 .. Len(all) : more[i] = all[i]
  BY <1>1
<1> HIDE DEF more
<1>4. /\ wide \in Seq(Chunk) /\ Len(wide) \in Nat
      /\ Len(wide) >= Len(parts) /\ chunk < Len(wide)
      /\ \A m \in 1 .. Len(parts) : wide[m] = parts[m]
      /\ \A m \in 1 .. Len(wide) : m > Len(parts) =>
           m <= chunk + 1 /\ wide[m].peak = 0 /\ wide[m].start = Len(all)
  BY <1>1, <1>2, Widened, Zenon
<1> HIDE DEF wide
<1>5. Len(wide) \in Nat /\ chunk + 1 \in 1 .. Len(wide)
  <2>1. Len(wide) \in Nat /\ chunk < Len(wide)
    BY <1>4
  <2> QED BY <1>2, <2>1
<1>6. /\ new \in Seq(Chunk) /\ Len(new) = Len(wide)
      /\ \A m \in 1 .. Len(wide) :
           /\ new[m].start = wide[m].start
           /\ new[m].peak = IF m = chunk + 1 THEN Peak(wide[m].peak, row.duration)
                            ELSE wide[m].peak
  <2>1. wide \in Seq(Chunk) /\ chunk + 1 \in 1 .. Len(wide) /\ row.duration \in Nat
    BY <1>2, <1>4, <1>5
  <2> QED BY <2>1, Raised
<1> HIDE DEF new
<1>7. \A i \in 1 .. Len(all) : RowChunk(all[i]) \in Nat /\ RowChunk(all[i]) < Len(parts)
  BY <1>1, RowChunkType DEF ChunksOK
<1>8. ASSUME NEW i \in 1 .. Len(more) PROVE RowChunk(more[i]) < Len(new)
  <2>1. CASE i \in 1 .. Len(all)
    BY <1>1, <1>3, <1>4, <1>5, <1>6, <1>7, <2>1
  <2>2. CASE i = Len(all) + 1
    BY <1>3, <1>4, <1>6, <2>2 DEF chunk
  <2>3. i \in 1 .. Len(all) \/ i = Len(all) + 1
    BY <1>1, <1>3
  <2> QED BY <2>1, <2>2, <2>3
<1>9. ASSUME NEW m \in 1 .. Len(wide)
      PROVE  Begins(more, m - 1, new[m]) /\ Peaks(more, m - 1, new[m])
  <2>1. m \in Nat /\ m - 1 \in Int /\ m \in Int
    BY <1>5
  <2>2. CASE m <= Len(parts)
    <3>1. m \in 1 .. Len(parts)
      BY <2>1, <2>2, <1>1
    <3>2. parts[m] \in Chunk /\ wide[m] = parts[m]
      BY <1>1, <1>4, <3>1, Element
    <3>3. Begins(all, m - 1, parts[m]) /\ Peaks(all, m - 1, parts[m])
      BY <3>1 DEF ChunksOK
    <3>4. Begins(more, m - 1, new[m])
      <4>1. new[m].start = parts[m].start
        BY <1>6, <3>2
      <4> QED BY <1>1, <1>3, <2>1, <3>2, <3>3, <4>1, BeginsStays
    <3>5. Peaks(more, m - 1, new[m])
      <4>1. CASE m = chunk + 1
        <5>1. RowChunk(more[Len(all) + 1]) = m - 1
          BY <1>2, <1>3, <4>1 DEF chunk
        <5>2. Among(more, m - 1) = Among(all, m - 1) \cup {Len(all) + 1}
          BY <1>1, <1>3, <5>1, AmongMore
        <5>3. new[m].peak = Peak(parts[m].peak, row.duration) /\ parts[m].peak \in Nat
          BY <1>6, <3>2, <4>1 DEF Chunk
        <5> QED BY <1>1, <1>2, <1>3, <3>3, <5>2, <5>3, PeaksRaised
      <4>2. CASE m # chunk + 1
        <5>1. RowChunk(more[Len(all) + 1]) # m - 1
          BY <1>2, <1>3, <2>1, <4>2 DEF chunk
        <5>2. Among(more, m - 1) = Among(all, m - 1)
          BY <1>1, <1>3, <5>1, AmongMore
        <5>3. new[m].peak = parts[m].peak
          BY <1>6, <3>2, <4>2
        <5> QED BY <1>1, <1>3, <3>3, <5>2, <5>3, PeaksStays
      <4> QED BY <4>1, <4>2
    <3> QED BY <3>4, <3>5
  <2>3. CASE m > Len(parts)
    <3>1. m <= chunk + 1 /\ wide[m].peak = 0 /\ wide[m].start = Len(all)
      BY <1>4, <2>3
    <3>2. new[m].start = Len(all)
      BY <1>6, <3>1
    <3>3. \A i \in 1 .. Len(all) : more[i] = all[i] /\ RowChunk(all[i]) < m - 1
      BY <1>1, <1>3, <1>7, <2>1, <2>3
    <3>4. RowChunk(more[Len(all) + 1]) >= m - 1
      BY <1>2, <1>3, <2>1, <3>1 DEF chunk
    <3>5. Begins(more, m - 1, new[m])
      BY <1>1, <1>3, <2>1, <3>2, <3>3, <3>4, BeginsHere
    <3>6. Among(all, m - 1) = {}
      BY <1>1, <1>7, <2>1, <3>3 DEF Among
    <3>7. Peaks(all, m - 1, wide[m])
      BY <3>1, <3>6 DEF Peaks
    <3>8. CASE m = chunk + 1
      <4>1. RowChunk(more[Len(all) + 1]) = m - 1
        BY <1>2, <1>3, <3>8 DEF chunk
      <4>2. Among(more, m - 1) = Among(all, m - 1) \cup {Len(all) + 1}
        BY <1>1, <1>3, <4>1, AmongMore
      <4>3. new[m].peak = Peak(wide[m].peak, row.duration) /\ wide[m].peak \in Nat
        BY <1>6, <3>1, <3>8
      <4>4. Peaks(more, m - 1, new[m])
        BY <1>1, <1>2, <1>3, <3>7, <4>2, <4>3, PeaksRaised
      <4> QED BY <3>5, <4>4
    <3>9. CASE m # chunk + 1
      <4>1. RowChunk(more[Len(all) + 1]) # m - 1
        BY <1>2, <1>3, <2>1, <3>9 DEF chunk
      <4>2. Among(more, m - 1) = Among(all, m - 1)
        BY <1>1, <1>3, <4>1, AmongMore
      <4>3. new[m].peak = wide[m].peak
        BY <1>6, <3>9
      <4>4. Peaks(more, m - 1, new[m])
        BY <1>1, <1>3, <3>7, <4>2, <4>3, PeaksStays
      <4> QED BY <3>5, <4>4
    <3> QED BY <3>8, <3>9
  <2> QED BY <1>1, <2>1, <2>2, <2>3
<1>10. ChunksOK(more, new)
  BY <1>3, <1>6, <1>8, <1>9 DEF ChunksOK
<1> QED BY <1>10 DEF more, new, wide, chunk

----------------------------------------------------------------------------
(* What the capture says.                                                  *)

\* A message of the capture.
Message == [id : Clients, ts : 0 .. MaxTs, body : Body]

\* The fields of a message.
LEMMA MessageType ==
  ASSUME capture \in Seq(Message), NEW p \in 1 .. Len(capture)
  PROVE  LET m == capture[p]
         IN  /\ m.id \in Clients /\ m.ts \in 0 .. MaxTs /\ m.body \in Body
             /\ m.body.kind \in AllKinds
             /\ m.body.kind \in {"SimpleQuery", "Parse"} => m.body.query \in Queries
             /\ m.body.kind \in {"Parse", "Bind"} => m.body.name \in Names
             /\ m.body.kind = "Bind" => m.body.portal \in Names /\ m.body.params \in Arities
             /\ m.body.kind = "Execute" => m.body.portal \in Names
<1> DEFINE m == capture[p]
<1>1. m \in Message
  BY Element
<1>2. m.id \in Clients /\ m.ts \in 0 .. MaxTs /\ m.body \in Body
  BY <1>1 DEF Message
<1> HIDE DEF m
<1>3. PICK b : b = m.body
  OBVIOUS
<1>4. \/ b \in [kind : {"SimpleQuery"}, query : Queries]
      \/ b \in [kind : {"Parse"}, name : Names, query : Queries]
      \/ b \in [kind : {"Bind"}, portal : Names, name : Names, params : Arities]
      \/ b \in [kind : {"Execute"}, portal : Names]
      \/ b \in [kind : {"Sync"}]
  BY <1>2, <1>3 DEF Body
<1>5. /\ b.kind \in AllKinds
      /\ b.kind \in {"SimpleQuery", "Parse"} => b.query \in Queries
      /\ b.kind \in {"Parse", "Bind"} => b.name \in Names
      /\ b.kind = "Bind" => b.portal \in Names /\ b.params \in Arities
      /\ b.kind = "Execute" => b.portal \in Names
  <2>1. CASE b \in [kind : {"SimpleQuery"}, query : Queries]
    BY <2>1 DEF AllKinds
  <2>2. CASE b \in [kind : {"Parse"}, name : Names, query : Queries]
    BY <2>2 DEF AllKinds
  <2>3. CASE b \in [kind : {"Bind"}, portal : Names, name : Names, params : Arities]
    BY <2>3 DEF AllKinds
  <2>4. CASE b \in [kind : {"Execute"}, portal : Names]
    BY <2>4 DEF AllKinds
  <2>5. CASE b \in [kind : {"Sync"}]
    BY <2>5 DEF AllKinds
  <2> QED BY <1>4, <2>1, <2>2, <2>3, <2>4, <2>5
<1>6. QED BY <1>2, <1>3, <1>5 DEF m

\* The text of a query is one byte of the model.
LEMMA TextType == ASSUME NEW x \in Queries PROVE Text(x) \in Seq(Byte) /\ Text(x) = <<x>>
<1>1. x \in Byte
  BY DEF Byte
<1> QED BY <1>1 DEF Text

\* The last of some numbers.
LEMMA Greatest ==
  ASSUME NEW n \in Nat, NEW S \in SUBSET (1 .. n), S # {}
  PROVE  Max(S) \in S /\ \A y \in S : y <= Max(S)
<1> DEFINE U == {u \in Nat : \A y \in S : y <= u}
<1>1. n \in U /\ U \in SUBSET Nat
  OBVIOUS
<1>2. PICK m : m = Min(U)
  OBVIOUS
<1>3. m \in U /\ \A u \in U : m <= u
  <2> HIDE DEF U
  <2>1. U # {}
    BY <1>1
  <2> QED BY <1>1, <1>2, <2>1, First
<1>4. m \in S
  <2> SUFFICES ASSUME m \notin S PROVE FALSE
    OBVIOUS
  <2>1. PICK z \in S : TRUE
    OBVIOUS
  <2>2. m \in Nat /\ z <= m /\ z # m /\ z \in 1 .. n
    BY <1>3, <2>1
  <2>3. m - 1 \in Nat
    BY <2>2
  <2>4. \A y \in S : y <= m - 1
    <3> TAKE y \in S
    <3>1. y \in 1 .. n /\ y <= m /\ y # m
      BY <1>3
    <3> QED BY <2>2, <3>1
  <2>5. m - 1 \in U
    BY <2>3, <2>4
  <2>6. m <= m - 1
    BY <1>3, <2>5
  <2> QED BY <2>2, <2>6
<1>5. \A y \in S : y <= m
  BY <1>3
<1>6. S \subseteq Int
  OBVIOUS
<1>7. Max(S) = m
  <2> HIDE DEF U
  <2> QED BY <1>4, <1>5, <1>6, MaxIs
<1> QED BY <1>4, <1>5, <1>7

\* The Parse messages of a name, the Bind messages of a portal, up to a message.
Parses(c, n, p) ==
  {q \in 1 .. p : capture[q].id = c /\ capture[q].body.kind = "Parse"
                  /\ capture[q].body.name = n}
Binds(c, n, p) ==
  {q \in 1 .. p : capture[q].id = c /\ capture[q].body.kind = "Bind"
                  /\ capture[q].body.portal = n /\ ParseOf(q) # 0}
LastOf(S) == IF S = {} THEN 0 ELSE Max(S)

\* A statement is that of the last Parse of its name.
LEMMA ParseOfIs ==
  ASSUME NEW p
  PROVE  ParseOf(p) = LastOf(Parses(capture[p].id, capture[p].body.name, p - 1))
<1>1. {q \in Before(p, "Parse") : capture[q].body.name = capture[p].body.name}
        = Parses(capture[p].id, capture[p].body.name, p - 1)
  BY DEF Before, Parses
<1> QED BY <1>1 DEF ParseOf, LastOf

\* A portal is that of the last Bind of its name.
LEMMA BindOfIs ==
  ASSUME NEW p
  PROVE  BindOf(p) = LastOf(Binds(capture[p].id, capture[p].body.portal, p - 1))
<1>1. {q \in Before(p, "Bind") : capture[q].body.portal = capture[p].body.portal
                                 /\ ParseOf(q) # 0}
        = Binds(capture[p].id, capture[p].body.portal, p - 1)
  BY DEF Before, Binds
<1> QED BY <1>1 DEF BindOf, LastOf

\* The last of a set of messages.
LEMMA LastOfIs ==
  ASSUME NEW n \in Nat, NEW S \in SUBSET (1 .. n)
  PROVE  LastOf(S) \in 0 .. n /\ (LastOf(S) # 0 => LastOf(S) \in S)
         /\ (S # {} => LastOf(S) # 0)
<1>1. CASE S = {}
  BY <1>1 DEF LastOf
<1>2. CASE S # {}
  <2>1. Max(S) \in S
    BY <1>2, Greatest
  <2>2. Max(S) \in 1 .. n
    BY <2>1
  <2>3. LastOf(S) = Max(S)
    BY <1>2 DEF LastOf
  <2> QED BY <2>1, <2>2, <2>3
<1> QED BY <1>1, <1>2

\* The message that gave a statement its text is a Parse that came before.
LEMMA ParseOfType ==
  ASSUME capture \in Seq(Message), NEW p \in 1 .. Len(capture)
  PROVE  /\ ParseOf(p) \in 0 .. p - 1
         /\ ParseOf(p) # 0 => /\ capture[ParseOf(p)].body.kind = "Parse"
                              /\ capture[ParseOf(p)].body.query \in Queries
<1>1. PICK S : S = Parses(capture[p].id, capture[p].body.name, p - 1)
  OBVIOUS
<1>2. ParseOf(p) = LastOf(S)
  BY <1>1, ParseOfIs
<1>3. p - 1 \in Nat /\ S \in SUBSET (1 .. p - 1)
  BY <1>1 DEF Parses
<1>4. LastOf(S) \in 0 .. p - 1 /\ (LastOf(S) # 0 => LastOf(S) \in S)
  BY <1>3, LastOfIs
<1>5. ASSUME LastOf(S) # 0
      PROVE  capture[LastOf(S)].body.kind = "Parse" /\ LastOf(S) \in 1 .. Len(capture)
  <2>1. LastOf(S) \in S
    BY <1>4, <1>5
  <2>2. capture[LastOf(S)].body.kind = "Parse"
    BY <1>1, <2>1 DEF Parses
  <2>3. LastOf(S) \in 1 .. p - 1
    BY <1>3, <2>1
  <2>4. Len(capture) \in Nat /\ p \in Nat /\ p <= Len(capture)
    OBVIOUS
  <2> QED BY <2>2, <2>3, <2>4
<1>6. LastOf(S) # 0 => capture[LastOf(S)].body.query \in Queries
  BY <1>5, MessageType
<1> QED BY <1>2, <1>4, <1>5, <1>6

\* A portal is bound before it is executed, to a statement that is known.
LEMMA BindOfType ==
  ASSUME capture \in Seq(Message), NEW p \in 1 .. Len(capture)
  PROVE  BindOf(p) # 0 => /\ BindOf(p) \in 1 .. p - 1 /\ BindOf(p) \in 1 .. Len(capture)
                          /\ ParseOf(BindOf(p)) # 0
<1>1. PICK S : S = Binds(capture[p].id, capture[p].body.portal, p - 1)
  OBVIOUS
<1>2. BindOf(p) = LastOf(S)
  BY <1>1, BindOfIs
<1>3. p - 1 \in Nat /\ S \in SUBSET (1 .. p - 1)
  BY <1>1 DEF Binds
<1>4. LastOf(S) \in 0 .. p - 1 /\ (LastOf(S) # 0 => LastOf(S) \in S)
  BY <1>3, LastOfIs
<1>5. ASSUME LastOf(S) # 0
      PROVE  ParseOf(LastOf(S)) # 0 /\ LastOf(S) \in 1 .. p - 1 /\ LastOf(S) \in 1 .. Len(capture)
  <2>1. LastOf(S) \in S
    BY <1>4, <1>5
  <2>2. ParseOf(LastOf(S)) # 0
    BY <1>1, <2>1 DEF Binds
  <2>3. LastOf(S) \in 1 .. p - 1
    BY <1>3, <2>1
  <2>4. Len(capture) \in Nat /\ p \in Nat /\ p <= Len(capture)
    OBVIOUS
  <2> QED BY <2>2, <2>3, <2>4
<1> QED BY <1>2, <1>5

\* A message that is counted runs a text of the capture, or one the capture lacks.
LEMMA SourceType ==
  ASSUME capture \in Seq(Message), NEW p \in 1 .. Len(capture), NEW c, Counts(c, p)
  PROVE  Source(p) # 0 => capture[Source(p)].body.query \in Queries
<1>1. PICK kind : kind = capture[p].body.kind
  OBVIOUS
<1>2. kind \in AllKinds /\ kind # "Sync"
  BY <1>1, MessageType DEF Counts, Counted
<1>3. CASE kind \in {"SimpleQuery", "Parse"}
  <2>1. Source(p) = p
    BY <1>1, <1>3 DEF Source
  <2> QED BY <1>1, <1>3, <2>1, MessageType
<1>4. CASE kind = "Bind"
  <2>1. Source(p) = ParseOf(p)
    BY <1>1, <1>4 DEF Source
  <2> QED BY <2>1, ParseOfType
<1>5. CASE kind = "Execute"
  <2>1. Source(p) = IF BindOf(p) = 0 THEN 0 ELSE ParseOf(BindOf(p))
    BY <1>1, <1>5 DEF Source
  <2>2. BindOf(p) # 0 => BindOf(p) \in 1 .. Len(capture)
    BY BindOfType
  <2> QED BY <2>1, <2>2, ParseOfType
<1> QED BY <1>2, <1>3, <1>4, <1>5 DEF AllKinds

----------------------------------------------------------------------------
(* What the analyzer knows of a client after p messages of the capture.     *)

\* The records of the capture reader.
Statement == [index : Nat, offset : Nat, params_offset : Offset, ts : Nat]
Portal == [query : Nat, params : Nat]
Client == [frame_index : Nat, queries : Seq(Statement),
           statements : [Names -> Offset], portals : [Names -> Portal \cup {None}]]

TextOf(q) == Text(capture[Source(q)].body.query)

\* An entry is that of a message of the client: its number, its text, its time.
Tells(c, q, index, offset, ts, file) ==
  /\ Counts(c, q) /\ index = Number(c, q) /\ Source(q) # 0
  /\ Held(file, offset, TextOf(q)) /\ ts = Rel(capture[q].ts)

\* A name stands for the text of its last Parse, if there is one.
NameTells(c, n, offset, s, p) ==
  LET last == LastOf(Parses(c, n, p))
  IN  IF last = 0 THEN offset = None
      ELSE /\ offset \in Nat /\ offset \in Offsets(s)
           /\ Held(s.queries, offset, Text(capture[last].body.query))

\* A portal stands for the text of the statement it was last bound to.
PortalTells(c, n, portal, s, p) ==
  LET last == LastOf(Binds(c, n, p))
  IN  IF last = 0 THEN portal = None
      ELSE /\ portal \in Portal
           /\ Held(s.queries, portal.query, Text(capture[ParseOf(last)].body.query))

\* The statements a client keeps are in the order of their numbers, each told right.
QueriesTell(c, list, file, p) ==
  /\ \A i \in 1 .. Len(list) :
       \E q \in 1 .. p : Tells(c, q, list[i].index, list[i].offset, list[i].ts, file)
  /\ \A i, j \in 1 .. Len(list) : i < j => list[i].index < list[j].index

\* What the reader keeps of a client is what the messages read so far say.
ClientOK(c, k, s, p) ==
  /\ k \in Client /\ k.frame_index = Number(c, p)
  /\ \A n \in Names : NameTells(c, n, k.statements[n], s, p)
                      /\ PortalTells(c, n, k.portals[n], s, p)
  /\ QueriesTell(c, k.queries, s.queries, p)

\* No statement is missing that a record still to come may be about.
Keeps(c, list, taken, p) ==
  \A q \in 1 .. p : Counts(c, q) /\ Source(q) # 0 =>
    \/ \E i \in 1 .. Len(list) : list[i].index = Number(c, q)
    \/ \E u \in 1 .. taken : trace[u].id = c /\ Number(c, q) < trace[u].frame_index

\* What is in one storage is in the other.
Carries(s, r) ==
  /\ Offsets(s) \subseteq Offsets(r)
  /\ \A o \in Nat, t \in Seq(Byte) : Held(s.queries, o, t) => Held(r.queries, o, t)

\* A message more has the next number of its client, or none.
LEMMA NumberStep ==
  ASSUME NEW c, NEW p \in Nat
  PROVE  Number(c, p + 1) = IF Counts(c, p + 1) THEN Number(c, p) + 1 ELSE Number(c, p)
<1>1. p + 1 \in Nat /\ p < p + 1 /\ \A r \in p + 1 .. (p + 1) - 1 : capture[r].id # c
  OBVIOUS
<1> QED BY <1>1, NumberNext

\* The time of a statement since the start.
LEMMA RelType ==
  ASSUME NEW ts \in 0 .. MaxTs
  PROVE  Rel(ts) \in Nat /\ Rel(ts) = Max({0, ts - StartTs})
<1>1. ts \in Int /\ StartTs \in Int /\ MaxTs \in Int
  BY AnalyzerAssumption
<1>2. CASE ts > StartTs
  <2>1. ts - StartTs \in {0, ts - StartTs} /\ {0, ts - StartTs} \subseteq Int
        /\ \A y \in {0, ts - StartTs} : y <= ts - StartTs
    BY <1>1, <1>2
  <2>2. Max({0, ts - StartTs}) = ts - StartTs
    BY <2>1, MaxIs
  <2> QED BY <1>1, <1>2, <2>2 DEF Rel
<1>3. CASE ~(ts > StartTs)
  <2>1. 0 \in {0, ts - StartTs} /\ {0, ts - StartTs} \subseteq Int
        /\ \A y \in {0, ts - StartTs} : y <= 0
    BY <1>1, <1>3
  <2>2. Max({0, ts - StartTs}) = 0
    BY <2>1, MaxIs
  <2> QED BY <1>1, <1>3, <2>2 DEF Rel
<1> QED BY <1>2, <1>3

\* The entries of the messages read so far stay good.
LEMMA TellsStays ==
  ASSUME capture \in Seq(Message), NEW p \in Nat, p + 1 <= Len(capture),
         NEW c, NEW index, NEW offset \in Nat, NEW ts, NEW s, NEW r, Carries(s, r),
         NEW q \in 1 .. p, Tells(c, q, index, offset, ts, s.queries)
  PROVE  Tells(c, q, index, offset, ts, r.queries) /\ q \in 1 .. p + 1
<1>1. q \in 1 .. Len(capture) /\ q \in 1 .. p + 1
  <2>1. Len(capture) \in Nat
    OBVIOUS
  <2> QED BY <2>1
<1>2. TextOf(q) \in Seq(Byte)
  BY <1>1, SourceType, TextType DEF Tells, TextOf
<1> QED BY <1>1, <1>2 DEF Tells, Carries

\* The statements that are kept stay right when a message is read and the file grows.
LEMMA QueriesStay ==
  ASSUME capture \in Seq(Message), NEW p \in Nat, p + 1 <= Len(capture),
         NEW c, NEW list \in Seq(Statement), NEW s, NEW r, Carries(s, r),
         QueriesTell(c, list, s.queries, p)
  PROVE  QueriesTell(c, list, r.queries, p + 1)
<1>1. ASSUME NEW i \in 1 .. Len(list)
      PROVE  \E q \in 1 .. p + 1 :
               Tells(c, q, list[i].index, list[i].offset, list[i].ts, r.queries)
  <2>1. PICK q \in 1 .. p : Tells(c, q, list[i].index, list[i].offset, list[i].ts, s.queries)
    BY DEF QueriesTell
  <2>2. list[i] \in Statement
    BY Element
  <2>3. list[i].offset \in Nat
    BY <2>2 DEF Statement
  <2>4. /\ Tells(c, q, list[i].index, list[i].offset, list[i].ts, r.queries)
        /\ q \in 1 .. p + 1
    BY <2>1, <2>3, TellsStays
  <2> QED BY <2>4
<1> QED BY <1>1 DEF QueriesTell

\* A new entry has the highest number.
LEMMA QueriesAppend ==
  ASSUME capture \in Seq(Message), NEW p \in Nat, p + 1 <= Len(capture),
         NEW c, NEW list \in Seq(Statement), NEW s, NEW r, Carries(s, r),
         QueriesTell(c, list, s.queries, p), NEW e \in Statement,
         Tells(c, p + 1, e.index, e.offset, e.ts, r.queries)
  PROVE  QueriesTell(c, Append(list, e), r.queries, p + 1)
<1>1. QueriesTell(c, list, r.queries, p + 1)
  BY QueriesStay
<1>2. PICK more : more = Append(list, e)
  OBVIOUS
<1>3. /\ Len(list) \in Nat /\ Len(more) = Len(list) + 1 /\ more[Len(list) + 1] = e
      /\ \A i \in 1 .. Len(list) : more[i] = list[i]
  BY <1>2
<1>4. ASSUME NEW i \in 1 .. Len(more)
      PROVE  \E q \in 1 .. p + 1 :
               Tells(c, q, more[i].index, more[i].offset, more[i].ts, r.queries)
  <2>1. CASE i \in 1 .. Len(list)
    <3>1. more[i] = list[i]
      BY <1>3, <2>1
    <3> QED BY <1>1, <2>1, <3>1 DEF QueriesTell
  <2>2. CASE i = Len(list) + 1
    <3>1. more[i] = e /\ p + 1 \in 1 .. p + 1
      BY <1>3, <2>2
    <3> QED BY <3>1
  <2>3. i \in 1 .. Len(list) \/ i = Len(list) + 1
    BY <1>3
  <2> QED BY <2>1, <2>2, <2>3
<1>5. ASSUME NEW i \in 1 .. Len(list) PROVE list[i].index < e.index
  <2>1. PICK q \in 1 .. p : Tells(c, q, list[i].index, list[i].offset, list[i].ts, s.queries)
    BY DEF QueriesTell
  <2>2. list[i].index = Number(c, q) /\ e.index = Number(c, p + 1) /\ Counts(c, p + 1)
    BY <2>1 DEF Tells
  <2>3. q \in Nat /\ p + 1 \in Nat /\ q < p + 1 /\ q <= p + 1
    OBVIOUS
  <2>4. Number(c, q) < Number(c, p + 1)
    BY <2>2, <2>3, NumberGrows
  <2> QED BY <2>2, <2>4
<1>6. ASSUME NEW i \in 1 .. Len(more), NEW j \in 1 .. Len(more), i < j
      PROVE  more[i].index < more[j].index
  <2>1. i \in 1 .. Len(list) /\ more[i] = list[i]
    BY <1>3, <1>6
  <2>2. CASE j \in 1 .. Len(list)
    <3>1. more[j] = list[j] /\ list[i].index < list[j].index
      BY <1>1, <1>3, <1>6, <2>1, <2>2 DEF QueriesTell
    <3> QED BY <2>1, <3>1
  <2>3. CASE j = Len(list) + 1
    BY <1>3, <1>5, <2>1, <2>3
  <2>4. j \in 1 .. Len(list) \/ j = Len(list) + 1
    BY <1>3
  <2> QED BY <2>2, <2>3, <2>4
<1> QED BY <1>2, <1>4, <1>6 DEF QueriesTell

\* A message without a statement leaves none out.
LEMMA KeepsStay ==
  ASSUME NEW p \in Nat, NEW c, NEW list, NEW taken, Keeps(c, list, taken, p),
         Counts(c, p + 1) => Source(p + 1) = 0
  PROVE  Keeps(c, list, taken, p + 1)
<1>1. \A q \in 1 .. p + 1 : q \in 1 .. p \/ q = p + 1
  OBVIOUS
<1> QED BY <1>1 DEF Keeps

\* A message whose statement is appended leaves none out.
LEMMA KeepsAppend ==
  ASSUME NEW p \in Nat, NEW c, NEW list \in Seq(Statement), NEW taken,
         Keeps(c, list, taken, p), NEW e, e \in Statement, e.index = Number(c, p + 1)
  PROVE  Keeps(c, Append(list, e), taken, p + 1)
<1>1. PICK more : more = Append(list, e)
  OBVIOUS
<1>2. /\ Len(list) \in Nat /\ Len(more) = Len(list) + 1 /\ more[Len(list) + 1] = e
      /\ \A i \in 1 .. Len(list) : more[i] = list[i]
  BY <1>1
<1>3. ASSUME NEW q \in 1 .. p + 1, Counts(c, q), Source(q) # 0
      PROVE  \/ \E i \in 1 .. Len(more) : more[i].index = Number(c, q)
             \/ \E u \in 1 .. taken : trace[u].id = c /\ Number(c, q) < trace[u].frame_index
  <2>1. CASE q = p + 1
    <3>1. Len(list) + 1 \in 1 .. Len(more) /\ more[Len(list) + 1].index = Number(c, q)
      BY <1>2, <2>1
    <3> QED BY <3>1
  <2>2. CASE q \in 1 .. p
    <3>1. CASE \E i \in 1 .. Len(list) : list[i].index = Number(c, q)
      <4>1. PICK i \in 1 .. Len(list) : list[i].index = Number(c, q)
        BY <3>1
      <4>2. i \in 1 .. Len(more) /\ more[i].index = Number(c, q)
        BY <1>2, <4>1
      <4> QED BY <4>2
    <3> QED BY <1>3, <2>2, <3>1 DEF Keeps
  <2>3. q = p + 1 \/ q \in 1 .. p
    OBVIOUS
  <2> QED BY <2>1, <2>2, <2>3
<1> QED BY <1>1, <1>3 DEF Keeps

\* A name keeps its text when the message is no Parse of it.
LEMMA NamesStay ==
  ASSUME capture \in Seq(Message), NEW p \in Nat, p <= Len(capture),
         NEW c, NEW n, NEW offset, NEW s, NEW r, Carries(s, r),
         NameTells(c, n, offset, s, p), Parses(c, n, p + 1) = Parses(c, n, p)
  PROVE  NameTells(c, n, offset, r, p + 1)
<1>1. PICK last : last = LastOf(Parses(c, n, p))
  OBVIOUS
<1>2. CASE last = 0
  BY <1>1, <1>2 DEF NameTells
<1>3. CASE last # 0
  <2>1. last \in Parses(c, n, p)
    <3>1. Parses(c, n, p) \in SUBSET (1 .. p)
      BY DEF Parses
    <3> QED BY <1>1, <1>3, <3>1, LastOfIs
  <2>2. last \in 1 .. p /\ capture[last].body.kind = "Parse"
    BY <2>1 DEF Parses
  <2>3. last \in 1 .. Len(capture)
    <3>1. Len(capture) \in Nat
      OBVIOUS
    <3> QED BY <2>2, <3>1
  <2>4. Text(capture[last].body.query) \in Seq(Byte)
    BY <2>2, <2>3, MessageType, TextType
  <2>5. offset \in Nat /\ offset \in Offsets(s)
        /\ Held(s.queries, offset, Text(capture[last].body.query))
    BY <1>1, <1>3 DEF NameTells
  <2>6. offset \in Offsets(r) /\ Held(r.queries, offset, Text(capture[last].body.query))
    BY <2>4, <2>5 DEF Carries
  <2> QED BY <1>1, <1>3, <2>5, <2>6 DEF NameTells
<1> QED BY <1>2, <1>3

\* A portal keeps its text when the message is no Bind of it.
LEMMA PortalsStay ==
  ASSUME capture \in Seq(Message), NEW p \in Nat, p <= Len(capture),
         NEW c, NEW n, NEW portal, NEW s, NEW r, Carries(s, r),
         PortalTells(c, n, portal, s, p), Binds(c, n, p + 1) = Binds(c, n, p)
  PROVE  PortalTells(c, n, portal, r, p + 1)
<1>1. PICK last : last = LastOf(Binds(c, n, p))
  OBVIOUS
<1>2. CASE last = 0
  BY <1>1, <1>2 DEF PortalTells
<1>3. CASE last # 0
  <2>1. last \in Binds(c, n, p)
    <3>1. Binds(c, n, p) \in SUBSET (1 .. p)
      BY DEF Binds
    <3> QED BY <1>1, <1>3, <3>1, LastOfIs
  <2>2. last \in 1 .. p /\ ParseOf(last) # 0
    BY <2>1 DEF Binds
  <2>3. last \in 1 .. Len(capture)
    <3>1. Len(capture) \in Nat
      OBVIOUS
    <3> QED BY <2>2, <3>1
  <2>4. Text(capture[ParseOf(last)].body.query) \in Seq(Byte)
    BY <2>2, <2>3, ParseOfType, TextType
  <2>5. portal \in Portal /\ Held(s.queries, portal.query, Text(capture[ParseOf(last)].body.query))
    BY <1>1, <1>3 DEF PortalTells
  <2>6. portal.query \in Nat
    BY <2>5 DEF Portal
  <2>7. Held(r.queries, portal.query, Text(capture[ParseOf(last)].body.query))
    BY <2>4, <2>5, <2>6 DEF Carries
  <2> QED BY <1>1, <1>3, <2>5, <2>7 DEF PortalTells
<1> QED BY <1>2, <1>3

\* What a message adds to the definitions of a client.
LEMMA ParsesStep ==
  ASSUME NEW c, NEW n, NEW p \in Nat
  PROVE  LET m == capture[p + 1]
         IN  IF m.id = c /\ m.body.kind = "Parse" /\ m.body.name = n
             THEN LastOf(Parses(c, n, p + 1)) = p + 1
             ELSE Parses(c, n, p + 1) = Parses(c, n, p)
<1>1. 1 .. p + 1 = (1 .. p) \cup {p + 1} /\ p + 1 \notin 1 .. p
  OBVIOUS
<1>2. PICK S : S = Parses(c, n, p + 1)
  OBVIOUS
<1>3. CASE capture[p + 1].id = c /\ capture[p + 1].body.kind = "Parse"
           /\ capture[p + 1].body.name = n
  <2>1. p + 1 \in S /\ S \subseteq 1 .. p + 1
    BY <1>1, <1>2, <1>3 DEF Parses
  <2>2. S \subseteq Int /\ \A y \in S : y <= p + 1
    BY <2>1
  <2>3. Max(S) = p + 1
    BY <2>1, <2>2, MaxIs
  <2>4. LastOf(S) = p + 1
    BY <2>1, <2>3 DEF LastOf
  <2> QED BY <1>2, <1>3, <2>4
<1>4. CASE ~(capture[p + 1].id = c /\ capture[p + 1].body.kind = "Parse"
             /\ capture[p + 1].body.name = n)
  <2>1. Parses(c, n, p + 1) = Parses(c, n, p)
    BY <1>1, <1>4 DEF Parses
  <2> QED BY <1>4, <2>1
<1> QED BY <1>3, <1>4

\* The last Bind of a portal after a message more.
LEMMA BindsStep ==
  ASSUME NEW c, NEW n, NEW p \in Nat
  PROVE  LET m == capture[p + 1]
         IN  IF m.id = c /\ m.body.kind = "Bind" /\ m.body.portal = n /\ ParseOf(p + 1) # 0
             THEN LastOf(Binds(c, n, p + 1)) = p + 1
             ELSE Binds(c, n, p + 1) = Binds(c, n, p)
<1>1. 1 .. p + 1 = (1 .. p) \cup {p + 1} /\ p + 1 \notin 1 .. p
  OBVIOUS
<1>2. PICK S : S = Binds(c, n, p + 1)
  OBVIOUS
<1>3. CASE capture[p + 1].id = c /\ capture[p + 1].body.kind = "Bind"
           /\ capture[p + 1].body.portal = n /\ ParseOf(p + 1) # 0
  <2>1. p + 1 \in S /\ S \subseteq 1 .. p + 1
    BY <1>1, <1>2, <1>3 DEF Binds
  <2>2. S \subseteq Int /\ \A y \in S : y <= p + 1
    BY <2>1
  <2>3. Max(S) = p + 1
    BY <2>1, <2>2, MaxIs
  <2>4. LastOf(S) = p + 1
    BY <2>1, <2>3 DEF LastOf
  <2> QED BY <1>2, <1>3, <2>4
<1>4. CASE ~(capture[p + 1].id = c /\ capture[p + 1].body.kind = "Bind"
             /\ capture[p + 1].body.portal = n /\ ParseOf(p + 1) # 0)
  <2>1. Binds(c, n, p + 1) = Binds(c, n, p)
    BY <1>1, <1>4 DEF Binds
  <2> QED BY <1>4, <2>1
<1> QED BY <1>3, <1>4

----------------------------------------------------------------------------
(* Reading a message of the capture.                                       *)

\* The capture reader after `position` messages.
ReaderOK ==
  /\ capture \in Seq(Message) /\ position \in Nat /\ StorageOK(st)
  /\ clients \in [Clients -> Client]
  /\ \A c \in Clients : ClientOK(c, clients[c], st, position)
                        /\ Keeps(c, clients[c].queries, traces_total, position)

\* The same after a message more, the files as they are.
ReadOK ==
  /\ StorageOK(st') /\ Carries(st, st')
  /\ clients' \in [Clients -> Client]
  /\ \A c \in Clients : ClientOK(c, clients'[c], st', position + 1)
                        /\ Keeps(c, clients'[c].queries, traces_total, position + 1)

\* Only one client changes.
Elsewhere(c) ==
  /\ clients' = [d \in Clients |-> clients'[d]]
  /\ \A d \in Clients : d # c => clients'[d] = clients[d]

\* A message of another client, or one that is not counted, changes nothing.
LEMMA Unnumbered ==
  ASSUME capture \in Seq(Message), NEW p \in Nat, p + 1 <= Len(capture),
         NEW c, NEW k, NEW s, NEW r, Carries(s, r), ClientOK(c, k, s, p),
         NEW taken, Keeps(c, k.queries, taken, p), ~Counts(c, p + 1)
  PROVE  ClientOK(c, k, r, p + 1) /\ Keeps(c, k.queries, taken, p + 1)
<1>1. Len(capture) \in Nat /\ p <= Len(capture) /\ p + 1 \in 1 .. Len(capture)
  <2>1. Len(capture) \in Nat
    OBVIOUS
  <2> QED BY <2>1
<1>2. k \in Client /\ k.frame_index = Number(c, p + 1)
  BY NumberStep DEF ClientOK
<1>3. k.queries \in Seq(Statement)
  BY <1>2 DEF Client
<1>4. ~(capture[p + 1].id = c /\ capture[p + 1].body.kind \in {"Parse", "Bind"})
  BY DEF Counts, Counted
<1>5. \A n : Parses(c, n, p + 1) = Parses(c, n, p) /\ Binds(c, n, p + 1) = Binds(c, n, p)
  BY <1>4, ParsesStep, BindsStep
<1>6. ASSUME NEW n \in Names
      PROVE  NameTells(c, n, k.statements[n], r, p + 1)
             /\ PortalTells(c, n, k.portals[n], r, p + 1)
  <2>1. NameTells(c, n, k.statements[n], s, p) /\ PortalTells(c, n, k.portals[n], s, p)
    BY DEF ClientOK
  <2> QED BY <1>1, <1>5, <2>1, NamesStay, PortalsStay
<1>7. QueriesTell(c, k.queries, s.queries, p)
  BY DEF ClientOK
<1>8. QueriesTell(c, k.queries, r.queries, p + 1)
  BY <1>3, <1>7, QueriesStay
<1>9. Keeps(c, k.queries, taken, p + 1)
  BY KeepsStay
<1> QED BY <1>2, <1>6, <1>8, <1>9 DEF ClientOK

\* It is enough to look at the client of the message.
LEMMA OneClient ==
  ASSUME ReaderOK, position + 1 <= Len(capture), NEW c \in Clients,
         c = capture[position + 1].id,
         StorageOK(st'), Carries(st, st'), NEW j \in Client,
         clients'[c] = j, Elsewhere(c),
         ClientOK(c, j, st', position + 1), Keeps(c, j.queries, traces_total, position + 1)
  PROVE  ReadOK
<1>1. clients \in [Clients -> Client]
  BY DEF ReaderOK
<1>2. clients' \in [Clients -> Client] /\ clients'[c] = j
      /\ \A d \in Clients : d # c => clients'[d] = clients[d]
  BY <1>1 DEF Elsewhere
<1>3. ASSUME NEW d \in Clients, d # c
      PROVE  ClientOK(d, clients'[d], st', position + 1)
             /\ Keeps(d, clients'[d].queries, traces_total, position + 1)
  <2>1. ~Counts(d, position + 1)
    BY <1>3 DEF Counts
  <2>2. capture \in Seq(Message) /\ position \in Nat /\ ClientOK(d, clients[d], st, position)
        /\ Keeps(d, clients[d].queries, traces_total, position)
    BY DEF ReaderOK
  <2>3. PICK k, r : k = clients[d] /\ r = st'
    OBVIOUS
  <2>4. ClientOK(d, k, r, position + 1) /\ Keeps(d, k.queries, traces_total, position + 1)
    BY <2>1, <2>2, <2>3, Unnumbered
  <2>5. clients'[d] = k
    BY <1>2, <1>3, <2>3
  <2> QED BY <2>3, <2>4, <2>5
<1> QED BY <1>2, <1>3 DEF ReadOK

\* The client with a statement more, and with a definition more.
LEMMA KeepingIs ==
  ASSUME NEW k \in Client, NEW e \in Statement
  PROVE  LET j == Keeping(k, e)
         IN  /\ j \in Client /\ j.frame_index = k.frame_index + 1
             /\ j.queries = Append(k.queries, e)
             /\ j.statements = k.statements /\ j.portals = k.portals
<1>1. k.frame_index + 1 \in Nat /\ Append(k.queries, e) \in Seq(Statement)
  BY DEF Client
<1>2. PICK n, list : n = k.frame_index + 1 /\ list = Append(k.queries, e)
  OBVIOUS
<1>3. PICK j : j = [k EXCEPT !.frame_index = n, !.queries = list]
  OBVIOUS
<1>4. /\ j \in Client /\ j.frame_index = n /\ j.queries = list
      /\ j.statements = k.statements /\ j.portals = k.portals
  BY <1>1, <1>2, <1>3 DEF Client
<1>5. Keeping(k, e) = j
  BY <1>2, <1>3 DEF Keeping
<1> QED BY <1>2, <1>4, <1>5

\* A client of which the names change.
LEMMA StatementsIs ==
  ASSUME NEW k \in Client, NEW names \in [Names -> Offset]
  PROVE  LET j == [k EXCEPT !.statements = names]
         IN  /\ j \in Client /\ j.frame_index = k.frame_index /\ j.queries = k.queries
             /\ j.statements = names /\ j.portals = k.portals
BY DEF Client

\* A client of which the portals change.
LEMMA PortalsIs ==
  ASSUME NEW k \in Client, NEW names \in [Names -> Portal \cup {None}]
  PROVE  LET j == [k EXCEPT !.portals = names]
         IN  /\ j \in Client /\ j.frame_index = k.frame_index /\ j.queries = k.queries
             /\ j.statements = k.statements /\ j.portals = names
BY DEF Client

\* SimpleQuery and Parse.
LEMMA ReadTextOK ==
  ASSUME ReaderOK, position + 1 <= Len(capture), NEW m, m = capture[position + 1], ReadText(m)
  PROVE  ReadOK
<1>1. PICK c, p, k, s, r, x :
        /\ c = m.id /\ p = position /\ k = clients[c] /\ s = st /\ r = st' /\ x = m.body.query
  OBVIOUS
<1>2. /\ capture \in Seq(Message) /\ p \in Nat /\ p + 1 <= Len(capture)
      /\ Len(capture) \in Nat /\ StorageOK(s) /\ m = capture[p + 1]
      /\ clients \in [Clients -> Client]
  BY <1>1 DEF ReaderOK
<1>3. p + 1 \in 1 .. Len(capture) /\ p <= Len(capture)
  BY <1>2
<1>4. c \in Clients /\ m.body.kind \in {"SimpleQuery", "Parse"} /\ x \in Queries
      /\ m.ts \in 0 .. MaxTs /\ (m.body.kind = "Parse" => m.body.name \in Names)
  BY <1>1, <1>2, <1>3, MessageType DEF ReadText
<1>5. ClientOK(c, k, s, p) /\ Keeps(c, k.queries, traces_total, p)
  BY <1>1, <1>4 DEF ReaderOK
<1>6. k \in Client /\ k.frame_index = Number(c, p) /\ QueriesTell(c, k.queries, s.queries, p)
  BY <1>5 DEF ClientOK
<1>7. /\ k.frame_index \in Nat /\ k.queries \in Seq(Statement)
      /\ k.statements \in [Names -> Offset] /\ k.portals \in [Names -> Portal \cup {None}]
  BY <1>6 DEF Client
<1>8. PICK types : types = IF m.body.kind = "Parse" THEN Types ELSE <<>>
  OBVIOUS
<1>9. types \in TextTypes /\ Text(x) \in Seq(Byte)
  BY <1>4, <1>8, TextType DEF TextTypes
<1>10. r = MapQuery(s, Text(x), types)
  BY <1>1, <1>8 DEF ReadText
<1>11. /\ StorageOK(r) /\ Mapped(r, Text(x)) /\ Offsets(s) \subseteq Offsets(r)
       /\ \A o \in Nat, t \in Seq(Byte) : Held(s.queries, o, t) => Held(r.queries, o, t)
  BY <1>2, <1>9, <1>10, MapQueryOK, Zenon
<1>12. Carries(s, r)
  BY <1>11 DEF Carries
<1>13. PICK offset : offset = OffsetOf(r, Text(x))
  OBVIOUS
<1>14. offset \in Nat /\ offset \in Offsets(r) /\ Held(r.queries, offset, Text(x))
  BY <1>9, <1>11, <1>13, OffsetHeld
<1>15. PICK e : e = [index |-> k.frame_index + 1, offset |-> offset, params_offset |-> None,
                     ts |-> Rel(m.ts)]
  OBVIOUS
<1>16. /\ e \in Statement /\ e.index = k.frame_index + 1 /\ e.offset = offset
       /\ e.ts = Rel(m.ts)
  <2>1. Rel(m.ts) \in Nat
    BY <1>4, RelType
  <2>2. k.frame_index + 1 \in Nat /\ None \in Offset
    BY <1>7 DEF Offset
  <2> QED BY <1>14, <1>15, <2>1, <2>2 DEF Statement
<1>17. PICK names : names = Named(m, offset)
  OBVIOUS
<1>18. /\ names \in [Names -> Offset]
       /\ \A n \in Names : names[n] = IF m.body.kind = "Parse" /\ m.body.name = n
                                      THEN offset ELSE k.statements[n]
  <2>1. offset \in Offset
    BY <1>14 DEF Offset
  <2>2. names = IF m.body.kind = "Parse" THEN [k.statements EXCEPT ![m.body.name] = offset]
                ELSE k.statements
    BY <1>1, <1>17 DEF Named
  <2> QED BY <1>4, <1>7, <2>1, <2>2
<1>19. PICK j : j = [Keeping(clients[m.id], Info(m.id, OffsetOf(st', Text(m.body.query)),
                                                 None, m.ts))
                       EXCEPT !.statements = Named(m, OffsetOf(st', Text(m.body.query)))]
  OBVIOUS
<1>20. clients'[c] = j /\ Elsewhere(c)
  <2>1. clients' = [clients EXCEPT ![m.id] = j]
    BY <1>19 DEF ReadText
  <2> QED BY <1>1, <1>2, <1>4, <2>1 DEF Elsewhere
<1>21. /\ j \in Client /\ j.frame_index = k.frame_index + 1 /\ j.queries = Append(k.queries, e)
       /\ j.statements = names /\ j.portals = k.portals
  <2>1. Info(m.id, OffsetOf(st', Text(m.body.query)), None, m.ts) = e
    BY <1>1, <1>13, <1>15 DEF Info
  <2>2. Named(m, OffsetOf(st', Text(m.body.query))) = names /\ clients[m.id] = k
    BY <1>1, <1>13, <1>17
  <2>3. j = [Keeping(k, e) EXCEPT !.statements = names]
    BY <1>19, <2>1, <2>2
  <2>4. /\ Keeping(k, e) \in Client /\ Keeping(k, e).frame_index = k.frame_index + 1
        /\ Keeping(k, e).queries = Append(k.queries, e)
        /\ Keeping(k, e).statements = k.statements /\ Keeping(k, e).portals = k.portals
    BY <1>6, <1>16, KeepingIs
  <2>5. /\ j \in Client /\ j.frame_index = Keeping(k, e).frame_index
        /\ j.queries = Keeping(k, e).queries
        /\ j.statements = names /\ j.portals = Keeping(k, e).portals
    BY <1>18, <2>3, <2>4, StatementsIs
  <2> QED BY <2>4, <2>5
<1>22. Counts(c, p + 1)
  BY <1>1, <1>2, <1>4 DEF Counts, Counted
<1>23. j.frame_index = Number(c, p + 1)
  BY <1>2, <1>6, <1>21, <1>22, NumberStep
<1>24. Source(p + 1) = p + 1 /\ TextOf(p + 1) = Text(x)
  BY <1>1, <1>2, <1>4 DEF Source, TextOf
<1>25. Tells(c, p + 1, e.index, e.offset, e.ts, r.queries)
  <2>1. Source(p + 1) # 0
    BY <1>2, <1>24
  <2> QED BY <1>2, <1>14, <1>16, <1>21, <1>22, <1>23, <1>24, <2>1 DEF Tells
<1>26. QueriesTell(c, j.queries, r.queries, p + 1)
  BY <1>2, <1>6, <1>7, <1>12, <1>16, <1>21, <1>25, QueriesAppend
<1>27. Keeps(c, j.queries, traces_total, p + 1)
  <2>1. e.index = Number(c, p + 1)
    BY <1>16, <1>21, <1>23
  <2> QED BY <1>2, <1>5, <1>7, <1>16, <1>21, <2>1, KeepsAppend
<1>28. ASSUME NEW n \in Names PROVE NameTells(c, n, j.statements[n], r, p + 1)
  <2>1. CASE m.body.kind = "Parse" /\ m.body.name = n
    <3>1. LastOf(Parses(c, n, p + 1)) = p + 1
      BY <1>1, <1>2, <2>1, ParsesStep
    <3>2. j.statements[n] = offset
      BY <1>18, <1>21, <2>1
    <3>3. p + 1 # 0 /\ capture[p + 1].body.query = x
      BY <1>1, <1>2
    <3> QED BY <1>14, <3>1, <3>2, <3>3 DEF NameTells
  <2>2. CASE ~(m.body.kind = "Parse" /\ m.body.name = n)
    <3>1. Parses(c, n, p + 1) = Parses(c, n, p)
      BY <1>1, <1>2, <2>2, ParsesStep
    <3>2. j.statements[n] = k.statements[n]
      BY <1>18, <1>21, <2>2
    <3>3. NameTells(c, n, k.statements[n], s, p)
      BY <1>5 DEF ClientOK
    <3> QED BY <1>2, <1>3, <1>12, <3>1, <3>2, <3>3, NamesStay
  <2> QED BY <2>1, <2>2
<1>29. ASSUME NEW n \in Names PROVE PortalTells(c, n, j.portals[n], r, p + 1)
  <2>1. Binds(c, n, p + 1) = Binds(c, n, p)
    BY <1>1, <1>2, <1>4, BindsStep
  <2>2. PortalTells(c, n, k.portals[n], s, p)
    BY <1>5 DEF ClientOK
  <2> QED BY <1>2, <1>3, <1>12, <1>21, <2>1, <2>2, PortalsStay
<1>30. ClientOK(c, j, r, p + 1)
  BY <1>21, <1>23, <1>26, <1>28, <1>29 DEF ClientOK
<1> QED BY <1>1, <1>2, <1>4, <1>11, <1>12, <1>20, <1>21, <1>27, <1>30, OneClient

\* The parameters that a Bind is stored with.
LEMMA ParamsType ==
  ASSUME NEW arity \in Nat
  PROVE  /\ Params(arity) \in Seq([type_oid : Nat, value : Seq(Nat)])
         /\ Formats \in Seq(Nat)
<1> DEFINE P == [type_oid : Nat, value : Seq(Nat)]
           list == [i \in 1 .. arity |->
                      [type_oid |-> 23, value |-> IF i % 2 = 1 THEN <<i>> ELSE Null]]
<1>1. ASSUME NEW i \in 1 .. arity
      PROVE  [type_oid |-> 23, value |-> IF i % 2 = 1 THEN <<i>> ELSE Null] \in P
  <2>1. <<i>> \in Seq(Nat) /\ 23 \in Nat
    OBVIOUS
  <2>2. Null \in Seq(Nat)
    BY DEF Null
  <2> QED BY <2>1, <2>2
<1>2. list = [i \in 1 .. arity |-> list[i]] /\ \A i \in 1 .. arity : list[i] \in P
  BY <1>1
<1> HIDE DEF list, P
<1>3. list \in Seq(P)
  BY <1>2, Mapping
<1>4. Params(arity) \in Seq(P)
  BY <1>3 DEF Params, list
<1>5. Formats \in Seq(Nat)
  BY DEF Formats
<1> QED BY <1>4, <1>5 DEF P

\* What holds where a message of a client is read.
LEMMA ReaderAt ==
  ASSUME ReaderOK, position + 1 <= Len(capture), NEW p, p = position, NEW m,
         m = capture[p + 1], NEW c, c = m.id, NEW k, k = clients[c], NEW s, s = st
  PROVE  /\ capture \in Seq(Message) /\ p \in Nat /\ p + 1 <= Len(capture)
         /\ p <= Len(capture) /\ StorageOK(s) /\ clients \in [Clients -> Client]
         /\ p + 1 \in 1 .. Len(capture)
         /\ c \in Clients /\ m.ts \in 0 .. MaxTs
         /\ ClientOK(c, k, s, p) /\ Keeps(c, k.queries, traces_total, p)
         /\ k \in Client /\ k.frame_index = Number(c, p)
         /\ QueriesTell(c, k.queries, s.queries, p)
         /\ k.frame_index \in Nat /\ k.queries \in Seq(Statement)
         /\ k.statements \in [Names -> Offset] /\ k.portals \in [Names -> Portal \cup {None}]
<1>1. /\ capture \in Seq(Message) /\ p \in Nat /\ p + 1 <= Len(capture)
      /\ StorageOK(s) /\ clients \in [Clients -> Client]
  BY DEF ReaderOK
<1>2. Len(capture) \in Nat
  BY <1>1
<1>3. p + 1 \in 1 .. Len(capture) /\ p <= Len(capture)
  BY <1>1, <1>2
<1>4. c \in Clients /\ m.ts \in 0 .. MaxTs
  BY <1>1, <1>3, MessageType
<1>5. ClientOK(c, k, s, p) /\ Keeps(c, k.queries, traces_total, p)
  BY <1>4 DEF ReaderOK
<1>6. k \in Client /\ k.frame_index = Number(c, p) /\ QueriesTell(c, k.queries, s.queries, p)
  BY <1>5 DEF ClientOK
<1>7. /\ k.frame_index \in Nat /\ k.queries \in Seq(Statement)
      /\ k.statements \in [Names -> Offset] /\ k.portals \in [Names -> Portal \cup {None}]
  BY <1>6 DEF Client
<1> QED BY <1>1, <1>3, <1>4, <1>5, <1>6, <1>7

\* A statement or a portal is known if the capture has its message.
LEMMA KnownStatement ==
  ASSUME NEW p \in Nat, NEW c, NEW n, c = capture[p + 1].id, n = capture[p + 1].body.name,
         NEW s, NEW offset, NameTells(c, n, offset, s, p)
  PROVE  IF offset = None THEN ParseOf(p + 1) = 0
         ELSE /\ ParseOf(p + 1) # 0 /\ offset \in Nat /\ offset \in Offsets(s)
              /\ Held(s.queries, offset, Text(capture[ParseOf(p + 1)].body.query))
<1>1. (p + 1) - 1 = p
  OBVIOUS
<1>2. ParseOf(p + 1) = LastOf(Parses(c, n, p))
  BY <1>1, ParseOfIs
<1>3. None \notin Nat
  BY AnalyzerAssumption
<1> QED BY <1>2, <1>3 DEF NameTells

\* A portal the reader knows is that of the last Bind, with the text of its statement.
LEMMA KnownPortal ==
  ASSUME NEW p \in Nat, NEW c, NEW n, c = capture[p + 1].id, n = capture[p + 1].body.portal,
         NEW s, NEW portal, PortalTells(c, n, portal, s, p)
  PROVE  IF portal = None THEN BindOf(p + 1) = 0
         ELSE /\ BindOf(p + 1) # 0 /\ portal \in Portal
              /\ Held(s.queries, portal.query,
                      Text(capture[ParseOf(BindOf(p + 1))].body.query))
<1>1. (p + 1) - 1 = p
  OBVIOUS
<1>2. BindOf(p + 1) = LastOf(Binds(c, n, p))
  BY <1>1, BindOfIs
<1>3. None \notin Portal
  BY AnalyzerAssumption DEF Portal
<1> QED BY <1>2, <1>3 DEF PortalTells

\* Bind: the text of its statement, and its parameters.
LEMMA ReadBindOK ==
  ASSUME ReaderOK, position + 1 <= Len(capture), NEW m, m = capture[position + 1], ReadBind(m)
  PROVE  ReadOK
<1>1. PICK c, p, k, s, r, n :
        /\ c = m.id /\ p = position /\ k = clients[c] /\ s = st /\ r = st' /\ n = m.body.name
  OBVIOUS
<1>2. /\ capture \in Seq(Message) /\ p \in Nat /\ p + 1 <= Len(capture)
      /\ p <= Len(capture) /\ StorageOK(s) /\ clients \in [Clients -> Client]
      /\ p + 1 \in 1 .. Len(capture)
      /\ c \in Clients /\ m.ts \in 0 .. MaxTs
      /\ ClientOK(c, k, s, p) /\ Keeps(c, k.queries, traces_total, p)
      /\ k \in Client /\ k.frame_index = Number(c, p)
      /\ QueriesTell(c, k.queries, s.queries, p)
      /\ k.frame_index \in Nat /\ k.queries \in Seq(Statement)
      /\ k.statements \in [Names -> Offset] /\ k.portals \in [Names -> Portal \cup {None}]
  BY <1>1, ReaderAt
<1>3. m = capture[p + 1]
  BY <1>1
<1>4. m.body.kind = "Bind" /\ n \in Names /\ m.body.portal \in Names /\ m.body.params \in Nat
  <2>1. m.body.kind = "Bind"
    BY DEF ReadBind
  <2>2. m.body.name \in Names /\ m.body.portal \in Names /\ m.body.params \in Arities
    BY <1>2, <1>3, <2>1, MessageType
  <2>3. m.body.params \in Nat
    <3>1. Arities \subseteq Nat
      BY AnalyzerAssumption
    <3> QED BY <2>2, <3>1
  <2>4. n = m.body.name
    BY <1>1
  <2> QED BY <2>1, <2>2, <2>3, <2>4
<1>5. PICK offset : offset = k.statements[n]
  OBVIOUS
<1>6. offset # None
  BY <1>1, <1>5 DEF ReadBind
<1>7. NameTells(c, n, offset, s, p)
  BY <1>2, <1>4, <1>5 DEF ClientOK
<1>8. /\ ParseOf(p + 1) # 0 /\ offset \in Nat /\ offset \in Offsets(s)
      /\ Held(s.queries, offset, Text(capture[ParseOf(p + 1)].body.query))
  BY <1>1, <1>2, <1>3, <1>6, <1>7, KnownStatement
<1>9. r = WriteParams(s, offset, Params(m.body.params), Formats)
  BY <1>1, <1>5 DEF ReadBind
<1>10. StorageOK(r) /\ r.queries = s.queries /\ r.query_map = s.query_map
  <2>1. /\ Params(m.body.params) \in Seq([type_oid : Nat, value : Seq(Nat)])
        /\ Formats \in Seq(Nat)
    BY <1>4, ParamsType
  <2>2. StorageOK(s) /\ offset \in Nat
    BY <1>2, <1>8
  <2> QED BY <1>9, <2>1, <2>2, WriteParamsOK
<1>11. Carries(s, r)
  BY <1>10 DEF Carries, Offsets
<1>12. PICK params : params = s.params_offset
  OBVIOUS
<1>13. params \in Nat
  BY <1>2, <1>12 DEF StorageOK
<1>14. PICK e : e = [index |-> k.frame_index + 1, offset |-> offset, params_offset |-> params,
                     ts |-> Rel(m.ts)]
  OBVIOUS
<1>15. /\ e \in Statement /\ e.index = k.frame_index + 1 /\ e.offset = offset
       /\ e.ts = Rel(m.ts)
  <2>1. Rel(m.ts) \in Nat
    BY <1>2, RelType
  <2>2. k.frame_index + 1 \in Nat /\ params \in Offset
    BY <1>2, <1>13 DEF Offset
  <2> QED BY <1>8, <1>14, <2>1, <2>2 DEF Statement
<1>16. PICK portal : portal = [query |-> offset, params |-> params]
  OBVIOUS
<1>17. portal \in Portal /\ portal.query = offset
  BY <1>8, <1>13, <1>16 DEF Portal
<1>18. PICK portals : portals = Bound(m, offset)
  OBVIOUS
<1>19. /\ portals \in [Names -> Portal \cup {None}]
       /\ \A a \in Names : portals[a] = IF m.body.portal = a THEN portal ELSE k.portals[a]
  <2>1. portals = [k.portals EXCEPT ![m.body.portal] = portal]
    BY <1>1, <1>12, <1>16, <1>18 DEF Bound
  <2> QED BY <1>2, <1>4, <1>17, <2>1
<1>20. PICK j : j = [Keeping(clients[m.id], Info(m.id, clients[m.id].statements[m.body.name],
                                                 st.params_offset, m.ts))
                       EXCEPT !.portals = Bound(m, clients[m.id].statements[m.body.name])]
  OBVIOUS
<1>21. clients'[c] = j /\ Elsewhere(c)
  <2>1. clients' = [clients EXCEPT ![m.id] = j]
    BY <1>20 DEF ReadBind
  <2> QED BY <1>1, <1>2, <2>1 DEF Elsewhere
<1>22. /\ j \in Client /\ j.frame_index = k.frame_index + 1 /\ j.queries = Append(k.queries, e)
       /\ j.statements = k.statements /\ j.portals = portals
  <2>1. Info(m.id, clients[m.id].statements[m.body.name], st.params_offset, m.ts) = e
    BY <1>1, <1>5, <1>12, <1>14 DEF Info
  <2>2. Bound(m, clients[m.id].statements[m.body.name]) = portals /\ clients[m.id] = k
    BY <1>1, <1>5, <1>18
  <2>3. j = [Keeping(k, e) EXCEPT !.portals = portals]
    BY <1>20, <2>1, <2>2
  <2>4. /\ Keeping(k, e) \in Client /\ Keeping(k, e).frame_index = k.frame_index + 1
        /\ Keeping(k, e).queries = Append(k.queries, e)
        /\ Keeping(k, e).statements = k.statements /\ Keeping(k, e).portals = k.portals
    BY <1>2, <1>15, KeepingIs
  <2>5. /\ j \in Client /\ j.frame_index = Keeping(k, e).frame_index
        /\ j.queries = Keeping(k, e).queries
        /\ j.statements = Keeping(k, e).statements /\ j.portals = portals
    BY <1>19, <2>3, <2>4, PortalsIs
  <2> QED BY <2>4, <2>5
<1>23. Counts(c, p + 1)
  BY <1>1, <1>3, <1>4 DEF Counts, Counted
<1>24. j.frame_index = Number(c, p + 1)
  BY <1>2, <1>22, <1>23, NumberStep
<1>25. Source(p + 1) = ParseOf(p + 1) /\ Source(p + 1) # 0
       /\ TextOf(p + 1) = Text(capture[ParseOf(p + 1)].body.query)
  <2>1. Source(p + 1) = ParseOf(p + 1)
    BY <1>3, <1>4 DEF Source
  <2> QED BY <1>8, <2>1 DEF TextOf
<1>26. Tells(c, p + 1, e.index, e.offset, e.ts, r.queries)
  BY <1>3, <1>8, <1>10, <1>15, <1>22, <1>23, <1>24, <1>25 DEF Tells
<1>27. QueriesTell(c, j.queries, r.queries, p + 1)
  BY <1>2, <1>11, <1>15, <1>22, <1>26, QueriesAppend
<1>28. Keeps(c, j.queries, traces_total, p + 1)
  <2>1. e.index = Number(c, p + 1)
    BY <1>15, <1>22, <1>24
  <2> QED BY <1>2, <1>15, <1>22, <2>1, KeepsAppend
<1>29. ASSUME NEW a \in Names PROVE NameTells(c, a, j.statements[a], r, p + 1)
  <2>1. Parses(c, a, p + 1) = Parses(c, a, p)
    BY <1>2, <1>3, <1>4, ParsesStep
  <2>2. NameTells(c, a, k.statements[a], s, p)
    BY <1>2 DEF ClientOK
  <2> QED BY <1>2, <1>11, <1>22, <2>1, <2>2, NamesStay
<1>30. ASSUME NEW a \in Names PROVE PortalTells(c, a, j.portals[a], r, p + 1)
  <2>1. CASE m.body.portal = a
    <3>1. LastOf(Binds(c, a, p + 1)) = p + 1
      BY <1>1, <1>2, <1>3, <1>4, <1>8, <2>1, BindsStep
    <3>2. j.portals[a] = portal
      BY <1>19, <1>22, <2>1
    <3>3. p + 1 # 0 /\ Held(r.queries, offset, Text(capture[ParseOf(p + 1)].body.query))
      BY <1>2, <1>8, <1>10
    <3> QED BY <1>17, <3>1, <3>2, <3>3 DEF PortalTells
  <2>2. CASE m.body.portal # a
    <3>1. Binds(c, a, p + 1) = Binds(c, a, p)
      BY <1>2, <1>3, <2>2, BindsStep
    <3>2. j.portals[a] = k.portals[a]
      BY <1>19, <1>22, <2>2
    <3>3. PortalTells(c, a, k.portals[a], s, p)
      BY <1>2 DEF ClientOK
    <3> QED BY <1>2, <1>11, <3>1, <3>2, <3>3, PortalsStay
  <2> QED BY <2>1, <2>2
<1>31. ClientOK(c, j, r, p + 1)
  BY <1>22, <1>24, <1>27, <1>29, <1>30 DEF ClientOK
<1> QED BY <1>1, <1>2, <1>3, <1>10, <1>11, <1>21, <1>22, <1>28, <1>31, OneClient

\* Execute: the text and the parameters that the portal was bound to.
LEMMA ReadExecuteOK ==
  ASSUME ReaderOK, position + 1 <= Len(capture), NEW m, m = capture[position + 1],
         ReadExecute(m)
  PROVE  ReadOK
<1>1. PICK c, p, k, s, n :
        /\ c = m.id /\ p = position /\ k = clients[c] /\ s = st /\ n = m.body.portal
  OBVIOUS
<1>2. /\ capture \in Seq(Message) /\ p \in Nat /\ p + 1 <= Len(capture)
      /\ p <= Len(capture) /\ StorageOK(s) /\ clients \in [Clients -> Client]
      /\ p + 1 \in 1 .. Len(capture)
      /\ c \in Clients /\ m.ts \in 0 .. MaxTs
      /\ ClientOK(c, k, s, p) /\ Keeps(c, k.queries, traces_total, p)
      /\ k \in Client /\ k.frame_index = Number(c, p)
      /\ QueriesTell(c, k.queries, s.queries, p)
      /\ k.frame_index \in Nat /\ k.queries \in Seq(Statement)
      /\ k.statements \in [Names -> Offset] /\ k.portals \in [Names -> Portal \cup {None}]
  BY <1>1, ReaderAt
<1>3. m = capture[p + 1]
  BY <1>1
<1>4. m.body.kind = "Execute" /\ n \in Names
  <2>1. m.body.kind = "Execute"
    BY DEF ReadExecute
  <2>2. m.body.portal \in Names
    BY <1>2, <1>3, <2>1, MessageType
  <2> QED BY <1>1, <2>1, <2>2
<1>5. PICK portal : portal = k.portals[n]
  OBVIOUS
<1>6. portal # None
  BY <1>1, <1>5 DEF ReadExecute
<1>7. PortalTells(c, n, portal, s, p)
  BY <1>2, <1>4, <1>5 DEF ClientOK
<1>8. /\ BindOf(p + 1) # 0 /\ portal \in Portal
      /\ Held(s.queries, portal.query, Text(capture[ParseOf(BindOf(p + 1))].body.query))
  BY <1>1, <1>2, <1>3, <1>6, <1>7, KnownPortal
<1>9. Carries(s, s)
  BY DEF Carries
<1>10. portal.query \in Nat /\ portal.params \in Nat
  BY <1>8 DEF Portal
<1>11. PICK e : e = [index |-> k.frame_index + 1, offset |-> portal.query,
                     params_offset |-> portal.params, ts |-> Rel(m.ts)]
  OBVIOUS
<1>12. /\ e \in Statement /\ e.index = k.frame_index + 1 /\ e.offset = portal.query
       /\ e.ts = Rel(m.ts)
  <2>1. Rel(m.ts) \in Nat
    BY <1>2, RelType
  <2>2. k.frame_index + 1 \in Nat /\ portal.params \in Offset
    BY <1>2, <1>10 DEF Offset
  <2> QED BY <1>10, <1>11, <2>1, <2>2 DEF Statement
<1>13. PICK j : j = Keeping(clients[m.id],
                            Info(m.id, clients[m.id].portals[m.body.portal].query,
                                 clients[m.id].portals[m.body.portal].params, m.ts))
  OBVIOUS
<1>14. clients'[c] = j /\ Elsewhere(c) /\ st' = s
  <2>1. clients' = [clients EXCEPT ![m.id] = j]
    BY <1>13 DEF ReadExecute
  <2>2. st' = st
    BY DEF ReadExecute
  <2> QED BY <1>1, <1>2, <2>1, <2>2 DEF Elsewhere
<1>15. /\ j \in Client /\ j.frame_index = k.frame_index + 1 /\ j.queries = Append(k.queries, e)
       /\ j.statements = k.statements /\ j.portals = k.portals
  <2>1. Info(m.id, clients[m.id].portals[m.body.portal].query,
             clients[m.id].portals[m.body.portal].params, m.ts) = e
    BY <1>1, <1>5, <1>11 DEF Info
  <2>2. j = Keeping(k, e)
    BY <1>1, <1>13, <2>1
  <2> QED BY <1>2, <1>12, <2>2, KeepingIs
<1>16. Counts(c, p + 1)
  BY <1>1, <1>3, <1>4 DEF Counts, Counted
<1>17. j.frame_index = Number(c, p + 1)
  BY <1>2, <1>15, <1>16, NumberStep
<1>18. Source(p + 1) # 0 /\ TextOf(p + 1) = Text(capture[ParseOf(BindOf(p + 1))].body.query)
  <2>1. Source(p + 1) = ParseOf(BindOf(p + 1))
    BY <1>3, <1>4, <1>8 DEF Source
  <2>2. ParseOf(BindOf(p + 1)) # 0
    BY <1>2, <1>8, BindOfType
  <2> QED BY <2>1, <2>2 DEF TextOf
<1>19. Tells(c, p + 1, e.index, e.offset, e.ts, s.queries)
  BY <1>3, <1>8, <1>12, <1>15, <1>16, <1>17, <1>18 DEF Tells
<1>20. QueriesTell(c, j.queries, s.queries, p + 1)
  BY <1>2, <1>9, <1>12, <1>15, <1>19, QueriesAppend
<1>21. Keeps(c, j.queries, traces_total, p + 1)
  <2>1. e.index = Number(c, p + 1)
    BY <1>12, <1>15, <1>17
  <2> QED BY <1>2, <1>12, <1>15, <2>1, KeepsAppend
<1>22. ASSUME NEW a \in Names
       PROVE  NameTells(c, a, j.statements[a], s, p + 1)
              /\ PortalTells(c, a, j.portals[a], s, p + 1)
  <2>1. Parses(c, a, p + 1) = Parses(c, a, p) /\ Binds(c, a, p + 1) = Binds(c, a, p)
    BY <1>2, <1>3, <1>4, ParsesStep, BindsStep
  <2>2. NameTells(c, a, k.statements[a], s, p) /\ PortalTells(c, a, k.portals[a], s, p)
    BY <1>2 DEF ClientOK
  <2> QED BY <1>2, <1>9, <1>15, <2>1, <2>2, NamesStay, PortalsStay
<1>23. ClientOK(c, j, s, p + 1)
  BY <1>15, <1>17, <1>20, <1>22 DEF ClientOK
<1> QED BY <1>1, <1>2, <1>3, <1>9, <1>14, <1>15, <1>21, <1>23, OneClient

\* A Bind or an Execute whose definition the capture lacks is counted and not kept.
LEMMA ReadUnknownOK ==
  ASSUME ReaderOK, position + 1 <= Len(capture), NEW m, m = capture[position + 1],
         ReadUnknown(m)
  PROVE  ReadOK
<1>1. PICK c, p, k, s :
        /\ c = m.id /\ p = position /\ k = clients[c] /\ s = st
  OBVIOUS
<1>2. /\ capture \in Seq(Message) /\ p \in Nat /\ p + 1 <= Len(capture)
      /\ p <= Len(capture) /\ StorageOK(s) /\ clients \in [Clients -> Client]
      /\ p + 1 \in 1 .. Len(capture)
      /\ c \in Clients /\ m.ts \in 0 .. MaxTs
      /\ ClientOK(c, k, s, p) /\ Keeps(c, k.queries, traces_total, p)
      /\ k \in Client /\ k.frame_index = Number(c, p)
      /\ QueriesTell(c, k.queries, s.queries, p)
      /\ k.frame_index \in Nat /\ k.queries \in Seq(Statement)
      /\ k.statements \in [Names -> Offset] /\ k.portals \in [Names -> Portal \cup {None}]
  BY <1>1, ReaderAt
<1>3. m = capture[p + 1]
  BY <1>1
<1>4. Carries(s, s)
  BY DEF Carries
<1>5. PICK n : n = k.frame_index + 1
  OBVIOUS
<1>6. PICK j : j = [k EXCEPT !.frame_index = n]
  OBVIOUS
<1>7. /\ j \in Client /\ j.frame_index = n /\ j.queries = k.queries
      /\ j.statements = k.statements /\ j.portals = k.portals
  <2>1. n \in Nat
    BY <1>2, <1>5
  <2> QED BY <1>2, <1>6, <2>1 DEF Client
<1>8. clients'[c] = j /\ Elsewhere(c) /\ st' = s
  <2>1. clients' = [clients EXCEPT ![c] = [clients[c] EXCEPT !.frame_index = n]]
    BY <1>1, <1>5 DEF ReadUnknown, NumberAfter
  <2>2. clients' = [clients EXCEPT ![c] = j]
    BY <1>1, <1>6, <2>1
  <2>3. st' = st
    BY DEF ReadUnknown
  <2> QED BY <1>1, <1>2, <2>2, <2>3 DEF Elsewhere
<1>9. \/ m.body.kind = "Bind" /\ k.statements[m.body.name] = None
      \/ m.body.kind = "Execute" /\ k.portals[m.body.portal] = None
  BY <1>1 DEF ReadUnknown
<1>10. Source(p + 1) = 0 /\ (m.body.kind = "Bind" => ParseOf(p + 1) = 0)
       /\ m.body.kind \in {"Bind", "Execute"}
  <2>1. CASE m.body.kind = "Bind" /\ k.statements[m.body.name] = None
    <3>1. m.body.name \in Names
      BY <1>2, <1>3, <2>1, MessageType
    <3>2. NameTells(c, m.body.name, None, s, p)
      BY <1>2, <2>1, <3>1 DEF ClientOK
    <3>3. ParseOf(p + 1) = 0
      BY <1>1, <1>2, <1>3, <3>2, KnownStatement
    <3> QED BY <1>3, <2>1, <3>3 DEF Source
  <2>2. CASE m.body.kind = "Execute" /\ k.portals[m.body.portal] = None
    <3>1. m.body.portal \in Names
      BY <1>2, <1>3, <2>2, MessageType
    <3>2. PortalTells(c, m.body.portal, None, s, p)
      BY <1>2, <2>2, <3>1 DEF ClientOK
    <3>3. BindOf(p + 1) = 0
      BY <1>1, <1>2, <1>3, <3>2, KnownPortal
    <3> QED BY <1>3, <2>2, <3>3 DEF Source
  <2> QED BY <1>9, <2>1, <2>2
<1>11. Counts(c, p + 1)
  BY <1>1, <1>3, <1>10 DEF Counts, Counted
<1>12. j.frame_index = Number(c, p + 1)
  BY <1>2, <1>5, <1>7, <1>11, NumberStep
<1>13. QueriesTell(c, j.queries, s.queries, p + 1)
  BY <1>2, <1>4, <1>7, QueriesStay
<1>14. Keeps(c, j.queries, traces_total, p + 1)
  BY <1>2, <1>7, <1>10, KeepsStay
<1>15. ASSUME NEW a \in Names
       PROVE  NameTells(c, a, j.statements[a], s, p + 1)
              /\ PortalTells(c, a, j.portals[a], s, p + 1)
  <2>1. Parses(c, a, p + 1) = Parses(c, a, p) /\ Binds(c, a, p + 1) = Binds(c, a, p)
    BY <1>2, <1>3, <1>10, ParsesStep, BindsStep
  <2>2. NameTells(c, a, k.statements[a], s, p) /\ PortalTells(c, a, k.portals[a], s, p)
    BY <1>2 DEF ClientOK
  <2> QED BY <1>2, <1>4, <1>7, <2>1, <2>2, NamesStay, PortalsStay
<1>16. ClientOK(c, j, s, p + 1)
  BY <1>7, <1>12, <1>13, <1>15 DEF ClientOK
<1> QED BY <1>1, <1>2, <1>3, <1>4, <1>7, <1>8, <1>14, <1>16, OneClient

\* The other messages are passed over.
LEMMA ReadOtherOK ==
  ASSUME ReaderOK, position + 1 <= Len(capture), NEW m, m = capture[position + 1],
         ReadOther(m)
  PROVE  ReadOK
<1>1. PICK p, s : p = position /\ s = st
  OBVIOUS
<1>2. capture \in Seq(Message) /\ p \in Nat /\ p + 1 <= Len(capture) /\ StorageOK(s)
      /\ clients \in [Clients -> Client]
  BY <1>1 DEF ReaderOK
<1>3. clients' = clients /\ st' = s /\ m = capture[p + 1] /\ m.body.kind = "Sync"
  BY <1>1 DEF ReadOther
<1>4. Carries(s, s)
  BY DEF Carries
<1>5. ASSUME NEW c \in Clients
      PROVE  ClientOK(c, clients[c], s, p + 1)
             /\ Keeps(c, clients[c].queries, traces_total, p + 1)
  <2>1. ~Counts(c, p + 1)
    BY <1>3 DEF Counts, Counted
  <2>2. PICK k : k = clients[c]
    OBVIOUS
  <2>3. ClientOK(c, k, s, p) /\ Keeps(c, k.queries, traces_total, p)
    BY <1>1, <2>2 DEF ReaderOK
  <2>4. ClientOK(c, k, s, p + 1) /\ Keeps(c, k.queries, traces_total, p + 1)
    BY <1>2, <1>4, <2>1, <2>3, Unnumbered
  <2> QED BY <2>2, <2>4
<1> QED BY <1>1, <1>2, <1>3, <1>4, <1>5 DEF ReadOK

\* read_capture, whatever the message is.
LEMMA ReadCaptureOK ==
  ASSUME ReaderOK, position + 1 <= Len(capture), ReadCapture
  PROVE  ReadOK
<1>1. PICK m : m = capture[position + 1]
  OBVIOUS
<1>2. ReadText(m) \/ ReadBind(m) \/ ReadExecute(m) \/ ReadUnknown(m) \/ ReadOther(m)
  BY <1>1 DEF ReadCapture
<1> QED BY <1>1, <1>2, ReadTextOK, ReadBindOK, ReadExecuteOK, ReadUnknownOK, ReadOtherOK

----------------------------------------------------------------------------
(* What on_trace leaves.                                                   *)

\* It drops the statements before the one it looks for.
LEMMA RemainingIs ==
  ASSUME NEW c, NEW index \in Nat, NEW list, list = clients[c].queries, list \in Seq(Statement),
         \A i, j \in 1 .. Len(list) : i < j => list[i].index < list[j].index
  PROVE  \/ Remaining(c, index) = <<>> /\ \A i \in 1 .. Len(list) : list[i].index < index
         \/ \E m \in 1 .. Len(list) :
              /\ Remaining(c, index) = SubSeq(list, m, Len(list))
              /\ list[m].index >= index
              /\ \A i \in 1 .. m - 1 : list[i].index < index
<1>1. Len(list) \in Nat /\ DOMAIN list = 1 .. Len(list)
  OBVIOUS
<1>2. PICK S : S = {k \in 1 .. Len(list) : list[k].index >= index}
  OBVIOUS
<1>3. Remaining(c, index) = IF S = {} THEN <<>> ELSE SubSeq(list, Min(S), Len(list))
  BY <1>1, <1>2 DEF Remaining
<1>4. \A i \in 1 .. Len(list) : list[i].index \in Nat
  <2> TAKE i \in 1 .. Len(list)
  <2>1. list[i] \in Statement
    BY Element
  <2> QED BY <2>1 DEF Statement
<1>5. CASE S = {}
  <2>1. \A i \in 1 .. Len(list) : list[i].index < index
    BY <1>2, <1>4, <1>5
  <2> QED BY <1>3, <1>5, <2>1
<1>6. CASE S # {}
  <2>1. S \in SUBSET Nat
    BY <1>1, <1>2
  <2>2. PICK m : m = Min(S)
    OBVIOUS
  <2>3. m \in S /\ \A y \in S : m <= y
    BY <1>6, <2>1, <2>2, First
  <2>4. m \in 1 .. Len(list) /\ list[m].index >= index
    BY <1>2, <2>3
  <2>5. \A i \in 1 .. m - 1 : list[i].index < index
    <3> TAKE i \in 1 .. m - 1
    <3>1. i \in 1 .. Len(list) /\ ~(m <= i)
      BY <1>1, <2>4
    <3>2. i \notin S
      BY <2>3, <3>1
    <3> QED BY <1>2, <1>4, <3>1, <3>2
  <2>6. Remaining(c, index) = SubSeq(list, m, Len(list))
    BY <1>3, <1>6, <2>2
  <2> QED BY <2>4, <2>5, <2>6
<1> QED BY <1>5, <1>6

\* The rest of a list, from its m-th element on.
LEMMA Suffix ==
  ASSUME NEW list \in Seq(Statement), NEW m \in 1 .. Len(list)
  PROVE  LET left == SubSeq(list, m, Len(list))
         IN  /\ left \in Seq(Statement) /\ Len(left) = Len(list) - m + 1
             /\ \A i \in 1 .. Len(left) : left[i] = list[m + i - 1] /\ m + i - 1 \in 1 .. Len(list)
             /\ left # <<>> /\ Head(left) = list[m]
<1> DEFINE left == SubSeq(list, m, Len(list))
<1>1. Len(list) \in Nat /\ m \in Nat /\ m <= Len(list) /\ 1 <= m
  OBVIOUS
<1>2. left \in Seq(Statement) /\ Len(left) = Len(list) - m + 1
  BY <1>1
<1>3. \A i \in 1 .. Len(list) - m + 1 : left[i] = list[m + i - 1]
  BY <1>1
<1>4. \A i \in 1 .. Len(list) - m + 1 : m + i - 1 \in 1 .. Len(list)
  BY <1>1
<1> HIDE DEF left
<1>5. Len(left) # 0 /\ 1 \in 1 .. Len(list) - m + 1 /\ m + 1 - 1 = m
  BY <1>1, <1>2
<1>6. left[1] = list[m]
  BY <1>3, <1>5
<1>7. left # <<>> /\ Head(left) = left[1]
  BY <1>2, <1>5
<1>8. \A i \in 1 .. Len(left) : left[i] = list[m + i - 1] /\ m + i - 1 \in 1 .. Len(list)
  BY <1>2, <1>3, <1>4
<1> QED BY <1>2, <1>6, <1>7, <1>8 DEF left

\* The statement that is looked for is in front, when it is there.
InFront(left, list, index) ==
  (\E i \in 1 .. Len(list) : list[i].index = index) => left # <<>> /\ Head(left).index = index

\* The statements that are left are still told right, and none is missing that a later
\* record may be about.
LEMMA RemainingOK ==
  ASSUME NEW c, NEW file, NEW p \in Nat, NEW t \in Nat, t # 0, NEW F \in Nat,
         clients[c].queries \in Seq(Statement), QueriesTell(c, clients[c].queries, file, p),
         Keeps(c, clients[c].queries, t, p), trace[t].id = c, trace[t].frame_index = F
  PROVE  LET left == Remaining(c, F)
         IN  /\ left \in Seq(Statement) /\ QueriesTell(c, left, file, p) /\ Keeps(c, left, t, p)
             /\ InFront(left, clients[c].queries, F)
<1> SUFFICES ASSUME NEW list, list = clients[c].queries, NEW left, left = Remaining(c, F),
                    list \in Seq(Statement), QueriesTell(c, list, file, p), Keeps(c, list, t, p)
             PROVE  /\ left \in Seq(Statement) /\ QueriesTell(c, left, file, p)
                    /\ Keeps(c, left, t, p)
                    /\ (\E i \in 1 .. Len(list) : list[i].index = F) =>
                         left # <<>> /\ Head(left).index = F
  BY DEF InFront
<1>1. F = trace[t].frame_index
  OBVIOUS
<1>2. F \in Nat /\ left = Remaining(c, F) /\ Len(list) \in Nat
  OBVIOUS
<1>3. \A i, j \in 1 .. Len(list) : i < j => list[i].index < list[j].index
  BY DEF QueriesTell
<1>4. \A i \in 1 .. Len(list) : list[i].index \in Nat
  <2> TAKE i \in 1 .. Len(list)
  <2>1. list[i] \in Statement
    BY Element
  <2> QED BY <2>1 DEF Statement
<1>5. CASE left = <<>> /\ \A i \in 1 .. Len(list) : list[i].index < F
  <2>1. left \in Seq(Statement) /\ QueriesTell(c, left, file, p)
    BY <1>5 DEF QueriesTell
  <2>2. ASSUME NEW q \in 1 .. p, Counts(c, q), Source(q) # 0
        PROVE  \E u \in 1 .. t : trace[u].id = c /\ Number(c, q) < trace[u].frame_index
    <3>1. CASE \E i \in 1 .. Len(list) : list[i].index = Number(c, q)
      <4>1. Number(c, q) < trace[t].frame_index
        BY <1>1, <1>5, <3>1
      <4>2. t \in 1 .. t
        OBVIOUS
      <4> QED BY <4>1, <4>2
    <3> QED BY <2>2, <3>1 DEF Keeps
  <2>3. Keeps(c, left, t, p)
    BY <2>2 DEF Keeps
  <2>4. ~\E i \in 1 .. Len(list) : list[i].index = F
    BY <1>2, <1>4, <1>5
  <2> QED BY <1>1, <1>5, <2>1, <2>3, <2>4
<1>6. ASSUME NEW m \in 1 .. Len(list), left = SubSeq(list, m, Len(list)),
             list[m].index >= F, \A i \in 1 .. m - 1 : list[i].index < F
      PROVE  /\ left \in Seq(Statement) /\ QueriesTell(c, left, file, p) /\ Keeps(c, left, t, p)
             /\ Head(left) \in Statement /\ left # <<>> /\ Head(left) = left[1]
             /\ Len(left) \in Nat /\ Len(left) # 0
             /\ (\E i \in 1 .. Len(list) : list[i].index = F) => Head(left).index = F
  <2>1. /\ left \in Seq(Statement) /\ Len(left) = Len(list) - m + 1
        /\ \A i \in 1 .. Len(left) : left[i] = list[m + i - 1] /\ m + i - 1 \in 1 .. Len(list)
        /\ left # <<>> /\ Head(left) = list[m]
    <3>1. list \in Seq(Statement) /\ m \in 1 .. Len(list)
      OBVIOUS
    <3>2. LET x == SubSeq(list, m, Len(list))
          IN  /\ x \in Seq(Statement) /\ Len(x) = Len(list) - m + 1
              /\ \A i \in 1 .. Len(x) : x[i] = list[m + i - 1] /\ m + i - 1 \in 1 .. Len(list)
              /\ x # <<>> /\ Head(x) = list[m]
      BY <3>1, Suffix, Zenon
    <3> QED BY <1>6, <3>2
  <2>2. m \in Nat /\ Len(left) \in Nat /\ Len(left) # 0
    BY <1>2, <2>1
  <2>3. list[m] \in Statement
    BY Element
  <2>4. QueriesTell(c, left, file, p)
    <3>1. ASSUME NEW i \in 1 .. Len(left)
          PROVE  \E q \in 1 .. p : Tells(c, q, left[i].index, left[i].offset, left[i].ts, file)
      <4>1. PICK x : x = m + i - 1
        OBVIOUS
      <4>2. x \in 1 .. Len(list) /\ left[i] = list[x]
        BY <2>1, <4>1
      <4> QED BY <4>2 DEF QueriesTell
    <3>2. ASSUME NEW i \in 1 .. Len(left), NEW j \in 1 .. Len(left), i < j
          PROVE  left[i].index < left[j].index
      <4>1. PICK x, y : x = m + i - 1 /\ y = m + j - 1
        OBVIOUS
      <4>2. x \in 1 .. Len(list) /\ y \in 1 .. Len(list) /\ left[i] = list[x] /\ left[j] = list[y]
        BY <2>1, <4>1
      <4>3. x < y
        BY <2>2, <3>2, <4>1
      <4> QED BY <1>3, <4>2, <4>3
    <3> QED BY <3>1, <3>2 DEF QueriesTell
  <2>5. ASSUME NEW q \in 1 .. p, Counts(c, q), Source(q) # 0
        PROVE  \/ \E i \in 1 .. Len(left) : left[i].index = Number(c, q)
               \/ \E u \in 1 .. t : trace[u].id = c /\ Number(c, q) < trace[u].frame_index
    <3>1. CASE \E i \in 1 .. Len(list) : list[i].index = Number(c, q)
      <4>1. PICK i \in 1 .. Len(list) : list[i].index = Number(c, q)
        BY <3>1
      <4>2. CASE i < m
        <5>1. i \in 1 .. m - 1
          BY <2>2, <4>2
        <5>2. Number(c, q) < trace[t].frame_index /\ t \in 1 .. t
          BY <1>1, <1>6, <4>1, <5>1
        <5> QED BY <5>2
      <4>3. CASE i >= m
        <5>1. PICK x : x = i - m + 1
          OBVIOUS
        <5>2. x \in 1 .. Len(left) /\ m + x - 1 = i
          BY <1>2, <2>1, <2>2, <4>3, <5>1
        <5>3. left[x] = list[i]
          BY <2>1, <5>2
        <5> QED BY <4>1, <5>2, <5>3
      <4> QED BY <2>2, <4>2, <4>3
    <3> QED BY <2>5, <3>1 DEF Keeps
  <2>6. Keeps(c, left, t, p)
    BY <2>5 DEF Keeps
  <2>7. ASSUME NEW i \in 1 .. Len(list), list[i].index = F PROVE list[m].index = F
    <3>1. i >= m
      <4>1. CASE i < m
        <5>1. i \in 1 .. m - 1
          BY <2>2, <4>1
        <5>2. list[i].index < F
          BY <1>6, <5>1
        <5> QED BY <1>2, <2>7, <5>2
      <4> QED BY <2>2, <4>1
    <3>2. CASE i = m
      BY <2>7, <3>2
    <3>3. CASE i > m
      <4>1. list[m].index < list[i].index
        BY <1>3, <3>3
      <4> QED BY <1>2, <1>4, <1>6, <2>7, <4>1
    <3> QED BY <2>2, <3>1, <3>2, <3>3
  <2>8. Head(left) = left[1]
    BY <2>1, <2>2
  <2> QED BY <2>1, <2>2, <2>3, <2>4, <2>6, <2>7, <2>8
<1>7. \/ left = <<>> /\ \A i \in 1 .. Len(list) : list[i].index < F
      \/ \E m \in 1 .. Len(list) :
           /\ left = SubSeq(list, m, Len(list)) /\ list[m].index >= F
           /\ \A i \in 1 .. m - 1 : list[i].index < F
  BY <1>2, <1>3, RemainingIs
<1>8. CASE left # <<>>
  <2>1. PICK m \in 1 .. Len(list) :
           /\ left = SubSeq(list, m, Len(list)) /\ list[m].index >= F
           /\ \A i \in 1 .. m - 1 : list[i].index < F
    BY <1>7, <1>8
  <2> QED BY <1>1, <1>6, <2>1
<1>9. CASE left = <<>>
  <2>1. CASE \A i \in 1 .. Len(list) : list[i].index < F
    BY <1>5, <1>9, <2>1
  <2>2. CASE ~\A i \in 1 .. Len(list) : list[i].index < F
    BY <1>6, <1>7, <1>9, <2>2
  <2> QED BY <2>1, <2>2
<1> QED BY <1>8, <1>9

----------------------------------------------------------------------------
(* The inductive invariant, phase by phase.                                *)

\* The records of the trace and of a backend, and a client the reader has not met.
Record == [id : Clients, frame_index : Nat \ {0}, duration : Durations, cause : Nat]
Cursor == [position : Nat, index : Nat, cause : Nat]
FreshClient == [frame_index |-> 0, queries |-> <<>>,
                statements |-> [n \in Names |-> None], portals |-> [n \in Names |-> None]]

\* The join has not begun.
Fresh ==
  /\ traces_total = 0 /\ position = 0
  /\ clients = [c \in Clients |-> FreshClient]
  /\ st = NewStorage /\ rows = <<>> /\ chunks = <<>>

\* The number of a statement is that of the message that caused it.
Caused(c, index, cause) ==
  cause \in 1 .. Len(capture) /\ Counts(c, cause) /\ Number(c, cause) = index

\* A backend is at a message of the capture, with the number it has there.
CursorOK(c, b) ==
  /\ b \in Cursor /\ b.position <= Len(capture) /\ b.cause <= Len(capture)
  /\ c \notin Restored => /\ b.index = Number(c, b.position)
                          /\ b.index # 0 => Caused(c, b.index, b.cause)

\* A record names the number of the statement it is of.
RecordOK(r) == r.id \notin Restored => Caused(r.id, r.frame_index, r.cause)

\* A backend counts up, so that its records are in the order of their statements.
TraceOK ==
  /\ trace \in Seq(Record)
  /\ \A t \in 1 .. Len(trace) : RecordOK(trace[t])
  /\ \A t, u \in 1 .. Len(trace) :
       t <= u /\ trace[t].id = trace[u].id => trace[t].frame_index <= trace[u].frame_index

\* Phase one.  The hook writes the capture, and nothing has been replayed.
Recording ==
  /\ pc = "record" /\ capture \in Seq(Message)
  /\ trace = <<>> /\ backend = NoBackend /\ Fresh

\* Phase two.  The backends write the trace of a capture that is complete.
Replaying ==
  /\ pc = "replay" /\ capture \in Seq(Message) /\ TraceOK /\ Fresh
  /\ backend \in [Clients -> Cursor]
  /\ \A c \in Clients : CursorOK(c, backend[c])
  /\ \A t \in 1 .. Len(trace) : trace[t].frame_index <= backend[trace[t].id].index

\* A row tells the statement that has the number of its record.
RowOK(row, s, p) ==
  /\ row \in Row /\ row.record \in 1 .. Len(trace) /\ row.id = trace[row.record].id
  /\ \E q \in 1 .. p : Tells(row.id, q, trace[row.record].frame_index,
                             row.query_offset, row.ts, s.queries)

\* A record that has to become a row.
Missed(t) == trace[t].id \notin Restored /\ Source(trace[t].cause) # 0

\* Rows are in the order of their records and right, and no record that has been
\* gone through has been missed.
RowsOK(list, s, p, finished) ==
  /\ \A i \in 1 .. Len(list) : RowOK(list[i], s, p) /\ list[i].record <= finished
  /\ \A i, j \in 1 .. Len(list) : i < j => list[i].record < list[j].record
  /\ \A t \in 1 .. finished : Missed(t) => \E i \in 1 .. Len(list) : list[i].record = t

\* The records the analyzer is done with.
Finished == IF pc \in {"read", "match"} THEN traces_total - 1 ELSE traces_total

\* Phase three.  The analyzer reads both, one record of the trace after the other, and
\* the capture as far as the records ask for.
Joining ==
  /\ pc \in {"next", "read", "match", "done"} /\ backend = NoBackend
  /\ TraceOK /\ ReaderOK /\ position <= Len(capture) /\ traces_total \in 0 .. Len(trace)
  /\ RowsOK(rows, st, position, Finished) /\ ChunksOK(rows, chunks)
  /\ pc \in {"read", "match"} => traces_total # 0
  /\ pc = "match" => Reached(Current)
  /\ pc = "read" => ~Reached(Current)
  /\ pc = "done" => traces_total = Len(trace)

\* The inductive invariant.
IInv == Recording \/ Replaying \/ Joining

\* What is said of the messages stays true while the capture stays as it is.
LEMMA CaptureStays ==
  ASSUME capture' = capture
  PROVE  /\ \A c, p : (Number(c, p)' = Number(c, p)) /\ (Counts(c, p)' <=> Counts(c, p))
         /\ \A p : (Source(p)' = Source(p)) /\ (ParseOf(p)' = ParseOf(p))
         /\ \A c, i, q : Caused(c, i, q)' <=> Caused(c, i, q)
         /\ \A c, b : CursorOK(c, b)' <=> CursorOK(c, b)
         /\ \A r : RecordOK(r)' <=> RecordOK(r)
<1>1. \A c, p : (Number(c, p)' = Number(c, p)) /\ (Counts(c, p)' <=> Counts(c, p))
  BY DEF Number, CountedOf, Counts
<1>2. \A p : ParseOf(p)' = ParseOf(p)
  BY DEF ParseOf, Before
<1>3. \A p : BindOf(p)' = BindOf(p)
  BY <1>2 DEF BindOf, Before
<1>4. \A p : Source(p)' = Source(p)
  BY <1>2, <1>3 DEF Source
<1>5. \A c, i, q : Caused(c, i, q)' <=> Caused(c, i, q)
  BY <1>1 DEF Caused
<1>6. \A c, b : CursorOK(c, b)' <=> CursorOK(c, b)
  BY <1>1, <1>5 DEF CursorOK
<1>7. \A r : RecordOK(r)' <=> RecordOK(r)
  BY <1>5 DEF RecordOK
<1> QED BY <1>1, <1>2, <1>4, <1>5, <1>6, <1>7

\* While the capture stays the same, so does what its messages say of the clients.
LEMMA TellsKept ==
  ASSUME capture' = capture
  PROVE  /\ \A c, q, i, o, ts, f : Tells(c, q, i, o, ts, f)' <=> Tells(c, q, i, o, ts, f)
         /\ \A c, n, o, s, p : NameTells(c, n, o, s, p)' <=> NameTells(c, n, o, s, p)
         /\ \A c, n, o, s, p : PortalTells(c, n, o, s, p)' <=> PortalTells(c, n, o, s, p)
         /\ \A c, k, s, p : ClientOK(c, k, s, p)' <=> ClientOK(c, k, s, p)
<1>1. /\ \A c, p : (Number(c, p)' = Number(c, p)) /\ (Counts(c, p)' <=> Counts(c, p))
      /\ \A p : (Source(p)' = Source(p)) /\ (ParseOf(p)' = ParseOf(p))
  BY CaptureStays
<1>2. \A q : TextOf(q)' = TextOf(q)
  BY <1>1 DEF TextOf
<1>3. \A c, q, i, o, ts, f : Tells(c, q, i, o, ts, f)' <=> Tells(c, q, i, o, ts, f)
  BY <1>1, <1>2 DEF Tells
<1>4. \A c, n, p : (Parses(c, n, p)' = Parses(c, n, p)) /\ (Binds(c, n, p)' = Binds(c, n, p))
  BY <1>1 DEF Parses, Binds
<1>5. \A c, n, o, s, p : NameTells(c, n, o, s, p)' <=> NameTells(c, n, o, s, p)
  BY <1>4 DEF NameTells
<1>6. \A c, n, o, s, p : PortalTells(c, n, o, s, p)' <=> PortalTells(c, n, o, s, p)
  BY <1>1, <1>4 DEF PortalTells
<1>7. \A c, list, f, p : QueriesTell(c, list, f, p)' <=> QueriesTell(c, list, f, p)
  BY <1>3 DEF QueriesTell
<1>8. \A c, k, s, p : ClientOK(c, k, s, p)' <=> ClientOK(c, k, s, p)
  BY <1>1, <1>5, <1>6, <1>7 DEF ClientOK
<1> QED BY <1>3, <1>5, <1>6, <1>8

\* While both files stay the same, so does what they say of the rows.
LEMMA TraceStays ==
  ASSUME capture' = capture, trace' = trace
  PROVE  /\ TraceOK' <=> TraceOK
         /\ \A c, list, t, p : Keeps(c, list, t, p)' <=> Keeps(c, list, t, p)
         /\ \A list, s, p, f : RowsOK(list, s, p, f)' <=> RowsOK(list, s, p, f)
<1>1. /\ \A c, p : (Number(c, p)' = Number(c, p)) /\ (Counts(c, p)' <=> Counts(c, p))
      /\ \A p : Source(p)' = Source(p)
      /\ \A r : RecordOK(r)' <=> RecordOK(r)
      /\ \A c, q, i, o, ts, f : Tells(c, q, i, o, ts, f)' <=> Tells(c, q, i, o, ts, f)
  BY CaptureStays, TellsKept
<1>2. TraceOK' <=> TraceOK
  BY <1>1 DEF TraceOK
<1>3. \A c, list, t, p : Keeps(c, list, t, p)' <=> Keeps(c, list, t, p)
  BY <1>1 DEF Keeps
<1>4. \A r, s, p : RowOK(r, s, p)' <=> RowOK(r, s, p)
  BY <1>1 DEF RowOK
<1>5. \A t : Missed(t)' <=> Missed(t)
  BY <1>1 DEF Missed
<1>6. \A list, s, p, f : RowsOK(list, s, p, f)' <=> RowsOK(list, s, p, f)
  BY <1>4, <1>5 DEF RowsOK
<1> QED BY <1>2, <1>3, <1>6

----------------------------------------------------------------------------
(* The recording and the replay.                                           *)

\* Before the first message nothing is numbered.
LEMMA NoneCounted ==
  ASSUME NEW c
  PROVE  Number(c, 0) = 0 /\ (Number(c, 0) = 0)'
<1>1. CountedOf(c, 0) = {} /\ (CountedOf(c, 0) = {})'
  BY DEF CountedOf
<1>2. Cardinality({}) = 0
  BY FS_EmptySet
<1> QED BY <1>1, <1>2 DEF Number

\* The hook writes a message.
LEMMA CaptureStep ==
  ASSUME Recording, NEW c \in Clients, Capture(c)
  PROVE  Recording'
<1>1. PICK body \in Body, ts \in 0 .. MaxTs :
         capture' = Append(capture, [id |-> c, ts |-> ts, body |-> body])
  BY DEF Capture
<1>2. [id |-> c, ts |-> ts, body |-> body] \in Message
  BY DEF Message
<1>3. capture' \in Seq(Message)
  BY <1>1, <1>2 DEF Recording
<1>4. pc' = "record" /\ UNCHANGED <<trace, backend, traces_total, position, clients, writer>>
  BY DEF Capture
<1> QED BY <1>3, <1>4 DEF Recording, Fresh, writer

\* The fields of a backend.
LEMMA CursorType ==
  ASSUME NEW p \in Nat, NEW i \in Nat, NEW q \in Nat
  PROVE  [position |-> p, index |-> i, cause |-> q] \in Cursor
BY DEF Cursor

\* The capture ends and its replay begins.
LEMMA EndCaptureStep ==
  ASSUME Recording, EndCapture
  PROVE  Replaying'
<1>1. /\ pc' = "replay" /\ capture' = capture /\ trace' = <<>> /\ backend' = NoBackend
      /\ UNCHANGED <<traces_total, position, clients, st, rows, chunks>>
  BY DEF EndCapture, Recording, files, writer
<1>2. capture' \in Seq(Message) /\ Fresh'
  BY <1>1 DEF Recording, Fresh
<1>3. TraceOK'
  <2>1. trace' \in Seq(Record) /\ Len(trace') = 0
    BY <1>1
  <2> QED BY <2>1 DEF TraceOK
<1>4. NoBackend \in [Clients -> Cursor]
  BY CursorType DEF NoBackend
<1>5. ASSUME NEW c \in Clients PROVE CursorOK(c, backend[c])'
  <2>1. PICK b : b = [position |-> 0, index |-> 0, cause |-> 0]
    OBVIOUS
  <2>2. backend'[c] = b
    BY <1>1, <2>1 DEF NoBackend
  <2>3. b \in Cursor /\ b.position = 0 /\ b.index = 0 /\ b.cause = 0
    BY <2>1, CursorType
  <2>4. 0 <= Len(capture)
    BY DEF Recording
  <2>5. CursorOK(c, b)
    BY <2>3, <2>4, NoneCounted DEF CursorOK
  <2>6. CursorOK(c, b)'
    BY <1>1, <2>5, CaptureStays
  <2> QED BY <2>2, <2>6 DEF CursorOK
<1>6. \A t \in 1 .. Len(trace') : trace'[t].frame_index <= backend'[trace'[t].id].index
  <2>1. Len(trace') = 0
    BY <1>1
  <2> QED BY <2>1
<1> QED BY <1>1, <1>2, <1>3, <1>4, <1>5, <1>6 DEF Replaying

\* The backends go on, the trace stays.
LEMMA Backends ==
  ASSUME Replaying, NEW c \in Clients, NEW b, CursorOK(c, b), b.index >= backend[c].index,
         backend' = [backend EXCEPT ![c] = b],
         UNCHANGED <<files, pc, traces_total, position, clients, writer>>
  PROVE  Replaying'
<1>1. /\ pc' = "replay" /\ capture' = capture /\ trace' = trace
      /\ UNCHANGED <<traces_total, position, clients, st, rows, chunks>>
  BY DEF Replaying, files, writer
<1>2. capture' \in Seq(Message) /\ Fresh'
  BY <1>1 DEF Replaying, Fresh
<1>3. TraceOK'
  BY <1>1, TraceStays DEF Replaying
<1>4. b \in Cursor
  BY DEF CursorOK
<1>5. backend \in [Clients -> Cursor]
  BY DEF Replaying
<1>6. backend' \in [Clients -> Cursor] /\ backend'[c] = b
      /\ \A d \in Clients : d # c => backend'[d] = backend[d]
  BY <1>4, <1>5
<1>7. ASSUME NEW d \in Clients PROVE CursorOK(d, backend[d])'
  <2>1. PICK e : e = backend'[d]
    OBVIOUS
  <2>2. CursorOK(d, e)
    BY <1>6, <2>1 DEF Replaying
  <2>3. CursorOK(d, e)'
    BY <1>1, <2>2, CaptureStays
  <2> QED BY <2>1, <2>3 DEF CursorOK
<1>8. ASSUME NEW t \in 1 .. Len(trace)
      PROVE  trace[t].frame_index <= backend'[trace[t].id].index
  <2>1. trace[t] \in Record
    BY Element DEF Replaying, TraceOK
  <2>2. PICK d \in Clients : d = trace[t].id
    BY <2>1 DEF Record
  <2>3. trace[t].frame_index \in Nat /\ trace[t].frame_index <= backend[d].index
    BY <2>1, <2>2 DEF Record, Replaying
  <2>4. backend[c].index \in Nat /\ b.index \in Nat
    BY <1>4, <1>5 DEF Cursor
  <2>5. trace[t].frame_index <= backend'[d].index
    BY <1>6, <2>3, <2>4
  <2> QED BY <2>2, <2>5
<1> QED BY <1>1, <1>2, <1>3, <1>6, <1>7, <1>8 DEF Replaying

\* A backend restores a session statement.
LEMMA RestoreStep ==
  ASSUME Replaying, NEW c \in Clients, Restore(c)
  PROVE  Replaying'
<1>1. PICK old : old = backend[c]
  OBVIOUS
<1>2. old \in Cursor /\ CursorOK(c, old) /\ c \in Restored /\ old.index = 0
  BY <1>1 DEF Restore, Replaying
<1>3. PICK b : b = [old EXCEPT !.index = 1]
  OBVIOUS
<1>4. backend' = [backend EXCEPT ![c] = b]
  BY <1>1, <1>3 DEF Restore
<1>5. b \in Cursor /\ b.position = old.position /\ b.cause = old.cause /\ b.index = 1
  BY <1>2, <1>3 DEF Cursor
<1>6. CursorOK(c, b)
  BY <1>2, <1>5 DEF CursorOK
<1>7. UNCHANGED <<files, pc, traces_total, position, clients, writer>>
  BY DEF Restore
<1>8. b.index >= backend[c].index
  BY <1>1, <1>2, <1>5
<1> QED BY <1>4, <1>6, <1>7, <1>8, Backends

\* A backend executes a message.
LEMMA ExecuteStep ==
  ASSUME Replaying, NEW c \in Clients, Execute(c)
  PROVE  Replaying'
<1>1. PICK old : old = backend[c]
  OBVIOUS
<1>2. capture \in Seq(Message) /\ Len(capture) \in Nat /\ old \in Cursor /\ CursorOK(c, old)
  BY <1>1 DEF Replaying
<1>3. /\ old.position \in Nat /\ old.index \in Nat /\ old.cause \in Nat
      /\ old.position <= Len(capture) /\ old.cause <= Len(capture)
  BY <1>2 DEF Cursor, CursorOK
<1>4. PICK p \in 1 .. Len(capture) :
        /\ capture[p].id = c /\ p > old.position
        /\ \A q \in 1 .. (p - 1) : capture[q].id = c => q <= old.position
        /\ backend' = [backend EXCEPT ![c] =
             [position |-> p,
              index |-> IF Counted(capture[p]) THEN old.index + 1 ELSE old.index,
              cause |-> IF Counted(capture[p]) THEN p ELSE old.cause]]
  BY <1>1 DEF Execute
<1>5. PICK i, q : /\ i = IF Counted(capture[p]) THEN old.index + 1 ELSE old.index
                  /\ q = IF Counted(capture[p]) THEN p ELSE old.cause
  OBVIOUS
<1>6. PICK b : b = [position |-> p, index |-> i, cause |-> q]
  OBVIOUS
<1>7. backend' = [backend EXCEPT ![c] = b]
  BY <1>4, <1>5, <1>6
<1>8. p \in Nat /\ i \in Nat /\ q \in Nat /\ i >= old.index /\ q <= Len(capture)
  BY <1>2, <1>3, <1>5
<1>9. b \in Cursor /\ b.position = p /\ b.index = i /\ b.cause = q
  BY <1>6, <1>8, CursorType
<1>10. Number(c, p) = IF Counts(c, p) THEN Number(c, old.position) + 1
                      ELSE Number(c, old.position)
  <2>1. \A r \in old.position + 1 .. p - 1 : capture[r].id # c
    BY <1>3, <1>4, <1>8
  <2>2. old.position \in Nat /\ p \in Nat /\ old.position < p
    BY <1>3, <1>4, <1>8
  <2> QED BY <2>1, <2>2, NumberNext
<1>11. Counts(c, p) <=> Counted(capture[p])
  BY <1>4 DEF Counts
<1>12. ASSUME c \notin Restored PROVE i = Number(c, p) /\ (i # 0 => Caused(c, i, q))
  <2>1. old.index = Number(c, old.position)
        /\ (old.index # 0 => Caused(c, old.index, old.cause))
    BY <1>2, <1>12 DEF CursorOK
  <2>2. i = Number(c, p)
    BY <1>5, <1>10, <1>11, <2>1
  <2>3. CASE Counted(capture[p])
    BY <1>5, <1>11, <2>2, <2>3 DEF Caused
  <2>4. CASE ~Counted(capture[p])
    BY <1>5, <2>1, <2>2, <2>4
  <2> QED BY <2>2, <2>3, <2>4
<1>13. CursorOK(c, b)
  BY <1>8, <1>9, <1>12, <1>4 DEF CursorOK
<1>14. UNCHANGED <<files, pc, traces_total, position, clients, writer>>
  BY DEF Execute
<1> QED BY <1>1, <1>7, <1>8, <1>9, <1>13, <1>14, Backends

\* A backend writes the record of its statement.
LEMMA TraceStep ==
  ASSUME Replaying, NEW c \in Clients, Trace(c)
  PROVE  Replaying'
<1>1. PICK b : b = backend[c]
  OBVIOUS
<1>2. PICK d \in Durations :
        trace' = Append(trace, [id |-> c, frame_index |-> b.index,
                                duration |-> d, cause |-> b.cause])
  BY <1>1 DEF Trace
<1>3. PICK r : r = [id |-> c, frame_index |-> b.index, duration |-> d, cause |-> b.cause]
  OBVIOUS
<1>4. /\ b \in Cursor /\ CursorOK(c, b) /\ b.index > 0 /\ TraceOK
      /\ backend \in [Clients -> Cursor]
  BY <1>1 DEF Trace, Replaying
<1>5. /\ r.id = c /\ r.frame_index = b.index /\ r.cause = b.cause /\ r \in Record
  BY <1>3, <1>4 DEF Record, Cursor
<1>6. RecordOK(r)
  BY <1>4, <1>5 DEF RecordOK, CursorOK, Cursor
<1>7. trace \in Seq(Record) /\ Len(trace) \in Nat
  BY <1>4 DEF TraceOK
<1>8. PICK more : more = Append(trace, r)
  OBVIOUS
<1>9. /\ more \in Seq(Record) /\ Len(more) = Len(trace) + 1 /\ more[Len(trace) + 1] = r
      /\ \A t \in 1 .. Len(trace) : more[t] = trace[t]
  BY <1>5, <1>7, <1>8
<1>10. trace' = more
  BY <1>2, <1>3, <1>8
<1>11. /\ pc' = "replay" /\ capture' = capture /\ backend' = backend
       /\ UNCHANGED <<traces_total, position, clients, st, rows, chunks>>
  BY DEF Trace, Replaying, writer
<1>12. \A t \in 1 .. Len(more) : t \in 1 .. Len(trace) \/ t = Len(trace) + 1
  BY <1>7, <1>9
<1>13. \A t \in 1 .. Len(more) : RecordOK(more[t])
  <2> TAKE t \in 1 .. Len(more)
  <2>1. CASE t \in 1 .. Len(trace)
    BY <1>4, <1>9, <2>1 DEF TraceOK
  <2>2. CASE t = Len(trace) + 1
    BY <1>6, <1>9, <2>2
  <2> QED BY <1>12, <2>1, <2>2
<1>14. \A t \in 1 .. Len(more) : more[t].frame_index <= backend[more[t].id].index
  <2> TAKE t \in 1 .. Len(more)
  <2>1. CASE t \in 1 .. Len(trace)
    BY <1>9, <2>1 DEF Replaying
  <2>2. CASE t = Len(trace) + 1
    BY <1>1, <1>4, <1>5, <1>9, <2>2 DEF Cursor
  <2> QED BY <1>12, <2>1, <2>2
<1>15. ASSUME NEW t \in 1 .. Len(more), NEW u \in 1 .. Len(more), t <= u, more[t].id = more[u].id
       PROVE  more[t].frame_index <= more[u].frame_index
  <2>1. CASE u \in 1 .. Len(trace)
    <3>1. t \in 1 .. Len(trace)
      BY <1>7, <1>9, <1>15, <2>1
    <3> QED BY <1>4, <1>9, <1>15, <2>1, <3>1 DEF TraceOK
  <2>2. CASE u = Len(trace) + 1
    <3>1. more[u].frame_index = backend[c].index /\ more[u].id = c
      BY <1>1, <1>5, <1>9, <2>2
    <3>2. more[t].frame_index <= backend[c].index
      BY <1>14, <1>15, <3>1
    <3> QED BY <3>1, <3>2
  <2> QED BY <1>12, <2>1, <2>2
<1>16. TraceOK'
  <2>1. trace' \in Seq(Record)
    BY <1>9, <1>10
  <2>2. \A t \in 1 .. Len(trace') : RecordOK(trace[t])'
    <3> SUFFICES ASSUME NEW t \in 1 .. Len(trace') PROVE RecordOK(trace[t])'
      OBVIOUS
    <3>1. PICK x : x = trace'[t]
      OBVIOUS
    <3>2. RecordOK(x)
      BY <1>10, <1>13, <3>1
    <3>3. RecordOK(x)'
      BY <1>11, <3>2, CaptureStays
    <3> QED BY <3>1, <3>3 DEF RecordOK
  <2>3. \A t, u \in 1 .. Len(trace') :
          t <= u /\ trace'[t].id = trace'[u].id => trace'[t].frame_index <= trace'[u].frame_index
    BY <1>10, <1>15
  <2> QED BY <2>1, <2>2, <2>3 DEF TraceOK
<1>17. \A e \in Clients : CursorOK(e, backend[e])'
  <2> SUFFICES ASSUME NEW e \in Clients PROVE CursorOK(e, backend[e])'
    OBVIOUS
  <2>1. PICK x : x = backend[e]
    OBVIOUS
  <2>2. CursorOK(e, x)
    BY <2>1 DEF Replaying
  <2>3. CursorOK(e, x)'
    BY <1>11, <2>2, CaptureStays
  <2> QED BY <1>11, <2>1, <2>3 DEF CursorOK
<1>18. capture' \in Seq(Message) /\ Fresh'
  BY <1>11 DEF Replaying, Fresh
<1>19. \A t \in 1 .. Len(trace') : trace'[t].frame_index <= backend'[trace'[t].id].index
  BY <1>10, <1>11, <1>14
<1>20. backend' \in [Clients -> Cursor]
  BY <1>4, <1>11
<1> QED BY <1>11, <1>16, <1>17, <1>18, <1>19, <1>20 DEF Replaying

----------------------------------------------------------------------------
(* The join.                                                               *)

\* Before it nothing is known and nothing is missing.
LEMMA NewReader ==
  ASSUME Fresh, capture \in Seq(Message)
  PROVE  ReaderOK
<1>1. position = 0 /\ traces_total = 0 /\ clients = [c \in Clients |-> FreshClient] /\ st = NewStorage
  BY DEF Fresh
<1>2. StorageOK(NewStorage) /\ NewStorage.queries = <<>>
  BY DEF StorageOK, NewStorage
<1>3. PICK k : k = FreshClient
  OBVIOUS
<1>4. /\ k.frame_index = 0 /\ k.queries = <<>>
      /\ k.statements = [n \in Names |-> None] /\ k.portals = [n \in Names |-> None]
      /\ k \in Client
  BY <1>3 DEF FreshClient, Client, Offset
<1>5. \A c, n : Parses(c, n, 0) = {} /\ Binds(c, n, 0) = {}
  BY DEF Parses, Binds
<1>6. \A c, n : LastOf(Parses(c, n, 0)) = 0 /\ LastOf(Binds(c, n, 0)) = 0
  BY <1>5 DEF LastOf
<1>7. ASSUME NEW c \in Clients PROVE ClientOK(c, k, NewStorage, 0)
  <2>1. \A n \in Names : NameTells(c, n, k.statements[n], NewStorage, 0)
                         /\ PortalTells(c, n, k.portals[n], NewStorage, 0)
    BY <1>4, <1>6 DEF NameTells, PortalTells
  <2>2. QueriesTell(c, k.queries, NewStorage.queries, 0)
    BY <1>4 DEF QueriesTell
  <2> QED BY <1>4, <2>1, <2>2, NoneCounted DEF ClientOK
<1>8. ASSUME NEW c \in Clients PROVE Keeps(c, k.queries, 0, 0)
  BY DEF Keeps
<1>9. clients \in [Clients -> Client] /\ \A c \in Clients : clients[c] = k
  BY <1>1, <1>3, <1>4
<1> QED BY <1>1, <1>2, <1>7, <1>8, <1>9 DEF ReaderOK

\* The replay ends and the analyzer begins.
LEMMA EndReplayStep ==
  ASSUME Replaying, EndReplay
  PROVE  Joining'
<1>1. /\ pc' = "next" /\ capture' = capture /\ trace' = trace /\ backend' = NoBackend
      /\ UNCHANGED <<traces_total, position, clients, st, rows, chunks>>
  BY DEF EndReplay, Replaying, files, writer
<1>2. TraceOK' /\ capture' \in Seq(Message)
  BY <1>1, TraceStays DEF Replaying
<1>3. ReaderOK
  BY NewReader DEF Replaying
<1>4. ReaderOK'
  <2>1. \A c \in Clients : ClientOK(c, clients[c], st, position)'
    <3> SUFFICES ASSUME NEW c \in Clients PROVE ClientOK(c, clients[c], st, position)'
      OBVIOUS
    <3>1. ClientOK(c, clients[c], st, position)
      BY <1>3 DEF ReaderOK
    <3>2. (clients[c])' = clients[c] /\ st' = st /\ position' = position
      BY <1>1
    <3> QED BY <1>1, <3>1, <3>2, TellsKept
  <2>2. \A c \in Clients : Keeps(c, clients[c].queries, traces_total, position)'
    <3> SUFFICES ASSUME NEW c \in Clients
                 PROVE Keeps(c, clients[c].queries, traces_total, position)'
      OBVIOUS
    <3>1. Keeps(c, clients[c].queries, traces_total, position)
      BY <1>3 DEF ReaderOK
    <3> QED BY <1>1, <3>1, TraceStays
  <2>3. StorageOK(st') /\ position' \in Nat /\ clients' \in [Clients -> Client]
    BY <1>1, <1>3 DEF ReaderOK
  <2> QED BY <1>2, <2>1, <2>2, <2>3 DEF ReaderOK
<1>5. position' = 0 /\ traces_total' = 0 /\ rows' = <<>> /\ chunks' = <<>>
  BY <1>1 DEF Replaying, Fresh
<1>6. Len(capture') \in Nat /\ Len(trace') \in Nat
  BY <1>2 DEF TraceOK
<1>7. RowsOK(<<>>, st, 0, 0)'
  BY DEF RowsOK
<1>8. RowsOK(rows, st, position, Finished)'
  <2>1. Finished' = 0
    BY <1>1, <1>5 DEF Finished
  <2> QED BY <1>5, <1>7, <2>1 DEF RowsOK
<1>9. ChunksOK(<<>>, <<>>)
  BY DEF ChunksOK
<1>10. ChunksOK(rows, chunks)'
  BY <1>5, <1>9 DEF ChunksOK, Begins, Peaks, Among, RowChunk
<1> QED BY <1>1, <1>2, <1>4, <1>5, <1>6, <1>8, <1>10 DEF Joining

\* What has to be shown of the next state, the files as they are.
LEMMA ReaderNext ==
  ASSUME capture' = capture, trace' = trace, capture \in Seq(Message),
         position' \in Nat, StorageOK(st'), clients' \in [Clients -> Client],
         \A c \in Clients : ClientOK(c, clients'[c], st', position')
                            /\ Keeps(c, clients'[c].queries, traces_total', position')
  PROVE  ReaderOK'
<1>1. \A c \in Clients : ClientOK(c, clients[c], st, position)'
  <2> SUFFICES ASSUME NEW c \in Clients PROVE ClientOK(c, clients[c], st, position)'
    OBVIOUS
  <2>1. ClientOK(c, clients'[c], st', position')
    OBVIOUS
  <2> QED BY <2>1, TellsKept
<1>2. \A c \in Clients : Keeps(c, clients[c].queries, traces_total, position)'
  <2> SUFFICES ASSUME NEW c \in Clients
               PROVE  Keeps(c, clients[c].queries, traces_total, position)'
    OBVIOUS
  <2>1. Keeps(c, clients'[c].queries, traces_total', position')
    OBVIOUS
  <2> QED BY <2>1, TraceStays
<1> QED BY <1>1, <1>2 DEF ReaderOK

\* What a step of the analyzer has to leave behind: the files are only read.
LEMMA JoinNext ==
  ASSUME Joining, capture' = capture, trace' = trace, backend' = backend, ReaderOK',
         pc' \in {"next", "read", "match", "done"},
         position' <= Len(capture), traces_total' \in 0 .. Len(trace),
         RowsOK(rows', st', position', Finished'), ChunksOK(rows', chunks'),
         pc' \in {"read", "match"} => traces_total' # 0,
         (pc = "match" => Reached(Current))', (pc = "read" => ~Reached(Current))',
         pc' = "done" => traces_total' = Len(trace)
  PROVE  Joining'
<1>1. TraceOK'
  BY TraceStays DEF Joining
<1>2. RowsOK(rows, st, position, Finished)'
  BY TraceStays
<1>3. ChunksOK(rows, chunks)'
  BY DEF ChunksOK, Begins, Peaks, Among, RowChunk
<1> QED BY <1>1, <1>2, <1>3 DEF Joining

\* A record more is looked at: what was dropped may still be dropped.
LEMMA KeepsMore ==
  ASSUME NEW c, NEW list, NEW t \in Nat, NEW u \in Nat, NEW p, Keeps(c, list, t, p), t <= u
  PROVE  Keeps(c, list, u, p)
<1>1. 1 .. t \subseteq 1 .. u
  OBVIOUS
<1> QED BY <1>1 DEF Keeps

\* The next record is taken.
LEMMA NextTraceStep ==
  ASSUME Joining, NextTrace
  PROVE  Joining'
<1>1. /\ pc = "next" /\ traces_total' = traces_total + 1 /\ pc' \in {"match", "read"}
      /\ pc' = (IF Reached(trace[traces_total + 1]) THEN "match" ELSE "read")
      /\ capture' = capture /\ trace' = trace /\ backend' = backend
      /\ UNCHANGED <<position, clients, st, rows, chunks>>
  BY DEF NextTrace, files, writer
<1>2. ReaderOK /\ position \in Nat /\ Len(trace) \in Nat /\ traces_total \in Nat
      /\ traces_total + 1 <= Len(trace) /\ traces_total' \in Nat /\ traces_total <= traces_total'
  BY <1>1 DEF NextTrace, Joining, ReaderOK, TraceOK
<1>3. \A c \in Clients : ClientOK(c, clients'[c], st', position')
                         /\ Keeps(c, clients'[c].queries, traces_total', position')
  <2> TAKE c \in Clients
  <2>1. ClientOK(c, clients[c], st, position) /\ Keeps(c, clients[c].queries, traces_total, position)
    BY <1>2 DEF ReaderOK
  <2>2. Keeps(c, clients[c].queries, traces_total', position)
    BY <1>2, <2>1, KeepsMore
  <2> QED BY <1>1, <2>1, <2>2
<1>4. ReaderOK'
  <2>1. capture \in Seq(Message) /\ position' \in Nat /\ StorageOK(st') /\ clients' \in [Clients -> Client]
    BY <1>1, <1>2 DEF ReaderOK
  <2> QED BY <1>1, <1>3, <2>1, ReaderNext
<1>5. Finished = traces_total /\ Finished' = traces_total
  BY <1>1, <1>2 DEF Finished
<1>6. RowsOK(rows', st', position', Finished')
  BY <1>1, <1>5 DEF Joining
<1>7. ChunksOK(rows', chunks') /\ position' <= Len(capture) /\ traces_total' \in 0 .. Len(trace)
      /\ traces_total' # 0
  BY <1>1, <1>2 DEF Joining
<1>8. Current' = trace[traces_total + 1] /\ (Reached(Current)' <=> Reached(trace[traces_total + 1]))
  BY <1>1 DEF Current, Reached
<1>9. (pc = "match" => Reached(Current))' /\ (pc = "read" => ~Reached(Current))'
  BY <1>1, <1>8
<1>10. pc' \in {"next", "read", "match", "done"} /\ pc' # "done"
  BY <1>1
<1> QED BY <1>1, <1>4, <1>6, <1>7, <1>9, <1>10, JoinNext

\* The reader as it is.
LEMMA ReaderSame ==
  ASSUME Joining, UNCHANGED <<capture, trace, traces_total, position, clients, st>>
  PROVE  ReaderOK'
<1>1. ReaderOK
  BY DEF Joining
<1>2. \A c \in Clients : ClientOK(c, clients'[c], st', position')
                         /\ Keeps(c, clients'[c].queries, traces_total', position')
  BY <1>1 DEF ReaderOK
<1>3. capture \in Seq(Message) /\ position' \in Nat /\ StorageOK(st') /\ clients' \in [Clients -> Client]
  BY <1>1 DEF ReaderOK
<1> QED BY <1>2, <1>3, ReaderNext

\* The trace ends.
LEMMA EndOfTraceStep ==
  ASSUME Joining, EndOfTrace
  PROVE  Joining'
<1>1. /\ pc = "next" /\ pc' = "done" /\ traces_total = Len(trace)
      /\ UNCHANGED <<capture, trace, backend, traces_total, position, clients, st, rows, chunks>>
  BY DEF EndOfTrace, files, writer
<1>2. Finished = traces_total /\ Finished' = traces_total
  BY <1>1 DEF Finished
<1>3. ReaderOK'
  BY <1>1, ReaderSame
<1>4. RowsOK(rows', st', position', Finished') /\ ChunksOK(rows', chunks')
      /\ position' <= Len(capture) /\ traces_total' \in 0 .. Len(trace)
  BY <1>1, <1>2 DEF Joining
<1> QED BY <1>1, <1>3, <1>4, JoinNext

\* The statement of a record is behind its client only when all of it was read.
LEMMA CauseRead ==
  ASSUME Joining, traces_total # 0, NEW c, c = Current.id, c \notin Restored
  PROVE  LET q == Current.cause
         IN  /\ c \in Clients /\ q \in 1 .. Len(capture) /\ Counts(c, q)
             /\ Number(c, q) = Current.frame_index
             /\ clients[c].frame_index = Number(c, position)
             /\ Reached(Current) <=> q <= position
<1>1. traces_total \in 1 .. Len(trace) /\ capture \in Seq(Message) /\ position \in Nat
  BY DEF Joining, ReaderOK, TraceOK
<1>2. PICK r : r = trace[traces_total]
  OBVIOUS
<1>3. r \in Record /\ RecordOK(r) /\ Current = r
  BY <1>1, <1>2, Element DEF Joining, TraceOK, Current
<1>4. c \in Clients /\ c = r.id
  BY <1>3 DEF Record
<1>5. PICK q : q = r.cause
  OBVIOUS
<1>6. q \in 1 .. Len(capture) /\ Counts(c, q) /\ Number(c, q) = r.frame_index
  BY <1>3, <1>4, <1>5 DEF RecordOK, Caused
<1>7. clients[c].frame_index = Number(c, position)
  BY <1>4 DEF Joining, ReaderOK, ClientOK
<1>8. q \in Nat /\ Number(c, q) \in Nat /\ Number(c, position) \in Nat
  <2>1. q \in Nat
    BY <1>1, <1>6
  <2> QED BY <1>1, <2>1, NumberType
<1>9. Reached(r) <=> Number(c, position) >= Number(c, q)
  BY <1>4, <1>6, <1>7 DEF Reached
<1>10. CASE q <= position
  <2>1. Number(c, q) <= Number(c, position)
    BY <1>1, <1>8, <1>10, NumberGrows
  <2> QED BY <1>3, <1>4, <1>5, <1>6, <1>7, <1>8, <1>9, <1>10, <2>1
<1>11. CASE ~(q <= position)
  <2>1. position < q /\ position <= q
    BY <1>1, <1>8, <1>11
  <2>2. Number(c, position) < Number(c, q)
    BY <1>1, <1>6, <1>8, <2>1, NumberGrows
  <2> QED BY <1>3, <1>4, <1>5, <1>6, <1>7, <1>8, <1>9, <1>11, <2>2
<1> QED BY <1>10, <1>11

\* A record that gets no row, because its statement is not of the capture.
LEMMA RowsPass ==
  ASSUME NEW list \in Seq(Row), NEW s, NEW p, NEW t \in Nat, t # 0, RowsOK(list, s, p, t - 1),
         ~Missed(t)
  PROVE  RowsOK(list, s, p, t)
<1>1. \A u \in 1 .. t : u \in 1 .. t - 1 \/ u = t
  OBVIOUS
<1>2. \A i \in 1 .. Len(list) : RowOK(list[i], s, p) /\ list[i].record <= t
  <2> TAKE i \in 1 .. Len(list)
  <2>1. list[i] \in Row
    BY Element
  <2>2. list[i].record \in Nat /\ list[i].record <= t - 1
    BY <2>1 DEF Row, RowsOK
  <2> QED BY <2>2 DEF RowsOK
<1> QED BY <1>1, <1>2 DEF RowsOK

\* The capture ends before the statement of the record is found.
LEMMA EndOfCaptureStep ==
  ASSUME Joining, EndOfCapture
  PROVE  Joining'
<1>1. /\ pc = "read" /\ pc' = "next" /\ position = Len(capture)
      /\ UNCHANGED <<capture, trace, backend, traces_total, position, clients, st, rows, chunks>>
  BY DEF EndOfCapture, files, writer
<1>2. traces_total \in Nat /\ traces_total # 0 /\ ~Reached(Current)
      /\ Len(capture) \in Nat
  BY <1>1 DEF Joining, ReaderOK, TraceOK
<1>3. Finished = traces_total - 1 /\ Finished' = traces_total
  BY <1>1 DEF Finished
<1>4. ReaderOK'
  BY <1>1, ReaderSame
<1>5. ~Missed(traces_total)
  <2> SUFFICES ASSUME Missed(traces_total) PROVE FALSE
    OBVIOUS
  <2>1. Current.id \notin Restored
    BY DEF Missed, Current
  <2>2. PICK q : q = Current.cause
    OBVIOUS
  <2>3. q \in 1 .. Len(capture) /\ ~(q <= position)
    BY <1>2, <2>1, <2>2, CauseRead
  <2> QED BY <1>1, <1>2, <2>3
<1>6. rows \in Seq(Row) /\ RowsOK(rows, st, position, traces_total - 1)
  BY <1>3 DEF Joining, ChunksOK
<1>7. RowsOK(rows, st, position, traces_total)
  BY <1>2, <1>5, <1>6, RowsPass
<1>8. RowsOK(rows', st', position', Finished') /\ ChunksOK(rows', chunks')
      /\ position' <= Len(capture) /\ traces_total' \in 0 .. Len(trace)
  BY <1>1, <1>3, <1>7 DEF Joining
<1> QED BY <1>1, <1>4, <1>8, JoinNext

\* A message more is read: the rows still say what they said.
LEMMA RowsStay ==
  ASSUME capture \in Seq(Message), NEW p \in Nat, p + 1 <= Len(capture),
         NEW list \in Seq(Row), NEW s, NEW r, Carries(s, r), NEW f, RowsOK(list, s, p, f)
  PROVE  RowsOK(list, r, p + 1, f)
<1>1. ASSUME NEW i \in 1 .. Len(list) PROVE RowOK(list[i], r, p + 1)
  <2>1. list[i] \in Row /\ RowOK(list[i], s, p)
    BY Element DEF RowsOK
  <2>2. PICK c, index, offset, ts :
          /\ c = list[i].id /\ index = trace[list[i].record].frame_index
          /\ offset = list[i].query_offset /\ ts = list[i].ts
    OBVIOUS
  <2>3. offset \in Nat
    BY <2>1, <2>2 DEF Row
  <2>4. PICK q \in 1 .. p : Tells(c, q, index, offset, ts, s.queries)
    BY <2>1, <2>2 DEF RowOK
  <2>5. Tells(c, q, index, offset, ts, r.queries) /\ q \in 1 .. p + 1
    BY <2>3, <2>4, TellsStays
  <2> QED BY <2>1, <2>2, <2>5 DEF RowOK
<1> QED BY <1>1 DEF RowsOK

\* A message is read because the record is of a statement that has not been read yet.
LEMMA ReadCaptureStep ==
  ASSUME Joining, ReadCapture
  PROVE  Joining'
<1>1. PICK m : m = capture[position + 1]
  OBVIOUS
<1>2. Reading(m) /\ pc = "read" /\ position < Len(capture)
  BY <1>1 DEF ReadCapture, ReadText, ReadBind, ReadExecute, ReadUnknown, ReadOther
<1>3. /\ position' = position + 1 /\ Continue(m)
      /\ UNCHANGED <<capture, trace, backend, traces_total, rows, chunks>>
  BY <1>2 DEF Reading, files
<1>4. ReaderOK /\ capture \in Seq(Message) /\ position \in Nat /\ Len(capture) \in Nat
      /\ position + 1 <= Len(capture) /\ traces_total \in Nat /\ traces_total # 0
      /\ trace \in Seq(Record) /\ traces_total \in 1 .. Len(trace) /\ ~Reached(Current)
  BY <1>2 DEF Joining, ReaderOK, TraceOK
<1>5. ReadOK
  BY <1>4, ReadCaptureOK
<1>6. ReaderOK'
  BY <1>3, <1>4, <1>5, ReaderNext DEF ReadOK
<1>7. PICK c, F : c = Current.id /\ F = Current.frame_index
  OBVIOUS
<1>8. c \in Clients /\ F \in Nat
  <2>1. trace[traces_total] \in Record
    BY <1>4, Element
  <2> QED BY <1>7, <2>1 DEF Current, Record
<1>9. Current' = Current
  BY <1>3 DEF Current
<1>10. Reached(Current)' <=> clients'[c].frame_index >= F
  BY <1>7, <1>9 DEF Reached
<1>11. pc' = (IF m.id = c /\ clients'[m.id].frame_index >= F THEN "match" ELSE "read")
  BY <1>3, <1>7 DEF Continue
<1>12. m.id # c => clients'[c].frame_index < F
  <2> SUFFICES ASSUME m.id # c PROVE clients'[c].frame_index < F
    OBVIOUS
  <2>1. ~Counts(c, position + 1)
    BY <1>1 DEF Counts
  <2>2. Number(c, position + 1) = Number(c, position)
    BY <1>4, <2>1, NumberStep
  <2>3. clients[c].frame_index = Number(c, position)
    BY <1>4, <1>8 DEF ReaderOK, ClientOK
  <2>4. clients'[c].frame_index = Number(c, position + 1)
    BY <1>5, <1>8 DEF ReadOK, ClientOK
  <2>5. Number(c, position) \in Nat
    BY <1>4, NumberType
  <2>6. ~(clients[c].frame_index >= F)
    BY <1>4, <1>7 DEF Reached
  <2> QED BY <1>8, <2>2, <2>3, <2>4, <2>5, <2>6
<1>13. clients'[c].frame_index \in Nat
  BY <1>5, <1>8 DEF ReadOK, Client
<1>14. pc' \in {"read", "match"} /\ (pc' = "match" <=> Reached(Current)')
  BY <1>8, <1>10, <1>11, <1>12, <1>13
<1>15. Finished = traces_total - 1 /\ Finished' = traces_total - 1
  BY <1>2, <1>3, <1>14 DEF Finished
<1>16. rows \in Seq(Row) /\ Carries(st, st') /\ RowsOK(rows, st, position, traces_total - 1)
  BY <1>5, <1>15 DEF Joining, ChunksOK, ReadOK
<1>17. RowsOK(rows, st', position + 1, traces_total - 1)
  BY <1>4, <1>16, RowsStay
<1>18. RowsOK(rows', st', position', Finished')
  BY <1>3, <1>15, <1>17
<1>19. ChunksOK(rows', chunks') /\ traces_total' \in 0 .. Len(trace) /\ traces_total' # 0
  BY <1>3, <1>4 DEF Joining
<1>20. (pc = "match" => Reached(Current))' /\ (pc = "read" => ~Reached(Current))'
  BY <1>14
<1>21. pc' \in {"next", "read", "match", "done"} /\ pc' # "done" /\ position' <= Len(capture)
  BY <1>3, <1>4, <1>14
<1> QED BY <1>3, <1>6, <1>18, <1>19, <1>20, <1>21, JoinNext

\* A record that gets a row.
LEMMA RowsAppend ==
  ASSUME NEW list \in Seq(Row), NEW s, NEW p, NEW t \in Nat, t # 0, RowsOK(list, s, p, t - 1),
         NEW row \in Row, RowOK(row, s, p), row.record = t
  PROVE  RowsOK(Append(list, row), s, p, t)
<1>1. PICK more : more = Append(list, row)
  OBVIOUS
<1>2. /\ Len(list) \in Nat /\ Len(more) = Len(list) + 1 /\ more[Len(list) + 1] = row
      /\ \A i \in 1 .. Len(list) : more[i] = list[i]
  BY <1>1
<1>3. \A i \in 1 .. Len(more) : i \in 1 .. Len(list) \/ i = Len(list) + 1
  BY <1>2
<1>4. \A i \in 1 .. Len(list) : RowOK(list[i], s, p) /\ list[i].record \in Nat
                                /\ list[i].record <= t - 1
  <2> TAKE i \in 1 .. Len(list)
  <2>1. list[i] \in Row
    BY Element
  <2> QED BY <2>1 DEF Row, RowsOK
<1>5. \A i \in 1 .. Len(more) : RowOK(more[i], s, p) /\ more[i].record <= t
  <2> TAKE i \in 1 .. Len(more)
  <2>1. CASE i \in 1 .. Len(list)
    <3>1. more[i] = list[i] /\ list[i].record \in Nat /\ list[i].record <= t - 1
      BY <1>2, <1>4, <2>1
    <3> QED BY <1>4, <2>1, <3>1
  <2>2. CASE i = Len(list) + 1
    BY <1>2, <2>2
  <2> QED BY <1>3, <2>1, <2>2
<1>6. ASSUME NEW i \in 1 .. Len(more), NEW j \in 1 .. Len(more), i < j
      PROVE  more[i].record < more[j].record
  <2>1. i \in 1 .. Len(list) /\ more[i] = list[i]
    BY <1>2, <1>6
  <2>2. CASE j \in 1 .. Len(list)
    <3>1. more[j] = list[j] /\ list[i].record < list[j].record
      BY <1>2, <1>6, <2>1, <2>2 DEF RowsOK
    <3> QED BY <2>1, <3>1
  <2>3. CASE j = Len(list) + 1
    <3>1. more[j].record = t /\ list[i].record \in Nat /\ list[i].record <= t - 1
      BY <1>2, <1>4, <2>1, <2>3
    <3> QED BY <2>1, <3>1
  <2> QED BY <1>3, <2>2, <2>3
<1>7. ASSUME NEW u \in 1 .. t, Missed(u) PROVE \E i \in 1 .. Len(more) : more[i].record = u
  <2>1. CASE u = t
    <3>1. Len(list) + 1 \in 1 .. Len(more) /\ more[Len(list) + 1].record = u
      BY <1>2, <2>1
    <3> QED BY <3>1
  <2>2. CASE u \in 1 .. t - 1
    <3>1. PICK i \in 1 .. Len(list) : list[i].record = u
      BY <1>7, <2>2 DEF RowsOK
    <3>2. i \in 1 .. Len(more) /\ more[i].record = u
      BY <1>2, <3>1
    <3> QED BY <3>2
  <2>3. u = t \/ u \in 1 .. t - 1
    OBVIOUS
  <2> QED BY <2>1, <2>2, <2>3
<1> QED BY <1>1, <1>5, <1>6, <1>7 DEF RowsOK

\* The client whose statements were dropped.
LEMMA Dropped ==
  ASSUME NEW c, NEW k, NEW s, NEW p, ClientOK(c, k, s, p), NEW left \in Seq(Statement),
         QueriesTell(c, left, s.queries, p)
  PROVE  LET j == [k EXCEPT !.queries = left]
         IN  j \in Client /\ j.queries = left /\ ClientOK(c, j, s, p)
<1>1. PICK j : j = [k EXCEPT !.queries = left]
  OBVIOUS
<1>2. k \in Client
  BY DEF ClientOK
<1>3. /\ j \in Client /\ j.frame_index = k.frame_index /\ j.queries = left
      /\ j.statements = k.statements /\ j.portals = k.portals
  BY <1>1, <1>2 DEF Client
<1>4. ClientOK(c, j, s, p)
  BY <1>3 DEF ClientOK
<1> QED BY <1>1, <1>3, <1>4

\* The first of a list.
LEMMA HeadIs ==
  ASSUME NEW B, NEW s \in Seq(B)
  PROVE  s # <<>> => Head(s) \in B /\ Len(s) \in Nat /\ Len(s) # 0 /\ Head(s) = s[1]
OBVIOUS

\* Durations are numbers.
LEMMA DurationsType == Durations \subseteq Nat
BY AnalyzerAssumption

\* on_trace: the statement in front is that of the record, or it has none.
LEMMA OnTraceStep ==
  ASSUME Joining, OnTrace
  PROVE  Joining'
<1>1. PICK t, c, F, p : /\ t = traces_total /\ c = Current.id /\ F = Current.frame_index
                        /\ p = position
  OBVIOUS
<1>2. /\ pc = "match" /\ pc' = "next"
      /\ UNCHANGED <<capture, trace, backend, traces_total, position, st>>
  BY DEF OnTrace, files
<1>3. /\ ReaderOK /\ capture \in Seq(Message) /\ p \in Nat /\ StorageOK(st)
      /\ clients \in [Clients -> Client]
      /\ t \in Nat /\ t # 0 /\ TraceOK /\ trace \in Seq(Record) /\ t \in 1 .. Len(trace)
      /\ Reached(Current)
  BY <1>1, <1>2 DEF Joining, ReaderOK, TraceOK
<1>4. /\ trace[t].id = c /\ trace[t].frame_index = F /\ Current = trace[t]
      /\ c \in Clients /\ F \in Nat /\ Current.duration \in Nat
  <2>1. trace[t] \in Record
    BY <1>3, Element
  <2>2. PICK r : r = trace[t]
    OBVIOUS
  <2>3. Current = r /\ r \in Record
    BY <1>1, <2>1, <2>2 DEF Current
  <2>4. r.id \in Clients /\ r.frame_index \in Nat /\ r.duration \in Durations
    BY <2>3 DEF Record
  <2>5. r.duration \in Nat
    BY <2>4, DurationsType
  <2> QED BY <1>1, <2>2, <2>3, <2>4, <2>5
<1>5. PICK k, list, left : k = clients[c] /\ list = k.queries /\ left = Remaining(c, F)
  OBVIOUS
<1>6. ClientOK(c, k, st, p) /\ Keeps(c, list, t, p)
  BY <1>1, <1>3, <1>4, <1>5 DEF ReaderOK
<1>7. k \in Client /\ list \in Seq(Statement) /\ QueriesTell(c, list, st.queries, p)
  BY <1>5, <1>6 DEF ClientOK, Client
<1>8. /\ left \in Seq(Statement) /\ QueriesTell(c, left, st.queries, p) /\ Keeps(c, left, t, p)
      /\ left # <<>> =>
           /\ Head(left) \in Statement /\ Len(left) \in Nat /\ Len(left) # 0
           /\ Head(left) = left[1]
      /\ (\E i \in 1 .. Len(list) : list[i].index = F) => left # <<>> /\ Head(left).index = F
  <2>1. PICK file : file = st.queries
    OBVIOUS
  <2>2. /\ clients[c].queries \in Seq(Statement) /\ p \in Nat /\ F \in Nat
        /\ QueriesTell(c, clients[c].queries, file, p) /\ t \in Nat
        /\ Keeps(c, clients[c].queries, t, p) /\ t # 0
        /\ trace[t].id = c /\ trace[t].frame_index = F
    BY <1>3, <1>4, <1>5, <1>6, <1>7, <2>1
  <2>3. Remaining(c, F) \in Seq(Statement)
    BY <2>2, RemainingOK, Zenon
  <2>4. QueriesTell(c, Remaining(c, F), file, p)
    BY <2>2, RemainingOK, Zenon
  <2>5. Keeps(c, Remaining(c, F), t, p)
    BY <2>2, RemainingOK, Zenon
  <2>6. Remaining(c, F) # <<>> =>
          /\ Head(Remaining(c, F)) \in Statement /\ Len(Remaining(c, F)) \in Nat
          /\ Len(Remaining(c, F)) # 0 /\ Head(Remaining(c, F)) = Remaining(c, F)[1]
    BY <2>3, HeadIs
  <2>7. InFront(Remaining(c, F), clients[c].queries, F)
    BY <2>2, RemainingOK, Zenon
  <2> QED BY <1>5, <2>1, <2>3, <2>4, <2>5, <2>6, <2>7 DEF InFront
<1>9. PICK j : j = [k EXCEPT !.queries = left]
  OBVIOUS
<1>10. j \in Client /\ j.queries = left /\ ClientOK(c, j, st, p)
  BY <1>6, <1>8, <1>9, Dropped
<1>11. clients' = [clients EXCEPT ![c] = j]
  BY <1>1, <1>5, <1>9 DEF OnTrace, Kept
<1>12. clients' \in [Clients -> Client] /\ clients'[c] = j
       /\ \A d \in Clients : d # c => clients'[d] = clients[d]
  BY <1>3, <1>4, <1>10, <1>11
<1>13. \A d \in Clients : ClientOK(d, clients'[d], st', position')
                          /\ Keeps(d, clients'[d].queries, traces_total', position')
  <2> TAKE d \in Clients
  <2>1. CASE d = c
    BY <1>1, <1>2, <1>8, <1>10, <1>12, <2>1
  <2>2. CASE d # c
    <3>1. clients'[d] = clients[d]
      BY <1>12, <2>2
    <3>2. ClientOK(d, clients[d], st, position)
          /\ Keeps(d, clients[d].queries, traces_total, position)
      BY <1>3 DEF ReaderOK
    <3> QED BY <1>2, <3>1, <3>2
  <2> QED BY <2>1, <2>2
<1>14. ReaderOK'
  <2>1. position' \in Nat /\ StorageOK(st')
    BY <1>1, <1>2, <1>3
  <2> QED BY <1>2, <1>3, <1>12, <1>13, <2>1, ReaderNext
<1>15. Finished = t - 1 /\ Finished' = t
  BY <1>1, <1>2 DEF Finished
<1>16. rows \in Seq(Row) /\ RowsOK(rows, st, p, t - 1) /\ ChunksOK(rows, chunks)
  BY <1>1, <1>15 DEF Joining, ChunksOK
<1>17. ASSUME left # <<>>, Head(left).index = F
       PROVE  RowsOK(rows', st', position', Finished') /\ ChunksOK(rows', chunks')
  <2>1. PICK info : info = Head(left)
    OBVIOUS
  <2>2. info \in Statement /\ info.index = F /\ info = left[1] /\ 1 \in 1 .. Len(left)
    BY <1>8, <1>17, <2>1
  <2>3. PICK row : row = [id |-> c, query_offset |-> info.offset,
                          params_offset |-> info.params_offset, ts |-> info.ts,
                          duration |-> Current.duration, record |-> t]
    OBVIOUS
  <2>4. /\ row \in Row /\ row.id = c /\ row.query_offset = info.offset /\ row.ts = info.ts
        /\ row.duration = Current.duration /\ row.record = t
    BY <1>3, <1>4, <2>2, <2>3 DEF Row, Statement
  <2>5. PICK q \in 1 .. p : Tells(c, q, info.index, info.offset, info.ts, st.queries)
    BY <1>8, <2>2 DEF QueriesTell
  <2>6. RowOK(row, st, p)
    BY <1>3, <1>4, <2>2, <2>4, <2>5 DEF RowOK
  <2>7. PICK chunk : chunk = info.ts \div ChunkTs
    OBVIOUS
  <2>8. RowChunk(row) = chunk
    BY <2>4, <2>7 DEF RowChunk
  <2>9. /\ rows' = Append(rows, row)
        /\ chunks' = [Resized(chunk) EXCEPT ![chunk + 1].peak = Peak(@, Current.duration)]
    BY <1>1, <1>5, <1>17, <2>1, <2>3, <2>7 DEF OnTrace, Matches
  <2>10. ChunksOK(rows', chunks')
    <3>1. ChunksOK(Append(rows, row), [Resized(chunk) EXCEPT ![chunk + 1].peak =
                                         Peak(@, row.duration)])
      BY <1>16, <2>4, <2>8, ChunksGrow DEF Resized
    <3> QED BY <2>4, <2>9, <3>1
  <2>11. RowsOK(Append(rows, row), st, p, t)
    BY <1>3, <1>16, <2>4, <2>6, RowsAppend
  <2>12. RowsOK(rows', st', position', Finished')
    BY <1>1, <1>2, <1>15, <2>9, <2>11
  <2> QED BY <2>10, <2>12
<1>18. ASSUME ~(left # <<>> /\ Head(left).index = F)
       PROVE  RowsOK(rows', st', position', Finished') /\ ChunksOK(rows', chunks')
  <2>1. rows' = rows /\ chunks' = chunks
    BY <1>1, <1>5, <1>18 DEF OnTrace, Matches
  <2>2. ~Missed(t)
    <3> SUFFICES ASSUME Missed(t) PROVE FALSE
      OBVIOUS
    <3>1. PICK q : q = Current.cause
      OBVIOUS
    <3>2. c \notin Restored /\ Source(q) # 0
      BY <1>4, <3>1 DEF Missed
    <3>3. q \in 1 .. Len(capture) /\ Counts(c, q) /\ Number(c, q) = F /\ q <= p
      BY <1>1, <1>3, <3>1, <3>2, CauseRead
    <3>4. q \in 1 .. p
      BY <1>3, <3>3
    <3>5. ~\E i \in 1 .. Len(list) : list[i].index = F
      BY <1>8, <1>18
    <3>6. PICK u \in 1 .. t : trace[u].id = c /\ F < trace[u].frame_index
      BY <1>6, <3>2, <3>3, <3>4, <3>5 DEF Keeps
    <3>7. u \in 1 .. Len(trace) /\ u <= t
      BY <1>3
    <3>8. trace[u].frame_index <= F
      BY <1>3, <1>4, <3>6, <3>7 DEF TraceOK
    <3>9. trace[u].frame_index \in Nat
      <4>1. trace[u] \in Record
        BY <1>3, <3>7, Element
      <4> QED BY <4>1 DEF Record
    <3> QED BY <1>4, <3>6, <3>8, <3>9
  <2>3. RowsOK(rows, st, p, t)
    BY <1>3, <1>16, <2>2, RowsPass
  <2> QED BY <1>1, <1>2, <1>15, <1>16, <2>1, <2>3
<1>19. RowsOK(rows', st', position', Finished') /\ ChunksOK(rows', chunks')
  BY <1>17, <1>18
<1>20. position' <= Len(capture) /\ traces_total' \in 0 .. Len(trace) /\ pc' = "next"
  BY <1>2 DEF Joining
<1> QED BY <1>2, <1>14, <1>19, <1>20, JoinNext

----------------------------------------------------------------------------
(* What the chunks are good for.                                           *)

\* What a chunk says of its rows.
LEMMA ChunkType ==
  ASSUME ChunksOK(rows, chunks), NEW k \in 0 .. Len(chunks) - 1
  PROVE  /\ StartRow(k) \in Nat /\ StartRow(k) < Len(rows)
         /\ RowChunk(rows[StartRow(k) + 1]) >= k
         /\ \A i \in 1 .. StartRow(k) : RowChunk(rows[i]) < k
         /\ Peaks(rows, k, chunks[k + 1])
<1>1. chunks \in Seq(Chunk) /\ Len(chunks) \in Nat /\ k \in Nat
  BY DEF ChunksOK
<1>2. PICK m : m = k + 1
  OBVIOUS
<1>3. m \in 1 .. Len(chunks) /\ m - 1 = k
  BY <1>1, <1>2
<1>4. chunks[m] \in Chunk /\ Begins(rows, k, chunks[m]) /\ Peaks(rows, k, chunks[m])
  BY <1>1, <1>3, Element DEF ChunksOK
<1>5. chunks[m].start \in Nat
  BY <1>4 DEF Chunk
<1> QED BY <1>2, <1>4, <1>5 DEF StartRow, Begins

\* A later chunk begins at a later row, or at the same.
LEMMA StartsInOrder ==
  ASSUME ChunksOK(rows, chunks), NEW k \in 0 .. Len(chunks) - 1, NEW l \in 0 .. Len(chunks) - 1,
         k <= l
  PROVE  StartRow(k) <= StartRow(l)
<1>1. PICK a, b : a = StartRow(k) /\ b = StartRow(l)
  OBVIOUS
<1>2. /\ a \in Nat /\ b \in Nat /\ b < Len(rows) /\ RowChunk(rows[b + 1]) >= l
      /\ \A i \in 1 .. a : RowChunk(rows[i]) < k
  BY <1>1, ChunkType
<1>3. rows \in Seq(Row) /\ Len(rows) \in Nat /\ k \in Int /\ l \in Int
  BY DEF ChunksOK
<1>4. b + 1 \in 1 .. Len(rows)
  BY <1>2, <1>3
<1>5. RowChunk(rows[b + 1]) \in Nat
  BY <1>3, <1>4, RowChunkType
<1>6. ~(b + 1 \in 1 .. a)
  BY <1>2, <1>3, <1>5
<1> QED BY <1>1, <1>2, <1>6

\* The first chunk begins at the first row.
LEMMA FirstStart ==
  ASSUME ChunksOK(rows, chunks), Len(chunks) # 0
  PROVE  StartRow(0) = 0
<1>1. PICK a : a = StartRow(0)
  OBVIOUS
<1>2. rows \in Seq(Row) /\ Len(rows) \in Nat /\ chunks \in Seq(Chunk)
  BY DEF ChunksOK
<1>3. 0 \in 0 .. Len(chunks) - 1
  BY <1>2
<1>4. a \in Nat /\ a < Len(rows) /\ \A i \in 1 .. a : RowChunk(rows[i]) < 0
  BY <1>1, <1>3, ChunkType
<1>5. CASE a # 0
  <2>1. 1 \in 1 .. a /\ 1 \in 1 .. Len(rows)
    BY <1>2, <1>4, <1>5
  <2>2. RowChunk(rows[1]) \in Nat
    BY <1>2, <2>1, RowChunkType
  <2> QED BY <1>4, <2>1, <2>2
<1> QED BY <1>1, <1>5

\* The smaller and the greater of two numbers.
LEMMA Least ==
  ASSUME NEW a \in Int, NEW b \in Int
  PROVE  /\ a <= b => Min({a, b}) = a /\ Max({a, b}) = b
         /\ b <= a => Min({a, b}) = b /\ Max({a, b}) = a
<1>1. {a, b} \subseteq Int
  OBVIOUS
<1>2. ASSUME a <= b PROVE Min({a, b}) = a /\ Max({a, b}) = b
  <2>1. a \in {a, b} /\ \A y \in {a, b} : a <= y
    BY <1>2
  <2>2. b \in {a, b} /\ \A y \in {a, b} : y <= b
    BY <1>2
  <2> QED BY <1>1, <2>1, <2>2, MinIs, MaxIs
<1>3. ASSUME b <= a PROVE Min({a, b}) = b /\ Max({a, b}) = a
  <2>1. b \in {a, b} /\ \A y \in {a, b} : b <= y
    BY <1>3
  <2>2. a \in {a, b} /\ \A y \in {a, b} : y <= a
    BY <1>3
  <2> QED BY <1>1, <2>1, <2>2, MinIs, MaxIs
<1> QED BY <1>2, <1>3

\* The range of some chunks: from the first row of one to that of another.
LEMMA RangeIs ==
  ASSUME Len(chunks) \in Nat, Len(chunks) # 0, NEW from \in Nat, NEW to
  PROVE  LET last == Len(chunks) - 1
         IN  /\ ChunkRowRange(from, to)[1] = IF from <= last THEN StartRow(from) ELSE StartRow(last)
             /\ ChunkRowRange(from, to)[2] = IF to < last THEN StartRow(to + 1) ELSE Len(rows)
             /\ ChunkRowRange(from, to) = <<ChunkRowRange(from, to)[1], ChunkRowRange(from, to)[2]>>
<1>1. PICK last : last = Len(chunks) - 1
  OBVIOUS
<1>2. last \in Int /\ chunks # <<>>
  BY <1>1
<1>3. ChunkRowRange(from, to) = <<StartRow(Min({from, last})),
                                  IF to < last THEN StartRow(to + 1) ELSE Len(rows)>>
  BY <1>1, <1>2 DEF ChunkRowRange
<1>4. Min({from, last}) = IF from <= last THEN from ELSE last
  BY <1>2, Least
<1> QED BY <1>1, <1>3, <1>4

\* The rows of the chunks are all the rows, in order.
LEMMA ChunksCover ==
  ASSUME ChunksOK(rows, chunks)
  PROVE  ChunksTile
<1> SUFFICES ASSUME rows # <<>>
             PROVE  LET last == Len(chunks) - 1
                    IN  /\ ChunkRowRange(0, last) = <<0, Len(rows)>>
                        /\ \A k \in 0 .. last - 1 :
                             /\ ChunkRowRange(k, k)[2] = ChunkRowRange(k + 1, k + 1)[1]
                             /\ StartRow(k) <= StartRow(k + 1)
                        /\ \A i \in DOMAIN rows : i - 1 >= StartRow(rows[i].ts \div ChunkTs)
  BY DEF ChunksTile
<1>1. rows \in Seq(Row) /\ Len(rows) \in Nat /\ chunks \in Seq(Chunk) /\ Len(chunks) \in Nat
      /\ DOMAIN rows = 1 .. Len(rows)
  BY DEF ChunksOK
<1>2. Len(chunks) # 0
  <2>1. 1 \in 1 .. Len(rows)
    BY <1>1
  <2>2. RowChunk(rows[1]) \in Nat /\ RowChunk(rows[1]) < Len(chunks)
    BY <1>1, <2>1, RowChunkType DEF ChunksOK
  <2> QED BY <1>1, <2>2
<1>3. PICK last : last = Len(chunks) - 1
  OBVIOUS
<1>4. last \in Nat
  BY <1>1, <1>2, <1>3
<1>5. ChunkRowRange(0, last) = <<0, Len(rows)>>
  <2>1. ChunkRowRange(0, last)[1] = StartRow(0) /\ ChunkRowRange(0, last)[2] = Len(rows)
        /\ ChunkRowRange(0, last) = <<ChunkRowRange(0, last)[1], ChunkRowRange(0, last)[2]>>
    <3>1. 0 \in Nat /\ 0 <= last /\ ~(last < last)
      BY <1>4
    <3>2. /\ ChunkRowRange(0, last)[1] = IF 0 <= last THEN StartRow(0) ELSE StartRow(last)
          /\ ChunkRowRange(0, last)[2] = IF last < last THEN StartRow(last + 1) ELSE Len(rows)
          /\ ChunkRowRange(0, last) = <<ChunkRowRange(0, last)[1], ChunkRowRange(0, last)[2]>>
      BY <1>1, <1>2, <1>3, <3>1, RangeIs
    <3> QED BY <3>1, <3>2
  <2> QED BY <1>2, <2>1, FirstStart
<1>6. ASSUME NEW k \in 0 .. last - 1
      PROVE  /\ ChunkRowRange(k, k)[2] = ChunkRowRange(k + 1, k + 1)[1]
             /\ StartRow(k) <= StartRow(k + 1)
  <2>1. k \in Nat /\ k + 1 \in Nat /\ k < last /\ k + 1 <= last
    BY <1>4
  <2>2. ChunkRowRange(k, k)[2] = StartRow(k + 1)
    BY <1>1, <1>2, <1>3, <2>1, RangeIs
  <2>3. ChunkRowRange(k + 1, k + 1)[1] = StartRow(k + 1)
    BY <1>1, <1>2, <1>3, <2>1, RangeIs
  <2>4. k \in 0 .. Len(chunks) - 1 /\ k + 1 \in 0 .. Len(chunks) - 1 /\ k <= k + 1
    BY <1>3, <1>4, <2>1
  <2> QED BY <2>2, <2>3, <2>4, StartsInOrder
<1>7. ASSUME NEW i \in DOMAIN rows PROVE i - 1 >= StartRow(rows[i].ts \div ChunkTs)
  <2>1. PICK k : k = RowChunk(rows[i])
    OBVIOUS
  <2>2. k \in Nat /\ k < Len(chunks)
    BY <1>1, <2>1, RowChunkType DEF ChunksOK
  <2>3. k \in 0 .. Len(chunks) - 1
    BY <1>1, <2>2
  <2>4. StartRow(k) \in Nat /\ \A j \in 1 .. StartRow(k) : RowChunk(rows[j]) < k
    BY <2>3, ChunkType
  <2>5. i \in Nat /\ i >= 1 /\ ~(i \in 1 .. StartRow(k))
    BY <1>1, <2>1, <2>2, <2>4
  <2>6. i - 1 >= StartRow(k)
    BY <2>4, <2>5
  <2> QED BY <2>1, <2>6 DEF RowChunk
<1> QED BY <1>3, <1>5, <1>6, <1>7

\* Rows of which each is not older than the one before are in the order of their times.
LEMMA Sorted ==
  ASSUME NEW list \in Seq(Row), \A i \in 2 .. Len(list) : list[i - 1].ts <= list[i].ts,
         NEW i \in 1 .. Len(list), NEW j \in 1 .. Len(list), i <= j
  PROVE  list[i].ts <= list[j].ts
<1> DEFINE T == {n \in Nat : i + n <= Len(list) => list[i].ts <= list[i + n].ts}
<1>1. \A l \in 1 .. Len(list) : list[l].ts \in Nat
  BY RowChunkType
<1>2. T \in SUBSET Nat /\ 0 \in T
  BY <1>1
<1>3. ASSUME NEW n \in T PROVE n + 1 \in T
  <2>1. n \in Nat /\ n + 1 \in Nat /\ i \in Nat /\ i >= 1 /\ Len(list) \in Nat
    OBVIOUS
  <2>2. ASSUME i + (n + 1) <= Len(list) PROVE list[i].ts <= list[i + (n + 1)].ts
    <3>1. PICK a, b : a = i + n /\ b = i + (n + 1)
      OBVIOUS
    <3>2. a \in 1 .. Len(list) /\ b \in 1 .. Len(list) /\ b \in 2 .. Len(list) /\ b - 1 = a
      BY <2>1, <2>2, <3>1
    <3>3. list[i].ts <= list[a].ts
      BY <2>1, <3>1, <3>2
    <3>4. list[a].ts <= list[b].ts
      BY <3>2
    <3>5. list[i].ts \in Nat /\ list[a].ts \in Nat /\ list[b].ts \in Nat
      BY <1>1, <3>2
    <3> QED BY <3>1, <3>3, <3>4, <3>5
  <2> QED BY <2>1, <2>2
<1>4. T = Nat
  <2> HIDE DEF T
  <2> QED BY <1>2, <1>3, SetInduction
<1>5. PICK n : n = j - i
  OBVIOUS
<1>6. n \in Nat /\ i + n = j /\ j <= Len(list)
  BY <1>5
<1>7. n \in T
  BY <1>4, <1>6
<1> QED BY <1>6, <1>7

\* The peak of a range of chunks is that of its rows.
LEMMA PeaksFound ==
  ASSUME ChunksOK(rows, chunks)
  PROVE  PeakFound
<1> SUFFICES ASSUME \A i \in 2 .. Len(rows) : rows[i - 1].ts <= rows[i].ts,
                    NEW k \in 0 .. Len(chunks) - 1,
                    {i \in DOMAIN rows : rows[i].ts \div ChunkTs = k} # {}
             PROVE  \E i \in {i \in DOMAIN rows : rows[i].ts \div ChunkTs = k} :
                      /\ i - 1 >= ChunkRowRange(Max({0, k - 1}), k + 1)[1]
                      /\ i - 1 < ChunkRowRange(Max({0, k - 1}), k + 1)[2]
                      /\ rows[i].duration = chunks[k + 1].peak
                      /\ \A j \in {l \in DOMAIN rows : rows[l].ts \div ChunkTs = k} :
                           rows[j].duration <= rows[i].duration
  BY DEF PeakFound
<1>1. rows \in Seq(Row) /\ Len(rows) \in Nat /\ chunks \in Seq(Chunk) /\ Len(chunks) \in Nat
      /\ DOMAIN rows = 1 .. Len(rows) /\ k \in Nat /\ Len(chunks) # 0
  BY DEF ChunksOK
<1>2. {i \in DOMAIN rows : rows[i].ts \div ChunkTs = k} = Among(rows, k)
  BY <1>1 DEF Among, RowChunk
<1>3. Peaks(rows, k, chunks[k + 1])
  BY ChunkType
<1>4. PICK i \in Among(rows, k) : rows[i].duration = chunks[k + 1].peak
  BY <1>2, <1>3 DEF Peaks
<1>5. \A j \in Among(rows, k) : rows[j].duration <= rows[i].duration
  BY <1>3, <1>4 DEF Peaks
<1>6. i \in 1 .. Len(rows) /\ RowChunk(rows[i]) = k
  BY <1>4 DEF Among
<1>7. PICK last, from : last = Len(chunks) - 1 /\ from = IF k = 0 THEN 0 ELSE k - 1
  OBVIOUS
<1>8. last \in Nat /\ from \in Nat /\ from <= k /\ k <= last
  BY <1>1, <1>7
<1>9. Max({0, k - 1}) = from
  <2>1. PICK b : b = k - 1
    OBVIOUS
  <2>2. b \in Int /\ 0 \in Int /\ from = IF b <= 0 THEN 0 ELSE b
    BY <1>1, <1>7, <2>1
  <2>3. Max({0, b}) = IF b <= 0 THEN 0 ELSE b
    <3>1. (0 <= b => Max({0, b}) = b) /\ (b <= 0 => Max({0, b}) = 0)
      BY <2>2, Least
    <3> QED BY <2>2, <3>1
  <2> QED BY <2>1, <2>2, <2>3
<1>10. /\ ChunkRowRange(from, k + 1)[1] = StartRow(from)
       /\ ChunkRowRange(from, k + 1)[2] = IF k + 1 < last THEN StartRow(k + 2) ELSE Len(rows)
  <2>1. (k + 1) + 1 = k + 2 /\ from <= last
    BY <1>1, <1>8
  <2> QED BY <1>1, <1>7, <1>8, <2>1, RangeIs
<1>11. i - 1 >= StartRow(from)
  <2>1. from \in 0 .. Len(chunks) - 1
    BY <1>7, <1>8
  <2>2. StartRow(from) <= StartRow(k)
    BY <1>8, <2>1, StartsInOrder
  <2>3. StartRow(k) \in Nat /\ StartRow(from) \in Nat
        /\ \A j \in 1 .. StartRow(k) : RowChunk(rows[j]) < k
    BY <2>1, ChunkType
  <2>4. i \in Nat /\ i >= 1 /\ ~(i \in 1 .. StartRow(k))
    BY <1>1, <1>6, <2>3
  <2> QED BY <2>2, <2>3, <2>4
<1>12. i - 1 < ChunkRowRange(from, k + 1)[2]
  <2>1. CASE k + 1 < last
    <3>1. PICK b : b = StartRow(k + 2)
      OBVIOUS
    <3>2. k + 2 \in 0 .. Len(chunks) - 1
      BY <1>1, <1>7, <1>8, <2>1
    <3>3. b \in Nat /\ b < Len(rows) /\ RowChunk(rows[b + 1]) >= k + 2
      BY <3>1, <3>2, ChunkType
    <3>4. b + 1 \in 1 .. Len(rows)
      BY <1>1, <3>3
    <3>5. ASSUME b + 1 <= i PROVE FALSE
      <4>1. rows[b + 1].ts <= rows[i].ts
        BY <1>1, <1>6, <3>4, <3>5, Sorted
      <4>2. rows[b + 1].ts \in Nat /\ rows[i].ts \in Nat /\ RowChunk(rows[b + 1]) \in Nat
        BY <1>1, <1>6, <3>4, RowChunkType
      <4>3. RowChunk(rows[b + 1]) <= RowChunk(rows[i])
        BY <4>1, <4>2, ChunkOfMonotone DEF RowChunk
      <4> QED BY <1>1, <1>6, <3>3, <4>2, <4>3
    <3>6. i \in Nat /\ ~(b + 1 <= i)
      BY <1>6, <3>5
    <3> QED BY <1>10, <2>1, <3>1, <3>3, <3>6
  <2>2. CASE ~(k + 1 < last)
    BY <1>1, <1>6, <1>10, <2>2
  <2> QED BY <2>1, <2>2
<1> QED BY <1>2, <1>4, <1>5, <1>9, <1>10, <1>11, <1>12

----------------------------------------------------------------------------
(* What the rows say.                                                      *)

\* A row says of which statement its record is.
LEMMA RowsRight ==
  ASSUME Joining
  PROVE  RowsTell
<1>1. /\ capture \in Seq(Message) /\ position \in Nat /\ position <= Len(capture) /\ StorageOK(st)
      /\ trace \in Seq(Record) /\ rows \in Seq(Row) /\ DOMAIN rows = 1 .. Len(rows)
  BY DEF Joining, ReaderOK, TraceOK, ChunksOK
<1>2. ASSUME NEW i \in DOMAIN rows, rows[i].id \notin Restored
      PROVE  LET p == trace[rows[i].record].cause
             IN  /\ p # 0 /\ Source(p) # 0
                 /\ ReadQuery(st.queries, rows[i].query_offset).text
                      = Text(capture[Source(p)].body.query)
                 /\ rows[i].ts = Max({0, capture[p].ts - StartTs})
  <2>1. PICK row : row = rows[i]
    OBVIOUS
  <2>2. row \in Row /\ RowOK(row, st, position)
    BY <1>1, <2>1, Element DEF Joining, RowsOK
  <2>3. PICK r : r = trace[row.record]
    OBVIOUS
  <2>4. row.record \in 1 .. Len(trace) /\ r.id = row.id /\ RecordOK(r)
    BY <2>2, <2>3 DEF RowOK, Joining, TraceOK
  <2>5. PICK c, p : c = row.id /\ p = r.cause
    OBVIOUS
  <2>6. p \in 1 .. Len(capture) /\ Counts(c, p) /\ Number(c, p) = r.frame_index
    BY <1>2, <2>1, <2>4, <2>5 DEF RecordOK, Caused
  <2>7. PICK q \in 1 .. position :
          Tells(c, q, r.frame_index, row.query_offset, row.ts, st.queries)
    BY <2>2, <2>3, <2>5 DEF RowOK
  <2>8. Counts(c, q) /\ Number(c, q) = r.frame_index /\ Source(q) # 0
        /\ Held(st.queries, row.query_offset, TextOf(q)) /\ row.ts = Rel(capture[q].ts)
    BY <2>7 DEF Tells
  <2>9. p \in Nat /\ q \in Nat
    BY <1>1, <2>6
  <2>10. p = q
    BY <2>6, <2>8, <2>9, NumberUnique
  <2>11. PICK x : x = capture[Source(q)].body.query
    OBVIOUS
  <2>12. x \in Queries
    BY <1>1, <2>6, <2>8, <2>10, <2>11, SourceType
  <2>13. TextOf(q) = <<x>> /\ Text(x) = <<x>>
    BY <2>11, <2>12, TextType DEF TextOf
  <2>14. st.queries \in Seq(Byte) /\ row.query_offset \in Nat
    BY <1>1, <2>2 DEF StorageOK, Row
  <2>15. ReadQuery(st.queries, row.query_offset).text = <<x>>
    BY <2>8, <2>12, <2>13, <2>14, ReadHeld
  <2>16. row.ts = Max({0, capture[q].ts - StartTs})
    <3>1. capture[q].ts \in 0 .. MaxTs
      BY <1>1, <2>6, <2>10, MessageType
    <3> QED BY <2>8, <3>1, RelType
  <2>17. p # 0
    BY <2>6
  <2> QED BY <2>1, <2>3, <2>5, <2>8, <2>10, <2>11, <2>13, <2>15, <2>16, <2>17
<1> QED BY <1>2 DEF RowsTell

\* A record whose statement the capture has is not left without a row.
LEMMA RowsAll ==
  ASSUME Joining
  PROVE  NothingLost
<1>1. trace \in Seq(Record) /\ rows \in Seq(Row) /\ DOMAIN rows = 1 .. Len(rows)
      /\ DOMAIN trace = 1 .. Len(trace)
  BY DEF Joining, TraceOK, ChunksOK
<1>2. \A i, j \in DOMAIN rows : i < j => rows[i].record < rows[j].record
  BY <1>1 DEF Joining, RowsOK
<1>3. ASSUME pc = "done", NEW t \in DOMAIN trace, trace[t].id \notin Restored
      PROVE  Source(trace[t].cause) # 0 <=> \E i \in DOMAIN rows : rows[i].record = t
  <2>1. t \in 1 .. Finished
    <3>1. traces_total = Len(trace) /\ Finished = traces_total
      BY <1>3 DEF Joining, Finished
    <3> QED BY <1>1, <3>1
  <2>2. ASSUME Source(trace[t].cause) # 0 PROVE \E i \in DOMAIN rows : rows[i].record = t
    <3>1. Missed(t)
      BY <1>3, <2>2 DEF Missed
    <3> QED BY <1>1, <2>1, <3>1 DEF Joining, RowsOK
  <2>3. ASSUME NEW i \in DOMAIN rows, rows[i].record = t PROVE Source(trace[t].cause) # 0
    <3>1. rows[i].id = trace[t].id
      BY <1>1, <2>3 DEF Joining, RowsOK, RowOK
    <3>2. Source(trace[rows[i].record].cause) # 0
      BY <1>3, <3>1, RowsRight DEF RowsTell
    <3> QED BY <2>3, <3>2
  <2> QED BY <2>2, <2>3
<1> QED BY <1>2, <1>3 DEF NothingLost

\* Without rows there is nothing to say.
LEMMA NoRows ==
  ASSUME rows = <<>>, pc # "done"
  PROVE  Attributed /\ ChunksServe
<1>1. DOMAIN rows = {}
  OBVIOUS
<1> QED BY <1>1 DEF Attributed, RowsTell, NothingLost, ChunksServe, ChunksTile, PeakFound

\* The reader's part of the types.
LEMMA ReaderType ==
  ASSUME ReaderOK
  PROVE  /\ \A c \in Clients :
              /\ clients[c].frame_index <= position
              /\ \A n \in Names :
                   clients[c].statements[n] \in {None} \cup {e.offset : e \in Range(st.query_map)}
              /\ \A i \in DOMAIN clients[c].queries :
                   clients[c].queries[i].index <= clients[c].frame_index
         /\ st.query_offset = Len(st.queries) /\ st.params_offset <= Len(st.params)
<1>1. position \in Nat /\ StorageOK(st)
  BY DEF ReaderOK
<1>2. ASSUME NEW c \in Clients
      PROVE  /\ clients[c].frame_index <= position
             /\ \A n \in Names :
                  clients[c].statements[n] \in {None} \cup {e.offset : e \in Range(st.query_map)}
             /\ \A i \in DOMAIN clients[c].queries :
                  clients[c].queries[i].index <= clients[c].frame_index
  <2>1. PICK k : k = clients[c]
    OBVIOUS
  <2>2. ClientOK(c, k, st, position)
    BY <2>1 DEF ReaderOK
  <2>3. k \in Client /\ k.frame_index = Number(c, position)
        /\ QueriesTell(c, k.queries, st.queries, position)
    BY <2>2 DEF ClientOK
  <2>4. k.queries \in Seq(Statement)
    BY <2>3 DEF Client
  <2>5. k.frame_index <= position
    BY <1>1, <2>3, NumberType
  <2>6. \A n \in Names : k.statements[n] \in {None} \cup Offsets(st)
    BY <2>2 DEF ClientOK, NameTells
  <2>7. ASSUME NEW i \in 1 .. Len(k.queries) PROVE k.queries[i].index <= k.frame_index
    <3>1. PICK q \in 1 .. position :
            Tells(c, q, k.queries[i].index, k.queries[i].offset, k.queries[i].ts, st.queries)
      BY <2>3 DEF QueriesTell
    <3>2. k.queries[i].index = Number(c, q)
      BY <3>1 DEF Tells
    <3>3. q \in Nat /\ q <= position
      BY <1>1
    <3>4. Number(c, q) <= Number(c, position)
      BY <1>1, <3>3, NumberGrows
    <3> QED BY <2>3, <3>2, <3>4
  <2>8. DOMAIN k.queries = 1 .. Len(k.queries)
    BY <2>4
  <2> QED BY <2>1, <2>5, <2>6, <2>7, <2>8 DEF Offsets
<1> QED BY <1>1, <1>2 DEF StorageOK

\* The backends go through the capture.
LEMMA BackendType ==
  ASSUME capture \in Seq(Message),
         \/ backend = NoBackend
         \/ backend \in [Clients -> Cursor] /\ \A c \in Clients : CursorOK(c, backend[c])
  PROVE  backend \in [Clients -> [position : 0 .. Len(capture), index : Nat,
                                  cause : 0 .. Len(capture)]]
<1>1. Len(capture) \in Nat
  OBVIOUS
<1>2. CASE backend = NoBackend
  BY <1>1, <1>2 DEF NoBackend
<1>3. CASE backend \in [Clients -> Cursor] /\ \A c \in Clients : CursorOK(c, backend[c])
  <2>1. ASSUME NEW c \in Clients
        PROVE  backend[c] \in [position : 0 .. Len(capture), index : Nat,
                               cause : 0 .. Len(capture)]
    <3>1. PICK b : b = backend[c]
      OBVIOUS
    <3>2. b \in Cursor /\ b.position <= Len(capture) /\ b.cause <= Len(capture)
      BY <1>3, <3>1 DEF CursorOK
    <3> QED BY <1>1, <3>1, <3>2 DEF Cursor
  <2> QED BY <1>3, <2>1
<1> QED BY <1>2, <1>3

\* The invariant gives the types.
LEMMA TypesHold ==
  ASSUME IInv
  PROVE  TypeOK
<1>1. /\ capture \in Seq(Message) /\ ReaderOK /\ trace \in Seq(Record)
      /\ pc \in {"record", "replay", "next", "read", "match", "done"}
      /\ traces_total \in 0 .. Len(trace) /\ position \in 0 .. Len(capture)
      /\ \/ backend = NoBackend
         \/ backend \in [Clients -> Cursor] /\ \A c \in Clients : CursorOK(c, backend[c])
  <2>1. CASE Recording
    <3>1. capture \in Seq(Message) /\ trace = <<>> /\ traces_total = 0 /\ position = 0
          /\ backend = NoBackend /\ pc = "record" /\ Fresh
      BY <2>1 DEF Recording, Fresh
    <3> QED BY <3>1, NewReader
  <2>2. CASE Replaying
    <3>1. capture \in Seq(Message) /\ trace \in Seq(Record) /\ traces_total = 0 /\ position = 0
          /\ pc = "replay" /\ Fresh
      BY <2>2 DEF Replaying, Fresh, TraceOK
    <3>2. backend \in [Clients -> Cursor] /\ \A c \in Clients : CursorOK(c, backend[c])
      BY <2>2 DEF Replaying
    <3>3. Len(capture) \in Nat /\ Len(trace) \in Nat
      BY <3>1
    <3> QED BY <3>1, <3>2, <3>3, NewReader
  <2>3. CASE Joining
    BY <2>3 DEF Joining, ReaderOK, TraceOK
  <2> QED BY <2>1, <2>2, <2>3 DEF IInv
<1>2. \A p \in DOMAIN capture :
        capture[p].id \in Clients /\ capture[p].ts \in 0 .. MaxTs /\ capture[p].body \in Body
  <2> TAKE p \in DOMAIN capture
  <2>1. p \in 1 .. Len(capture)
    BY <1>1
  <2> QED BY <1>1, <2>1, MessageType
<1>3. backend \in [Clients -> [position : 0 .. Len(capture), index : Nat,
                               cause : 0 .. Len(capture)]]
  BY <1>1, BackendType
<1>4. /\ \A c \in Clients :
           /\ clients[c].frame_index <= position
           /\ \A n \in Names :
                clients[c].statements[n] \in {None} \cup {e.offset : e \in Range(st.query_map)}
           /\ \A i \in DOMAIN clients[c].queries :
                clients[c].queries[i].index <= clients[c].frame_index
      /\ st.query_offset = Len(st.queries) /\ st.params_offset <= Len(st.params)
  BY <1>1, ReaderType, Zenon
<1>5. trace \in Seq([id : Clients, frame_index : Nat \ {0}, duration : Durations, cause : Nat])
  BY <1>1 DEF Record
<1> QED BY <1>1, <1>2, <1>3, <1>4, <1>5 DEF TypeOK

\* The invariant gives what the rows and the chunks are for.
LEMMA JoinHolds ==
  ASSUME IInv
  PROVE  Attributed /\ ChunksServe
<1>1. CASE Recording
  BY <1>1, NoRows DEF Recording, Fresh
<1>2. CASE Replaying
  BY <1>2, NoRows DEF Replaying, Fresh
<1>3. CASE Joining
  <2>1. ChunksOK(rows, chunks)
    BY <1>3 DEF Joining
  <2> QED BY <1>3, <2>1, RowsRight, RowsAll, ChunksCover, PeaksFound DEF Attributed, ChunksServe
<1> QED BY <1>1, <1>2, <1>3 DEF IInv

----------------------------------------------------------------------------
(* What the viewer is served.                                              *)

\* n bytes of a sequence.
LEMMA FieldIs ==
  ASSUME NEW B, NEW s \in Seq(B), NEW a \in Nat, NEW n \in Nat, a + n <= Len(s)
  PROVE  /\ Field(s, a, n) = [k \in 1 .. n |-> s[a + k]]
         /\ Field(s, a, n) \in Seq(B) /\ Len(Field(s, a, n)) = n
<1>1. Field(s, a, n) = SubSeq(s, a + 1, a + n)
  BY DEF Field
<1>2. Len(SubSeq(s, a + 1, a + n)) = n /\ SubSeq(s, a + 1, a + n) \in Seq(B)
  OBVIOUS
<1>3. SubSeq(s, a + 1, a + n) = [k \in 1 .. n |-> s[a + k]]
  <2>1. SubSeq(s, a + 1, a + n) = [k \in 1 .. Len(SubSeq(s, a + 1, a + n)) |-> SubSeq(s, a + 1, a + n)[k]]
    BY <1>2
  <2>2. \A k \in 1 .. n : SubSeq(s, a + 1, a + n)[k] = s[a + k]
    <3> TAKE k \in 1 .. n
    <3>1. a + 1 + k - 1 = a + k
      OBVIOUS
    <3> QED BY <3>1
  <2> QED BY <1>2, <2>1, <2>2
<1> QED BY <1>1, <1>2, <1>3

\* The bytes of an entry stand in a file after the first o.
Stands(bytes, file, o) ==
  /\ o + Len(bytes) <= Len(file)
  /\ \A k \in 1 .. Len(bytes) : file[o + k] = bytes[k]

\* What is read of an entry: nothing but its own bytes.
EntryOf(bytes, text, n) ==
  [total |-> 7 + 4 * n, text |-> text, oids |-> [i \in 1 .. n |-> At(bytes, 7 + (i - 1) * 4, 4)]]

\* The part of a file that is read at an offset.
LEMMA FieldStands ==
  ASSUME NEW B, NEW bytes \in Seq(B), NEW file \in Seq(B), NEW o \in Nat,
         Stands(bytes, file, o), NEW a \in Nat, NEW n \in Nat, a + n <= Len(bytes)
  PROVE  Field(From(file, o), a, n) = Field(bytes, a, n)
<1>1. PICK buf : buf = From(file, o)
  OBVIOUS
<1>2. Len(file) \in Nat /\ Len(bytes) \in Nat /\ o + Len(bytes) <= Len(file)
  BY DEF Stands
<1>3. /\ buf \in Seq(B) /\ Len(buf) = Len(file) - o
      /\ \A k \in 1 .. Len(file) - o : buf[k] = file[o + k]
  <2>1. buf = SubSeq(file, o + 1, Len(file))
    BY <1>1 DEF From
  <2>2. Len(file) - o \in Nat /\ o + 1 \in 1 .. Len(file) + 1
    BY <1>2
  <2>3. buf \in Seq(B) /\ Len(buf) = Len(file) - o
    BY <1>2, <2>1, <2>2
  <2>4. \A k \in 1 .. Len(file) - o : buf[k] = file[o + k]
    BY <1>2, <2>1, <2>2
  <2> QED BY <2>3, <2>4
<1>4. \A k \in 1 .. Len(bytes) : buf[k] = bytes[k]
  <2> TAKE k \in 1 .. Len(bytes)
  <2>1. k \in 1 .. Len(file) - o
    BY <1>2
  <2> QED BY <1>3, <2>1 DEF Stands
<1>5. a + n <= Len(buf) /\ Len(buf) \in Nat
  BY <1>2, <1>3
<1>6. Field(buf, a, n) = [k \in 1 .. n |-> buf[a + k]]
  <2>1. buf \in Seq(B) /\ a + n <= Len(buf)
    BY <1>3, <1>5
  <2> QED BY <2>1, FieldIs
<1>7. Field(bytes, a, n) = [k \in 1 .. n |-> bytes[a + k]]
  BY FieldIs
<1>8. \A k \in 1 .. n : buf[a + k] = bytes[a + k]
  <2> TAKE k \in 1 .. n
  <2>1. a + k \in 1 .. Len(bytes)
    BY <1>2
  <2> QED BY <1>4, <2>1
<1> QED BY <1>1, <1>6, <1>7, <1>8

\* An entry is read from its bytes alone, wherever they stand.
ReadsAs(bytes, entry) ==
  \A file \in Seq(Byte), o \in Nat : Stands(bytes, file, o) => ReadQuery(file, o) = entry

\* An entry of a text of one byte, as the server and the page read it.
LEMMA EntryRead ==
  ASSUME NEW types \in TextTypes, NEW x \in Queries, NEW bytes, bytes = QueryBytes(<<x>>, types)
  PROVE  \E n \in Nat : /\ bytes \in Seq(Byte) /\ Len(bytes) = 7 + 4 * n
                        /\ ReadsAs(bytes, EntryOf(bytes, <<x>>, n))
<1>1. PICK n \in Nat :
        /\ n < 65536 /\ bytes \in Seq(Byte) /\ Len(bytes) = 7 + 4 * n
        /\ bytes[1] = 1 /\ bytes[2] = 0 /\ bytes[3] = 0 /\ bytes[4] = 0 /\ bytes[5] = x
        /\ bytes[6] \in Octets /\ bytes[7] \in Octets /\ bytes[6] + 256 * bytes[7] = n
  BY EntryBytes
<1>2. Len(bytes) >= 7
  BY <1>1
<1>3. At(bytes, 0, 4) = 1 /\ Field(bytes, 4, 1) = <<x>>
  BY <1>1, <1>2, TextLen, TextField
<1>4. At(bytes, 5, 2) = n
  <2>1. At(bytes, 5, 2) = bytes[6] + 256 * bytes[7]
    BY <1>1, <1>2, TypeCount
  <2> QED BY <1>1, <2>1
<1>5. ASSUME NEW file \in Seq(Byte), NEW o \in Nat, Stands(bytes, file, o)
      PROVE  ReadQuery(file, o) = EntryOf(bytes, <<x>>, n)
  <2>1. PICK buf : buf = From(file, o)
    OBVIOUS
  <2>2. Len(file) \in Nat /\ o + (7 + 4 * n) <= Len(file) /\ Len(buf) = Len(file) - o
    <3>1. Len(file) \in Nat /\ o + (7 + 4 * n) <= Len(file)
      BY <1>1, <1>5 DEF Stands
    <3>2. Len(SubSeq(file, o + 1, Len(file))) = Len(file) - o
      BY <3>1
    <3> QED BY <2>1, <3>1, <3>2 DEF From
  <2>3. \A a \in Nat, k \in Nat : a + k <= Len(bytes) => Field(buf, a, k) = Field(bytes, a, k)
    BY <1>1, <1>5, <2>1, FieldStands
  <2>4. Field(buf, 0, 4) = Field(bytes, 0, 4) /\ Field(buf, 4, 1) = Field(bytes, 4, 1)
        /\ Field(buf, 5, 2) = Field(bytes, 5, 2)
    <3>1. 0 + 4 <= Len(bytes) /\ 4 + 1 <= Len(bytes) /\ 5 + 2 <= Len(bytes)
      BY <1>1, <1>2
    <3> QED BY <2>3, <3>1
  <2>5. At(buf, 0, 4) = 1 /\ Field(buf, 4, 1) = <<x>> /\ At(buf, 5, 2) = n
    BY <1>3, <1>4, <2>4 DEF At
  <2>6. \A i \in 1 .. n : At(buf, 5 + 2 + (i - 1) * 4, 4) = At(bytes, 7 + (i - 1) * 4, 4)
    <3> TAKE i \in 1 .. n
    <3>1. /\ 5 + 2 + (i - 1) * 4 = 7 + (i - 1) * 4 /\ 7 + (i - 1) * 4 \in Nat
          /\ 7 + (i - 1) * 4 + 4 <= Len(bytes)
      BY <1>1
    <3> QED BY <2>3, <3>1 DEF At
  <2>7. /\ ~(o > Len(file) \/ Len(buf) < 4)
        /\ ~(Len(buf) < 5 + 2) /\ ~(Len(buf) < 5 + 2 + n * 4)
    BY <1>1, <2>2
  <2>8. ReadQuery(file, o) =
          [total |-> 5 + 2 + n * 4, text |-> <<x>>,
           oids |-> [i \in 1 .. n |-> At(buf, 5 + 2 + (i - 1) * 4, 4)]]
    <3>1. 4 + 1 = 5
      OBVIOUS
    <3> QED BY <2>1, <2>5, <2>7, <3>1 DEF ReadQuery
  <2>9. 5 + 2 + n * 4 = 7 + 4 * n
    BY <1>1
  <2>10. [i \in 1 .. n |-> At(buf, 5 + 2 + (i - 1) * 4, 4)]
           = [i \in 1 .. n |-> At(bytes, 7 + (i - 1) * 4, 4)]
    BY <2>6
  <2> QED BY <2>8, <2>9, <2>10 DEF EntryOf
<1>6. ReadsAs(bytes, EntryOf(bytes, <<x>>, n))
  BY <1>5 DEF ReadsAs
<1> QED BY <1>1, <1>6

\* Each part of a sequence that is joined stands where those before it end.
PartsStand(parts, file, at) ==
  /\ at[0] = 0
  /\ \A i \in 1 .. Len(parts) : /\ at[i - 1] \in Nat /\ at[i] = at[i - 1] + Len(parts[i])
                                /\ Stands(parts[i], file, at[i - 1])

\* The parts of a sequence that is joined.
LEMMA FlattenParts ==
  ASSUME NEW B, NEW s \in Seq(Seq(B))
  PROVE  \E at : PartsStand(s, FlattenSeq(s), at)
<1>1. CASE Len(s) = 0
  <2> DEFINE at == [i \in 0 .. 0 |-> 0]
  <2>1. at[0] = 0 /\ 1 .. Len(s) = {}
    BY <1>1
  <2> QED BY <2>1 DEF PartsStand
<1>2. CASE Len(s) # 0
  <2> DEFINE n == Len(s)
             flat == FlattenSeq(s)
  <2>1. n \in Nat
    OBVIOUS
  <2>2. PICK f : /\ \A i \in 1 .. n : f[i] = Joined(s, f, i)
                 /\ flat = f[n]
    BY <1>2, <2>1, FlattenJoins
  <2>3. flat \in Seq(B)
    BY FlattenType
  <2> HIDE DEF flat
  <2> DEFINE Upto(i) == IF i = 0 THEN <<>> ELSE f[i]
  <2>4. ASSUME NEW i \in Nat, i < n PROVE Upto(i + 1) = Upto(i) \o s[i + 1]
    <3>1. i + 1 \in 1 .. n /\ i + 1 # 0 /\ (i + 1) - 1 = i /\ (i + 1 = 1 <=> i = 0)
      BY <2>1, <2>4
    <3>2. s[i + 1] \in Seq(B)
      BY <3>1
    <3>3. f[i + 1] = IF i = 0 THEN s[i + 1] ELSE f[i] \o s[i + 1]
      BY <2>2, <3>1 DEF Joined
    <3>4. <<>> \o s[i + 1] = s[i + 1]
      BY <3>2
    <3> QED BY <3>1, <3>3, <3>4
  <2>5. \A i \in 0 .. n : Upto(i) \in Seq(B)
    <3> DEFINE T == {i \in Nat : i <= n => Upto(i) \in Seq(B)}
    <3>1. 0 \in T
      OBVIOUS
    <3>2. ASSUME NEW i \in T PROVE i + 1 \in T
      <4> SUFFICES ASSUME i + 1 <= n PROVE Upto(i + 1) \in Seq(B)
        OBVIOUS
      <4> HIDE DEF Upto
      <4>1. i \in Nat /\ i < n /\ Upto(i) \in Seq(B) /\ s[i + 1] \in Seq(B)
        BY <2>1
      <4> QED BY <2>4, <4>1, ConcatLen
    <3>3. T = Nat
      <4>1. T \in SUBSET Nat
        OBVIOUS
      <4> HIDE DEF T
      <4> QED BY <3>1, <3>2, <4>1, SetInduction
    <3> HIDE DEF Upto
    <3>4. \A i \in Nat : i <= n => Upto(i) \in Seq(B)
      BY <3>3
    <3> QED BY <2>1, <3>4
  <2> DEFINE Opens(i) == /\ Len(Upto(i)) <= Len(flat)
                           /\ \A k \in 1 .. Len(Upto(i)) : flat[k] = Upto(i)[k]
  <2>6. \A i \in 0 .. n : Opens(i)
    <3> DEFINE T == {d \in Nat : d <= n => Opens(n - d)}
    <3>1. 0 \in T
      <4>1. Upto(n) = flat /\ n - 0 = n
        BY <1>2, <2>1, <2>2
      <4>2. Len(flat) \in Nat
        BY <2>3
      <4> HIDE DEF Upto
      <4> QED BY <4>1, <4>2
    <3>2. ASSUME NEW d \in T PROVE d + 1 \in T
      <4> SUFFICES ASSUME d + 1 <= n PROVE Opens(n - (d + 1))
        OBVIOUS
      <4> DEFINE i == n - (d + 1)
      <4>1. i \in Nat /\ i < n /\ i + 1 = n - d /\ Opens(i + 1) /\ i \in 0 .. n
        BY <2>1
      <4>2. Upto(i + 1) = Upto(i) \o s[i + 1] /\ Upto(i) \in Seq(B) /\ s[i + 1] \in Seq(B)
        <5> HIDE DEF i, Upto, Opens, T
        <5>1. i + 1 \in 1 .. Len(s)
          BY <2>1, <4>1
        <5> QED BY <2>4, <2>5, <4>1, <5>1
      <4> HIDE DEF Upto, i
      <4>3. /\ Len(Upto(i + 1)) = Len(Upto(i)) + Len(s[i + 1])
            /\ Len(Upto(i)) \in Nat /\ Len(s[i + 1]) \in Nat /\ Len(flat) \in Nat
            /\ \A k \in 1 .. Len(Upto(i)) : Upto(i + 1)[k] = Upto(i)[k]
        BY <2>3, <4>2
      <4>4. Opens(i)
        BY <4>1, <4>3
      <4> QED BY <4>4 DEF i
    <3>3. T = Nat
      <4>1. T \in SUBSET Nat
        OBVIOUS
      <4> HIDE DEF T
      <4> QED BY <3>1, <3>2, <4>1, SetInduction
    <3> HIDE DEF Opens
    <3>4. \A d \in Nat : d <= n => Opens(n - d)
      BY <3>3
    <3>5. \A i \in 0 .. n : n - i \in Nat /\ n - i <= n /\ n - (n - i) = i
      BY <2>1
    <3> QED BY <3>4, <3>5
  <2> DEFINE at == [i \in 0 .. n |-> Len(Upto(i))]
  <2>7. at[0] = 0
    BY <2>1
  <2>8. ASSUME NEW i \in 1 .. n
        PROVE  /\ at[i - 1] \in Nat /\ at[i] = at[i - 1] + Len(s[i])
               /\ Stands(s[i], flat, at[i - 1])
    <3>1. i - 1 \in Nat /\ i - 1 < n /\ (i - 1) + 1 = i /\ i - 1 \in 0 .. n /\ i \in 0 .. n
      BY <2>1
    <3>2. s[i] \in Seq(B) /\ Len(s[i]) \in Nat
      OBVIOUS
    <3> HIDE DEF Upto
    <3>3. Upto(i) = Upto(i - 1) \o s[i] /\ Upto(i - 1) \in Seq(B) /\ Opens(i)
      BY <2>4, <2>5, <2>6, <3>1
    <3>4. at[i - 1] = Len(Upto(i - 1)) /\ at[i] = Len(Upto(i))
      BY <3>1
    <3>5. /\ Len(Upto(i)) = Len(Upto(i - 1)) + Len(s[i]) /\ Len(Upto(i - 1)) \in Nat
          /\ \A k \in 1 .. Len(s[i]) : Upto(i)[Len(Upto(i - 1)) + k] = s[i][k]
      BY <3>2, <3>3
    <3>6. \A k \in 1 .. Len(s[i]) : flat[Len(Upto(i - 1)) + k] = s[i][k]
      <4> TAKE k \in 1 .. Len(s[i])
      <4>1. Len(Upto(i - 1)) + k \in 1 .. Len(Upto(i))
        BY <3>2, <3>5
      <4> QED BY <3>3, <3>5, <4>1
    <3>7. Len(Upto(i - 1)) + Len(s[i]) <= Len(flat)
      BY <3>3, <3>5
    <3> HIDE DEF at
    <3> QED BY <3>4, <3>5, <3>6, <3>7 DEF Stands
  <2> HIDE DEF at
  <2>9. PartsStand(s, flat, at)
    BY <2>7, <2>8 DEF PartsStand
  <2> QED BY <2>9 DEF flat
<1> QED BY <1>1, <1>2

\* What the page has after i entries of an answer.
ParsedTo(bytes, f, i) ==
  IF i = 0 THEN [pos |-> 0, entries |-> <<>>]
  ELSE LET entry == ReadQuery(bytes, f[i - 1].pos)
       IN  [pos |-> f[i - 1].pos + entry.total, entries |-> Append(f[i - 1].entries, entry)]

\* The loop of parseQueries can be run, however many entries there are.
LEMMA ParseRuns ==
  ASSUME NEW bytes, NEW k \in Nat
  PROVE  \E f : f = [i \in 0 .. k |-> ParsedTo(bytes, f, i)]
<1> DEFINE Runs(n) == \E f : f = [i \in 0 .. n |-> ParsedTo(bytes, f, i)]
           T == {n \in Nat : Runs(n)}
<1>1. Runs(0)
  <2> DEFINE f == [i \in 0 .. 0 |-> [pos |-> 0, entries |-> <<>>]]
  <2>1. f = [i \in 0 .. 0 |-> ParsedTo(bytes, f, i)]
    BY DEF ParsedTo
  <2> QED BY <2>1
<1>2. ASSUME NEW n \in Nat, Runs(n) PROVE Runs(n + 1)
  <2>1. PICK f : f = [i \in 0 .. n |-> ParsedTo(bytes, f, i)]
    BY <1>2
  <2> DEFINE g == [i \in 0 .. n + 1 |-> IF i = n + 1 THEN ParsedTo(bytes, f, i) ELSE f[i]]
  <2>2. ASSUME NEW i \in 0 .. n + 1 PROVE g[i] = ParsedTo(bytes, g, i)
    <3>1. g[i] = ParsedTo(bytes, f, i)
      <4>1. CASE i = n + 1
        BY <4>1
      <4>2. CASE i # n + 1
        <5>1. i \in 0 .. n /\ g[i] = f[i]
          BY <4>2
        <5> HIDE DEF g
        <5> QED BY <2>1, <5>1
      <4> QED BY <4>1, <4>2
    <3>2. i # 0 => g[i - 1] = f[i - 1]
      OBVIOUS
    <3> HIDE DEF g
    <3> QED BY <3>1, <3>2 DEF ParsedTo
  <2>3. g = [i \in 0 .. n + 1 |-> g[i]]
    OBVIOUS
  <2> HIDE DEF g
  <2>4. g = [i \in 0 .. n + 1 |-> ParsedTo(bytes, g, i)]
    BY <2>2, <2>3
  <2> QED BY <2>4
<1> HIDE DEF Runs
<1>3. T = Nat
  <2>1. T \in SUBSET Nat /\ 0 \in T /\ \A n \in T : n + 1 \in T
    BY <1>1, <1>2
  <2> HIDE DEF T
  <2> QED BY <2>1, SetInduction
<1>4. Runs(k)
  BY <1>3
<1> QED BY <1>4 DEF Runs

\* What the page has is what the loop ends with.
LEMMA ParsedIs ==
  ASSUME NEW bytes, NEW k \in Nat
  PROVE  \E f : /\ \A i \in 0 .. k : f[i] = ParsedTo(bytes, f, i)
                /\ Parsed(bytes, k) = f[k].entries
<1> DEFINE Loop(f) == f = [i \in 0 .. k |-> ParsedTo(bytes, f, i)]
           F == CHOOSE f : Loop(f)
<1>1. Parsed(bytes, k) = F[k].entries
  BY DEF Parsed, ParsedTo
<1>2. PICK f : Loop(f)
  BY ParseRuns
<1>3. Loop(F)
  <2> HIDE DEF Loop
  <2> QED BY <1>2
<1>4. \A i \in 0 .. k : F[i] = ParsedTo(bytes, F, i)
  <2> HIDE DEF F
  <2> QED BY <1>3
<1> HIDE DEF F
<1> QED BY <1>1, <1>4

\* The page takes an answer apart into the entries it was made of.
LEMMA ParsedBack ==
  ASSUME NEW parts \in Seq(Seq(Byte)), NEW entries,
         entries = [i \in 1 .. Len(parts) |-> entries[i]],
         \A i \in 1 .. Len(parts) : /\ ReadsAs(parts[i], entries[i])
                                    /\ entries[i].total = Len(parts[i])
  PROVE  Parsed(FlattenSeq(parts), Len(parts)) = entries
<1> DEFINE n == Len(parts)
           flat == FlattenSeq(parts)
<1>1. n \in Nat /\ flat \in Seq(Byte)
  BY FlattenType
<1>2. PICK at : PartsStand(parts, flat, at)
  BY FlattenParts
<1>3. PICK f : /\ \A i \in 0 .. n : f[i] = ParsedTo(flat, f, i)
               /\ Parsed(flat, n) = f[n].entries
  BY <1>1, ParsedIs
<1> HIDE DEF flat
<1> DEFINE Done(i) == f[i].pos = at[i] /\ f[i].entries = [j \in 1 .. i |-> entries[j]]
           T == {i \in Nat : i <= n => Done(i)}
<1>4. 0 \in T
  <2>0. at[0] = 0 /\ 0 \in 0 .. n
    BY <1>1, <1>2 DEF PartsStand
  <2>1. f[0] = [pos |-> 0, entries |-> <<>>]
    <3>1. f[0] = ParsedTo(flat, f, 0)
      BY <1>3, <2>0
    <3> QED BY <3>1 DEF ParsedTo
  <2>2. <<>> = [j \in 1 .. 0 |-> entries[j]]
    OBVIOUS
  <2> QED BY <2>0, <2>1, <2>2
<1>5. ASSUME NEW i \in T PROVE i + 1 \in T
  <2> SUFFICES ASSUME i + 1 <= n PROVE Done(i + 1)
    OBVIOUS
  <2>1. i \in Nat /\ Done(i) /\ i + 1 \in 1 .. n /\ i + 1 \in 0 .. n /\ i + 1 # 0 /\ (i + 1) - 1 = i
    BY <1>1
  <2> HIDE DEF T
  <2>2. /\ at[i] \in Nat /\ at[i + 1] = at[i] + Len(parts[i + 1])
        /\ Stands(parts[i + 1], flat, at[i])
    BY <1>2, <2>1 DEF PartsStand
  <2>3. ReadQuery(flat, at[i]) = entries[i + 1] /\ entries[i + 1].total = Len(parts[i + 1])
    BY <1>1, <2>1, <2>2 DEF ReadsAs
  <2>4. f[i + 1] = [pos |-> at[i] + Len(parts[i + 1]),
                    entries |-> Append(f[i].entries, entries[i + 1])]
    <3>1. f[i + 1] = ParsedTo(flat, f, i + 1)
      BY <1>3, <2>1
    <3>2. ReadQuery(flat, f[i].pos) = entries[i + 1] /\ f[i].pos = at[i]
      BY <2>1, <2>3
    <3> HIDE DEF Done
    <3> QED BY <2>1, <2>3, <3>1, <3>2 DEF ParsedTo
  <2>5. Append([j \in 1 .. i |-> entries[j]], entries[i + 1]) = [j \in 1 .. i + 1 |-> entries[j]]
    BY <2>1
  <2> QED BY <2>1, <2>2, <2>4, <2>5
<1>6. T = Nat
  <2>1. T \in SUBSET Nat
    OBVIOUS
  <2> HIDE DEF T
  <2> QED BY <1>4, <1>5, <2>1, SetInduction
<1>7. Done(n)
  <2> HIDE DEF Done
  <2> QED BY <1>1, <1>6
<1> QED BY <1>3, <1>7 DEF flat

\* The entry of a text in a file: its bytes can be read wherever they are copied to.
LEMMA EntryHeld ==
  ASSUME NEW file \in Seq(Byte), NEW o \in Nat, NEW x \in Queries, Held(file, o, <<x>>)
  PROVE  LET entry == ReadQuery(file, o)
             bytes == Field(From(file, o), 0, entry.total)
         IN  /\ entry # Error /\ bytes \in Seq(Byte) /\ entry.total = Len(bytes)
             /\ ReadsAs(bytes, entry)
<1>0. PICK types \in TextTypes : Stands(QueryBytes(<<x>>, types), file, o)
  BY DEF Held, Stands
<1>1. PICK bytes : bytes = QueryBytes(<<x>>, types) /\ Stands(bytes, file, o)
  BY <1>0
<1>2. PICK n \in Nat : /\ bytes \in Seq(Byte) /\ Len(bytes) = 7 + 4 * n
                       /\ ReadsAs(bytes, EntryOf(bytes, <<x>>, n))
  BY <1>1, EntryRead
<1>3. PICK entry : entry = EntryOf(bytes, <<x>>, n)
  OBVIOUS
<1>4. ReadQuery(file, o) = entry /\ entry.total = Len(bytes)
  BY <1>1, <1>2, <1>3 DEF ReadsAs, EntryOf
<1>5. Field(From(file, o), 0, Len(bytes)) = bytes
  <2>1. Len(bytes) \in Nat /\ 0 + Len(bytes) <= Len(bytes)
    BY <1>2
  <2>2. Field(From(file, o), 0, Len(bytes)) = Field(bytes, 0, Len(bytes))
    BY <1>1, <1>2, <2>1, FieldStands
  <2>3. Field(bytes, 0, Len(bytes)) = [k \in 1 .. Len(bytes) |-> bytes[0 + k]]
    <3>1. bytes \in Seq(Byte)
      BY <1>2
    <3>2. ASSUME NEW a \in Nat, NEW m \in Nat, a + m <= Len(bytes)
          PROVE  Field(bytes, a, m) = [k \in 1 .. m |-> bytes[a + k]]
      BY <3>1, <3>2, FieldIs
    <3> QED BY <2>1, <3>2
  <2>4. bytes = [k \in 1 .. Len(bytes) |-> bytes[k]]
    BY <1>2
  <2>5. \A k \in 1 .. Len(bytes) : 0 + k = k
    OBVIOUS
  <2> QED BY <2>2, <2>3, <2>4, <2>5
<1>6. entry # Error
  <2>1. entry.total # 0
    BY <1>2, <1>4
  <2> QED BY <2>1 DEF Error
<1> QED BY <1>2, <1>3, <1>4, <1>5, <1>6

\* An answer holds the entries that were asked for, and the page finds them again.
LEMMA AnswerRight ==
  ASSUME NEW file \in Seq(Byte), NEW offsets \in Seq(Nat),
         \A i \in 1 .. Len(offsets) : \E x \in Queries : Held(file, offsets[i], <<x>>)
  PROVE  /\ Answer(file, offsets) # Error
         /\ Parsed(Answer(file, offsets).bytes, Len(offsets))
              = [i \in DOMAIN offsets |-> ReadQuery(file, offsets[i])]
<1> DEFINE n == Len(offsets)
           entries == [i \in 1 .. n |-> ReadQuery(file, offsets[i])]
           parts == [i \in 1 .. n |-> Field(From(file, offsets[i]), 0, entries[i].total)]
<1>1. n \in Nat /\ DOMAIN offsets = 1 .. n
  OBVIOUS
<1>2. ASSUME NEW i \in 1 .. n
      PROVE  /\ entries[i] # Error /\ parts[i] \in Seq(Byte)
             /\ entries[i].total = Len(parts[i]) /\ ReadsAs(parts[i], entries[i])
  <2>1. PICK o \in Nat : o = offsets[i]
    OBVIOUS
  <2>2. PICK x \in Queries : Held(file, o, <<x>>)
    BY <2>1
  <2>3. entries[i] = ReadQuery(file, o) /\ parts[i] = Field(From(file, o), 0, entries[i].total)
    BY <2>1
  <2> HIDE DEF entries, parts
  <2> QED BY <2>2, <2>3, EntryHeld
<1>3. parts \in Seq(Seq(Byte)) /\ Len(parts) = n
  <2>1. parts = [i \in 1 .. n |-> parts[i]] /\ \A i \in 1 .. n : parts[i] \in Seq(Byte)
    BY <1>2
  <2> HIDE DEF parts
  <2> QED BY <1>1, <2>1, Mapping
<1>4. Answer(file, offsets) = [bytes |-> FlattenSeq(parts)]
  <2>1. [i \in DOMAIN offsets |-> ReadQuery(file, offsets[i])] = entries
    BY <1>1
  <2>2. [i \in DOMAIN offsets |-> Field(From(file, offsets[i]), 0, entries[i].total)] = parts
    BY <1>1
  <2>3. ~ \E i \in DOMAIN offsets : entries[i] = Error
    BY <1>1, <1>2
  <2> HIDE DEF entries, parts
  <2> QED BY <2>1, <2>2, <2>3 DEF Answer
<1>5. entries = [i \in 1 .. n |-> entries[i]]
  OBVIOUS
<1> HIDE DEF parts, entries
<1>6. Parsed(FlattenSeq(parts), n) = entries
  BY <1>2, <1>3, <1>5, ParsedBack
<1>7. [bytes |-> FlattenSeq(parts)] # Error /\ [bytes |-> FlattenSeq(parts)].bytes = FlattenSeq(parts)
  <2>1. DOMAIN [bytes |-> FlattenSeq(parts)] = {"bytes"} /\ DOMAIN Error = {"total"}
    BY DEF Error
  <2>2. {"bytes"} # {"total"}
    OBVIOUS
  <2> QED BY <2>1, <2>2
<1>8. entries = [i \in DOMAIN offsets |-> ReadQuery(file, offsets[i])]
  BY <1>1 DEF entries
<1> QED BY <1>1, <1>4, <1>6, <1>7, <1>8

\* The bytes of a number below Huge.
LEMMA LEThree ==
  ASSUME NEW v \in Nat, v < Huge
  PROVE  /\ LE(8, v)[1] \in Octets /\ LE(8, v)[2] \in Octets /\ LE(8, v)[3] \in Octets
         /\ LE(8, v)[1] + 256 * LE(8, v)[2] + 65536 * LE(8, v)[3] = v
         /\ \A k \in 4 .. 8 : LE(8, v)[k] = 0
<1>1. v < 16777216
  BY DEF Huge
<1>2. v \div 1 = v
  OBVIOUS
<1>3. /\ LE(8, v)[1] = (v \div 1) % 256 /\ LE(8, v)[2] = (v \div 256) % 256
      /\ LE(8, v)[3] = (v \div 65536) % 256 /\ LE(8, v)[4] = (v \div 16777216) % 256
      /\ \A k \in 5 .. 8 : LE(8, v)[k] = 0
  BY DEF LE, Weight
<1>4. /\ v % 256 \in Nat /\ v % 256 < 256
      /\ (v \div 256) % 256 \in Nat /\ (v \div 256) % 256 < 256
      /\ (v \div 65536) % 256 \in Nat /\ (v \div 65536) % 256 < 256
      /\ (v % 256) + 256 * ((v \div 256) % 256) + 65536 * ((v \div 65536) % 256) = v
  BY <1>1
<1>5. (v \div 16777216) % 256 = 0
  BY <1>1
<1>6. PICK p, q, r : p = v % 256 /\ q = (v \div 256) % 256 /\ r = (v \div 65536) % 256
  OBVIOUS
<1>7. p \in Octets /\ q \in Octets /\ r \in Octets /\ p + 256 * q + 65536 * r = v
  BY <1>4, <1>6, OctetNat
<1>8. LE(8, v)[1] = p /\ LE(8, v)[2] = q /\ LE(8, v)[3] = r
  BY <1>2, <1>3, <1>6
<1>9. \A k \in 4 .. 8 : LE(8, v)[k] = 0
  BY <1>3, <1>5
<1> QED BY <1>7, <1>8, <1>9

\* A number of eight bytes of which only the first three say something.
LEMMA Value8 ==
  ASSUME NEW s, DOMAIN s = 1 .. 8, Len(s) = 8, s[1] \in Octets, s[2] \in Octets,
         s[3] \in Octets, \A k \in 4 .. 8 : s[k] = 0
  PROVE  Value(s) = s[1] + 256 * s[2] + 65536 * s[3]
<1>1. \A k \in DOMAIN s : ~(s[k] \notin Octets \/ (k > 3 /\ s[k] # 0))
  <2> TAKE k \in DOMAIN s
  <2>1. k = 1 \/ k = 2 \/ k = 3 \/ k \in 4 .. 8
    OBVIOUS
  <2>2. 0 \in Octets
    BY OctetNat
  <2> QED BY <2>1, <2>2
<1>2. ~(\E k \in DOMAIN s : s[k] \notin Octets \/ (k > 3 /\ s[k] # 0))
  BY <1>1
<1> QED BY <1>2 DEF Value

\* Two of the bytes of a sequence, as a number.
LEMMA AtTwo ==
  ASSUME NEW s \in Seq(Byte), NEW a \in Nat, a + 2 <= Len(s),
         s[a + 1] \in Octets, s[a + 2] \in Octets
  PROVE  At(s, a, 2) = s[a + 1] + 256 * s[a + 2]
<1>1. PICK f : f = Field(s, a, 2)
  OBVIOUS
<1>2. f = [k \in 1 .. 2 |-> s[a + k]] /\ Len(f) = 2
  <2>1. ASSUME NEW n \in Nat, a + n <= Len(s)
        PROVE  Field(s, a, n) = [k \in 1 .. n |-> s[a + k]] /\ Len(Field(s, a, n)) = n
    BY <2>1, FieldIs
  <2> QED BY <1>1, <2>1
<1>3. DOMAIN f = 1 .. 2 /\ f[1] = s[a + 1] /\ f[2] = s[a + 2]
  BY <1>2
<1>4. Value(f) = f[1] + 256 * f[2]
  BY <1>2, <1>3, Value2
<1> QED BY <1>1, <1>3, <1>4 DEF At

\* A sequence is made of two of known lengths.
MadeOf(c, a, b, x, y) ==
  /\ Len(c) = x + y
  /\ \A m \in 1 .. x : c[m] = a[m]
  /\ \A m \in x + 1 .. x + y : c[m] = b[m - x]

\* Two sequences of known length one after the other.
LEMMA ConcatAt ==
  ASSUME NEW B, NEW x \in Nat, NEW y \in Nat, NEW a \in Seq(B), NEW b \in Seq(B),
         Len(a) = x, Len(b) = y, NEW c, c = a \o b
  PROVE  c \in Seq(B) /\ MadeOf(c, a, b, x, y)
<1>1. c \in Seq(B) /\ Len(c) = x + y
  OBVIOUS
<1>2. ASSUME NEW m \in 1 .. x PROVE c[m] = a[m]
  BY <1>2
<1>3. ASSUME NEW m \in x + 1 .. x + y PROVE c[m] = b[m - x]
  BY <1>3
<1> QED BY <1>1, <1>2, <1>3 DEF MadeOf

\* What a Bind without parameters leaves: an offset, three lists of which only the last
\* has an element.
LEMMA BindBytes ==
  ASSUME NEW v \in Nat
  PROVE  LET bytes == ParamsBytes(v, <<>>, Formats)
         IN  /\ bytes \in Seq(Byte) /\ Len(bytes) = 16
             /\ \A k \in 1 .. 8 : bytes[k] = LE(8, v)[k]
             /\ bytes[9] = 0 /\ bytes[10] = 0 /\ bytes[11] = 0 /\ bytes[12] = 0
             /\ bytes[13] = 1 /\ bytes[14] = 0 /\ bytes[15] = 1 /\ bytes[16] = 0
<1> DEFINE a == LE(8, v)
           z == LE(2, 0)
           w == LE(2, 1)
<1>1. FlattenSeq(<<>>) = <<>>
  BY DEF FlattenSeq
<1>2. FlattenSeq(<<w>>) = w
  <2>1. Len(<<w>>) = 1 /\ 1 \in Nat /\ 1 # 0 /\ 1 \in 1 .. 1
    OBVIOUS
  <2>2. \E f : /\ \A i \in 1 .. Len(<<w>>) : f[i] = Joined(<<w>>, f, i)
               /\ FlattenSeq(<<w>>) = f[Len(<<w>>)]
    <3> HIDE DEF w
    <3> QED BY <2>1, FlattenJoins, Zenon
  <2>3. PICK f : f[1] = Joined(<<w>>, f, 1) /\ FlattenSeq(<<w>>) = f[1]
    <3> HIDE DEF w
    <3> QED BY <2>1, <2>2
  <2> HIDE DEF w
  <2> QED BY <2>3 DEF Joined
<1>3. ParamsBytes(v, <<>>, Formats) = a \o z \o <<>> \o z \o <<>> \o w \o w
  <2>1. Len(<<>>) = 0 /\ Len(Formats) = 1 /\ Formats[1] = 1
    BY DEF Formats
  <2>2. [i \in DOMAIN Formats |-> LE(2, Formats[i])] = <<w>>
    BY DEF Formats
  <2>3. /\ [i \in DOMAIN <<>> |-> LE(4, <<>>[i].type_oid)] = <<>>
        /\ [i \in DOMAIN <<>> |-> ParamBytes(<<>>[i].value)] = <<>>
    OBVIOUS
  <2> HIDE DEF a, z, w
  <2> QED BY <1>1, <1>2, <2>1, <2>2, <2>3 DEF ParamsBytes, a, z, w
<1>4. /\ a \in Seq(Byte) /\ Len(a) = 8 /\ z \in Seq(Byte) /\ Len(z) = 2
      /\ w \in Seq(Byte) /\ Len(w) = 2
  <2>1. 8 \in Nat /\ 2 \in Nat /\ 0 \in Nat /\ 1 \in Nat
    OBVIOUS
  <2> QED BY <2>1, LEType
<1>5. z[1] = 0 /\ z[2] = 0 /\ w[1] = 1 /\ w[2] = 0
  BY DEF LE, Weight
<1> HIDE DEF a, z, w
<1>6. PICK bytes, c, d, e : /\ c = a \o z /\ d = c \o z /\ e = d \o w
                            /\ bytes = e \o w
  OBVIOUS
<1>7. a \o z \o <<>> \o z \o <<>> \o w \o w = bytes
  <2>1. \A s \in Seq(Byte) : s \o <<>> = s
    OBVIOUS
  <2>2. c \in Seq(Byte) /\ d \in Seq(Byte)
    BY <1>4, <1>6, ConcatLen
  <2>3. a \o z \o <<>> = c /\ c \o z \o <<>> = d
    BY <1>6, <2>1, <2>2
  <2> QED BY <1>6, <2>3
<1>8. /\ bytes \in Seq(Byte) /\ Len(bytes) = 16
      /\ \A k \in 1 .. 8 : bytes[k] = a[k]
      /\ \A k \in 9 .. 10 : bytes[k] = z[k - 8]
      /\ \A k \in 11 .. 12 : bytes[k] = z[k - 10]
      /\ \A k \in 13 .. 14 : bytes[k] = w[k - 12]
      /\ \A k \in 15 .. 16 : bytes[k] = w[k - 14]
  <2>0. 8 \in Nat /\ 2 \in Nat /\ 10 \in Nat /\ 12 \in Nat /\ 14 \in Nat
    OBVIOUS
  <2>1. c \in Seq(Byte) /\ MadeOf(c, a, z, 8, 2)
    BY <1>4, <1>6, <2>0, ConcatAt
  <2>2. Len(c) = 10
    BY <2>1 DEF MadeOf
  <2>3. d \in Seq(Byte) /\ MadeOf(d, c, z, 10, 2)
    BY <1>4, <1>6, <2>0, <2>1, <2>2, ConcatAt
  <2>4. Len(d) = 12
    BY <2>3 DEF MadeOf
  <2>5. e \in Seq(Byte) /\ MadeOf(e, d, w, 12, 2)
    BY <1>4, <1>6, <2>0, <2>3, <2>4, ConcatAt
  <2>6. Len(e) = 14
    BY <2>5 DEF MadeOf
  <2>7. bytes \in Seq(Byte) /\ MadeOf(bytes, e, w, 14, 2)
    BY <1>4, <1>6, <2>0, <2>5, <2>6, ConcatAt
  <2> QED BY <2>1, <2>3, <2>5, <2>7 DEF MadeOf
<1>9. /\ bytes[9] = z[1] /\ bytes[10] = z[2] /\ bytes[11] = z[1] /\ bytes[12] = z[2]
      /\ bytes[13] = w[1] /\ bytes[14] = w[2] /\ bytes[15] = w[1] /\ bytes[16] = w[2]
  <2>1. /\ 9 - 8 = 1 /\ 10 - 8 = 2 /\ 11 - 10 = 1 /\ 12 - 10 = 2
        /\ 13 - 12 = 1 /\ 14 - 12 = 2 /\ 15 - 14 = 1 /\ 16 - 14 = 2
    OBVIOUS
  <2> QED BY <1>8, <2>1
<1> QED BY <1>3, <1>5, <1>7, <1>8, <1>9 DEF a

\* Without parameters there are no values to read.
LEMMA NoValues ==
  ASSUME NEW buf, NEW idx
  PROVE  ReadValues(buf, idx, 0) = [idx |-> idx, params |-> <<>>]
<1> DEFINE Loop(f) == f = [i \in 0 .. 0 |->
              IF i = 0 THEN [idx |-> idx, params |-> <<>>] ELSE ReadParam(buf, f[i - 1])]
           F == CHOOSE f : Loop(f)
           g == [i \in 0 .. 0 |-> [idx |-> idx, params |-> <<>>]]
<1>1. ReadValues(buf, idx, 0) = F[0]
  BY DEF ReadValues
<1>2. Loop(g)
  OBVIOUS
<1>3. Loop(F)
  <2> HIDE DEF Loop, g
  <2> QED BY <1>2
<1>4. F[0] = [idx |-> idx, params |-> <<>>]
  <2> HIDE DEF F
  <2> QED BY <1>3
<1> QED BY <1>1, <1>4

\* What the page is to find at the parameters of a row.
Unparameterized(offset) ==
  [total |-> 16, query |-> offset, formats |-> <<>>, params |-> <<>>, results |-> Formats]

\* The entry of a Bind without parameters is read as it was written.
LEMMA BindRead ==
  ASSUME NEW v \in Nat, v < Huge, NEW file \in Seq(Byte), NEW o \in Nat,
         Stands(ParamsBytes(v, <<>>, Formats), file, o)
  PROVE  ReadParams(file, o) = Unparameterized(v)
<1>1. PICK bytes : bytes = ParamsBytes(v, <<>>, Formats)
  OBVIOUS
<1>2. /\ bytes \in Seq(Byte) /\ Len(bytes) = 16
      /\ \A k \in 1 .. 8 : bytes[k] = LE(8, v)[k]
      /\ bytes[9] = 0 /\ bytes[10] = 0 /\ bytes[11] = 0 /\ bytes[12] = 0
      /\ bytes[13] = 1 /\ bytes[14] = 0 /\ bytes[15] = 1 /\ bytes[16] = 0
  BY <1>1, BindBytes
<1>3. PICK buf : buf = From(file, o)
  OBVIOUS
<1>4. Len(file) \in Nat /\ o + 16 <= Len(file) /\ Len(buf) = Len(file) - o
  <2>1. Len(file) \in Nat /\ o + 16 <= Len(file)
    <3>1. Stands(bytes, file, o) /\ Len(bytes) = 16
      BY <1>1, <1>2
    <3>2. o + 16 <= Len(file)
      BY <3>1 DEF Stands
    <3> QED BY <3>2
  <2>2. Len(SubSeq(file, o + 1, Len(file))) = Len(file) - o
    BY <2>1
  <2> QED BY <1>3, <2>1, <2>2 DEF From
<1>5. ASSUME NEW a \in Nat, NEW k \in Nat, a + k <= 16
      PROVE  At(buf, a, k) = At(bytes, a, k)
  <2>1. Stands(bytes, file, o) /\ bytes \in Seq(Byte) /\ a + k <= Len(bytes)
    BY <1>1, <1>2, <1>5
  <2>2. Field(buf, a, k) = Field(bytes, a, k)
    BY <1>3, <2>1, FieldStands
  <2> QED BY <2>2 DEF At
<1>6. 0 \in Octets /\ 1 \in Octets
  BY OctetNat
<1>7. ASSUME NEW a \in Nat, a + 2 <= 16, bytes[a + 1] \in Octets, bytes[a + 2] \in Octets
      PROVE  At(buf, a, 2) = bytes[a + 1] + 256 * bytes[a + 2]
  <2>1. bytes \in Seq(Byte) /\ a + 2 <= Len(bytes) /\ 2 \in Nat
    BY <1>2, <1>7
  <2>2. At(bytes, a, 2) = bytes[a + 1] + 256 * bytes[a + 2]
    BY <1>7, <2>1, AtTwo
  <2> QED BY <1>5, <1>7, <2>1, <2>2
<1>8. /\ At(buf, 8, 2) = 0 /\ At(buf, 10, 2) = 0 /\ At(buf, 12, 2) = 1 /\ At(buf, 14, 2) = 1
  <2>1. /\ 8 + 1 = 9 /\ 8 + 2 = 10 /\ 10 + 1 = 11 /\ 10 + 2 = 12 /\ 12 + 1 = 13
        /\ 12 + 2 = 14 /\ 14 + 1 = 15 /\ 14 + 2 = 16
    OBVIOUS
  <2>2. At(buf, 8, 2) = bytes[8 + 1] + 256 * bytes[8 + 2]
    BY <1>2, <1>6, <1>7, <2>1
  <2>3. At(buf, 10, 2) = bytes[10 + 1] + 256 * bytes[10 + 2]
    BY <1>2, <1>6, <1>7, <2>1
  <2>4. At(buf, 12, 2) = bytes[12 + 1] + 256 * bytes[12 + 2]
    BY <1>2, <1>6, <1>7, <2>1
  <2>5. At(buf, 14, 2) = bytes[14 + 1] + 256 * bytes[14 + 2]
    BY <1>2, <1>6, <1>7, <2>1
  <2> QED BY <1>2, <2>1, <2>2, <2>3, <2>4, <2>5
<1>9. At(buf, 0, 8) = v
  <2>1. PICK f : f = Field(bytes, 0, 8)
    OBVIOUS
  <2>2. f = [k \in 1 .. 8 |-> bytes[k]] /\ Len(f) = 8
    <3>1. ASSUME NEW a \in Nat, NEW k \in Nat, a + k <= Len(bytes)
          PROVE  Field(bytes, a, k) = [j \in 1 .. k |-> bytes[a + j]] /\ Len(Field(bytes, a, k)) = k
      <4>1. bytes \in Seq(Byte)
        BY <1>2
      <4> QED BY <3>1, <4>1, FieldIs
    <3>2. 0 \in Nat /\ 8 \in Nat /\ 0 + 8 <= Len(bytes)
      BY <1>2
    <3>3. Field(bytes, 0, 8) = [j \in 1 .. 8 |-> bytes[0 + j]] /\ Len(Field(bytes, 0, 8)) = 8
      BY <3>1, <3>2, Zenon
    <3>4. [j \in 1 .. 8 |-> bytes[0 + j]] = [k \in 1 .. 8 |-> bytes[k]]
      OBVIOUS
    <3> QED BY <2>1, <3>3, <3>4
  <2>3. DOMAIN f = 1 .. 8 /\ \A k \in 1 .. 8 : f[k] = LE(8, v)[k]
    BY <1>2, <2>2
  <2>4. /\ f[1] \in Octets /\ f[2] \in Octets /\ f[3] \in Octets
        /\ f[1] + 256 * f[2] + 65536 * f[3] = v
        /\ \A k \in 4 .. 8 : f[k] = 0
    <3>1. f[1] = LE(8, v)[1] /\ f[2] = LE(8, v)[2] /\ f[3] = LE(8, v)[3]
          /\ \A k \in 4 .. 8 : f[k] = LE(8, v)[k]
      BY <2>3
    <3> QED BY <3>1, LEThree
  <2>5. Value(f) = v
    <3>1. Value(f) = f[1] + 256 * f[2] + 65536 * f[3]
      BY <2>2, <2>3, <2>4, Value8
    <3> QED BY <2>4, <3>1
  <2>6. At(bytes, 0, 8) = v
    BY <2>1, <2>5 DEF At
  <2> QED BY <1>5, <2>6
<1>10. ReadValues(buf, 10 + 0 * 2 + 2, 0) = [idx |-> 12, params |-> <<>>]
  <2>1. 10 + 0 * 2 + 2 = 12
    OBVIOUS
  <2> QED BY <2>1, NoValues
<1>11. [idx |-> 12, params |-> <<>>] # Error
  <2>1. DOMAIN [idx |-> 12, params |-> <<>>] = {"idx", "params"} /\ DOMAIN Error = {"total"}
    BY DEF Error
  <2> QED BY <2>1
<1>12. ReadParams(file, o) =
         [total |-> 12 + 2 + 1 * 2, query |-> v,
          formats |-> [i \in 1 .. 0 |-> At(buf, 10 + (i - 1) * 2, 2)], params |-> <<>>,
          results |-> [i \in 1 .. 1 |-> At(buf, 12 + 2 + (i - 1) * 2, 2)]]
  <2>1. PICK vals : vals = [idx |-> 12, params |-> <<>>]
    OBVIOUS
  <2>2. vals.idx = 12 /\ vals.params = <<>> /\ vals # Error
    BY <1>11, <2>1
  <2>3. 10 + 0 * 2 = 10
    OBVIOUS
  <2>4. /\ ~(o > Len(file) \/ Len(buf) < 10 \/ Len(buf) < 10 + 2)
        /\ ~(Len(buf) < 0 * 4) /\ ~(Len(buf) < 12 + 2 \/ Len(buf) < 12 + 2 + 1 * 2)
    BY <1>4
  <2> QED BY <1>3, <1>8, <1>9, <1>10, <2>1, <2>2, <2>3, <2>4, SMTT(40) DEF ReadParams
<1>13. [i \in 1 .. 1 |-> At(buf, 12 + 2 + (i - 1) * 2, 2)] = Formats
  <2>1. \A i \in 1 .. 1 : At(buf, 12 + 2 + (i - 1) * 2, 2) = 1
    <3>1. \A i \in 1 .. 1 : 12 + 2 + (i - 1) * 2 = 14
      OBVIOUS
    <3> QED BY <1>8, <3>1
  <2>2. Formats = [i \in 1 .. 1 |-> 1]
    BY DEF Formats
  <2> QED BY <2>1, <2>2
<1>14. [i \in 1 .. 0 |-> At(buf, 10 + (i - 1) * 2, 2)] = <<>> /\ 12 + 2 + 1 * 2 = 16
  OBVIOUS
<1> QED BY <1>12, <1>13, <1>14 DEF Unparameterized

\* No Bind has had a parameter.
Bare == \A q \in 1 .. position : capture[q].body.kind = "Bind" => capture[q].body.params = 0

\* Where an entry of the parameters is said to be, there is one, and it names its text.
Paired(file, params, query) ==
  params # None => /\ params \in Nat /\ query \in Nat
                   /\ Stands(ParamsBytes(query, <<>>, Formats), file, params)

\* What a client keeps is paired.
ClientPaired(k, file) ==
  /\ \A i \in 1 .. Len(k.queries) : Paired(file, k.queries[i].params_offset, k.queries[i].offset)
  /\ \A n \in Names : k.portals[n] # None => Paired(file, k.portals[n].params, k.portals[n].query)

\* While no Bind has had a parameter, the parameters of each statement and of each row are
\* where they are said to be: what is counted is what is written.
ParamsKept ==
  Bare => /\ st.params_offset = Len(st.params)
          /\ \A c \in Clients : ClientPaired(clients[c], st.params)
          /\ \A i \in 1 .. Len(rows) :
               Paired(st.params, rows[i].params_offset, rows[i].query_offset)

\* What is in one file of parameters is in the other.
Grown(file, more) == \A po, qo : Paired(file, po, qo) => Paired(more, po, qo)

\* Entries stay where they are when the file grows.
LEMMA PairedStays ==
  ASSUME NEW file \in Seq(Byte), NEW more \in Seq(Byte)
  PROVE  Grown(file, file \o more)
<1> SUFFICES ASSUME NEW po, NEW qo, Paired(file, po, qo), po # None
             PROVE  Stands(ParamsBytes(qo, <<>>, Formats), file \o more, po)
  BY DEF Grown, Paired
<1>1. PICK bytes : bytes = ParamsBytes(qo, <<>>, Formats)
  OBVIOUS
<1>2. po \in Nat /\ qo \in Nat /\ Stands(bytes, file, po)
  BY <1>1 DEF Paired
<1>3. Len(bytes) = 16
  BY <1>1, <1>2, BindBytes
<1>4. Len(file) \in Nat /\ Len(more) \in Nat /\ Len(file \o more) = Len(file) + Len(more)
  BY ConcatLen
<1>5. po + 16 <= Len(file) /\ \A k \in 1 .. 16 : file[po + k] = bytes[k]
  BY <1>2, <1>3 DEF Stands
<1>6. \A k \in 1 .. 16 : (file \o more)[po + k] = bytes[k]
  <2> TAKE k \in 1 .. 16
  <2>1. po \in Nat /\ Len(file) \in Nat /\ po + 16 <= Len(file)
    BY <1>2, <1>4, <1>5
  <2>2. po + k \in 1 .. Len(file)
    BY <2>1
  <2>3. (file \o more)[po + k] = file[po + k]
    BY <2>2
  <2> QED BY <1>5, <2>3
<1>7. po + 16 <= Len(file \o more)
  BY <1>2, <1>4, <1>5
<1> QED BY <1>1, <1>3, <1>6, <1>7 DEF Stands

\* The entry that is written is paired with the end of the file.
LEMMA PairedNew ==
  ASSUME NEW file \in Seq(Byte), NEW qo \in Nat
  PROVE  Paired(file \o ParamsBytes(qo, <<>>, Formats), Len(file), qo)
<1>1. PICK bytes : bytes = ParamsBytes(qo, <<>>, Formats)
  OBVIOUS
<1>2. bytes \in Seq(Byte) /\ Len(bytes) = 16
  BY <1>1, BindBytes
<1>3. PICK more : more = file \o bytes
  OBVIOUS
<1>4. /\ Len(file) \in Nat /\ Len(more) = Len(file) + Len(bytes)
      /\ \A k \in 1 .. Len(bytes) : more[Len(file) + k] = bytes[k]
  <2>1. bytes \in Seq(Byte)
    BY <1>2
  <2> QED BY <1>3, <2>1
<1>5. Stands(bytes, more, Len(file))
  <2>1. Len(file) + Len(bytes) <= Len(more)
    BY <1>2, <1>4
  <2> QED BY <1>4, <2>1 DEF Stands
<1> QED BY <1>1, <1>3, <1>4, <1>5 DEF Paired

\* What a client keeps stays paired when the file grows.
LEMMA ClientStays ==
  ASSUME NEW k, NEW file, NEW more, ClientPaired(k, file), Grown(file, more)
  PROVE  ClientPaired(k, more)
BY DEF ClientPaired, Grown

\* A client with a paired statement more, and with paired portals.
LEMMA ClientAppend ==
  ASSUME NEW k \in Client, NEW file, NEW e \in Statement, NEW j,
         \A i \in 1 .. Len(k.queries) :
           Paired(file, k.queries[i].params_offset, k.queries[i].offset),
         Paired(file, e.params_offset, e.offset), j.queries = Append(k.queries, e),
         \A n \in Names : j.portals[n] # None =>
           Paired(file, j.portals[n].params, j.portals[n].query)
  PROVE  ClientPaired(j, file)
<1>1. PICK list : list = k.queries
  OBVIOUS
<1>2. list \in Seq(Statement)
  BY <1>1 DEF Client
<1>3. /\ Len(list) \in Nat /\ Len(j.queries) = Len(list) + 1 /\ j.queries[Len(list) + 1] = e
      /\ \A i \in 1 .. Len(list) : j.queries[i] = list[i]
  BY <1>1, <1>2
<1>4. ASSUME NEW i \in 1 .. Len(j.queries)
      PROVE  Paired(file, j.queries[i].params_offset, j.queries[i].offset)
  <2>1. i \in 1 .. Len(list) \/ i = Len(list) + 1
    BY <1>3
  <2> QED BY <1>1, <1>3, <2>1
<1> QED BY <1>4 DEF ClientPaired

\* It is enough to look at the client of the message and at the file.
LEMMA OnePaired ==
  ASSUME ReaderOK, ParamsKept, NEW c \in Clients, Elsewhere(c), NEW j, clients'[c] = j,
         position' = position + 1, capture' = capture, rows' = rows,
         Bare' => /\ st'.params_offset = Len(st'.params)
                  /\ Grown(st.params, st'.params) /\ ClientPaired(j, st'.params)
  PROVE  ParamsKept'
<1> SUFFICES ASSUME Bare'
             PROVE  /\ st'.params_offset = Len(st'.params)
                    /\ \A d \in Clients : ClientPaired(clients'[d], st'.params)
                    /\ \A i \in 1 .. Len(rows) :
                         Paired(st'.params, rows[i].params_offset, rows[i].query_offset)
  BY DEF ParamsKept, ClientPaired, Paired
<1>1. Bare
  <2>1. 1 .. position \subseteq 1 .. position + 1
    BY DEF ReaderOK
  <2> QED BY <2>1 DEF Bare
<1>2. /\ Grown(st.params, st'.params)
      /\ \A d \in Clients : ClientPaired(clients[d], st.params)
      /\ \A i \in 1 .. Len(rows) :
           Paired(st.params, rows[i].params_offset, rows[i].query_offset)
  BY <1>1 DEF ParamsKept
<1>3. ASSUME NEW d \in Clients PROVE ClientPaired(clients'[d], st'.params)
  <2>1. CASE d = c
    BY <2>1
  <2>2. CASE d # c
    <3>1. clients'[d] = clients[d]
      BY <2>2 DEF Elsewhere
    <3> QED BY <1>2, <3>1, ClientStays
  <2> QED BY <2>1, <2>2
<1>4. \A i \in 1 .. Len(rows) :
        Paired(st'.params, rows[i].params_offset, rows[i].query_offset)
  BY <1>2 DEF Grown
<1> QED BY <1>3, <1>4

\* Reading the next message, the parts that are not the reader's.
Reads == position' = position + 1 /\ capture' = capture /\ rows' = rows

\* A file that stays as it is.
LEMMA GrownSame == ASSUME NEW file PROVE Grown(file, file)
BY DEF Grown

\* What is kept of a client, and of the file, where a message of it is read.
LEMMA KeptAt ==
  ASSUME ParamsKept, Bare', Reads, ReaderOK, NEW c \in Clients
  PROVE  /\ Bare /\ st.params_offset = Len(st.params)
         /\ ClientPaired(clients[c], st.params)
<1>1. Bare
  <2>1. 1 .. position \subseteq 1 .. position + 1
    BY DEF ReaderOK
  <2> QED BY <2>1 DEF Bare, Reads
<1> QED BY <1>1 DEF ParamsKept

\* SimpleQuery and Parse have no parameters.
LEMMA TextKept ==
  ASSUME ReaderOK, ParamsKept, position + 1 <= Len(capture), NEW m, m = capture[position + 1],
         ReadText(m), Reads
  PROVE  ParamsKept'
<1>1. PICK c, p, k, s, r, x :
        /\ c = m.id /\ p = position /\ k = clients[c] /\ s = st /\ r = st' /\ x = m.body.query
  OBVIOUS
<1>2. /\ capture \in Seq(Message) /\ p \in Nat /\ p + 1 <= Len(capture)
      /\ StorageOK(s) /\ clients \in [Clients -> Client]
      /\ p + 1 \in 1 .. Len(capture) /\ c \in Clients /\ m.ts \in 0 .. MaxTs
      /\ k \in Client /\ k.frame_index \in Nat
      /\ k.statements \in [Names -> Offset]
  BY <1>1, ReaderAt
<1>3. m = capture[p + 1]
  BY <1>1
<1>4. m.body.kind \in {"SimpleQuery", "Parse"} /\ x \in Queries
      /\ (m.body.kind = "Parse" => m.body.name \in Names)
  BY <1>1, <1>2, <1>3, MessageType DEF ReadText
<1>5. PICK types : types = IF m.body.kind = "Parse" THEN Types ELSE <<>>
  OBVIOUS
<1>6. types \in TextTypes /\ Text(x) \in Seq(Byte)
  BY <1>4, <1>5, TextType DEF TextTypes
<1>7. r = MapQuery(s, Text(x), types)
  BY <1>1, <1>5 DEF ReadText
<1>8. /\ StorageOK(r) /\ Mapped(r, Text(x))
      /\ r.params = s.params /\ r.params_offset = s.params_offset
  <2>1. PICK text : text = Text(x)
    OBVIOUS
  <2>2. StorageOK(s) /\ text \in Seq(Byte) /\ types \in TextTypes /\ r = MapQuery(s, text, types)
    BY <1>2, <1>6, <1>7, <2>1
  <2>3. StorageOK(r) /\ Mapped(r, text)
    BY <2>2, MapQueryOK, ZenonT(40)
  <2>4. r.params = s.params
    BY <2>2, MapQueryOK, ZenonT(40)
  <2>5. r.params_offset = s.params_offset
    BY <2>2, MapQueryOK, ZenonT(40)
  <2> QED BY <2>1, <2>3, <2>4, <2>5
<1>9. PICK offset : offset = OffsetOf(r, Text(x))
  OBVIOUS
<1>10. offset \in Nat
  BY <1>6, <1>8, <1>9, OffsetHeld
<1>11. PICK e : e = [index |-> k.frame_index + 1, offset |-> offset, params_offset |-> None,
                     ts |-> Rel(m.ts)]
  OBVIOUS
<1>12. e \in Statement /\ e.params_offset = None
  <2>1. Rel(m.ts) \in Nat
    BY <1>2, RelType
  <2>2. k.frame_index + 1 \in Nat /\ None \in Offset
    BY <1>2 DEF Offset
  <2> QED BY <1>10, <1>11, <2>1, <2>2 DEF Statement
<1>13. PICK names : names = Named(m, offset)
  OBVIOUS
<1>14. names \in [Names -> Offset]
  <2>1. offset \in Offset
    BY <1>10 DEF Offset
  <2>2. names = IF m.body.kind = "Parse" THEN [k.statements EXCEPT ![m.body.name] = offset]
                ELSE k.statements
    BY <1>1, <1>13 DEF Named
  <2> QED BY <1>2, <1>4, <2>1, <2>2
<1>15. PICK j : j = [Keeping(clients[m.id], Info(m.id, OffsetOf(st', Text(m.body.query)),
                                                 None, m.ts))
                       EXCEPT !.statements = Named(m, OffsetOf(st', Text(m.body.query)))]
  OBVIOUS
<1>16. clients'[c] = j /\ Elsewhere(c)
  <2>1. clients' = [clients EXCEPT ![m.id] = j]
    BY <1>15 DEF ReadText
  <2> QED BY <1>1, <1>2, <2>1 DEF Elsewhere
<1>17. j.queries = Append(k.queries, e) /\ j.portals = k.portals
  <2>1. Info(m.id, OffsetOf(st', Text(m.body.query)), None, m.ts) = e
    BY <1>1, <1>9, <1>11 DEF Info
  <2>2. Named(m, OffsetOf(st', Text(m.body.query))) = names /\ clients[m.id] = k
    BY <1>1, <1>9, <1>13
  <2>3. j = [Keeping(k, e) EXCEPT !.statements = names]
    BY <1>15, <2>1, <2>2
  <2>4. /\ Keeping(k, e) \in Client /\ Keeping(k, e).queries = Append(k.queries, e)
        /\ Keeping(k, e).portals = k.portals
    BY <1>2, <1>12, KeepingIs
  <2>5. j.queries = Keeping(k, e).queries /\ j.portals = Keeping(k, e).portals
    BY <1>14, <2>3, <2>4, StatementsIs
  <2> QED BY <2>4, <2>5
<1>18. ASSUME Bare'
       PROVE  /\ st'.params_offset = Len(st'.params)
              /\ Grown(st.params, st'.params) /\ ClientPaired(j, st'.params)
  <2>1. st.params_offset = Len(st.params) /\ ClientPaired(k, st.params)
    BY <1>1, <1>2, <1>18, KeptAt
  <2>2. Paired(st.params, e.params_offset, e.offset)
    BY <1>12 DEF Paired
  <2>3. ClientPaired(j, st.params)
    BY <1>2, <1>12, <1>17, <2>1, <2>2, ClientAppend DEF ClientPaired
  <2>4. st'.params = st.params /\ st'.params_offset = st.params_offset
    BY <1>1, <1>8
  <2> QED BY <2>1, <2>3, <2>4, GrownSame
<1> QED BY <1>2, <1>16, <1>18, OnePaired DEF Reads

\* Bind: the entry is written where it is said to be.
LEMMA BindKept ==
  ASSUME ReaderOK, ParamsKept, position + 1 <= Len(capture), NEW m, m = capture[position + 1],
         ReadBind(m), Reads
  PROVE  ParamsKept'
<1>1. PICK c, p, k, s, r, n :
        /\ c = m.id /\ p = position /\ k = clients[c] /\ s = st /\ r = st' /\ n = m.body.name
  OBVIOUS
<1>2. /\ capture \in Seq(Message) /\ p \in Nat /\ p + 1 <= Len(capture)
      /\ StorageOK(s) /\ clients \in [Clients -> Client]
      /\ p + 1 \in 1 .. Len(capture) /\ c \in Clients /\ m.ts \in 0 .. MaxTs
      /\ ClientOK(c, k, s, p)
      /\ k \in Client /\ k.frame_index \in Nat
      /\ k.portals \in [Names -> Portal \cup {None}]
  BY <1>1, ReaderAt
<1>3. m = capture[p + 1]
  BY <1>1
<1>4. m.body.kind = "Bind" /\ n \in Names /\ m.body.portal \in Names
  <2>1. m.body.kind = "Bind"
    BY DEF ReadBind
  <2>2. m.body.name \in Names /\ m.body.portal \in Names
    BY <1>2, <1>3, <2>1, MessageType
  <2> QED BY <1>1, <2>1, <2>2
<1>5. PICK offset, params : offset = k.statements[n] /\ params = s.params_offset
  OBVIOUS
<1>6. offset \in Nat
  <2>1. offset # None
    BY <1>1, <1>5 DEF ReadBind
  <2>2. NameTells(c, n, offset, s, p)
    BY <1>2, <1>4, <1>5 DEF ClientOK
  <2> QED BY <1>1, <1>2, <1>3, <2>1, <2>2, KnownStatement
<1>7. r = WriteParams(s, offset, Params(m.body.params), Formats)
  BY <1>1, <1>5 DEF ReadBind
<1>8. params \in Nat /\ s.params \in Seq(Byte)
  BY <1>2, <1>5 DEF StorageOK
<1>9. PICK e : e = [index |-> k.frame_index + 1, offset |-> offset, params_offset |-> params,
                    ts |-> Rel(m.ts)]
  OBVIOUS
<1>10. e \in Statement /\ e.params_offset = params /\ e.offset = offset
  <2>1. Rel(m.ts) \in Nat
    BY <1>2, RelType
  <2>2. k.frame_index + 1 \in Nat /\ params \in Offset
    BY <1>2, <1>8 DEF Offset
  <2> QED BY <1>6, <1>9, <2>1, <2>2 DEF Statement
<1>11. PICK portal : portal = [query |-> offset, params |-> params]
  OBVIOUS
<1>12. portal \in Portal /\ portal.query = offset /\ portal.params = params
  BY <1>6, <1>8, <1>11 DEF Portal
<1>13. PICK portals : portals = Bound(m, offset)
  OBVIOUS
<1>14. /\ portals \in [Names -> Portal \cup {None}]
       /\ \A a \in Names : portals[a] = IF m.body.portal = a THEN portal ELSE k.portals[a]
  <2>1. portals = [k.portals EXCEPT ![m.body.portal] = portal]
    BY <1>1, <1>5, <1>11, <1>13 DEF Bound
  <2> QED BY <1>2, <1>4, <1>12, <2>1
<1>15. PICK j : j = [Keeping(clients[m.id], Info(m.id, clients[m.id].statements[m.body.name],
                                                 st.params_offset, m.ts))
                       EXCEPT !.portals = Bound(m, clients[m.id].statements[m.body.name])]
  OBVIOUS
<1>16. clients'[c] = j /\ Elsewhere(c)
  <2>1. clients' = [clients EXCEPT ![m.id] = j]
    BY <1>15 DEF ReadBind
  <2> QED BY <1>1, <1>2, <2>1 DEF Elsewhere
<1>17. j.queries = Append(k.queries, e) /\ j.portals = portals
  <2>1. Info(m.id, clients[m.id].statements[m.body.name], st.params_offset, m.ts) = e
    BY <1>1, <1>5, <1>9 DEF Info
  <2>2. Bound(m, clients[m.id].statements[m.body.name]) = portals /\ clients[m.id] = k
    BY <1>1, <1>5, <1>13
  <2>3. j = [Keeping(k, e) EXCEPT !.portals = portals]
    BY <1>15, <2>1, <2>2
  <2>4. Keeping(k, e) \in Client /\ Keeping(k, e).queries = Append(k.queries, e)
    BY <1>2, <1>10, KeepingIs
  <2>5. j.queries = Keeping(k, e).queries /\ j.portals = portals
    BY <1>14, <2>3, <2>4, PortalsIs
  <2> QED BY <2>4, <2>5
<1>18. ASSUME Bare'
       PROVE  /\ st'.params_offset = Len(st'.params)
              /\ Grown(st.params, st'.params) /\ ClientPaired(j, st'.params)
  <2>1. s.params_offset = Len(s.params) /\ ClientPaired(k, s.params)
    BY <1>1, <1>2, <1>18, KeptAt
  <2>2. m.body.params = 0
    <3>1. position' = p + 1 /\ capture' = capture /\ p + 1 \in 1 .. p + 1
      BY <1>1, <1>2 DEF Reads
    <3> QED BY <1>3, <1>4, <1>18, <3>1 DEF Bare
  <2>3. Params(m.body.params) = <<>>
    BY <2>2 DEF Params
  <2>4. PICK bytes : bytes = ParamsBytes(offset, <<>>, Formats)
    OBVIOUS
  <2>5. bytes \in Seq(Byte) /\ Len(bytes) = 16
    BY <1>6, <2>4, BindBytes
  <2>6. ParamsSize(<<>>, Formats) = 16
    <3>1. FlattenSeq(<<>>) = <<>> /\ Len(Formats) = 1 /\ Len(<<>>) = 0
      BY DEF FlattenSeq, Formats
    <3>2. [i \in DOMAIN <<>> |-> ParamBytes(<<>>[i].value)] = <<>>
      OBVIOUS
    <3>3. ParamsSize(<<>>, Formats) = 8 + 2 + 0 * 2 + 2 + 0 + 2 + 1 * 2
      BY <3>1, <3>2 DEF ParamsSize
    <3> QED BY <3>3
  <2>7. r.params = s.params \o bytes /\ r.params_offset = s.params_offset + 16
    BY <1>2, <1>7, <2>3, <2>4, <2>6 DEF WriteParams, StorageOK
  <2>8. r.params_offset = Len(r.params)
    <3>1. Len(s.params \o bytes) = Len(s.params) + Len(bytes)
      BY <1>8, <2>5, ConcatLen
    <3> QED BY <2>1, <2>5, <2>7, <3>1
  <2>9. Grown(s.params, r.params)
    BY <1>8, <2>5, <2>7, PairedStays
  <2>10. Paired(r.params, params, offset)
    BY <1>5, <1>6, <1>8, <2>1, <2>4, <2>7, PairedNew
  <2>11. ClientPaired(k, r.params)
    BY <2>1, <2>9, ClientStays
  <2>12. \A a \in Names : j.portals[a] # None =>
           Paired(r.params, j.portals[a].params, j.portals[a].query)
    <3> TAKE a \in Names
    <3>1. CASE m.body.portal = a
      BY <1>12, <1>14, <1>17, <2>10, <3>1
    <3>2. CASE m.body.portal # a
      BY <1>14, <1>17, <2>11, <3>2 DEF ClientPaired
    <3> QED BY <3>1, <3>2
  <2>13. ClientPaired(j, r.params)
    BY <1>2, <1>10, <1>17, <2>10, <2>11, <2>12, ClientAppend DEF ClientPaired
  <2> QED BY <1>1, <2>8, <2>9, <2>13
<1> QED BY <1>2, <1>16, <1>18, OnePaired DEF Reads

\* Execute: what the portal was bound to.
LEMMA ExecuteKept ==
  ASSUME ReaderOK, ParamsKept, position + 1 <= Len(capture), NEW m, m = capture[position + 1],
         ReadExecute(m), Reads
  PROVE  ParamsKept'
<1>1. PICK c, p, k, s, n :
        /\ c = m.id /\ p = position /\ k = clients[c] /\ s = st /\ n = m.body.portal
  OBVIOUS
<1>2. /\ capture \in Seq(Message) /\ p \in Nat /\ p + 1 <= Len(capture)
      /\ clients \in [Clients -> Client]
      /\ p + 1 \in 1 .. Len(capture) /\ c \in Clients /\ m.ts \in 0 .. MaxTs
      /\ ClientOK(c, k, s, p)
      /\ k \in Client /\ k.frame_index \in Nat
  BY <1>1, ReaderAt
<1>3. m = capture[p + 1]
  BY <1>1
<1>4. m.body.kind = "Execute" /\ n \in Names
  <2>1. m.body.kind = "Execute"
    BY DEF ReadExecute
  <2>2. m.body.portal \in Names
    BY <1>2, <1>3, <2>1, MessageType
  <2> QED BY <1>1, <2>1, <2>2
<1>5. PICK portal : portal = k.portals[n]
  OBVIOUS
<1>6. portal # None
  BY <1>1, <1>5 DEF ReadExecute
<1>7. portal.query \in Nat /\ portal.params \in Nat
  <2>1. PortalTells(c, n, portal, s, p)
    BY <1>2, <1>4, <1>5 DEF ClientOK
  <2>2. portal \in Portal
    BY <1>1, <1>2, <1>3, <1>6, <2>1, KnownPortal
  <2> QED BY <2>2 DEF Portal
<1>8. PICK e : e = [index |-> k.frame_index + 1, offset |-> portal.query,
                    params_offset |-> portal.params, ts |-> Rel(m.ts)]
  OBVIOUS
<1>9. e \in Statement /\ e.params_offset = portal.params /\ e.offset = portal.query
  <2>1. Rel(m.ts) \in Nat
    BY <1>2, RelType
  <2>2. k.frame_index + 1 \in Nat /\ portal.params \in Offset
    BY <1>2, <1>7 DEF Offset
  <2> QED BY <1>7, <1>8, <2>1, <2>2 DEF Statement
<1>10. PICK j : j = Keeping(clients[m.id],
                            Info(m.id, clients[m.id].portals[m.body.portal].query,
                                 clients[m.id].portals[m.body.portal].params, m.ts))
  OBVIOUS
<1>11. clients'[c] = j /\ Elsewhere(c) /\ st' = st
  <2>1. clients' = [clients EXCEPT ![m.id] = j]
    BY <1>10 DEF ReadExecute
  <2>2. st' = st
    BY DEF ReadExecute
  <2> QED BY <1>1, <1>2, <2>1, <2>2 DEF Elsewhere
<1>12. j.queries = Append(k.queries, e) /\ j.portals = k.portals
  <2>1. Info(m.id, clients[m.id].portals[m.body.portal].query,
             clients[m.id].portals[m.body.portal].params, m.ts) = e
    BY <1>1, <1>5, <1>8 DEF Info
  <2>2. j = Keeping(k, e)
    BY <1>1, <1>10, <2>1
  <2> QED BY <1>2, <1>9, <2>2, KeepingIs
<1>13. ASSUME Bare'
       PROVE  /\ st'.params_offset = Len(st'.params)
              /\ Grown(st.params, st'.params) /\ ClientPaired(j, st'.params)
  <2>1. st.params_offset = Len(st.params) /\ ClientPaired(k, st.params)
    BY <1>1, <1>2, <1>13, KeptAt
  <2>2. Paired(st.params, e.params_offset, e.offset)
    BY <1>4, <1>5, <1>6, <1>9, <2>1 DEF ClientPaired
  <2>3. ClientPaired(j, st.params)
    BY <1>2, <1>9, <1>12, <2>1, <2>2, ClientAppend DEF ClientPaired
  <2> QED BY <1>11, <2>1, <2>3, GrownSame
<1> QED BY <1>2, <1>11, <1>13, OnePaired DEF Reads

\* A Bind or an Execute whose definition the capture lacks.
LEMMA UnknownKept ==
  ASSUME ReaderOK, ParamsKept, position + 1 <= Len(capture), NEW m, m = capture[position + 1],
         ReadUnknown(m), Reads
  PROVE  ParamsKept'
<1>1. PICK c, k : c = m.id /\ k = clients[c]
  OBVIOUS
<1>2. clients \in [Clients -> Client] /\ c \in Clients /\ k \in Client
  BY <1>1, ReaderAt
<1>3. PICK j : j = [k EXCEPT !.frame_index = NumberAfter(m)]
  OBVIOUS
<1>4. j.queries = k.queries /\ j.portals = k.portals
  BY <1>2, <1>3 DEF Client
<1>5. clients'[c] = j /\ Elsewhere(c) /\ st' = st
  <2>1. clients' = [clients EXCEPT ![c] = [clients[c] EXCEPT !.frame_index = NumberAfter(m)]]
    BY <1>1 DEF ReadUnknown
  <2>2. clients' = [clients EXCEPT ![c] = j] /\ st' = st
    BY <1>1, <1>3, <2>1 DEF ReadUnknown
  <2> QED BY <1>2, <2>2 DEF Elsewhere
<1>6. ASSUME Bare'
      PROVE  /\ st'.params_offset = Len(st'.params)
             /\ Grown(st.params, st'.params) /\ ClientPaired(j, st'.params)
  <2>1. st.params_offset = Len(st.params) /\ ClientPaired(k, st.params)
    BY <1>1, <1>2, <1>6, KeptAt
  <2>2. ClientPaired(j, st.params)
    BY <1>4, <2>1 DEF ClientPaired
  <2> QED BY <1>5, <2>1, <2>2, GrownSame
<1> QED BY <1>2, <1>5, <1>6, OnePaired DEF Reads

\* A message that is passed over.
LEMMA OtherKept ==
  ASSUME ReaderOK, ParamsKept, position + 1 <= Len(capture), NEW m, m = capture[position + 1],
         ReadOther(m), Reads
  PROVE  ParamsKept'
<1>1. PICK c : c = m.id
  OBVIOUS
<1>2. clients \in [Clients -> Client] /\ c \in Clients
  BY <1>1, ReaderAt
<1>3. clients' = clients /\ st' = st
  BY DEF ReadOther
<1>4. Elsewhere(c) /\ clients'[c] = clients[c]
  BY <1>2, <1>3 DEF Elsewhere
<1>5. ASSUME Bare'
      PROVE  /\ st'.params_offset = Len(st'.params)
             /\ Grown(st.params, st'.params) /\ ClientPaired(clients[c], st'.params)
  BY <1>2, <1>3, <1>5, KeptAt, GrownSame
<1> QED BY <1>2, <1>4, <1>5, OnePaired DEF Reads

\* read_capture, whatever the message is.
LEMMA ReadingKept ==
  ASSUME Joining, ParamsKept, ReadCapture
  PROVE  ParamsKept'
<1>1. PICK m : m = capture[position + 1]
  OBVIOUS
<1>2. ReadText(m) \/ ReadBind(m) \/ ReadExecute(m) \/ ReadUnknown(m) \/ ReadOther(m)
  BY <1>1 DEF ReadCapture
<1>3. Reading(m)
  BY <1>2 DEF ReadText, ReadBind, ReadExecute, ReadUnknown, ReadOther
<1>4. Reads
  BY <1>3 DEF Reading, files, Reads
<1>5. ReaderOK /\ position + 1 <= Len(capture)
  <2>1. position < Len(capture)
    BY DEF ReadCapture
  <2>2. ReaderOK
    BY DEF Joining
  <2>3. position \in Nat /\ capture \in Seq(Message)
    BY <2>2 DEF ReaderOK
  <2>4. Len(capture) \in Nat
    BY <2>3
  <2> QED BY <2>1, <2>2, <2>3, <2>4
<1> QED BY <1>1, <1>2, <1>4, <1>5, TextKept, BindKept, ExecuteKept, UnknownKept, OtherKept

\* Nothing the parameters are about changes.
LEMMA KeptSame ==
  ASSUME ParamsKept, UNCHANGED <<capture, position, clients, st, rows>>
  PROVE  ParamsKept'
BY DEF ParamsKept, Bare, ClientPaired, Paired

\* on_trace: a row gets the offsets of a statement that was kept.
LEMMA OnTraceKept ==
  ASSUME Joining, ParamsKept, OnTrace
  PROVE  ParamsKept'
<1>1. PICK c, F : c = Current.id /\ F = Current.frame_index
  OBVIOUS
<1>2. pc = "match" /\ UNCHANGED <<capture, position, st>>
  BY DEF OnTrace, files
<1>3. /\ ReaderOK /\ clients \in [Clients -> Client] /\ rows \in Seq(Row)
      /\ traces_total \in 1 .. Len(trace) /\ trace \in Seq(Record)
  <2>1. ReaderOK /\ TraceOK /\ ChunksOK(rows, chunks) /\ traces_total \in 0 .. Len(trace)
        /\ traces_total # 0
    BY <1>2 DEF Joining
  <2> QED BY <2>1 DEF ReaderOK, TraceOK, ChunksOK
<1>4. c \in Clients /\ F \in Nat
  <2>1. Current \in Record
    BY <1>3, Element DEF Current
  <2> QED BY <1>1, <2>1 DEF Record
<1>5. PICK k, list, left : k = clients[c] /\ list = k.queries /\ left = Remaining(c, F)
  OBVIOUS
<1>6. k \in Client /\ list \in Seq(Statement) /\ Len(list) \in Nat
      /\ \A i, j \in 1 .. Len(list) : i < j => list[i].index < list[j].index
  <2>1. ClientOK(c, k, st, position)
    BY <1>3, <1>4, <1>5 DEF ReaderOK
  <2>2. k \in Client /\ QueriesTell(c, list, st.queries, position)
    BY <1>5, <2>1 DEF ClientOK
  <2>3. list \in Seq(Statement)
    BY <1>5, <2>2 DEF Client
  <2> QED BY <2>2, <2>3 DEF QueriesTell
<1>7. /\ left \in Seq(Statement)
      /\ \A i \in 1 .. Len(left) : \E a \in 1 .. Len(list) : left[i] = list[a]
  <2>1. \/ left = <<>>
        \/ \E a \in 1 .. Len(list) : left = SubSeq(list, a, Len(list))
    <3>1. list = clients[c].queries
      BY <1>5
    <3>2. /\ F \in Nat /\ list \in Seq(Statement)
          /\ \A i, j \in 1 .. Len(list) : i < j => list[i].index < list[j].index
      BY <1>4, <1>6
    <3>3. \/ Remaining(c, F) = <<>> /\ \A i \in 1 .. Len(list) : list[i].index < F
          \/ \E a \in 1 .. Len(list) :
               /\ Remaining(c, F) = SubSeq(list, a, Len(list))
               /\ list[a].index >= F
               /\ \A i \in 1 .. a - 1 : list[i].index < F
      BY <3>1, <3>2, RemainingIs, Zenon
    <3> QED BY <1>5, <3>3
  <2>2. CASE left = <<>>
    BY <2>2
  <2>3. ASSUME NEW a \in 1 .. Len(list), left = SubSeq(list, a, Len(list))
        PROVE  /\ left \in Seq(Statement)
               /\ \A i \in 1 .. Len(left) : \E b \in 1 .. Len(list) : left[i] = list[b]
    BY <1>6, <2>3, Suffix
  <2> QED BY <2>1, <2>2, <2>3
<1>8. PICK j : j = [k EXCEPT !.queries = left]
  OBVIOUS
<1>9. j.queries = left /\ j.portals = k.portals
  BY <1>6, <1>8 DEF Client
<1>10. clients' = [clients EXCEPT ![c] = j]
  BY <1>1, <1>5, <1>8 DEF OnTrace, Kept
<1>11. clients'[c] = j /\ \A d \in Clients : d # c => clients'[d] = clients[d]
  BY <1>3, <1>4, <1>10
<1> SUFFICES ASSUME Bare
             PROVE  /\ st.params_offset = Len(st.params)
                    /\ \A d \in Clients : ClientPaired(clients'[d], st.params)
                    /\ \A i \in 1 .. Len(rows') :
                         Paired(st.params, rows'[i].params_offset, rows'[i].query_offset)
  <2>1. Bare' => Bare
    BY <1>2 DEF Bare
  <2> QED BY <1>2, <2>1 DEF ParamsKept, ClientPaired, Paired
<1>12. PICK file : file = st.params
  OBVIOUS
<1>13. /\ st.params_offset = Len(file)
       /\ \A d \in Clients : ClientPaired(clients[d], file)
       /\ \A i \in 1 .. Len(rows) :
            Paired(file, rows[i].params_offset, rows[i].query_offset)
  BY <1>12 DEF ParamsKept
<1>14. ClientPaired(k, file)
  BY <1>4, <1>5, <1>13
<1>15. \A i \in 1 .. Len(left) : Paired(file, left[i].params_offset, left[i].offset)
  <2> TAKE i \in 1 .. Len(left)
  <2>1. PICK a \in 1 .. Len(list) : left[i] = list[a]
    BY <1>7
  <2> QED BY <1>5, <1>14, <2>1 DEF ClientPaired
<1>16. ClientPaired(j, file)
  BY <1>9, <1>14, <1>15 DEF ClientPaired
<1>17. ASSUME NEW d \in Clients PROVE ClientPaired(clients'[d], file)
  BY <1>11, <1>13, <1>16
<1>18. ASSUME NEW i \in 1 .. Len(rows')
       PROVE  Paired(file, rows'[i].params_offset, rows'[i].query_offset)
  <2>1. CASE left # <<>> /\ Head(left).index = F
    <3>1. PICK info : info = Head(left)
      OBVIOUS
    <3>2. info = left[1] /\ 1 \in 1 .. Len(left)
      BY <1>7, <2>1, <3>1, HeadIs
    <3>3. PICK row : row = [id |-> c, query_offset |-> info.offset,
                            params_offset |-> info.params_offset, ts |-> info.ts,
                            duration |-> Current.duration, record |-> traces_total]
      OBVIOUS
    <3>4. row.query_offset = info.offset /\ row.params_offset = info.params_offset
      BY <3>3
    <3>5. rows' = Append(rows, row)
      BY <1>1, <1>5, <2>1, <3>1, <3>3 DEF OnTrace, Matches
    <3>6. Paired(file, row.params_offset, row.query_offset)
      BY <1>15, <3>2, <3>4
    <3>7. /\ i \in 1 .. Len(rows) \/ i = Len(rows) + 1
          /\ rows'[Len(rows) + 1] = row
          /\ \A a \in 1 .. Len(rows) : rows'[a] = rows[a]
      BY <1>3, <3>5
    <3> QED BY <1>13, <3>6, <3>7
  <2>2. CASE ~(left # <<>> /\ Head(left).index = F)
    <3>1. rows' = rows
      BY <1>1, <1>5, <2>2 DEF OnTrace, Matches
    <3> QED BY <1>13, <3>1
  <2> QED BY <2>1, <2>2
<1> QED BY <1>12, <1>13, <1>17, <1>18

\* Before the join there is nothing to be found.
LEMMA FreshKept ==
  ASSUME Fresh
  PROVE  ParamsKept
<1>1. st.params = <<>> /\ st.params_offset = 0 /\ rows = <<>>
  BY DEF Fresh, NewStorage
<1>2. ASSUME NEW c \in Clients PROVE ClientPaired(clients[c], st.params)
  <2>1. clients[c] = FreshClient
    BY DEF Fresh
  <2>2. clients[c].queries = <<>> /\ \A n \in Names : clients[c].portals[n] = None
    BY <2>1 DEF FreshClient
  <2> QED BY <2>2 DEF ClientPaired
<1> QED BY <1>1, <1>2 DEF ParamsKept

\* Every step keeps it.
LEMMA NextKept ==
  ASSUME IInv, IInv', ParamsKept, [Next]_vars
  PROVE  ParamsKept'
<1>1. CASE Recording' \/ Replaying'
  <2>1. Fresh'
    BY <1>1 DEF Recording, Replaying
  <2>2. Fresh' => ParamsKept'
    BY FreshKept, PTL
  <2> QED BY <2>1, <2>2
<1>2. CASE Joining'
  <2>1. CASE UNCHANGED <<capture, position, clients, st, rows>>
    BY <2>1, KeptSame
  <2>2. CASE ReadCapture
    <3>1. pc = "read"
      BY <2>2 DEF ReadCapture
    <3>2. Joining
      BY <3>1 DEF IInv, Recording, Replaying
    <3> QED BY <2>2, <3>2, ReadingKept
  <2>3. CASE OnTrace
    <3>1. pc = "match"
      BY <2>3 DEF OnTrace
    <3>2. Joining
      BY <3>1 DEF IInv, Recording, Replaying
    <3> QED BY <2>3, <3>2, OnTraceKept
  <2>4. ASSUME NEW c \in Clients, Capture(c) PROVE FALSE
    <3>1. pc' = "record"
      BY <2>4 DEF Capture
    <3> QED BY <1>2, <3>1 DEF Joining
  <2>5. \/ UNCHANGED vars \/ EndCapture \/ EndReplay
        \/ (\E c \in Clients : Restore(c) \/ Execute(c) \/ Trace(c))
        \/ NextTrace \/ EndOfTrace \/ EndOfCapture
        => UNCHANGED <<capture, position, clients, st, rows>>
    BY DEF vars, files, writer, EndCapture, EndReplay, Restore, Execute, Trace, NextTrace,
           EndOfTrace, EndOfCapture
  <2> QED BY <2>1, <2>2, <2>3, <2>4, <2>5 DEF Next
<1> QED BY <1>1, <1>2 DEF IInv

\* What the join leaves is what the page finds.
LEMMA ServedRight ==
  ASSUME IInv, ParamsKept, Len(st.queries) < Huge
  PROVE  Served
<1>1. PICK file, offsets : /\ file = st.queries
                           /\ offsets = [i \in DOMAIN rows |-> rows[i].query_offset]
  OBVIOUS
<1> SUFFICES ASSUME pc = "done"
             PROVE  /\ Answer(file, offsets) # Error
                    /\ Parsed(Answer(file, offsets).bytes, Len(rows))
                         = [i \in DOMAIN rows |-> ReadQuery(file, offsets[i])]
                    /\ Bare => \A i \in DOMAIN rows : rows[i].params_offset # None =>
                         ReadParams(st.params, rows[i].params_offset)
                           = [total |-> Len(ParamsBytes(offsets[i], <<>>, Formats)),
                              query |-> offsets[i], formats |-> <<>>, params |-> <<>>,
                              results |-> Formats]
  BY <1>1 DEF Served, Bare
<1>2. Joining
  BY DEF IInv, Recording, Replaying
<1>3. /\ ReaderOK /\ capture \in Seq(Message) /\ position \in Nat
      /\ position <= Len(capture) /\ RowsOK(rows, st, position, Finished)
      /\ rows \in Seq(Row) /\ file \in Seq(Byte) /\ st.params \in Seq(Byte)
  BY <1>1, <1>2 DEF Joining, ChunksOK, ReaderOK, StorageOK
<1>4. DOMAIN rows = 1 .. Len(rows) /\ Len(rows) \in Nat
  BY <1>3
<1>5. ASSUME NEW i \in 1 .. Len(rows)
      PROVE  /\ rows[i].query_offset \in Nat /\ offsets[i] = rows[i].query_offset
             /\ \E x \in Queries : Held(file, offsets[i], <<x>>)
  <2>1. PICK row : row = rows[i]
    OBVIOUS
  <2>2. row \in Row /\ RowOK(row, st, position)
    BY <1>3, <2>1, Element DEF RowsOK
  <2>3. PICK q \in 1 .. position : Tells(row.id, q, trace[row.record].frame_index,
                                         row.query_offset, row.ts, st.queries)
    BY <2>2 DEF RowOK
  <2>4. Counts(row.id, q) /\ Source(q) # 0 /\ Held(file, row.query_offset, TextOf(q))
    BY <1>1, <2>3 DEF Tells
  <2>5. q \in 1 .. Len(capture)
    <3>1. Len(capture) \in Nat
      BY <1>3
    <3> QED BY <1>3, <3>1
  <2>6. PICK x : x = capture[Source(q)].body.query
    OBVIOUS
  <2>7. x \in Queries
    BY <1>3, <2>4, <2>5, <2>6, SourceType
  <2>8. TextOf(q) = <<x>>
    BY <2>6, <2>7, TextType DEF TextOf
  <2>9. offsets[i] = row.query_offset /\ row.query_offset \in Nat
    BY <1>1, <1>4, <2>1, <2>2 DEF Row
  <2> QED BY <2>1, <2>4, <2>7, <2>8, <2>9
<1>6. offsets \in Seq(Nat) /\ Len(offsets) = Len(rows) /\ DOMAIN offsets = 1 .. Len(rows)
  <2>1. offsets = [i \in 1 .. Len(rows) |-> offsets[i]]
    BY <1>1, <1>4
  <2>2. \A i \in 1 .. Len(rows) : offsets[i] \in Nat
    BY <1>5
  <2> QED BY <1>4, <2>1, <2>2, Mapping
<1>7. /\ Answer(file, offsets) # Error
      /\ Parsed(Answer(file, offsets).bytes, Len(offsets))
           = [i \in DOMAIN offsets |-> ReadQuery(file, offsets[i])]
  BY <1>3, <1>5, <1>6, AnswerRight
<1>8. ASSUME Bare, NEW i \in 1 .. Len(rows), rows[i].params_offset # None
      PROVE  ReadParams(st.params, rows[i].params_offset)
               = [total |-> Len(ParamsBytes(offsets[i], <<>>, Formats)),
                  query |-> offsets[i], formats |-> <<>>, params |-> <<>>, results |-> Formats]
  <2>1. PICK v, o : v = offsets[i] /\ o = rows[i].params_offset
    OBVIOUS
  <2>2. o \in Nat /\ v \in Nat /\ Stands(ParamsBytes(v, <<>>, Formats), st.params, o)
    BY <1>5, <1>8, <2>1 DEF ParamsKept, Paired
  <2>3. v < Huge
    <3>1. PICK x \in Queries : Held(file, v, <<x>>)
      BY <1>5, <2>1
    <3>2. PICK types \in TextTypes : v + Len(QueryBytes(<<x>>, types)) <= Len(file)
      BY <3>1 DEF Held
    <3>3. Len(QueryBytes(<<x>>, types)) \in Nat /\ Len(file) \in Nat
      BY <1>3, <3>1, EntryRead
    <3>4. Huge \in Nat /\ Len(file) < Huge
      BY <1>1 DEF Huge
    <3> QED BY <2>2, <3>2, <3>3, <3>4
  <2>4. ReadParams(st.params, o) = Unparameterized(v)
    BY <1>3, <2>2, <2>3, BindRead
  <2>5. Len(ParamsBytes(v, <<>>, Formats)) = 16
    BY <2>2, BindBytes
  <2> QED BY <2>1, <2>4, <2>5 DEF Unparameterized
<1> QED BY <1>4, <1>6, <1>7, <1>8

----------------------------------------------------------------------------
(* The theorems.                                                           *)

\* It holds at the start.
LEMMA InitIInv == Init => IInv
<1> SUFFICES ASSUME Init PROVE Recording
  BY DEF IInv
<1>1. Fresh /\ trace = <<>> /\ capture = <<>> /\ backend = NoBackend /\ pc = "record"
  BY DEF Init, Fresh, FreshClient
<1> QED BY <1>1 DEF Recording

\* Each step of a phase leads to that phase or to the next.
LEMMA NextIInv == IInv /\ [Next]_vars => IInv'
<1> SUFFICES ASSUME IInv, [Next]_vars PROVE IInv'
  OBVIOUS
<1>1. CASE UNCHANGED vars
  <2>1. /\ capture' = capture /\ trace' = trace /\ backend' = backend /\ pc' = pc
        /\ UNCHANGED <<traces_total, position, clients, st, rows, chunks>>
    BY <1>1 DEF vars, files, writer
  <2>2. CASE Recording
    BY <2>1, <2>2 DEF Recording, Fresh, IInv
  <2>3. CASE Replaying
    <3>1. Fresh' /\ TraceOK' /\ capture' \in Seq(Message) /\ pc' = "replay"
      BY <2>1, <2>3, TraceStays DEF Replaying, Fresh
    <3>2. backend' \in [Clients -> Cursor] /\ \A c \in Clients : CursorOK(c, backend[c])'
      <4>1. ASSUME NEW c \in Clients PROVE CursorOK(c, backend[c])'
        <5>1. PICK b : b = backend[c]
          OBVIOUS
        <5>2. CursorOK(c, b)'
          BY <2>1, <2>3, <5>1, CaptureStays DEF Replaying
        <5> QED BY <2>1, <5>1, <5>2 DEF CursorOK
      <4> QED BY <2>1, <2>3, <4>1 DEF Replaying
    <3>3. \A t \in 1 .. Len(trace') : trace'[t].frame_index <= backend'[trace'[t].id].index
      BY <2>1, <2>3 DEF Replaying
    <3> QED BY <3>1, <3>2, <3>3 DEF Replaying, IInv
  <2>4. CASE Joining
    <3>1. ReaderOK'
      BY <2>1, <2>4, ReaderSame
    <3>2. Finished' = Finished /\ (Current' = Current) /\ (Reached(Current)' <=> Reached(Current))
      BY <2>1 DEF Finished, Current, Reached
    <3>3. RowsOK(rows', st', position', Finished') /\ ChunksOK(rows', chunks')
      BY <2>1, <2>4, <3>2 DEF Joining
    <3>4. /\ pc' \in {"next", "read", "match", "done"}
          /\ position' <= Len(capture) /\ traces_total' \in 0 .. Len(trace)
          /\ pc' \in {"read", "match"} => traces_total' # 0
          /\ pc' = "done" => traces_total' = Len(trace)
      BY <2>1, <2>4 DEF Joining
    <3>5. (pc = "match" => Reached(Current))' /\ (pc = "read" => ~Reached(Current))'
      BY <2>1, <2>4, <3>2 DEF Joining
    <3>6. Joining'
      BY <2>1, <2>4, <3>1, <3>3, <3>4, <3>5, JoinNext
    <3> QED BY <3>6 DEF IInv
  <2> QED BY <2>2, <2>3, <2>4 DEF IInv
<1>2. ASSUME NEW c \in Clients, Capture(c) PROVE IInv'
  <2>1. Recording
    BY <1>2 DEF Capture, IInv, Replaying, Joining
  <2> QED BY <1>2, <2>1, CaptureStep DEF IInv
<1>3. ASSUME NEW c \in Clients, Restore(c) PROVE IInv'
  <2>1. Replaying
    BY <1>3 DEF Restore, IInv, Recording, Joining
  <2> QED BY <1>3, <2>1, RestoreStep DEF IInv
<1>4. ASSUME NEW c \in Clients, Execute(c) PROVE IInv'
  <2>1. Replaying
    BY <1>4 DEF Execute, IInv, Recording, Joining
  <2> QED BY <1>4, <2>1, ExecuteStep DEF IInv
<1>5. ASSUME NEW c \in Clients, Trace(c) PROVE IInv'
  <2>1. Replaying
    BY <1>5 DEF Trace, IInv, Recording, Joining
  <2> QED BY <1>5, <2>1, TraceStep DEF IInv
<1>6. CASE EndCapture
  <2>1. Recording
    BY <1>6 DEF EndCapture, IInv, Replaying, Joining
  <2> QED BY <1>6, <2>1, EndCaptureStep DEF IInv
<1>7. CASE EndReplay
  <2>1. Replaying
    BY <1>7 DEF EndReplay, IInv, Recording, Joining
  <2> QED BY <1>7, <2>1, EndReplayStep DEF IInv
<1>8. CASE NextTrace
  <2>1. Joining
    BY <1>8 DEF NextTrace, IInv, Recording, Replaying
  <2> QED BY <1>8, <2>1, NextTraceStep DEF IInv
<1>9. CASE EndOfTrace
  <2>1. Joining
    BY <1>9 DEF EndOfTrace, IInv, Recording, Replaying
  <2> QED BY <1>9, <2>1, EndOfTraceStep DEF IInv
<1>10. CASE EndOfCapture
  <2>1. Joining
    BY <1>10 DEF EndOfCapture, IInv, Recording, Replaying
  <2> QED BY <1>10, <2>1, EndOfCaptureStep DEF IInv
<1>11. CASE ReadCapture
  <2>1. pc = "read"
    BY <1>11 DEF ReadCapture
  <2>2. Joining
    BY <2>1 DEF IInv, Recording, Replaying
  <2> QED BY <1>11, <2>2, ReadCaptureStep DEF IInv
<1>12. CASE OnTrace
  <2>1. pc = "match"
    BY <1>12 DEF OnTrace
  <2>2. Joining
    BY <2>1 DEF IInv, Recording, Replaying
  <2> QED BY <1>12, <2>2, OnTraceStep DEF IInv
<1> QED BY <1>1, <1>2, <1>3, <1>4, <1>5, <1>6, <1>7, <1>8, <1>9, <1>10, <1>11, <1>12 DEF Next

\* In every phase the reader's tables say of the messages read so far what the capture
\* says, the rows what the trace says of the records gone through (read_capture,
\* on_capture, on_trace).
THEOREM Invariance == Spec => []IInv
<1>1. Init => IInv
  BY InitIInv
<1>2. IInv /\ [Next]_vars => IInv'
  BY NextIInv
<1> QED BY <1>1, <1>2, PTL DEF Spec

\* The files and tables hold what they should, and no counter runs ahead of what has
\* been read: the numbers kept for a client end at its frame_index.
THEOREM TypeCorrect == Spec => []TypeOK
<1>1. IInv => TypeOK
  BY TypesHold
<1> QED BY <1>1, Invariance, PTL

\* analyze gives every record of the trace the text and the time of the statement that
\* the server was running when it wrote it, and leaves none out: whatever clients, texts,
\* names and portals the capture mixes, and whatever order their records come in.
THEOREM RowsAttributed == Spec => []Attributed
<1>1. IInv => Attributed
  BY JoinHolds
<1> QED BY <1>1, Invariance, PTL

\* The chunks of write_trace serve chunk_row_range: their ranges follow each other and
\* hold every row, and the bar of a chunk leads to the row that gave it its height.
THEOREM ChunksHold == Spec => []ChunksServe
<1>1. IInv => ChunksServe
  BY JoinHolds
<1> QED BY <1>1, Invariance, PTL

\* The parameters stay where they are said to be.
LEMMA ParamsInvariant == Spec => []ParamsKept
<1>1. Init => ParamsKept
  <2>1. Init => Fresh
    BY DEF Init, Fresh, FreshClient
  <2> QED BY <2>1, FreshKept
<1>2. IInv /\ IInv' /\ ParamsKept /\ [Next]_vars => ParamsKept'
  BY NextKept
<1> QED BY <1>1, <1>2, Invariance, PTL DEF Spec

\* post_queries answers with the entries that lie at the offsets of the rows, and
\* parseQueries takes the answer apart into them; read_params finds the parameters of
\* each row under its text.  An offset of 2^24 or more would need bytes that Value does
\* not tell apart, so the file of the texts is taken to be shorter (Huge).
THEOREM ServedHolds == Spec => [](Len(st.queries) < Huge => Served)
<1>1. IInv /\ ParamsKept => (Len(st.queries) < Huge => Served)
  BY ServedRight
<1> QED BY <1>1, Invariance, ParamsInvariant, PTL
=============================================================================
