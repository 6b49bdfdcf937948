------------------------------ MODULE Storage ------------------------------
(***************************************************************************)
(* The files of texts and of parameters that the analyzer writes            *)
(* (StorageWriter, analyzer.rs) and the viewer's server reads at an offset  *)
(* (viewer.rs), byte for byte: an offset is only good if what was counted   *)
(* is what was written, and if both sides agree on the layout.              *)
(*                                                                         *)
(* A byte is a number below 256, or a value of its own for a byte of text.  *)
(***************************************************************************)
EXTENDS Integers, SequencesExt

\* to_le_bytes: n bytes of v, which is below 2^31.
Weight == <<1, 256, 65536, 16777216>>
LE(n, v) == [k \in 1 .. n |-> IF k > 4 THEN 0 ELSE (v \div Weight[k]) % 256]

\* from_le_bytes of 2, 4 or 8 bytes.  No file is as long as Huge.
Huge == 16777216
Octets == 0 .. 255
Value(bytes) ==
  IF \E k \in DOMAIN bytes : bytes[k] \notin Octets \/ (k > 3 /\ bytes[k] # 0)
  THEN Huge
  ELSE IF Len(bytes) = 2 THEN bytes[1] + 256 * bytes[2]
  ELSE bytes[1] + 256 * bytes[2] + 65536 * bytes[3]

\* The n bytes of buf after the first idx, and their value.
Field(buf, idx, n) == SubSeq(buf, idx + 1, idx + n)
At(buf, idx, n) == Value(Field(buf, idx, n))

Null == <<255, 255, 255, 255>>     \* u32::MAX, the length of a NULL
Error == [total |-> 0]             \* an io::Error, or a panic of the handler

----------------------------------------------------------------------------
(* The writer.                                                             *)

NewStorage ==
  [queries |-> <<>>, query_offset |-> 0, query_map |-> <<>>,
   params |-> <<>>, params_offset |-> 0]

QueryBytes(text, types) ==
  LE(4, Len(text)) \o text \o LE(2, Len(types))
  \o FlattenSeq([i \in DOMAIN types |-> LE(4, types[i])])

\* Faulty variant: the number of types is written and not counted.
QuerySize_NoCount(text, types) == 4 + Len(text) + Len(types) * 4
QuerySize(text, types) == 4 + Len(text) + 2 + Len(types) * 4

\* map_query: texts that are equal share the entry of the first.
Mapped(st, text) == \E i \in DOMAIN st.query_map : st.query_map[i].text = text
OffsetOf(st, text) ==
  st.query_map[CHOOSE i \in DOMAIN st.query_map : st.query_map[i].text = text].offset

MapQuery(st, text, types) ==
  IF Mapped(st, text) THEN st
  ELSE [st EXCEPT
          !.queries = @ \o QueryBytes(text, types),
          !.query_map = Append(@, [text |-> text, offset |-> st.query_offset]),
          !.query_offset = @ + QuerySize(text, types)]

ParamBytes(value) == IF value = Null THEN Null ELSE LE(4, Len(value)) \o value

ParamsBytes(query_offset, params, formats) ==
  LE(8, query_offset)
  \o LE(2, Len(params)) \o FlattenSeq([i \in DOMAIN params |-> LE(4, params[i].type_oid)])
  \o LE(2, Len(params)) \o FlattenSeq([i \in DOMAIN params |-> ParamBytes(params[i].value)])
  \o LE(2, Len(formats)) \o FlattenSeq([i \in DOMAIN formats |-> LE(2, formats[i])])

\* The same, as counted: two bytes for a type.
ParamsSize(params, formats) ==
  8 + 2 + Len(params) * 2 + 2
  + Len(FlattenSeq([i \in DOMAIN params |-> ParamBytes(params[i].value)]))
  + 2 + Len(formats) * 2

\* write_params: the entry is at the offset before it.
WriteParams(st, query_offset, params, formats) ==
  [st EXCEPT
     !.params = @ \o ParamsBytes(query_offset, params, formats),
     !.params_offset = @ + ParamsSize(params, formats)]

----------------------------------------------------------------------------
(* The server: the entry that begins at an offset of a file.                *)

From(file, offset) == SubSeq(file, offset + 1, Len(file))

ReadQuery(file, offset) ==
  LET buf == From(file, offset)
      text_len == At(buf, 0, 4)
      after_text == 4 + text_len
      oid_count == At(buf, after_text, 2)
      total == after_text + 2 + oid_count * 4
  IN  IF offset > Len(file) \/ Len(buf) < 4 THEN Error
      ELSE IF Len(buf) < after_text + 2 THEN Error
      ELSE IF Len(buf) < total THEN Error
      ELSE [total |-> total,
            text |-> Field(buf, 4, text_len),
            oids |-> [i \in 1 .. oid_count |-> At(buf, after_text + 2 + (i - 1) * 4, 4)]]

\* One value of read_params, after the ones read so far.
ReadParam(buf, so_far) ==
  LET idx == so_far.idx
      len == Field(buf, idx, 4)
  IN  IF so_far = Error THEN Error
      ELSE IF Len(buf) < idx + 4 THEN Error
      ELSE IF len = Null
        THEN [idx |-> idx + 4, params |-> Append(so_far.params, Null)]
        ELSE [idx |-> idx + 4 + Value(len),
              params |-> Append(so_far.params, Field(buf, idx + 4, Value(len)))]

\* The n values that begin at idx.
ReadValues(buf, idx, n) ==
  LET read[i \in 0 .. n] ==
        IF i = 0 THEN [idx |-> idx, params |-> <<>>] ELSE ReadParam(buf, read[i - 1])
  IN  read[n]

ReadParams(file, offset) ==
  LET buf == From(file, offset)
      fmt_count == At(buf, 8, 2)
      idx == 10 + fmt_count * 2
      param_count == At(buf, idx, 2)
      values == ReadValues(buf, idx + 2, param_count)
      result_count == At(buf, values.idx, 2)
      total == values.idx + 2 + result_count * 2
  IN  IF offset > Len(file) \/ Len(buf) < 10 \/ Len(buf) < idx + 2 THEN Error
      ELSE IF Len(buf) < param_count * 4 \/ values = Error THEN Error
      ELSE IF Len(buf) < values.idx + 2 \/ Len(buf) < total THEN Error
      ELSE [total |-> total, query |-> At(buf, 0, 8),
            formats |-> [i \in 1 .. fmt_count |-> At(buf, 10 + (i - 1) * 2, 2)],
            params |-> values.params,
            results |-> [i \in 1 .. result_count |-> At(buf, values.idx + 2 + (i - 1) * 2, 2)]]

\* post_queries: a request is answered with all its entries or with none.
Answer(file, offsets) ==
  LET entries == [i \in DOMAIN offsets |-> ReadQuery(file, offsets[i])]
  IN  IF \E i \in DOMAIN offsets : entries[i] = Error THEN Error
      ELSE [bytes |-> FlattenSeq([i \in DOMAIN offsets |->
                        Field(From(file, offsets[i]), 0, entries[i].total)])]

\* parseQueries: the n entries of an answer, one after the other.
Parsed(bytes, n) ==
  LET read[i \in 0 .. n] ==
        IF i = 0 THEN [pos |-> 0, entries |-> <<>>]
        ELSE LET entry == ReadQuery(bytes, read[i - 1].pos)
             IN  [pos |-> read[i - 1].pos + entry.total,
                  entries |-> Append(read[i - 1].entries, entry)]
  IN  read[n].entries
=============================================================================
