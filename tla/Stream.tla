------------------------------- MODULE Stream -------------------------------
(***************************************************************************)
(* The byte queue of the replay (utils.rs): data holds the bytes from the   *)
(* absolute offset data_offset on; the ones before read_offset are garbage, *)
(* which compact drops once there is more of it than compact_threshold.     *)
(***************************************************************************)
EXTENDS Integers, Sequences

\* Stream::new
Stream(threshold) ==
  [data |-> <<>>, compact_threshold |-> threshold,
   data_offset |-> 0, read_offset |-> 0, committed_offset |-> 0]

\* Stream::data: what has been written and not read yet.
Data(s) ==
  SubSeq(s.data, s.read_offset - s.data_offset + 1,
                 s.committed_offset - s.data_offset)

\* Stream::write
Written(s, bytes) ==
  [s EXCEPT !.data = @ \o bytes,
            !.committed_offset = s.data_offset + Len(s.data) + Len(bytes)]

\* Faulty variant: what is dropped is not counted.
Compacted_Uncounted(s) ==
  LET garbage_size == s.read_offset - s.data_offset IN
  IF garbage_size > s.compact_threshold
    THEN [s EXCEPT !.data = SubSeq(@, garbage_size + 1, Len(@))]
    ELSE s

\* Stream::compact
Compacted(s) ==
  LET garbage_size == s.read_offset - s.data_offset IN
  IF garbage_size > s.compact_threshold
    THEN [s EXCEPT !.data = SubSeq(@, garbage_size + 1, Len(@)),
                   !.data_offset = s.read_offset]
    ELSE s

\* Stream::mark_read
MarkedRead(s, n) ==
  LET end == s.data_offset + Len(s.data)
      to  == s.read_offset + n
  IN  Compacted([s EXCEPT !.read_offset = IF to <= end THEN to ELSE end])

\* Stream::mark_read_all
MarkedReadAll(s) == Compacted([s EXCEPT !.read_offset = s.committed_offset])
=============================================================================
