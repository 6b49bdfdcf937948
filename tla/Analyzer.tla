------------------------------ MODULE Analyzer ------------------------------
(***************************************************************************)
(* pgr analyze: joins a capture with the trace that the server wrote while  *)
(* the capture was replayed, and writes the files the viewer serves.        *)
(*                                                                         *)
(* A trace record names the replayed client and the number of the statement *)
(* its backend was executing (StatementIndex, hooks.c).  The analyzer       *)
(* numbers the captured messages of each client the same way and looks the  *)
(* statement of a record up by that number, reading the capture no further  *)
(* than it must.                                                            *)
(*                                                                         *)
(* Three phases: the capture is recorded, it is replayed and traced, the    *)
(* two files are joined.  A text is one byte, times are small numbers.      *)
(***************************************************************************)
EXTENDS Integers, SequencesExt, Storage

CONSTANTS Clients,
          Restored,     \* clients whose Connect names a saved session
          Kinds,        \* bound: the kinds of messages that are captured
          Queries,      \* texts
          Types,        \* the parameter types of a Parse
          Names,        \* of prepared statements and portals
          Arities,      \* numbers of parameters
          None,         \* no offset (NO_PARAMS), no entry of a map
          StartTs,      \* when the capture started
          MaxTs,        \* bound: the times of messages
          ChunkTs,      \* the length of a chunk
          Durations,
          MaxMessages,  \* bound: messages of the capture
          MaxTraces     \* bound: records of the trace

AllKinds == {"SimpleQuery", "Parse", "Bind", "Execute", "Sync"}

ASSUME AnalyzerAssumption ==
  /\ Restored \subseteq Clients /\ Kinds \subseteq AllKinds
  /\ None \notin Nat \cup [query : Nat, params : Nat]
  /\ Types \in Seq(Nat) /\ Len(Types) < 65536     \* counted in two bytes
  /\ Arities \subseteq Nat /\ Durations \subseteq Nat
  /\ StartTs \in Nat /\ MaxTs \in Nat /\ ChunkTs \in Nat \ {0}
  /\ MaxMessages \in Nat /\ MaxTraces \in Nat

VARIABLES capture,        \* the file: messages in the order they were pushed
          trace,          \* the file: records in the order they were pushed
          backend,        \* of each client in the replay
          pc,
          traces_total,   \* trace records taken
          position,       \* capture messages read
          clients,        \* AnalyzeClient of each client
          st,             \* what StorageWriter has written of texts and parameters
          rows, chunks    \* history: a row names the trace record it was made of

files  == <<capture, trace>>
writer == <<st, rows, chunks>>
vars   == <<capture, trace, backend, pc, traces_total, position, clients, writer>>

NoBackend == [c \in Clients |-> [position |-> 0, index |-> 0, cause |-> 0]]

Init ==
  /\ capture = <<>> /\ trace = <<>>
  /\ backend = NoBackend
  /\ pc = "record"
  /\ traces_total = 0 /\ position = 0
  /\ clients = [c \in Clients |->
       [frame_index |-> 0, queries |-> <<>>,
        statements |-> [n \in Names |-> None],
        portals |-> [n \in Names |-> None]]]
  /\ st = NewStorage
  /\ rows = <<>> /\ chunks = <<>>

----------------------------------------------------------------------------
(* The recording.  Messages of one client have times in order; those of     *)
(* different clients are pushed in any order (a backend stamps a message,   *)
(* and may keep it for the rest of a transaction, before it pushes it).     *)

Of(c) == SelectSeq(capture, LAMBDA m : m.id = c)

Body ==
       [kind : {"SimpleQuery"}, query : Queries]
  \cup [kind : {"Parse"}, name : Names, query : Queries]
  \cup [kind : {"Bind"}, portal : Names, name : Names, params : Arities]
  \cup [kind : {"Execute"}, portal : Names]
  \cup [kind : {"Sync"}]

Capture(c) ==
  /\ pc = "record" /\ Len(capture) < MaxMessages
  /\ \E body \in {b \in Body : b.kind \in Kinds}, ts \in 0..MaxTs :
       /\ Of(c) # <<>> => Last(Of(c)).ts <= ts
       /\ capture' = Append(capture, [id |-> c, ts |-> ts, body |-> body])
  /\ UNCHANGED <<trace, backend, pc, traces_total, position, clients, writer>>

EndCapture ==
  /\ pc = "record"
  /\ pc' = "replay"
  /\ UNCHANGED <<files, backend, traces_total, position, clients, writer>>

----------------------------------------------------------------------------
(* The replay.  A backend counts the messages that run something; cause is  *)
(* the captured message it counts, 0 for the restoring statement that the   *)
(* utility sends first to a client with a session.                          *)

Counted(m) == m.body.kind # "Sync"

Restore(c) ==
  /\ pc = "replay" /\ c \in Restored /\ backend[c].index = 0
  /\ backend' = [backend EXCEPT ![c].index = 1]
  /\ UNCHANGED <<files, pc, traces_total, position, clients, writer>>

\* StatementIndex++ in the hooks of the messages.
Execute(c) ==
  /\ pc = "replay"
  /\ c \in Restored => backend[c].index > 0
  /\ \E p \in 1..Len(capture) :
       /\ capture[p].id = c /\ p > backend[c].position
       /\ \A q \in 1..(p - 1) : capture[q].id = c => q <= backend[c].position
       /\ backend' = [backend EXCEPT ![c] =
            [position |-> p,
             index |-> IF Counted(capture[p]) THEN @.index + 1 ELSE @.index,
             cause |-> IF Counted(capture[p]) THEN p ELSE @.cause]]
  /\ UNCHANGED <<files, pc, traces_total, position, clients, writer>>

\* send_trace_event: parsing, planning, starting, running, ending a transaction.
Trace(c) ==
  /\ pc = "replay" /\ backend[c].index > 0 /\ Len(trace) < MaxTraces
  /\ \E d \in Durations :
       trace' = Append(trace, [id |-> c, frame_index |-> backend[c].index,
                               duration |-> d, cause |-> backend[c].cause])
  /\ UNCHANGED <<capture, backend, pc, traces_total, position, clients, writer>>

\* The connections end, and the backends with them.
EndReplay ==
  /\ pc = "replay"
  /\ pc' = "next"
  /\ backend' = NoBackend
  /\ UNCHANGED <<files, traces_total, position, clients, writer>>

----------------------------------------------------------------------------
(* The join.                                                               *)

Current == trace[traces_total]
Reached(record) == clients[record.id].frame_index >= record.frame_index

NextTrace ==
  /\ pc = "next" /\ traces_total < Len(trace)
  /\ traces_total' = traces_total + 1
  /\ pc' = IF Reached(trace[traces_total + 1]) THEN "match" ELSE "read"
  /\ UNCHANGED <<files, backend, position, clients, writer>>

\* The end of the trace: the writer is finished.
EndOfTrace ==
  /\ pc = "next" /\ traces_total = Len(trace)
  /\ pc' = "done"
  /\ UNCHANGED <<files, backend, traces_total, position, clients, writer>>

\* The record stays without a row.
EndOfCapture ==
  /\ pc = "read" /\ position = Len(capture)
  /\ pc' = "next"
  /\ UNCHANGED <<files, backend, traces_total, position, clients, writer>>

\* Saturating: messages kept by a transaction may be older than the capture.
Rel(ts) == IF ts > StartTs THEN ts - StartTs ELSE 0

Text(query) == <<query>>

\* The parameters of a Bind: every second one is NULL.  It has one result format.
Params(arity) ==
  [i \in 1 .. arity |-> [type_oid |-> 23, value |-> IF i % 2 = 1 THEN <<i>> ELSE Null]]
Formats == <<1>>

Info(c, offset, params, ts) ==
  [index |-> clients[c].frame_index + 1, offset |-> offset,
   params_offset |-> params, ts |-> Rel(ts)]

\* read_event in the loop of analyze: up to the message the record needs.
Continue(m) ==
  pc' = IF m.id = Current.id
           /\ clients'[m.id].frame_index >= Current.frame_index
        THEN "match" ELSE "read"

Reading(m) ==
  /\ pc = "read" /\ position < Len(capture)
  /\ m = capture[position + 1]
  /\ position' = position + 1
  /\ Continue(m)
  /\ UNCHANGED <<files, backend, traces_total, rows, chunks>>

\* on_capture counts the message and keeps its statement for the records to come.
Keeping(client, info) ==
  [client EXCEPT !.frame_index = client.frame_index + 1,
                 !.queries = Append(client.queries, info)]

\* SimpleQuery and Parse: the text gets an entry, Parse names it.
Named(m, offset) ==
  IF m.body.kind = "Parse" THEN [clients[m.id].statements EXCEPT ![m.body.name] = offset]
  ELSE clients[m.id].statements

ReadText(m) ==
  /\ m.body.kind \in {"SimpleQuery", "Parse"}
  /\ st' = MapQuery(st, Text(m.body.query), IF m.body.kind = "Parse" THEN Types ELSE <<>>)
  /\ LET offset == OffsetOf(st', Text(m.body.query))
     IN  clients' = [clients EXCEPT ![m.id] =
           [Keeping(clients[m.id], Info(m.id, offset, None, m.ts))
              EXCEPT !.statements = Named(m, offset)]]
  /\ Reading(m)

Bound(m, offset) ==
  [clients[m.id].portals EXCEPT ![m.body.portal] =
     [query |-> offset, params |-> st.params_offset]]

ReadBind(m) ==
  /\ m.body.kind = "Bind" /\ clients[m.id].statements[m.body.name] # None
  /\ LET offset == clients[m.id].statements[m.body.name]
     IN  /\ clients' = [clients EXCEPT ![m.id] =
              [Keeping(clients[m.id], Info(m.id, offset, st.params_offset, m.ts))
                 EXCEPT !.portals = Bound(m, offset)]]
         /\ st' = WriteParams(st, offset, Params(m.body.params), Formats)
  /\ Reading(m)

ReadExecute(m) ==
  /\ m.body.kind = "Execute" /\ clients[m.id].portals[m.body.portal] # None
  /\ LET portal == clients[m.id].portals[m.body.portal]
     IN  clients' = [clients EXCEPT ![m.id] =
           Keeping(clients[m.id], Info(m.id, portal.query, portal.params, m.ts))]
  /\ Reading(m)
  /\ UNCHANGED st

\* A statement or portal the capture does not introduce: counted, not kept.
\* Faulty variant: it is counted when it is read and again when it is not found.
NumberAfter_Twice(m) == clients[m.id].frame_index + 2
NumberAfter(m) == clients[m.id].frame_index + 1
ReadUnknown(m) ==
  /\ \/ m.body.kind = "Bind" /\ clients[m.id].statements[m.body.name] = None
     \/ m.body.kind = "Execute" /\ clients[m.id].portals[m.body.portal] = None
  /\ clients' = [clients EXCEPT ![m.id].frame_index = NumberAfter(m)]
  /\ Reading(m)
  /\ UNCHANGED st

ReadOther(m) ==
  /\ m.body.kind = "Sync"
  /\ UNCHANGED clients
  /\ Reading(m)
  /\ UNCHANGED st

ReadCapture ==
  /\ pc = "read" /\ position < Len(capture)
  /\ LET m == capture[position + 1]
     IN  \/ ReadText(m) \/ ReadBind(m) \/ ReadExecute(m)
         \/ ReadUnknown(m) \/ ReadOther(m)

\* on_trace drops the statements in front that come before the one it looks for.
Remaining(c, index) ==
  LET queries == clients[c].queries
      after == {k \in DOMAIN queries : queries[k].index >= index}
  IN  IF after = {} THEN <<>> ELSE SubSeq(queries, Min(after), Len(queries))

\* A statement that got its row stays: other records may follow for it.
\* Faulty variant: it is dropped.
Kept_Popped(left) == IF left = <<>> THEN left ELSE Tail(left)
Kept(left) == left

\* Faulty variant: the statement in front is taken without a look at its number.
Matches_Front(info, index) == TRUE
Matches(info, index) == info.index = index

\* The chunks after a row: missing ones start at this row.
\* Faulty variant: they start after it.
Resized_Late(chunk) ==
  chunks \o [k \in 1..(chunk + 1 - Len(chunks)) |-> [peak |-> 0, start |-> Len(rows) + 1]]
Resized(chunk) ==
  chunks \o [k \in 1..(chunk + 1 - Len(chunks)) |-> [peak |-> 0, start |-> Len(rows)]]

Peak(old, d) == IF d > old THEN d ELSE old

\* Row of the first statement left, if it is the one of the record.
OnTrace ==
  LET c == Current.id
      left == Remaining(c, Current.frame_index)
      info == Head(left)
      chunk == info.ts \div ChunkTs
  IN  /\ pc = "match"
      /\ clients' = [clients EXCEPT ![c].queries = Kept(left)]
      /\ IF left # <<>> /\ Matches(info, Current.frame_index)
         THEN /\ rows' = Append(rows,
                   [id |-> c, query_offset |-> info.offset,
                    params_offset |-> info.params_offset, ts |-> info.ts,
                    duration |-> Current.duration, record |-> traces_total])
              /\ chunks' = [Resized(chunk) EXCEPT ![chunk + 1].peak =
                              Peak(@, Current.duration)]
         ELSE UNCHANGED <<rows, chunks>>
      /\ pc' = "next"
      /\ UNCHANGED <<files, backend, traces_total, position,
                     st>>

Next ==
  \/ \E c \in Clients : Capture(c) \/ Restore(c) \/ Execute(c) \/ Trace(c)
  \/ EndCapture \/ EndReplay
  \/ NextTrace \/ EndOfTrace \/ EndOfCapture \/ ReadCapture \/ OnTrace

Spec == Init /\ [][Next]_vars

----------------------------------------------------------------------------
(* What the viewer is given: chunk_row_range of viewer.rs, chunks numbered   *)
(* from 0, rows as an interval that excludes its end.                        *)

StartRow(k) == chunks[k + 1].start
ChunkRowRange(from, to) ==
  LET last == Len(chunks) - 1
  IN  IF chunks = <<>> THEN <<0, 0>>
      ELSE <<StartRow(Min({from, last})),
             IF to < last THEN StartRow(to + 1) ELSE Len(rows)>>

----------------------------------------------------------------------------
(* What a row should say, from the capture alone.                           *)

Before(p, kind) ==
  {q \in 1..(p - 1) : capture[q].id = capture[p].id /\ capture[q].body.kind = kind}

\* The message that gave the statement its text, the binding of the portal.
ParseOf(p) == LET S == {q \in Before(p, "Parse") : capture[q].body.name = capture[p].body.name}
              IN  IF S = {} THEN 0 ELSE Max(S)
BindOf(p) == LET S == {q \in Before(p, "Bind") :
                         capture[q].body.portal = capture[p].body.portal /\ ParseOf(q) # 0}
             IN  IF S = {} THEN 0 ELSE Max(S)

\* The message whose text a captured message runs, 0 when the capture lacks it.
Source(p) ==
  CASE capture[p].body.kind \in {"SimpleQuery", "Parse"} -> p
    [] capture[p].body.kind = "Bind"    -> ParseOf(p)
    [] capture[p].body.kind = "Execute" -> IF BindOf(p) = 0 THEN 0 ELSE ParseOf(BindOf(p))

\* Types: files hold what they should, what is counted never exceeds what is read.
TypeOK ==
  /\ \A p \in DOMAIN capture :
       capture[p].id \in Clients /\ capture[p].ts \in 0..MaxTs /\ capture[p].body \in Body
  /\ trace \in Seq([id : Clients, frame_index : Nat \ {0}, duration : Durations, cause : Nat])
  /\ backend \in [Clients -> [position : 0..Len(capture), index : Nat, cause : 0..Len(capture)]]
  /\ pc \in {"record", "replay", "next", "read", "match", "done"}
  /\ traces_total \in 0..Len(trace) /\ position \in 0..Len(capture)
  /\ \A c \in Clients :
       /\ clients[c].frame_index <= position
       /\ \A n \in Names :
            clients[c].statements[n] \in {None} \cup {e.offset : e \in Range(st.query_map)}
       /\ \A i \in DOMAIN clients[c].queries :
            clients[c].queries[i].index <= clients[c].frame_index
  /\ st.query_offset = Len(st.queries) /\ st.params_offset <= Len(st.params)

\* A row shows the text of the statement the server was running when it wrote the
\* record (on_trace looks it up by number), at the time that was captured.  Only
\* for clients without a saved session: the restoring statement of the others is
\* counted by their backend and not by on_capture.
RowsTell ==
  \A i \in DOMAIN rows : rows[i].id \notin Restored =>
    LET p == trace[rows[i].record].cause
    IN  /\ p # 0 /\ Source(p) # 0
        /\ ReadQuery(st.queries, rows[i].query_offset).text
             = Text(capture[Source(p)].body.query)
        /\ rows[i].ts = Max({0, capture[p].ts - StartTs})

\* Rows are in the order of the trace, one for every record of such a client for a
\* statement whose text the capture has, however the records of several clients
\* mix (the loop of analyze reads ahead for one client and keeps what it reads for
\* the others).
NothingLost ==
  /\ \A i, j \in DOMAIN rows : i < j => rows[i].record < rows[j].record
  /\ pc = "done" =>
       \A t \in DOMAIN trace : trace[t].id \notin Restored =>
         (Source(trace[t].cause) # 0 <=> \E i \in DOMAIN rows : rows[i].record = t)

\* The join of trace and capture: every record of a client becomes one row, and the
\* row tells the statement it was written for, however the two files mix clients.
Attributed == RowsTell /\ NothingLost

\* The ranges the viewer serves chunk by chunk follow each other and leave no row
\* out, and no row of a chunk lies before the chunk (write_trace, chunk_row_range).
ChunksTile ==
  pc = "done" /\ rows # <<>> =>
    LET last == Len(chunks) - 1
    IN  /\ ChunkRowRange(0, last) = <<0, Len(rows)>>
        /\ \A k \in 0..(last - 1) :
             /\ ChunkRowRange(k, k)[2] = ChunkRowRange(k + 1, k + 1)[1]
             /\ StartRow(k) <= StartRow(k + 1)
        /\ \A i \in DOMAIN rows : i - 1 >= StartRow(rows[i].ts \div ChunkTs)

\* When the rows are in the order of their times, selecting a bar of the chart
\* fetches the longest row of its chunk, and the bar has its height (selectChunk
\* asks for the chunks around it, write_trace keeps the peak).
PeakFound ==
  LET InOrder == \A i \in 2..Len(rows) : rows[i - 1].ts <= rows[i].ts
      RowsOf(k) == {i \in DOMAIN rows : rows[i].ts \div ChunkTs = k}
  IN  pc = "done" /\ InOrder =>
        \A k \in 0..(Len(chunks) - 1) : RowsOf(k) # {} =>
          LET range == ChunkRowRange(Max({0, k - 1}), k + 1)
          IN  \E i \in RowsOf(k) :
                /\ i - 1 >= range[1] /\ i - 1 < range[2]
                /\ rows[i].duration = chunks[k + 1].peak
                /\ \A j \in RowsOf(k) : rows[j].duration <= rows[i].duration

\* The page is served the entries of its rows: an answer to a request for several
\* texts is taken apart into the entries that lie at their offsets, and the
\* parameters at an offset are those of the Bind that the row ran, under its text.
\* Only while no Bind had parameters: the types are counted as half of what is
\* written (write_params), and read as half of it (read_params, parseParams).
Served ==
  LET offsets == [i \in DOMAIN rows |-> rows[i].query_offset]
      answer == Answer(st.queries, offsets)
      NoParams == \A p \in 1 .. position :
                    capture[p].body.kind = "Bind" => capture[p].body.params = 0
  IN  pc = "done" /\ rows # <<>> =>
        /\ answer # Error
        /\ Parsed(answer.bytes, Len(rows))
             = [i \in DOMAIN rows |-> ReadQuery(st.queries, offsets[i])]
        /\ NoParams => \A i \in DOMAIN rows : rows[i].params_offset # None =>
             ReadParams(st.params, rows[i].params_offset)
               = [total |-> Len(ParamsBytes(offsets[i], <<>>, Formats)),
                  query |-> offsets[i], formats |-> <<>>, params |-> <<>>,
                  results |-> Formats]

\* The chunks serve the viewer: whatever order the rows come in, the ranges of the
\* chunks hold every row once, and rows in order of time are found by their bar.
ChunksServe == ChunksTile /\ PeakFound
=============================================================================
