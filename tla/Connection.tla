----------------------------- MODULE Connection -----------------------------
(***************************************************************************)
(* One connection of the replay, from connect_client to drop_slot: the      *)
(* client's state and streams (client.rs, proto.rs, utils.rs), the read and *)
(* write loops of the event loop over a non-blocking socket (loop.rs), the  *)
(* kernel's bounded buffers and its edge-triggered events, and the server.  *)
(*                                                                         *)
(* A byte is a cell <<tag, k>>: the k-th of a frame of that tag.  A frame   *)
(* is HeaderLen cells, of which the first is the tag and the last holds the *)
(* length, and BodyLen cells of body.  "auth_pass" stands for the requests  *)
(* of a clear-text and of an md5 password, "other" for the frames the       *)
(* client does nothing about.                                               *)
(***************************************************************************)
EXTENDS Integers, Sequences, FiniteSets, Stream

ToServer == {"startup", "pass", "block", "plain", "term"}
ToClient == {"auth_ok", "auth_pass", "auth_other", "Z", "E", "other"}
Tags == ToServer \cup ToClient

CONSTANTS HeaderLen,         \* 5, shortened
          BodyLen,           \* the length of the body, by tag
          ReadBuf,           \* READ_BUF_SIZE
          Threshold,         \* the compact_threshold of the streams
          NetCap,            \* the socket's buffers
          HasPassword,       \* config.password is given
          Failures,          \* "socket", "refuse", "drop", "reset", "spurious"
          MaxCmds,           \* bound: commands replayed
          MaxSaid            \* bound: cells the server says unasked

ASSUME ConnectionAssumption ==
  /\ HeaderLen \in Nat \ {0} /\ BodyLen \in [Tags -> Nat]
  /\ ReadBuf \in Nat \ {0} /\ Threshold \in Nat /\ NetCap \in Nat \ {0}
  /\ HasPassword \in BOOLEAN
  /\ MaxCmds \in Nat /\ MaxSaid \in Nat

VARIABLES conn, lpc, cmd,                            \* the loop: slot.conn, control
          connected, awaiting, write_stream,         \* Connection and Slot
          state, sent_terminate, rfq,                \* ReplayClient
          parse_stream, outbox,
          tcp, net_in, net_out, edge, nospace, fin,  \* the kernel
          spc, srv_in, srv_out,                      \* the server
          queued, frames, rcvd, said, handled, cmds  \* history

ctl == <<conn, lpc, cmd>>
cli == <<state, sent_terminate, rfq, parse_stream, outbox>>
slt == <<connected, awaiting, write_stream>>
net == <<tcp, net_in, net_out, edge, nospace, fin>>
srv == <<spc, srv_in, srv_out, rcvd, said>>
vars == <<ctl, cli, slt, net, srv, queued, frames, handled, cmds>>

FrameLen(tag) == HeaderLen + BodyLen[tag]
Frame(tag) == [k \in 1 .. FrameLen(tag) |-> <<tag, k>>]
Cells == Tags \X Nat

Init ==
  /\ conn = "none" /\ lpc = "poll" /\ cmd = "none"
  /\ connected = FALSE /\ awaiting = FALSE /\ write_stream = Stream(Threshold)
  /\ state = "Connecting" /\ sent_terminate = FALSE /\ rfq = FALSE
  /\ parse_stream = Stream(Threshold) /\ outbox = Stream(Threshold)
  /\ tcp = "closed" /\ net_in = <<>> /\ net_out = <<>>
  /\ edge = FALSE /\ nospace = FALSE /\ fin = FALSE
  /\ spc = "startup" /\ srv_in = <<>> /\ srv_out = <<>>
  /\ queued = <<>> /\ frames = <<>> /\ rcvd = <<>> /\ said = <<>> /\ handled = <<>>
  /\ cmds = <<>>

----------------------------------------------------------------------------
(* The client.                                                             *)

SendFrame(tag) ==
  /\ outbox' = Written(outbox, Frame(tag))
  /\ queued' = queued \o Frame(tag) /\ frames' = Append(frames, tag)

NoFrame == [tag |-> "none", len |-> 0]

\* Faulty variant: the length does not count the tag.
TryReadFrame_Len(buf) ==
  LET len == FrameLen(buf[HeaderLen][1]) - 1 IN
  IF Len(buf) < HeaderLen THEN NoFrame
  ELSE IF Len(buf) < len THEN NoFrame
  ELSE [tag |-> IF buf[1][2] = 1 THEN buf[1][1] ELSE "other", len |-> len]

\* try_read_frame: the tag and the length of a frame that has come as a whole.
\* A tag that is read where no frame starts is anything.
TryReadFrame(buf) ==
  LET len == FrameLen(buf[HeaderLen][1]) IN
  IF Len(buf) < HeaderLen THEN NoFrame
  ELSE IF Len(buf) < len THEN NoFrame
  ELSE [tag |-> IF buf[1][2] = 1 THEN buf[1][1] ELSE "other", len |-> len]

\* handle_auth: a password is sent if there is one, everything else is the end.
HandleAuth(tag) ==
  \/ /\ tag = "auth_pass" /\ HasPassword
     /\ SendFrame("pass")
     /\ UNCHANGED state
  \/ /\ tag = "auth_other" \/ (tag = "auth_pass" /\ ~HasPassword)
     /\ state' = "Dead"
     /\ UNCHANGED <<outbox, queued, frames>>
  \/ /\ tag = "auth_ok"
     /\ UNCHANGED <<state, outbox, queued, frames>>

\* handle_frame, for what parse_message makes of the frame.
HandleFrame(tag) ==
  \/ /\ state = "Connecting" /\ HandleAuth(tag)
     /\ UNCHANGED rfq
  \/ /\ tag = "Z"
     /\ state' = "Normal" /\ rfq' = TRUE
     /\ UNCHANGED <<outbox, queued, frames>>
  \/ /\ tag \in {"E", "other"}
       \/ (state = "Normal" /\ tag \in {"auth_ok", "auth_pass", "auth_other"})
     /\ UNCHANGED <<state, rfq, outbox, queued, frames>>

----------------------------------------------------------------------------
(* The loop: connect_client, an event, read_conn, flush_conn, execute.     *)

ConnectClient ==
  /\ conn = "none"
  /\ \/ /\ conn' = "open" /\ tcp' = "opening"
        /\ SendFrame("startup")
        /\ awaiting' = TRUE
     \/ /\ "socket" \in Failures
        /\ conn' = "dropped"
        /\ UNCHANGED <<tcp, outbox, queued, frames, awaiting>>
  /\ UNCHANGED <<lpc, cmd, connected, write_stream, state, sent_terminate, rfq,
                 parse_stream, net_in, net_out, edge, nospace, fin, srv, handled,
                 cmds>>

\* drop_slot: the socket is closed, with a reset if there is something unread.
DropSlot ==
  /\ conn' = "dropped"
  /\ tcp' = IF net_in # <<>> /\ tcp = "open" THEN "reset" ELSE tcp

\* handle_event, up to read_conn.
Event ==
  /\ lpc = "poll" /\ conn = "open" /\ edge
  /\ edge' = FALSE
  /\ \/ /\ ~connected /\ tcp = "opening"
        /\ UNCHANGED <<conn, lpc, cmd, connected, tcp>>
     \/ /\ ~connected /\ tcp \in {"refused", "reset"}
        /\ DropSlot
        /\ UNCHANGED <<lpc, cmd, connected>>
     \/ /\ connected \/ tcp = "open"
        /\ connected' = TRUE
        /\ lpc' = "read" /\ cmd' = "event"
        /\ UNCHANGED <<conn, tcp>>
  /\ UNCHANGED <<awaiting, write_stream, cli, net_in, net_out, nospace, fin, srv,
                 queued, frames, handled, cmds>>

\* read_conn: one read.
Read ==
  /\ lpc = "read"
  /\ \/ /\ tcp # "reset" /\ net_in # <<>>
        /\ LET n == IF Len(net_in) < ReadBuf THEN Len(net_in) ELSE ReadBuf
           IN  /\ parse_stream' = Written(parse_stream, SubSeq(net_in, 1, n))
               /\ net_in' = SubSeq(net_in, n + 1, Len(net_in))
        /\ lpc' = "parse"
        /\ UNCHANGED state
     \/ /\ tcp # "reset" /\ net_in = <<>> /\ ~fin
        /\ lpc' = "flush"
        /\ UNCHANGED <<state, parse_stream, net_in>>
     \/ /\ tcp = "reset" \/ (net_in = <<>> /\ fin)
        /\ state' = "Dead"
        /\ lpc' = "flush"
        /\ UNCHANGED <<parse_stream, net_in>>
  /\ UNCHANGED <<conn, cmd, slt, sent_terminate, rfq, outbox, tcp, net_out, edge,
                 nospace, fin, srv, queued, frames, handled, cmds>>

\* Faulty variant: one read for each event, as if events were level-triggered.
AfterChunk_Once == "flush"
\* read_conn goes on until a read finds nothing: events are edge-triggered.
AfterChunk == "read"

\* on_read: the next frame of the bytes that have come.
Parse ==
  /\ lpc = "parse"
  /\ LET buf == Data(parse_stream)
         frame == TryReadFrame(buf)
     IN  \/ /\ frame = NoFrame
            /\ lpc' = AfterChunk
            /\ UNCHANGED <<state, rfq, parse_stream, outbox, queued, frames,
                           handled>>
         \/ /\ frame # NoFrame
            /\ HandleFrame(frame.tag)
            /\ parse_stream' = MarkedRead(parse_stream, frame.len)
            /\ handled' = handled \o SubSeq(buf, 1, frame.len)
            /\ lpc' = IF state' = "Dead" THEN "flush" ELSE "parse"
  /\ UNCHANGED <<conn, cmd, slt, sent_terminate, net, srv, cmds>>

\* flush_conn, before its loop.
Flush ==
  /\ lpc = "flush"
  /\ write_stream' = Written(write_stream, Data(outbox))
  /\ outbox' = MarkedReadAll(outbox)
  /\ lpc' = "write"
  /\ UNCHANGED <<conn, cmd, connected, awaiting, state, sent_terminate, rfq,
                 parse_stream, net, srv, queued, frames, handled, cmds>>

\* flush_conn: one write.
Write ==
  /\ lpc = "write"
  /\ LET buf == Data(write_stream)
         space == NetCap - Len(net_out)
         n == IF Len(buf) < space THEN Len(buf) ELSE space
     IN  \/ /\ buf = <<>>
            /\ lpc' = "done"
            /\ UNCHANGED <<state, write_stream, net_out, nospace>>
         \/ /\ buf # <<>> /\ tcp = "reset"
            /\ state' = "Dead"
            /\ lpc' = "done"
            /\ UNCHANGED <<write_stream, net_out, nospace>>
         \/ /\ buf # <<>> /\ tcp # "reset" /\ space = 0
            /\ nospace' = TRUE
            /\ lpc' = "done"
            /\ UNCHANGED <<state, write_stream, net_out>>
         \/ /\ buf # <<>> /\ tcp # "reset" /\ space > 0
            /\ net_out' = net_out \o SubSeq(buf, 1, n)
            /\ write_stream' = MarkedRead(write_stream, n)
            /\ UNCHANGED <<state, lpc, nospace>>
  /\ UNCHANGED <<conn, cmd, connected, awaiting, sent_terminate, rfq, parse_stream,
                 outbox, tcp, net_in, edge, fin, srv, queued, frames, handled,
                 cmds>>

\* handle_event and execute, after flush_conn.
Done ==
  /\ lpc = "done"
  /\ lpc' = "poll"
  /\ awaiting' = IF cmd = "event" THEN awaiting /\ ~rfq ELSE cmd = "block"
  /\ rfq' = IF cmd = "event" THEN FALSE ELSE rfq
  /\ \/ /\ state = "Dead"
        /\ DropSlot
     \/ /\ state # "Dead"
        /\ UNCHANGED <<conn, tcp>>
  /\ UNCHANGED <<cmd, connected, write_stream, state, sent_terminate, parse_stream,
                 outbox, net_in, net_out, edge, nospace, fin, srv, queued, frames,
                 handled, cmds>>

\* What the capture can hold next: nothing but its end follows Terminate.
Commands ==
  IF \E i \in DOMAIN cmds : cmds[i] = "end" THEN {}
  ELSE IF \E i \in DOMAIN cmds : cmds[i] = "term" THEN {"end"}
  ELSE {"block", "plain", "term", "end"}

\* Faulty variant: Terminate is not remembered.
ReplayFrame_Forgets(tag) ==
  IF state = "Normal"
    THEN SendFrame(tag) /\ UNCHANGED sent_terminate
    ELSE UNCHANGED <<sent_terminate, outbox, queued, frames>>

\* replay_frame
ReplayFrame(tag) ==
  IF state = "Normal"
    THEN /\ sent_terminate' = (sent_terminate \/ tag = "term")
         /\ SendFrame(tag)
    ELSE UNCHANGED <<sent_terminate, outbox, queued, frames>>

\* execute of a Send or an End that try_dispatch has found due.
Execute(kind) ==
  /\ lpc = "poll" /\ conn = "open" /\ ~awaiting
  /\ Len(cmds) < MaxCmds \/ kind = "end"
  /\ cmds' = Append(cmds, kind)
  /\ IF kind # "end" THEN ReplayFrame(kind)
     ELSE IF sent_terminate THEN UNCHANGED <<sent_terminate, outbox, queued, frames>>
     ELSE ReplayFrame("term")
  /\ lpc' = IF connected THEN "flush" ELSE "done"
  /\ cmd' = kind
  /\ UNCHANGED <<conn, slt, state, rfq, parse_stream, net, srv, handled>>

Loop ==
  \/ ConnectClient \/ Event \/ Read \/ Parse \/ Flush \/ Write \/ Done

----------------------------------------------------------------------------
(* The kernel and the server.                                              *)

Establish ==
  /\ tcp = "opening"
  /\ \/ tcp' = "open"
     \/ "refuse" \in Failures /\ tcp' = "refused"
  /\ edge' = TRUE
  /\ UNCHANGED <<ctl, cli, slt, net_in, net_out, nospace, fin, srv, queued, frames,
                 handled, cmds>>

\* An event of a connection that is not established yet.
Spurious ==
  /\ "spurious" \in Failures /\ tcp = "opening" /\ ~edge
  /\ edge' = TRUE
  /\ UNCHANGED <<ctl, cli, slt, tcp, net_in, net_out, nospace, fin, srv, queued,
                 frames, handled, cmds>>

\* The server reads, once it has written what it has to say.  The space it makes
\* is an event for a client that has been told there was none.
ServerRecv ==
  /\ tcp = "open" /\ spc # "closed" /\ srv_out = <<>> /\ net_out # <<>>
  /\ srv_in' = srv_in \o net_out
  /\ rcvd' = rcvd \o net_out
  /\ net_out' = <<>>
  /\ nospace' = FALSE
  /\ edge' = (edge \/ nospace)
  /\ UNCHANGED <<ctl, cli, slt, tcp, net_in, fin, spc, srv_out, said, queued,
                 frames, handled, cmds>>

\* What the server is in once it has taken a frame.
Taken(tag) ==
  CASE spc = "startup" /\ tag = "startup" -> "auth"
    [] spc = "password" /\ tag = "pass" -> "verify"
    [] spc = "ready" /\ tag = "block" -> "busy"
    [] spc = "ready" /\ tag = "plain" -> "ready"
    [] spc = "ready" /\ tag = "term" -> "closing"
    [] OTHER -> "confused"

ServerTake ==
  /\ spc \in {"startup", "password", "ready"}
  /\ srv_in # <<>> /\ Len(srv_in) >= FrameLen(srv_in[1][1])
  /\ spc' = Taken(srv_in[1][1])
  /\ srv_in' = SubSeq(srv_in, FrameLen(srv_in[1][1]) + 1, Len(srv_in))
  /\ UNCHANGED <<ctl, cli, slt, net, srv_out, rcvd, said, queued, frames, handled,
                 cmds>>

Say(tag, to) ==
  /\ srv_out' = srv_out \o Frame(tag)
  /\ said' = said \o Frame(tag)
  /\ spc' = to
  /\ UNCHANGED <<ctl, cli, slt, net, srv_in, rcvd, queued, frames, handled, cmds>>

ServerSay ==
  \/ spc = "auth" /\ Say("auth_pass", "password")
  \/ spc = "auth" /\ Say("auth_other", "password")
  \/ spc \in {"auth", "verify"} /\ Say("E", "closing")
  \/ spc \in {"auth", "verify"} /\ Say("auth_ok", "starting")
  \/ spc \in {"starting", "busy"} /\ Say("Z", "ready")

\* What the server says unasked: parameters, rows, notices, errors.
ServerTell ==
  \E tag \in {"E", "other"} :
    /\ spc \in {"starting", "ready", "busy"} /\ Len(said) < MaxSaid
    /\ tag = "E" => spc = "busy"
    /\ Say(tag, spc)

\* The server writes as much as there is space for.
ServerSend ==
  /\ tcp = "open" /\ spc # "closed" /\ srv_out # <<>> /\ Len(net_in) < NetCap
  /\ \E n \in 1 .. NetCap - Len(net_in) :
       /\ n <= Len(srv_out)
       /\ net_in' = net_in \o SubSeq(srv_out, 1, n)
       /\ srv_out' = SubSeq(srv_out, n + 1, Len(srv_out))
  /\ edge' = TRUE
  /\ tcp' = IF conn = "dropped" THEN "reset" ELSE tcp
  /\ UNCHANGED <<ctl, cli, slt, net_out, nospace, fin, spc, srv_in, rcvd, said,
                 queued, frames, handled, cmds>>

Close ==
  /\ tcp = "open" /\ spc # "closed"
  /\ spc' = "closed"
  /\ fin' = TRUE /\ edge' = TRUE
  /\ UNCHANGED <<ctl, cli, slt, tcp, net_in, net_out, nospace, srv_in, srv_out,
                 rcvd, said, queued, frames, handled, cmds>>

\* The server closes: it has been told to, it has refused, or its client is gone.
ServerClose ==
  /\ \/ spc = "closing" /\ srv_out = <<>>
     \/ conn = "dropped" /\ srv_out = <<>> /\ net_out = <<>>
  /\ Close

\* The server hangs up whatever it has been asked.
ServerDrop == "drop" \in Failures /\ Close

\* The connection is reset: nothing more arrives, either way.
Reset ==
  /\ "reset" \in Failures /\ tcp = "open"
  /\ tcp' = "reset"
  /\ spc' = "closed"
  /\ edge' = TRUE
  /\ UNCHANGED <<ctl, cli, slt, net_in, net_out, nospace, fin, srv_in, srv_out,
                 rcvd, said, queued, frames, handled, cmds>>

Environment ==
  \/ Establish \/ Spurious \/ ServerRecv \/ ServerTake \/ ServerSay \/ ServerTell
  \/ ServerSend \/ ServerClose \/ ServerDrop \/ Reset

Kinds == {"block", "plain", "term", "end"}

Next == Loop \/ Environment \/ \E kind \in Kinds : kind \in Commands /\ Execute(kind)

Spec == Init /\ [][Next]_vars

\* The loop never stops; the network delivers; the server reads, answers what it
\* has been asked, writes what there is space for, and closes when it is told to, has
\* refused the client or its client is gone.  Nothing makes it refuse, drop or reset.
Fairness ==
  /\ WF_vars(Loop) /\ WF_vars(Establish)
  /\ WF_vars(ServerRecv) /\ WF_vars(ServerTake) /\ WF_vars(ServerSay)
  /\ WF_vars(ServerSend) /\ WF_vars(ServerClose)

FairSpec == Spec /\ Fairness

----------------------------------------------------------------------------
(* Properties.                                                             *)

IsStream(s) ==
  /\ s \in [data : Seq(Cells), compact_threshold : Nat, data_offset : Nat,
             read_offset : Nat, committed_offset : Nat]
  /\ s.data_offset <= s.read_offset /\ s.read_offset <= s.committed_offset
  /\ s.committed_offset = s.data_offset + Len(s.data)

TypeOK ==
  /\ conn \in {"none", "open", "dropped"}
  /\ lpc \in {"poll", "read", "parse", "flush", "write", "done"}
  /\ cmd \in {"none", "event"} \cup Kinds
  /\ connected \in BOOLEAN /\ awaiting \in BOOLEAN
  /\ state \in {"Connecting", "Normal", "Dead"}
  /\ sent_terminate \in BOOLEAN /\ rfq \in BOOLEAN
  /\ IsStream(parse_stream) /\ IsStream(outbox) /\ IsStream(write_stream)
  /\ tcp \in {"closed", "opening", "open", "refused", "reset"}
  /\ net_in \in Seq(Cells) /\ net_out \in Seq(Cells)
  /\ edge \in BOOLEAN /\ nospace \in BOOLEAN /\ fin \in BOOLEAN
  /\ spc \in {"startup", "auth", "password", "verify", "starting", "ready", "busy",
               "closing", "closed", "confused"}
  /\ srv_in \in Seq(Cells) /\ srv_out \in Seq(Cells)
  /\ queued \in Seq(Cells) /\ frames \in Seq(Tags) /\ rcvd \in Seq(Cells)
  /\ said \in Seq(Cells) /\ handled \in Seq(Cells) /\ cmds \in Seq(Kinds)

\* What the client has replayed is what the server has read and what is still on
\* its way in the socket, the write stream and the outbox, in this order.
WireOut == rcvd \o net_out \o Data(write_stream) \o Data(outbox) = queued

\* What the server has said is what the client has handled and what is still on
\* its way in the parse stream, the socket and the server, in this order.
WireIn == handled \o Data(parse_stream) \o net_in \o srv_out = said

\* Whatever the boundaries of writes, compactions and reads, the bytes of the
\* dialog arrive once and in order, each way; a dead client keeps no slot.
Conveyed ==
  /\ TypeOK /\ WireOut /\ WireIn
  /\ (lpc = "poll" /\ state = "Dead") => conn = "dropped"

\* What the client has handled ends where a frame ends: handle_frame is called
\* with a frame as a whole, and for no other bytes.
Framed ==
  handled # <<>> =>
    LET last == handled[Len(handled)] IN last[2] = FrameLen(last[1])

\* Where frames of these tags begin among the first n cells.
Starts(cells, n, tags) == {i \in 1 .. n : cells[i][2] = 1 /\ cells[i][1] \in tags}

Executing == cmd = "block" /\ lpc \in {"flush", "write", "done"}

\* A connection that waits for the server, and for which frame.
Phase ==
  IF conn = "none" THEN "none"
  ELSE IF conn = "dropped" THEN "gone"
  ELSE IF ~awaiting /\ ~Executing THEN "idle"
  ELSE IF cmds = <<>> THEN "connecting" ELSE "busy"

Abstract == INSTANCE Dialog WITH
  phase <- Phase,
  asked <- Cardinality(Starts(queued, Len(queued), {"startup", "block"})),
  ready <- Cardinality(Starts(said, Len(said), {"Z"}))

\* The connection implements the dialog: nothing is sent while the server has a
\* frame to answer or after Terminate, and the loop goes on exactly when the server
\* has answered all it was asked.
ImplementsDialog == Abstract!Spec

\* No wait lasts for ever: handle_event reads and writes until the socket has no more,
\* so no event that it needs is one it has had.
EveryWaitEnds == Abstract!WaitsEnd

=============================================================================
