------------------------------- MODULE Compare -------------------------------
(***************************************************************************)
(* pgr compare: pairs the messages of a capture with the timing events the  *)
(* server recorded when the capture was replayed.                           *)
(*                                                                         *)
(* Neither file has sequence numbers.  Each client's events are matched to  *)
(* its captured messages by their kinds, the first of the one with the next *)
(* of the other, and a message whose kind differs is skipped: an event can  *)
(* be missing (the ring was full, the recording began late, the server      *)
(* skipped to the next Sync after an error) but is never out of place.      *)
(*                                                                         *)
(* Both queues of a client number their entries here: an entry of the       *)
(* capture by its place among the messages the replay sends, an event by    *)
(* the message that really caused it.  The code does not know these         *)
(* numbers; the properties compare the two.  Times and their statistics are *)
(* left out.                                                                *)
(***************************************************************************)
EXTENDS Integers, Sequences

CONSTANTS Clients,
          Restored,     \* clients whose Connect names a saved session
          Kinds,        \* kinds of messages besides Connect and Disconnect
          MaxMessages,  \* bound: messages of the capture
          MaxLost       \* bound: events of the replay that are not recorded

ASSUME CompareAssumption ==
  /\ Restored \subseteq Clients
  /\ "SimpleQuery" \in Kinds /\ Kinds \cap {"Connect", "Disconnect"} = {}
  /\ MaxMessages \in Nat /\ MaxLost \in Nat

VARIABLES capture,    \* the file: messages of all clients, in any interleaving
          sends,      \* what each client sends when the capture is replayed
          timing,     \* the file: events of all clients, in any interleaving
          sent,       \* events of each client the replay has caused, recorded or not
          lost,       \* those that were not recorded
          gone,       \* clients whose backend has exited
          pc,
          timings,    \* timing events read
          messages,   \* capture messages read
          cap, tim,   \* the queues of each client (ClientStats)
          current,    \* the client whose queues are drained
          waiting,    \* the client whose event was read last
          matched, skipped,
          pairs       \* history: what was matched with what

file   == <<capture, sends, timing>>
replay == <<sent, lost, gone>>
stats  == <<cap, tim, matched, skipped, pairs>>
vars   == <<file, replay, pc, timings, messages, current, waiting, stats>>

Codes == Kinds \cup {"Connect", "Disconnect"}

Init ==
  /\ capture = <<>> /\ sends = [c \in Clients |-> <<>>] /\ timing = <<>>
  /\ sent = [c \in Clients |-> 0] /\ lost = [c \in Clients |-> 0] /\ gone = {}
  /\ pc = "record" /\ timings = 0 /\ messages = 0
  /\ cap = [c \in Clients |-> <<>>] /\ tim = [c \in Clients |-> <<>>]
  /\ current \in Clients /\ waiting = current
  /\ matched = [c \in Clients |-> 0] /\ skipped = [c \in Clients |-> 0] /\ pairs = {}

----------------------------------------------------------------------------
(* The recording and the replay.                                           *)

\* A client with a session: the utility restores it after Connect.
Restores(c, code) == c \in Restored /\ code = "Connect"

\* What a replayed client sends for a message: that message, and after Connect the
\* restoring statement, which is a simple query.
Sends(c, code) ==
  IF Restores(c, code) THEN <<"Connect", "SimpleQuery">> ELSE <<code>>

Capture(c) ==
  /\ pc = "record" /\ Len(capture) < MaxMessages
  /\ \E code \in Codes :
       /\ (code = "Connect") <=> sends[c] = <<>>
       /\ sends[c] # <<>> => sends[c][Len(sends[c])] # "Disconnect"
       /\ capture' = Append(capture,
                            [id |-> c, code |-> code, number |-> Len(sends[c]) + 1])
       /\ sends' = [sends EXCEPT ![c] = @ \o Sends(c, code)]
  /\ UNCHANGED <<timing, replay, pc, timings, messages, current, waiting, stats>>

EndCapture ==
  /\ pc = "record"
  /\ pc' = "replay"
  /\ UNCHANGED <<file, replay, timings, messages, current, waiting, stats>>

\* An event: number is the message that caused it, place that among the events of
\* its client in the file.
Record(c, code, number) ==
  timing' = Append(timing, [id |-> c, code |-> code, number |-> number,
                            place |-> number - lost[c]])

\* send_timing_event in the hook of the next message.
Event(c) ==
  /\ pc = "replay" /\ c \notin gone /\ sent[c] < Len(sends[c])
  /\ sent' = [sent EXCEPT ![c] = @ + 1]
  /\ gone' = IF sends[c][sent[c] + 1] = "Disconnect" THEN gone \cup {c} ELSE gone
  /\ \/ Record(c, sends[c][sent[c] + 1], sent[c] + 1) /\ UNCHANGED lost
     \/ /\ lost[c] < MaxLost /\ lost' = [lost EXCEPT ![c] = @ + 1]
        /\ UNCHANGED timing
  /\ UNCHANGED <<capture, sends, pc, timings, messages, current, waiting, stats>>

\* The backend of a client whose capture has no Disconnect exits when the
\* utility injects one (on_replay_end); no captured message is the cause.
Exit(c) ==
  /\ pc = "replay" /\ c \notin gone
  /\ sent[c] > 0 /\ sent[c] = Len(sends[c])
  /\ gone' = gone \cup {c}
  /\ Record(c, "Disconnect", sent[c] + 1)
  /\ UNCHANGED <<capture, sends, sent, lost, pc, timings, messages, current, waiting, stats>>

EndReplay ==
  /\ pc = "replay"
  /\ \A c \in Clients : sent[c] = Len(sends[c])
  /\ pc' = "timing"
  /\ UNCHANGED <<file, replay, timings, messages, current, waiting, stats>>

----------------------------------------------------------------------------
(* compare.                                                                *)

ReadTiming ==
  /\ pc = "timing" /\ timings < Len(timing)
  /\ LET t == timing[timings + 1]
     IN  /\ tim' = [tim EXCEPT ![t.id] =
                      Append(@, [code |-> t.code, number |-> t.number])]
         /\ current' = t.id /\ waiting' = t.id
  /\ timings' = timings + 1
  /\ pc' = "drain"
  /\ UNCHANGED <<file, replay, messages, cap, matched, skipped, pairs>>

\* The last drain of every client finds nothing left to match (Drained).
EndOfTiming ==
  /\ pc = "timing" /\ timings = Len(timing)
  /\ pc' = "done"
  /\ UNCHANGED <<file, replay, timings, messages, current, waiting, stats>>

Entry(code, number) == [code |-> code, number |-> number]

\* What one captured message adds.
\* Faulty variant: nothing stands for the restoring statement.
Entries_Plain(m) == <<Entry(m.code, m.number)>>
Entries(m) ==
  IF Restores(m.id, m.code)
  THEN <<Entry("Connect", m.number), Entry("SimpleQuery", m.number + 1)>>
  ELSE <<Entry(m.code, m.number)>>

\* A queue with new entries at its end.
Pushed(queue, entries) == queue \o entries

\* The loop of drain.
Both(c) == cap[c] # <<>> /\ tim[c] # <<>>

SameKind(c) == Head(cap[c]).code = Head(tim[c]).code

DrainSkip ==
  /\ pc = "drain" /\ Both(current) /\ ~SameKind(current)
  /\ cap' = [cap EXCEPT ![current] = Tail(@)]
  /\ skipped' = [skipped EXCEPT ![current] = @ + 1]
  /\ UNCHANGED <<file, replay, pc, timings, messages, current, waiting, tim, matched, pairs>>

DrainMatch ==
  /\ pc = "drain" /\ Both(current) /\ SameKind(current)
  /\ cap' = [cap EXCEPT ![current] = Tail(@)]
  /\ tim' = [tim EXCEPT ![current] = Tail(@)]
  /\ pairs' = pairs \cup {[id |-> current, message |-> Head(cap[current]).number,
                           event |-> Head(tim[current]).number]}
  /\ matched' = [matched EXCEPT ![current] = @ + 1]
  /\ UNCHANGED <<file, replay, pc, timings, messages, current, waiting, skipped>>

\* Faulty variant: the loop stops at the first message that does not match.
DrainEnds_Early == IF Both(current) THEN ~SameKind(current) ELSE TRUE
DrainEnds == ~Both(current)

\* Only as much of the capture is read as the last event needs.
\* Faulty variant: one message is read, whoever sent it.
Needs_One == tim[waiting] # <<>> /\ current = waiting
Needs == tim[waiting] # <<>>

ReadCapture ==
  /\ pc = "drain" /\ DrainEnds /\ Needs /\ messages < Len(capture)
  /\ LET m == capture[messages + 1]
     IN  /\ cap' = [cap EXCEPT ![m.id] = Pushed(@, Entries(m))]
         /\ current' = m.id
  /\ messages' = messages + 1
  /\ UNCHANGED <<file, replay, pc, timings, waiting, tim, matched, skipped, pairs>>

NextEvent ==
  /\ pc = "drain" /\ DrainEnds /\ (Needs => messages = Len(capture))
  /\ pc' = "timing"
  /\ UNCHANGED <<file, replay, timings, messages, current, waiting, stats>>

Next ==
  \/ \E c \in Clients : Capture(c) \/ Event(c) \/ Exit(c)
  \/ EndCapture \/ EndReplay
  \/ ReadTiming \/ EndOfTiming \/ ReadCapture \/ NextEvent
  \/ DrainSkip \/ DrainMatch

Spec == Init /\ [][Next]_vars

----------------------------------------------------------------------------

Types ==
  /\ capture \in Seq([id : Clients, code : Codes, number : Nat])
  /\ sends \in [Clients -> Seq(Codes)]
  /\ timing \in Seq([id : Clients, code : Codes, number : Nat, place : Nat])
  /\ sent \in [Clients -> Nat] /\ lost \in [Clients -> 0..MaxLost] /\ gone \subseteq Clients
  /\ pc \in {"record", "replay", "timing", "drain", "done"}
  /\ timings \in 0..Len(timing) /\ messages \in 0..Len(capture)
  /\ cap \in [Clients -> Seq([code : Codes, number : Nat])]
  /\ tim \in [Clients -> Seq([code : Codes, number : Nat])]
  /\ current \in Clients /\ waiting \in Clients
  /\ matched \in [Clients -> Nat] /\ skipped \in [Clients -> Nat]
  /\ pairs \subseteq [id : Clients, message : Nat, event : Nat]

\* Types; the queues of a client are in the order of their numbers.
TypeOK ==
  /\ Types
  /\ \A c \in Clients :
       /\ \A i, j \in DOMAIN cap[c] : i < j => cap[c][i].number < cap[c][j].number
       /\ \A i, j \in DOMAIN tim[c] : i < j => tim[c][i].number < tim[c][j].number

\* Only the client being drained has entries in both queues: whenever compare reads
\* on, every pair that can be matched has been, so the drain of every client after
\* its loop does nothing.
Drained == \A c \in Clients : Both(c) => pc = "drain" /\ c = current

\* The queues hold what has been read and not matched, in order, and nothing that
\* could be matched, however the two files mix the clients.
QueuesServe == TypeOK /\ Drained

\* An event is never matched with a message later than the one that caused it, and
\* is matched with exactly that one when no event of its client is missing (drain
\* takes the first message of the same kind); no message is skipped that did not
\* lose an event, so that one loss does not unpair the rest of its client.
NeverAhead ==
  /\ \A p \in pairs :
       /\ p.message <= p.event
       /\ lost[p.id] = 0 => p.message = p.event
  /\ \A c \in Clients : skipped[c] <= lost[c]

\* However many events are missing, every recorded one finds a message, except the
\* Disconnect that the utility injects; what compare warns of as events without a
\* pair is never caused by a skip that went too far.
AllMatched ==
  pc = "done" =>
    \A c \in Clients : \A i \in DOMAIN tim[c] : tim[c][i].number > Len(sends[c])
=============================================================================
