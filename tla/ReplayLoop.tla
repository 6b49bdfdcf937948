----------------------------- MODULE ReplayLoop -----------------------------
(***************************************************************************)
(* The replay of a capture: the manager thread, which turns the events of   *)
(* the capture into commands (manager.rs), the bounded channel and the      *)
(* waker between the threads, and the event loop, which keeps a slot per    *)
(* client, sends each command when it is due and waits for the server where *)
(* the captured client did (loop.rs, client.rs).                            *)
(*                                                                         *)
(* A command is [id, ts, kind]; kind is "connect", "block" for the frames   *)
(* the server answers with ReadyForQuery (Query and Sync), "plain" for the  *)
(* other frames, "term" for Terminate and "end" for CmdKind::End.  A write  *)
(* to a socket is taken to reach the server, in order; the connection is    *)
(* open for the loop once the first ReadyForQuery has come.                 *)
(***************************************************************************)
EXTENDS Integers, Sequences, FiniteSets

CONSTANTS Clients,
          QueueCap,    \* QUEUE_CAP
          WakeBatch,   \* WAKE_BATCH
          Horizon,     \* HORIZON_US
          CatchUp,     \* config.catchup, in halves
          Failures,    \* what may fail: "connect", "drop"
          MaxCmds,     \* bound: commands of the capture
          MaxTs,       \* bound: captured time
          MaxNow       \* bound: time that passes without a timer to wait for

ASSUME ReplayAssumption ==
  /\ QueueCap \in Nat \ {0} /\ WakeBatch \in Nat \ {0} /\ Horizon \in Nat
  /\ CatchUp \in Nat /\ Failures \subseteq {"connect", "drop"}
  /\ MaxCmds \in Nat /\ MaxTs \in Nat /\ MaxNow \in Nat

VARIABLES mpc, last, held, unwoken, emitted,         \* manager and Sink
          chan, closed, woken,                       \* between the threads
          lpc, ret, cur, tnow, batch,                \* loop: control and locals
          started, lookahead, rx_closed, ended, last_ts,
          slots, timers, shift, last_tick,           \* loop: ReplayLoop
          now, owed, inbox, up,                      \* time; the server
          sent                                       \* history: frames written

mgr  == <<mpc, last, held, unwoken, emitted>>
link == <<chan, closed, woken>>
ctl  == <<lpc, ret, cur, tnow, batch>>
rcv  == <<started, lookahead, rx_closed, ended, last_ts>>
sched == <<slots, timers, shift, last_tick>>
srv  == <<owed, inbox, up>>
vars == <<mgr, link, ctl, rcv, sched, now, srv, sent>>

None == [id |-> "none", ts |-> 0, kind |-> "none"]
Cmd(c, ts, kind) == [id |-> c, ts |-> ts, kind |-> kind]

NewSlot == [queue |-> <<>>, awaiting |-> FALSE, rebase |-> FALSE, burst |-> FALSE,
            ready_at |-> 0, conn |-> FALSE, terminated |-> FALSE]

Init ==
  /\ mpc = "read" /\ last = 0 /\ held = None /\ unwoken = 0
  /\ emitted = [c \in Clients |-> <<>>]
  /\ chan = <<>> /\ closed = FALSE /\ woken = FALSE
  /\ lpc = "pull1" /\ ret = "none" /\ cur = "none" /\ tnow = 0 /\ batch = {}
  /\ started = FALSE /\ lookahead = None /\ rx_closed = FALSE /\ ended = FALSE
  /\ last_ts = 0
  /\ slots = [c \in {} |-> NewSlot] /\ timers = {} /\ shift = 0 /\ last_tick = 0
  /\ now = 0
  /\ owed = [c \in Clients |-> <<>>] /\ inbox = [c \in Clients |-> <<>>]
  /\ up = {}
  /\ sent = [c \in Clients |-> <<>>]

----------------------------------------------------------------------------
(* The manager thread: replay, emit and Sink.                              *)

Emitted == UNION {{c} \X DOMAIN emitted[c] : c \in Clients}

\* What the capture can hold of a client next: it connects first, and nothing
\* follows its end (CaptureSync!FirstClientStream).
Kinds(c) ==
  IF emitted[c] = <<>> THEN {"connect"}
  ELSE IF emitted[c][Len(emitted[c])].kind = "term" THEN {}
  ELSE {"block", "plain", "term"}

\* Faulty variant: one command too many.
Full_Off == Len(chan) > QueueCap
Full == Len(chan) = QueueCap

\* Sink::push of the next event, and the blocking send when the channel is full.
Push(cmd) ==
  IF ~Full
    THEN /\ chan' = Append(chan, cmd)
         /\ unwoken' = IF unwoken + 1 >= WakeBatch THEN 0 ELSE unwoken + 1
         /\ woken' = (woken \/ unwoken + 1 >= WakeBatch)
         /\ UNCHANGED <<mpc, held>>
    ELSE /\ woken' = (woken \/ unwoken > 0)
         /\ unwoken' = 0
         /\ held' = cmd /\ mpc' = "send"
         /\ UNCHANGED chan

Read ==
  /\ mpc = "read" /\ Cardinality(Emitted) < MaxCmds
  /\ \E c \in Clients, ts \in {last, last + 1} \cap (0 .. MaxTs) :
       \E kind \in Kinds(c) :
         /\ Push(Cmd(c, ts, kind))
         /\ emitted' = [emitted EXCEPT ![c] = Append(@, Cmd(c, ts, kind))]
         /\ last' = ts
  /\ UNCHANGED <<closed, ctl, rcv, sched, now, srv, sent>>

SendHeld ==
  /\ mpc = "send" /\ ~Full
  /\ chan' = Append(chan, held)
  /\ unwoken' = unwoken + 1
  /\ held' = None /\ mpc' = "read"
  /\ UNCHANGED <<last, emitted, closed, woken, ctl, rcv, sched, now, srv, sent>>

\* The capture ends, or cannot be read any further.
Finished ==
  /\ mpc = "read"
  /\ woken' = (woken \/ unwoken > 0) /\ unwoken' = 0
  /\ mpc' = "close"
  /\ UNCHANGED <<last, held, emitted, chan, closed, ctl, rcv, sched, now, srv, sent>>

DropSender ==
  /\ mpc = "close"
  /\ closed' = TRUE
  /\ mpc' = "join"
  /\ UNCHANGED <<last, held, unwoken, emitted, chan, woken, ctl, rcv, sched, now,
                 srv, sent>>

Manager == Read \/ SendHeld \/ Finished \/ DropSender

----------------------------------------------------------------------------
(* The event loop: pull and enqueue.                                       *)

Blocked(s) == s.conn /\ s.awaiting

Key(s) == IF s.burst THEN 0 ELSE Head(s.queue).ts

\* schedule, of a slot whose queue is not empty.
Scheduled(s, c) == IF Blocked(s) THEN timers ELSE timers \cup {<<Key(s), c>>}

Queued(s, cmd) == [s EXCEPT !.queue = Append(@, cmd)]

\* Faulty variant: the newest command goes first.
Enqueued_Front(s, cmd) == [s EXCEPT !.queue = <<cmd>> \o @]
Enqueued(s, cmd) == Queued(s, cmd)

SlotOf(c) == IF c \in DOMAIN slots THEN slots[c] ELSE NewSlot

WithSlot(c, s) == [d \in DOMAIN slots \cup {c} |-> IF d = c THEN s ELSE slots[d]]

Enqueue(cmd) ==
  IF cmd.id \notin DOMAIN slots /\ cmd.kind # "connect"
    THEN UNCHANGED <<slots, timers>>
    ELSE LET s == Enqueued(SlotOf(cmd.id), cmd) IN
         /\ slots' = WithSlot(cmd.id, s)
         /\ timers' = IF Len(s.queue) = 1 THEN Scheduled(s, cmd.id) ELSE timers

PullDone == lpc' = IF lpc = "pull1" THEN "poll" ELSE "dispatch"

\* catch_up, which dispatch_ready calls first.
CaughtUp(t) ==
  LET d == ((t - last_tick) * CatchUp) \div 2 IN
  IF shift = 0 THEN [shift |-> 0, tick |-> t]
  ELSE IF d > 0 THEN [shift |-> IF d > shift THEN 0 ELSE shift - d, tick |-> t]
  ELSE [shift |-> shift, tick |-> last_tick]

CatchUpAt(t) == shift' = CaughtUp(t).shift /\ last_tick' = CaughtUp(t).tick

\* Leaving the second pull, the loop enters dispatch_ready.
LeavePull ==
  /\ PullDone
  /\ IF lpc = "pull2" THEN tnow' = now /\ CatchUpAt(now)
                      ELSE UNCHANGED <<tnow, shift, last_tick>>

Pulling == lpc \in {"pull1", "pull2"}

Near(cmd) == cmd.ts <= now + Horizon

PullLookahead ==
  /\ Pulling /\ lookahead # None
  /\ IF Near(lookahead)
       THEN /\ Enqueue(lookahead)
            /\ last_ts' = lookahead.ts /\ lookahead' = None
            /\ UNCHANGED <<lpc, tnow, shift, last_tick>>
       ELSE LeavePull /\ UNCHANGED <<lookahead, last_ts, slots, timers>>
  /\ UNCHANGED <<mgr, link, ret, cur, batch, started, rx_closed, ended, now, srv, sent>>

PullReceive ==
  /\ Pulling /\ lookahead = None /\ chan # <<>>
  /\ chan' = Tail(chan) /\ started' = TRUE
  /\ IF Near(Head(chan))
       THEN /\ Enqueue(Head(chan))
            /\ last_ts' = Head(chan).ts
            /\ UNCHANGED <<lookahead, lpc, tnow, shift, last_tick>>
       ELSE LeavePull /\ lookahead' = Head(chan) /\ UNCHANGED <<last_ts, slots, timers>>
  /\ UNCHANGED <<mgr, closed, woken, ret, cur, batch, rx_closed, ended, now, srv, sent>>

\* The channel is empty, or empty and disconnected.
PullNothing ==
  /\ Pulling /\ lookahead = None /\ chan = <<>>
  /\ rx_closed' = (rx_closed \/ closed)
  /\ LeavePull
  /\ UNCHANGED <<mgr, link, ret, cur, batch, started, lookahead, ended, last_ts,
                 slots, timers, now, srv, sent>>
----------------------------------------------------------------------------
(* The event loop: poll and handle_event.                                  *)

Goto(l) == lpc' = l

\* next_timeout has a value: the poll ends by itself.
TimesOut == ~rx_closed \/ lookahead # None \/ timers # {}

Poll ==
  /\ lpc = "poll"
  /\ batch' = {c \in DOMAIN slots : slots[c].conn /\ inbox[c] # <<>>}
  /\ batch' # {} \/ woken \/ TimesOut
  /\ woken' = FALSE
  /\ Goto("events")
  /\ UNCHANGED <<mgr, chan, closed, ret, cur, tnow, rcv, sched, now, srv, sent>>

InInbox(c, m) == \E i \in DOMAIN inbox[c] : inbox[c][i] = m

WithoutSlot(c) == [d \in DOMAIN slots \ {c} |-> slots[d]]

\* Reading a connection until it would block.  An end of file drops the slot,
\* even when a ReadyForQuery came just before it.
EventsDead(c) ==
  /\ lpc = "events" /\ c \in batch /\ c \in DOMAIN slots
  /\ InInbox(c, "eof")
  /\ CatchUpAt(now)
  /\ slots' = WithoutSlot(c)
  /\ inbox' = [inbox EXCEPT ![c] = <<>>]
  /\ batch' = batch \ {c}
  /\ UNCHANGED <<mgr, link, lpc, ret, cur, tnow, rcv, timers, now, owed, up, sent>>

\* Faulty variant: the answer is not taken as the end of the wait.
Answered_Deaf(s) == [s EXCEPT !.rebase = TRUE, !.ready_at = now]
Answered(s) == [s EXCEPT !.awaiting = FALSE, !.rebase = TRUE, !.ready_at = now]

EventsReady(c) ==
  /\ lpc = "events" /\ c \in batch /\ c \in DOMAIN slots
  /\ ~InInbox(c, "eof")
  /\ CatchUpAt(now)
  /\ slots' = [slots EXCEPT ![c] = Answered(@)]
  /\ inbox' = [inbox EXCEPT ![c] = <<>>]
  /\ batch' = batch \ {c}
  /\ cur' = c /\ tnow' = now /\ ret' = "events" /\ Goto("try")
  /\ UNCHANGED <<mgr, link, rcv, timers, now, owed, up, sent>>

EventsDone ==
  /\ lpc = "events" /\ batch = {}
  /\ Goto("pull2")
  /\ UNCHANGED <<mgr, link, ret, cur, tnow, batch, rcv, sched, now, srv, sent>>

----------------------------------------------------------------------------
(* The event loop: dispatch_ready, try_dispatch and execute.               *)

\* A timer with the least key.  (Ties go by client id in the code; any here.)
Due(t) ==
  /\ t \in timers /\ \A u \in timers : t[1] <= u[1]
  /\ t[1] + shift <= tnow

DispatchTimer ==
  /\ lpc = "dispatch"
  /\ \E t \in timers :
       /\ Due(t)
       /\ timers' = timers \ {t}
       /\ cur' = t[2]
  /\ ret' = "dispatch" /\ Goto("try")
  /\ UNCHANGED <<mgr, link, tnow, batch, rcv, slots, shift, last_tick, now, srv, sent>>

DispatchDone ==
  /\ lpc = "dispatch" /\ \A t \in timers : ~Due(t)
  /\ Goto("finish") /\ tnow' = 0
  /\ UNCHANGED <<mgr, link, ret, cur, batch, rcv, sched, now, srv, sent>>

MayTry == cur \in DOMAIN slots /\ ~Blocked(slots[cur]) /\ slots[cur].queue # <<>>

\* try_dispatch returns; the locals are gone.
Return ==
  /\ Goto(ret) /\ ret' = "none" /\ cur' = "none"
  /\ tnow' = IF ret = "events" THEN 0 ELSE tnow

TryNothing ==
  /\ lpc = "try" /\ ~MayTry
  /\ Return
  /\ UNCHANGED <<mgr, link, batch, rcv, sched, now, srv, sent>>

\* The first command after an answer pushes the schedule back by its delay.
Rebases(s) == s.rebase /\ ~s.burst

Rebased(s) ==
  IF Rebases(s) /\ s.ready_at - Head(s.queue).ts > shift
    THEN s.ready_at - Head(s.queue).ts ELSE shift

AfterRebase(s) == [s EXCEPT !.rebase = @ /\ s.burst]

Late(s) == s.burst \/ Head(s.queue).ts + Rebased(s) <= tnow

\* Faulty variant: no timer for the command that is not due yet.
Rearmed_Not(s) == timers
Rearmed(s) == timers \cup {<<Head(s.queue).ts, cur>>}

TryLater ==
  /\ lpc = "try" /\ MayTry
  /\ LET s == slots[cur] IN
     /\ ~Late(s)
     /\ shift' = Rebased(s)
     /\ slots' = [slots EXCEPT ![cur] = AfterRebase(s)]
     /\ timers' = Rearmed(s)
  /\ Return
  /\ UNCHANGED <<mgr, link, batch, rcv, last_tick, now, srv, sent>>

\* The slot with the command at its head taken out.
Popped(s) == [AfterRebase(s) EXCEPT !.queue = Tail(@)]

Executing(kinds) ==
  /\ lpc = "try" /\ MayTry /\ Late(slots[cur])
  /\ Head(slots[cur].queue).kind \in kinds
  /\ shift' = Rebased(slots[cur])
  /\ UNCHANGED <<mgr, link, ctl, rcv, timers, last_tick, now, inbox>>

ExecuteConnect ==
  /\ Executing({"connect"})
  /\ slots' = [slots EXCEPT ![cur] =
                 [Popped(@) EXCEPT !.conn = TRUE, !.awaiting = TRUE]]
  /\ owed' = [owed EXCEPT ![cur] = <<"rfq">>]
  /\ up' = up \cup {cur}
  /\ UNCHANGED sent

ConnectFails ==
  /\ "connect" \in Failures
  /\ Executing({"connect"})
  /\ slots' = WithoutSlot(cur)
  /\ UNCHANGED <<owed, up, sent>>

\* The answers a frame asks the server for.
Answers(kind) == CASE kind = "block" -> <<"rfq">>
                   [] kind = "plain" -> <<>>
                   [] kind = "term"  -> <<"eof">>

\* Faulty variant: Sync and Query do not wait.
Awaits_Never(kind) == FALSE
Awaits(kind) == kind = "block"

\* The slot with the frame at its head written.
Written(s) ==
  LET kind == Head(s.queue).kind IN
  [Popped(s) EXCEPT !.awaiting = @ \/ Awaits(kind),
                    !.burst = ~Awaits(kind),
                    !.terminated = @ \/ kind = "term"]

ExecuteSend ==
  /\ Executing({"block", "plain", "term"})
  /\ slots' = [slots EXCEPT ![cur] = Written(@)]
  /\ LET cmd == Head(slots[cur].queue) IN
     /\ owed' = [owed EXCEPT ![cur] = IF cur \in up THEN @ \o Answers(cmd.kind) ELSE @]
     /\ sent' = [sent EXCEPT ![cur] = Append(@, cmd)]
  /\ UNCHANGED up

\* on_replay_end sends the Terminate that the capture did not have.
ExecuteEnd ==
  /\ Executing({"end"})
  /\ slots' = [slots EXCEPT ![cur] = [Popped(@) EXCEPT !.terminated = TRUE]]
  /\ owed' = [owed EXCEPT ![cur] =
                IF cur \in up /\ ~slots[cur].terminated THEN @ \o <<"eof">> ELSE @]
  /\ UNCHANGED <<up, sent>>

\* The server is gone, and the flush of the frame finds out: the client is dead and
\* loses its slot.
FlushFails ==
  /\ lpc = "try" /\ MayTry /\ Late(slots[cur])
  /\ Head(slots[cur].queue).kind # "connect"
  /\ slots[cur].conn /\ cur \notin up
  /\ shift' = Rebased(slots[cur])
  /\ slots' = WithoutSlot(cur)
  /\ inbox' = [inbox EXCEPT ![cur] = <<>>] /\ batch' = batch \ {cur}
  /\ UNCHANGED <<mgr, link, lpc, ret, cur, tnow, rcv, timers, last_tick, now, owed, up,
                 sent>>

----------------------------------------------------------------------------
(* The event loop: finish_clients and the end of the loop.                 *)

\* Faulty variant: idle clients are not scheduled.
EndTimers_Idle(c) == {}
EndTimers(c) ==
  IF slots[c].queue = <<>> /\ ~Blocked(slots[c])
    THEN {<<IF slots[c].burst THEN 0 ELSE last_ts, c>>} ELSE {}

Finishing == rx_closed /\ lookahead = None /\ ~ended

Finish ==
  /\ lpc = "finish"
  /\ ended' = (ended \/ Finishing)
  /\ IF Finishing
       THEN /\ slots' = [c \in DOMAIN slots |->
                          Queued(slots[c], Cmd(c, last_ts, "end"))]
            /\ timers' = timers \cup UNION {EndTimers(c) : c \in DOMAIN slots}
       ELSE UNCHANGED <<slots, timers>>
  /\ Goto(IF ended' /\ slots = << >> THEN "done" ELSE "pull1")
  /\ UNCHANGED <<mgr, link, ret, cur, tnow, batch, started, lookahead, rx_closed,
                 last_ts, shift, last_tick, now, srv, sent>>

Loop ==
  \/ PullLookahead \/ PullReceive \/ PullNothing
  \/ Poll \/ (\E c \in Clients : EventsDead(c) \/ EventsReady(c)) \/ EventsDone
  \/ DispatchTimer \/ DispatchDone
  \/ TryNothing \/ TryLater
  \/ ExecuteConnect \/ ConnectFails \/ ExecuteSend \/ ExecuteEnd \/ FlushFails
  \/ Finish

----------------------------------------------------------------------------
(* The server and the clock.                                               *)

Reply(c) ==
  /\ c \in up /\ owed[c] # <<>>
  /\ inbox' = [inbox EXCEPT ![c] = Append(@, Head(owed[c]))]
  /\ owed' = [owed EXCEPT ![c] = Tail(@)]
  /\ up' = IF Head(owed[c]) = "eof" THEN up \ {c} ELSE up
  /\ UNCHANGED <<mgr, link, ctl, rcv, sched, now, sent>>

ServerDrops(c) ==
  /\ "drop" \in Failures /\ c \in up
  /\ inbox' = [inbox EXCEPT ![c] = Append(@, "eof")]
  /\ owed' = [owed EXCEPT ![c] = <<>>]
  /\ up' = up \ {c}
  /\ UNCHANGED <<mgr, link, ctl, rcv, sched, now, sent>>

\* Microseconds since the first command.
Tick ==
  /\ started
  /\ \/ now < MaxNow
     \/ \E t \in timers : t[1] + shift > now
     \/ lookahead # None /\ ~Near(lookahead)
  /\ now' = now + 1
  /\ UNCHANGED <<mgr, link, ctl, rcv, sched, srv, sent>>

Next == Manager \/ Loop \/ Tick \/ \E c \in Clients : Reply(c) \/ ServerDrops(c)

Spec == Init /\ [][Next]_vars

\* Both threads run, time passes and the server answers.
FairSpec ==
  /\ Spec
  /\ WF_vars(Manager) /\ WF_vars(Loop) /\ WF_vars(Tick)
  /\ WF_vars(Finished)
  /\ \A c \in Clients : WF_vars(Reply(c))

----------------------------------------------------------------------------
(* Properties.                                                             *)

Kind == {"none", "connect", "block", "plain", "term", "end"}
Command == [id : Clients \cup {"none"}, ts : Nat, kind : Kind]
Slot == [queue : Seq(Command), awaiting : BOOLEAN, rebase : BOOLEAN, burst : BOOLEAN,
         ready_at : Nat, conn : BOOLEAN, terminated : BOOLEAN]

TypeManager ==
  /\ mpc \in {"read", "send", "close", "join"} /\ last \in 0 .. MaxTs
  /\ held \in Command /\ unwoken \in 0 .. WakeBatch
  /\ emitted \in [Clients -> Seq(Command)]
  /\ chan \in Seq(Command) /\ Len(chan) <= QueueCap
  /\ closed \in BOOLEAN /\ woken \in BOOLEAN

TypeLoop ==
  /\ lpc \in {"pull1", "poll", "events", "try", "pull2", "dispatch", "finish", "done"}
  /\ ret \in {"none", "events", "dispatch"} /\ cur \in Clients \cup {"none"}
  /\ tnow \in Nat /\ batch \subseteq Clients
  /\ lookahead \in Command /\ last_ts \in 0 .. MaxTs
  /\ started \in BOOLEAN /\ rx_closed \in BOOLEAN /\ ended \in BOOLEAN

TypeSchedule ==
  /\ DOMAIN slots \subseteq Clients /\ \A c \in DOMAIN slots : slots[c] \in Slot
  /\ timers \subseteq Nat \X Clients
  /\ shift \in Nat /\ last_tick \in Nat /\ now \in Nat

TypeServer ==
  /\ owed \in [Clients -> Seq({"rfq", "eof"})]
  /\ inbox \in [Clients -> Seq({"rfq", "eof"})]
  /\ up \subseteq Clients
  /\ sent \in [Clients -> Seq(Command)]

\* Type correctness of the two threads and of what is between them.
TypeOK == TypeManager /\ TypeLoop /\ TypeSchedule /\ TypeServer

\* Each server connection gets the frames of its captured client, all of them up
\* to some point, once and in the captured order, whatever the delays.
InOrder ==
  \A c \in Clients : sent[c] # <<>> =>
    /\ Len(sent[c]) < Len(emitted[c])
    /\ \A i \in DOMAIN sent[c] : sent[c][i] = emitted[c][i + 1]

Unanswered(msgs) == Cardinality({i \in DOMAIN msgs : msgs[i] = "rfq"})
Outstanding(c) == Unanswered(owed[c]) + Unanswered(inbox[c])

\* The loop waits exactly while an answer is under way: it never sends past an
\* unanswered Query or Sync, and never waits for an answer it already has.
AwaitsAnswer ==
  \A c \in DOMAIN slots :
    /\ Outstanding(c) <= 1
    /\ slots[c].conn /\ c \in up => (slots[c].awaiting <=> Outstanding(c) = 1)

\* What a server sees of a captured client: its frames in their order, each Query or
\* Sync answered before the next frame, although timers, answers and wakes may each
\* dispatch the client.
WireOrder == InOrder /\ AwaitsAnswer

\* No wakeup is lost: when the loop goes to sleep, every client that has a
\* command to send and waits for nothing has a timer that is not too late.
NoLostWakeup ==
  lpc = "poll" =>
    \A c \in DOMAIN slots :
      ~Blocked(slots[c]) /\ slots[c].queue # <<>> =>
        \E t \in timers : t[2] = c /\ t[1] <= Head(slots[c].queue).ts

\* The schedule is never behind the clock by more than has passed, so that the
\* timers of clients in a burst (key 0) are due at once.
ShiftBound == shift <= now

\* The timers serve the clients: none that could send sleeps without a timer, and
\* the shift keeps no timer from being due.
TimersServe == NoLostWakeup /\ ShiftBound

\* Once all commands are in, every client is ended and the loop ends.
EndedTerminates == ended ~> lpc = "done"

\* Every frame the capture holds of a client is sent in the end, unless the
\* connection is gone or was never made.
AllSent ==
  mpc = "join" ~> \A c \in up : Len(sent[c]) + 1 = Len(emitted[c])

\* The replay ends.  False: the sender can be dropped between the second pull of
\* a round and the first pull of the next, after the last wakeup was consumed.
Terminates == <>(lpc = "done")
=============================================================================
