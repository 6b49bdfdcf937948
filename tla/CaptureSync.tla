---------------------------- MODULE CaptureSync ----------------------------
(***************************************************************************)
(* The capture protocol of the extension: how backends decide, message by  *)
(* message, whether their workload belongs to the running capture, and how *)
(* the capture finds its WAL synchronisation point.                        *)
(*                                                                         *)
(* A capture must start at one WAL position L: the base backup is restored *)
(* up to L, and the captured messages are replayed on top.  A transaction  *)
(* that was open when the capture started ("pre") cannot be captured, so   *)
(* the last pre transaction to leave reads L and publishes it; until then  *)
(* the other backends buffer their transactions.                           *)
(*                                                                         *)
(* Models hooks.c, shmem.c and the go-live / sync part of capture.c.  The  *)
(* channel is the append-only sequence `ring`: Ring.tla and Channel.tla    *)
(* model what stands behind it.                                            *)
(***************************************************************************)
EXTENDS Integers, Sequences, FiniteSets

CONSTANTS Backends,     \* client backends (B_BACKEND, not psql)
          Admins,       \* sessions calling pgr.cstart / pgr.cstop
          NoProc,       \* the value of a free spinlock
          MaxStmts,     \* bound: statements per connection, one less with each restart
          MaxPair,      \* bound: statements of two connections together
          MaxConns,     \* bound: connections served by one backend name
          MaxCaptures   \* bound: calls of pgr.cstart

ASSUME CaptureSyncAssumption ==
  /\ IsFiniteSet(Backends)
  /\ Backends \cap Admins = {}
  /\ NoProc \notin Backends \cup Admins
  /\ MaxStmts \in Nat /\ MaxPair \in Nat
  /\ MaxConns \in Nat /\ MaxCaptures \in Nat

Procs == Backends \cup Admins

VARIABLES
  \* Shmem->channels[ChanCapture] and Shmem->capture
  running, generation, wal_ready, next_client_id, open_xacts, pending_xacts,
  lock,
  \* what the outside world sees: messages pushed and commit records written
  ring, wal,
  \* statics of a backend
  TxOpen, TxGen, TxCaptured, CaptureLive, MyCaptureGen, MyClientId, TxBuf,
  SkipSnap,
  snap,      \* statement the open session snapshot was taken before, 0 if none
  sess,      \* StatementIndex: statements received on this connection
  exiting,   \* the backend is inside pgr_exit
  conn,      \* history: number of the connection the backend serves
  tx,        \* history: when the open transaction was entered
  \* control of every process
  pc,
  last,      \* local `last` / `nothing_pending`: this process must sync
  syncGen,   \* history: the capture that process syncs for
  lsn        \* the WAL position capture_sync_lsn has read

chan   == <<running, generation, wal_ready, next_client_id>>
xacts  == <<open_xacts, pending_xacts, lock>>
stream == <<ring, wal>>
txVars == <<TxOpen, TxGen, tx>>
ident  == <<MyCaptureGen, MyClientId>>
buf    == <<TxCaptured, CaptureLive, TxBuf, SkipSnap, snap>>
life   == <<sess, exiting, conn>>
sync   == <<last, syncGen, lsn>>
vars   == <<chan, xacts, stream, txVars, ident, buf, life, sync, pc>>

Goto(p, l) == pc' = [pc EXCEPT ![p] = l]

NoTx == [first |-> 0, epoch |-> 0, ready |-> FALSE]

Message(type, b, val) ==
  [type |-> type, gen |-> MyCaptureGen[b], be |-> b, conn |-> conn[b],
   client |-> MyClientId[b], val |-> val]

LsnMessage(p) ==
  [type |-> "Lsn", gen |-> syncGen[p], be |-> p, conn |-> 0,
   client |-> 0, val |-> lsn[p]]

Push(m) == ring' = Append(ring, m)

Init ==
  /\ running = FALSE /\ generation = 0 /\ wal_ready = FALSE
  /\ next_client_id = 0
  /\ open_xacts = 0 /\ pending_xacts = 0 /\ lock = NoProc
  /\ ring = <<>> /\ wal = <<>>
  /\ TxOpen = [b \in Backends |-> FALSE]
  /\ TxGen = [b \in Backends |-> 0]
  /\ tx = [b \in Backends |-> NoTx]
  /\ TxCaptured = [b \in Backends |-> FALSE]
  /\ CaptureLive = [b \in Backends |-> FALSE]
  /\ MyCaptureGen = [b \in Backends |-> 0]
  /\ MyClientId = [b \in Backends |-> 0]
  /\ TxBuf = [b \in Backends |-> <<>>]
  /\ SkipSnap = [b \in Backends |-> FALSE]
  /\ snap = [b \in Backends |-> 0]
  /\ sess = [b \in Backends |-> 0]
  /\ exiting = [b \in Backends |-> FALSE]
  /\ conn = [b \in Backends |-> 1]
  /\ pc = [p \in Procs |-> "idle"]
  /\ last = [p \in Procs |-> FALSE]
  /\ syncGen = [p \in Procs |-> 0]
  /\ lsn = [p \in Procs |-> 0]

----------------------------------------------------------------------------
(* A protocol message arrives: capture_gate.                               *)

\* What counts for MaxPair: the statement in the hook too.
Taken(b) == sess[b] + IF TxOpen[b] /\ pc[b] \notin {"idle", "leave"} THEN 1 ELSE 0

\* What MaxStmts leaves a connection while capture g is the last one.
StmtsIn(g) == IF g > 1 THEN MaxStmts - (g - 1) ELSE MaxStmts

CanReceive(b) ==
  /\ pc[b] = "idle" /\ ~exiting[b]
  /\ conn[b] <= MaxConns /\ sess[b] < StmtsIn(generation)
  /\ \A c \in Backends \ {b} : sess[b] + Taken(c) < MaxPair

\* xact_enter_shared: the generation a transaction is tagged with
EnterGen == IF running THEN generation ELSE 0

\* The first message of a transaction enters it under the capture lock.
XactEnter(b) ==
  /\ CanReceive(b) /\ ~TxOpen[b] /\ lock = NoProc
  /\ open_xacts' = open_xacts + 1
  /\ TxOpen' = [TxOpen EXCEPT ![b] = TRUE]
  /\ TxGen' = [TxGen EXCEPT ![b] = EnterGen]
  /\ tx' = [tx EXCEPT ![b] = [first |-> sess[b] + 1, epoch |-> generation,
                              ready |-> running /\ wal_ready]]
  /\ TxCaptured' = [TxCaptured EXCEPT ![b] = FALSE]
  /\ TxBuf' = IF CaptureLive[b] THEN TxBuf ELSE [TxBuf EXCEPT ![b] = <<>>]
  /\ Goto(b, "gate")
  /\ UNCHANGED <<chan, pending_xacts, lock, stream, ident, CaptureLive,
                 SkipSnap, snap, life, sync>>

NextMessage(b) ==
  /\ CanReceive(b) /\ TxOpen[b]
  /\ Goto(b, "gate")
  /\ UNCHANGED <<chan, xacts, stream, txVars, ident, buf, life, sync>>

xact_is_pre(b) == running /\ TxGen[b] # generation

\* The message is not captured: the statement just runs.
GateSkip(b) ==
  /\ pc[b] = "gate"
  /\ ~running \/ xact_is_pre(b)
  /\ sess' = [sess EXCEPT ![b] = @ + 1]
  /\ Goto(b, "idle")
  /\ UNCHANGED <<chan, xacts, stream, txVars, ident, buf, exiting, conn, sync>>

GatePass(b) ==
  /\ pc[b] = "gate"
  /\ running /\ ~xact_is_pre(b)
  /\ Goto(b, "adopt")
  /\ UNCHANGED <<chan, xacts, stream, txVars, ident, buf, life, sync>>

\* The generation is read again: a capture not seen before is adopted.
AdoptCapture(b) ==
  /\ pc[b] = "adopt" /\ MyCaptureGen[b] # generation
  /\ snap' = [snap EXCEPT ![b] = 0]
  /\ TxBuf' = [TxBuf EXCEPT ![b] = <<>>]
  /\ CaptureLive' = [CaptureLive EXCEPT ![b] = FALSE]
  /\ MyCaptureGen' = [MyCaptureGen EXCEPT ![b] = generation]
  /\ Goto(b, "client")
  /\ UNCHANGED <<chan, xacts, stream, txVars, MyClientId, TxCaptured, SkipSnap,
                 life, sync>>

SameCapture(b) ==
  /\ pc[b] = "adopt" /\ MyCaptureGen[b] = generation
  /\ Goto(b, "live")
  /\ UNCHANGED <<chan, xacts, stream, txVars, ident, buf, life, sync>>

\* A new connection that arrives after the sync point needs no snapshot.
FreshSession(b) == sess[b] = 0 /\ wal_ready

acquire_client_id(b) ==
  /\ pc[b] = "client"
  /\ MyClientId' = [MyClientId EXCEPT ![b] = next_client_id]
  /\ next_client_id' = next_client_id + 1
  /\ SkipSnap' = [SkipSnap EXCEPT ![b] = FreshSession(b)]
  /\ Goto(b, "live")
  /\ UNCHANGED <<running, generation, wal_ready, xacts, stream, txVars,
                 MyCaptureGen, TxCaptured, CaptureLive, TxBuf, snap, life, sync>>

\* Faulty variant: a snapshot before every statement that is not live.
NeedsSnapshot_EveryStmt(b) == ~CaptureLive[b]
NeedsSnapshot(b) == ~CaptureLive[b] /\ ~TxCaptured[b]

\* Faulty variants: without the sync point; not on the first statement.
GoesLive_NoReady(b) == ~CaptureLive[b]
GoesLive_Late(b) == ~CaptureLive[b] /\ wal_ready /\ TxCaptured[b]
GoesLive(b) == ~CaptureLive[b] /\ wal_ready

\* The session is dumped before the first captured statement; then wal_ready
\* decides between going live and buffering.
GateLive(b) ==
  /\ pc[b] = "live"
  /\ snap' = IF NeedsSnapshot(b)
               THEN [snap EXCEPT ![b] = IF SkipSnap[b] THEN 0 ELSE sess[b] + 1]
               ELSE snap
  /\ SkipSnap' = IF NeedsSnapshot(b) THEN [SkipSnap EXCEPT ![b] = FALSE]
                                     ELSE SkipSnap
  /\ TxCaptured' = [TxCaptured EXCEPT ![b] = TRUE]
  /\ Goto(b, IF GoesLive(b) THEN "connect" ELSE "emit")
  /\ UNCHANGED <<chan, xacts, stream, txVars, ident, CaptureLive, TxBuf, life,
                 sync>>

----------------------------------------------------------------------------
(* capture_go_live: Connect, then the buffered messages of the transaction. *)

\* The statement a replayed session starts from; "" names a fresh session.
SnapStart(b) == IF snap[b] = 0 THEN 1 ELSE snap[b]

GoLive(b) ==
  /\ pc[b] = "connect"
  /\ Push(Message("Connect", b, SnapStart(b)))
  /\ CaptureLive' = [CaptureLive EXCEPT ![b] = TRUE]
  /\ snap' = [snap EXCEPT ![b] = 0]
  /\ Goto(b, "flush")
  /\ UNCHANGED <<chan, xacts, wal, txVars, ident, TxCaptured, TxBuf, SkipSnap,
                 life, sync>>

FlushTxBuf(b) ==
  /\ pc[b] = "flush" /\ TxBuf[b] # <<>>
  /\ Push(Message("Stmt", b, Head(TxBuf[b])))
  /\ TxBuf' = [TxBuf EXCEPT ![b] = Tail(@)]
  /\ UNCHANGED <<chan, xacts, wal, txVars, ident, TxCaptured, CaptureLive,
                 SkipSnap, snap, life, sync, pc>>

\* Where tx_finish returns to: the sync if this was the last pre transaction.
\* Faulty variant: a backend on its way out skips the sync.
AfterTx_ExitFirst(b) ==
  IF exiting[b] THEN "exit" ELSE IF last[b] THEN "readlsn" ELSE "idle"
AfterTx(b) == IF last[b] THEN "readlsn" ELSE IF exiting[b] THEN "exit" ELSE "idle"

\* The end of tx_finish: what was not flushed is dropped.
EndTx(b) ==
  /\ TxBuf' = IF CaptureLive[b] THEN TxBuf ELSE [TxBuf EXCEPT ![b] = <<>>]
  /\ TxCaptured' = [TxCaptured EXCEPT ![b] = FALSE]
  /\ Goto(b, AfterTx(b))
  /\ UNCHANGED <<chan, xacts, stream, txVars, ident, CaptureLive, SkipSnap, snap,
                 life, sync>>

\* go_live came from tx_finish; in capture_gate the transaction is still open.
FlushToFinish(b) ==
  /\ pc[b] = "flush" /\ TxBuf[b] = <<>> /\ ~TxOpen[b]
  /\ EndTx(b)

\* cap_end: a live backend pushes the message, the others buffer it.
Emit(b) ==
  /\ pc[b] = "emit" \/ (pc[b] = "flush" /\ TxBuf[b] = <<>> /\ TxOpen[b])
  /\ IF CaptureLive[b]
       THEN Push(Message("Stmt", b, sess[b] + 1)) /\ UNCHANGED TxBuf
       ELSE TxBuf' = [TxBuf EXCEPT ![b] = Append(@, sess[b] + 1)] /\ UNCHANGED ring
  /\ sess' = [sess EXCEPT ![b] = @ + 1]
  /\ Goto(b, "idle")
  /\ UNCHANGED <<chan, xacts, wal, txVars, ident, TxCaptured, CaptureLive,
                 SkipSnap, snap, exiting, conn, sync>>

----------------------------------------------------------------------------
(* The end of a transaction: the commit record, then the callback.         *)

CanEndTx(b) == pc[b] = "idle" /\ TxOpen[b] /\ ~exiting[b]

\* RecordTransactionCommit comes before the XACT_EVENT_COMMIT callback.
Commit(b) ==
  /\ CanEndTx(b)
  /\ wal' = Append(wal, [be |-> b, conn |-> conn[b], first |-> tx[b].first,
                         upto |-> sess[b], epoch |-> tx[b].epoch,
                         ready |-> tx[b].ready])
  /\ Goto(b, "leave")
  /\ UNCHANGED <<chan, xacts, ring, txVars, ident, buf, life, sync>>

Abort(b) ==
  /\ CanEndTx(b)
  /\ Goto(b, "leave")
  /\ UNCHANGED <<chan, xacts, stream, txVars, ident, buf, life, sync>>

\* xact_leave_shared counts a transaction down if it is pre.
\* Faulty variant: the tag alone decides.
CountsDown_TagOnly(b) == TxGen[b] # generation
CountsDown(b) == xact_is_pre(b) /\ pending_xacts > 0

\* Faulty variant: one transaction too early.
LastPre_Early == pending_xacts <= 2
LastPre == pending_xacts = 1

xact_leave_shared(b) ==
  /\ pc[b] = "leave" /\ lock = NoProc
  /\ TxOpen' = [TxOpen EXCEPT ![b] = FALSE]
  /\ tx' = [tx EXCEPT ![b] = NoTx]
  /\ open_xacts' = open_xacts - 1
  /\ IF CountsDown(b)
       THEN /\ pending_xacts' = pending_xacts - 1
            /\ last' = [last EXCEPT ![b] = LastPre]
            /\ syncGen' = [syncGen EXCEPT ![b] = generation]
       ELSE UNCHANGED <<pending_xacts, last, syncGen>>
  /\ Goto(b, "finish")
  /\ UNCHANGED <<chan, lock, stream, TxGen, ident, buf, life, lsn>>

CapturedHere(b) == TxCaptured[b] /\ running /\ MyCaptureGen[b] = generation

FinishCaptured(b) ==
  /\ pc[b] = "finish" /\ CapturedHere(b)
  /\ Goto(b, "ready")
  /\ UNCHANGED <<chan, xacts, stream, txVars, ident, buf, life, sync>>

FinishOther(b) ==
  /\ pc[b] = "finish" /\ ~CapturedHere(b)
  /\ EndTx(b)

\* The sync point was published while the transaction ran: keep it.
FinishGoesLive(b) ==
  /\ pc[b] = "ready" /\ GoesLive(b)
  /\ Goto(b, "connect")
  /\ UNCHANGED <<chan, xacts, stream, txVars, ident, buf, life, sync>>

FinishDrops(b) ==
  /\ pc[b] = "ready" /\ ~GoesLive(b)
  /\ EndTx(b)

----------------------------------------------------------------------------
(* capture_sync_lsn, run by the last pre transaction or by pgr.cstart.     *)

ReadLsn(p) ==
  /\ pc[p] = "readlsn"
  /\ lsn' = [lsn EXCEPT ![p] = Len(wal)]
  /\ Goto(p, "pushlsn")
  /\ UNCHANGED <<chan, xacts, stream, txVars, ident, buf, life, last, syncGen>>

PushLsn(p) ==
  /\ pc[p] = "pushlsn"
  /\ Push(LsnMessage(p))
  /\ Goto(p, "setready")
  /\ UNCHANGED <<chan, xacts, wal, txVars, ident, buf, life, sync>>

AfterSync(p) == IF p \in Backends /\ exiting[p] THEN "exit" ELSE "idle"

SetReady(p) ==
  /\ pc[p] = "setready"
  /\ wal_ready' = TRUE
  /\ last' = [last EXCEPT ![p] = FALSE]
  /\ Goto(p, AfterSync(p))
  /\ UNCHANGED <<running, generation, next_client_id, xacts, stream, txVars,
                 ident, buf, life, syncGen, lsn>>

----------------------------------------------------------------------------
(* A client goes away: AbortOutOfAnyTransaction, then pgr_exit.            *)

Exit(b) ==
  /\ pc[b] = "idle" /\ ~exiting[b] /\ conn[b] <= MaxConns
  /\ exiting' = [exiting EXCEPT ![b] = TRUE]
  /\ Goto(b, IF TxOpen[b] THEN "leave" ELSE "exit")
  /\ UNCHANGED <<chan, xacts, stream, txVars, ident, buf, sess, conn, sync>>

\* Only a client the capture knows is disconnected; the process then ends and
\* the name serves the next connection with fresh statics.
pgr_exit(b) ==
  /\ pc[b] = "exit"
  /\ IF CaptureLive[b] /\ running /\ MyCaptureGen[b] = generation
       THEN Push(Message("Disconnect", b, sess[b] + 1))
       ELSE UNCHANGED ring
  /\ conn' = [conn EXCEPT ![b] = @ + 1]
  /\ exiting' = [exiting EXCEPT ![b] = FALSE]
  /\ sess' = [sess EXCEPT ![b] = 0]
  /\ TxGen' = [TxGen EXCEPT ![b] = 0]
  /\ CaptureLive' = [CaptureLive EXCEPT ![b] = FALSE]
  /\ MyCaptureGen' = [MyCaptureGen EXCEPT ![b] = 0]
  /\ MyClientId' = [MyClientId EXCEPT ![b] = 0]
  /\ TxBuf' = [TxBuf EXCEPT ![b] = <<>>]
  /\ SkipSnap' = [SkipSnap EXCEPT ![b] = FALSE]
  /\ snap' = [snap EXCEPT ![b] = 0]
  /\ Goto(b, "idle")
  /\ UNCHANGED <<chan, xacts, wal, TxOpen, tx, TxCaptured, sync>>

----------------------------------------------------------------------------
(* pgr.cstart (capture_start) and pgr.cstop (channel_stop).                *)

\* The lockless readers see the section under the lock step by step.
StartLock(a) ==
  /\ pc[a] = "idle" /\ generation < MaxCaptures /\ lock = NoProc
  /\ \A b \in Backends : Taken(b) <= StmtsIn(generation + 1)
  /\ lock' = a
  /\ wal_ready' = FALSE
  /\ Goto(a, "reset")
  /\ UNCHANGED <<running, generation, next_client_id, open_xacts, pending_xacts,
                 stream, txVars, ident, buf, life, sync>>

\* Faulty variant: the transactions already open are not counted.
PendingAtStart_Missing == 0
PendingAtStart == open_xacts

StartReset(a) ==
  /\ pc[a] = "reset"
  /\ next_client_id' = 0
  /\ pending_xacts' = PendingAtStart
  /\ Goto(a, "publish")
  /\ UNCHANGED <<running, generation, wal_ready, open_xacts, lock, stream, txVars,
                 ident, buf, life, sync>>

\* Faulty variant: pgr.cstart syncs although one transaction is pending.
NothingPending_Early == pending_xacts <= 1
NothingPending == pending_xacts = 0

StartPublish(a) ==
  /\ pc[a] = "publish"
  /\ generation' = generation + 1
  /\ running' = TRUE
  /\ lock' = NoProc
  /\ last' = [last EXCEPT ![a] = NothingPending]
  /\ syncGen' = [syncGen EXCEPT ![a] = generation + 1]
  /\ Goto(a, "ensure")
  /\ UNCHANGED <<wal_ready, next_client_id, open_xacts, pending_xacts, stream,
                 txVars, ident, buf, life, lsn>>

\* Faulty variant: client ids restart after the capture was published.
WorkerReady_LateReset(a) ==
  /\ pc[a] = "ensure"
  /\ Goto(a, IF last[a] THEN "readlsn" ELSE "idle")
  /\ next_client_id' = 0
  /\ UNCHANGED <<running, generation, wal_ready, xacts, stream, txVars, ident,
                 buf, life, sync>>
WorkerReady(a) ==
  /\ pc[a] = "ensure"
  /\ Goto(a, IF last[a] THEN "readlsn" ELSE "idle")
  /\ UNCHANGED <<chan, xacts, stream, txVars, ident, buf, life, sync>>

\* RegisterDynamicBackgroundWorker failed: the ERROR leaves capture_start.
WorkerFailed(a) ==
  /\ pc[a] = "ensure"
  /\ running' = FALSE
  /\ last' = [last EXCEPT ![a] = FALSE]
  /\ Goto(a, "idle")
  /\ UNCHANGED <<generation, wal_ready, next_client_id, xacts, stream, txVars,
                 ident, buf, life, syncGen, lsn>>

Stop(a) ==
  /\ pc[a] = "idle" /\ running
  /\ running' = FALSE
  /\ UNCHANGED <<generation, wal_ready, next_client_id, xacts, stream, txVars,
                 ident, buf, life, sync, pc>>

----------------------------------------------------------------------------

\* Steps the client chooses.
Client(b) ==
  XactEnter(b) \/ NextMessage(b) \/ Commit(b) \/ Abort(b) \/ Exit(b)

\* Steps a hook runs by itself once it was entered.
Hook(b) ==
  \/ GateSkip(b) \/ GatePass(b) \/ AdoptCapture(b) \/ SameCapture(b)
  \/ acquire_client_id(b) \/ GateLive(b)
  \/ GoLive(b) \/ FlushTxBuf(b) \/ FlushToFinish(b) \/ Emit(b)
  \/ xact_leave_shared(b)
  \/ FinishCaptured(b) \/ FinishOther(b) \/ FinishGoesLive(b) \/ FinishDrops(b)
  \/ pgr_exit(b)

Sync(p) == ReadLsn(p) \/ PushLsn(p) \/ SetReady(p)

Start(a) == StartReset(a) \/ StartPublish(a) \/ WorkerReady(a) \/ WorkerFailed(a)

Next ==
  \/ \E b \in Backends : Client(b) \/ Hook(b)
  \/ \E a \in Admins : StartLock(a) \/ Start(a) \/ Stop(a)
  \/ \E p \in Procs : Sync(p)

Spec == Init /\ [][Next]_vars

\* C code that has been entered runs on; the spinlock is held for a few
\* instructions and every waiter gets it in the end (s_lock backs off and
\* would PANIC otherwise).  Clients and administrators may stop at any time.
Fairness ==
  /\ \A b \in Backends : WF_vars(Hook(b)) /\ SF_vars(xact_leave_shared(b))
  /\ \A a \in Admins : WF_vars(Start(a))
  /\ \A p \in Procs : WF_vars(Sync(p))

FairSpec == Spec /\ Fairness

----------------------------------------------------------------------------
(* Properties.                                                             *)

Locations == {"idle", "gate", "adopt", "client", "live", "connect", "flush",
              "emit", "leave", "finish", "ready", "exit", "readlsn", "pushlsn",
              "setready", "reset", "publish", "ensure"}

Messages == [type : {"Lsn", "Connect", "Stmt", "Disconnect"}, gen : Nat,
             be : Procs, conn : Nat, client : Nat, val : Nat]

CommitRecords == [be : Backends, conn : Nat, first : Nat, upto : Nat,
                  epoch : Nat, ready : BOOLEAN]

TxRecord == [first : Nat, epoch : Nat, ready : BOOLEAN]

TypeShared ==
  /\ running \in BOOLEAN /\ generation \in Nat /\ wal_ready \in BOOLEAN
  /\ next_client_id \in Nat /\ open_xacts \in Nat /\ pending_xacts \in Nat
  /\ lock \in Admins \cup {NoProc}

TypeStream == ring \in Seq(Messages) /\ wal \in Seq(CommitRecords)

TypeTx ==
  /\ TxOpen \in [Backends -> BOOLEAN] /\ TxGen \in [Backends -> Nat]
  /\ tx \in [Backends -> TxRecord]

TypeIdent ==
  /\ MyCaptureGen \in [Backends -> Nat] /\ MyClientId \in [Backends -> Nat]

TypeBuf ==
  /\ TxCaptured \in [Backends -> BOOLEAN] /\ CaptureLive \in [Backends -> BOOLEAN]
  /\ TxBuf \in [Backends -> Seq(Nat)]
  /\ SkipSnap \in [Backends -> BOOLEAN] /\ snap \in [Backends -> Nat]

TypeLife ==
  /\ sess \in [Backends -> Nat] /\ exiting \in [Backends -> BOOLEAN]
  /\ conn \in [Backends -> Nat]

TypeSync ==
  /\ last \in [Procs -> BOOLEAN] /\ syncGen \in [Procs -> Nat]
  /\ lsn \in [Procs -> Nat]

\* Type correctness: every variable stays within the C type and the range the
\* hooks give it; in particular the unsigned counters open_xacts and
\* pending_xacts never go below zero.
TypeOK ==
  /\ TypeShared /\ TypeStream /\ TypeTx /\ TypeIdent /\ TypeBuf /\ TypeLife
  /\ TypeSync
  /\ pc \in [Procs -> Locations]

Open == {b \in Backends : TxOpen[b]}
Pre  == {b \in Open : TxGen[b] # generation}

\* The two counters of CaptureState are exact: open_xacts counts the open
\* transactions, and whenever the lock is free and a capture runs,
\* pending_xacts counts those that were open when it was published.  The
\* tags are taken and compared under the lock by xact_enter_shared,
\* xact_leave_shared and capture_start; a stop leaves them behind and the next
\* start repairs them.
PendingExact ==
  /\ open_xacts = Cardinality(Open)
  /\ running /\ lock = NoProc => pending_xacts = Cardinality(Pre)

IsLsn(m) == m.type = "Lsn"

\* Every transaction that was open when capture g was published has its commit
\* record at or before the sync point decided for g, so that the base contains
\* it: capture_sync_lsn runs after the last of them has left.
PreInBase ==
  \A j \in DOMAIN ring : IsLsn(ring[j]) =>
    \A i \in DOMAIN wal : i > ring[j].val => wal[i].epoch >= ring[j].gen

\* A capture gets at most one sync point: the last pre transaction and
\* pgr.cstart never both decide to run capture_sync_lsn for it.
OneLsnPerCapture ==
  \A i, j \in DOMAIN ring :
    IsLsn(ring[i]) /\ IsLsn(ring[j]) /\ ring[i].gen = ring[j].gen => i = j

\* Two connections never share a client id in the current capture, although
\* capture_start resets the counter while backends still draw from it: once the
\* lock is free again, whoever draws has adopted the new capture or is too late.
UniqueClientIds ==
  lock = NoProc /\ generation > 0 =>
    /\ \A b, c \in Backends :
         /\ MyCaptureGen[b] = generation /\ MyCaptureGen[c] = generation
         /\ pc[b] # "client" /\ pc[c] # "client"
         /\ MyClientId[b] = MyClientId[c]
         => b = c
    /\ \A i, j \in DOMAIN ring :
         /\ ring[i].type = "Connect" /\ ring[j].type = "Connect"
         /\ ring[i].gen = generation /\ ring[j].gen = generation
         /\ ring[i].client = ring[j].client
         => i = j

\* The stream starts with the sync point: nothing is pushed before
\* capture_sync_lsn, because a backend goes live only after it saw wal_ready.
\* (The worker opens the file on the Lsn message and drops what comes first.)
LsnFirst == ring # <<>> => IsLsn(ring[1])

Same(m, n) ==
  ~IsLsn(m) /\ ~IsLsn(n) /\ m.gen = n.gen /\ m.be = n.be /\ m.conn = n.conn

\* The messages of the same connection in the same capture that come before.
Before(j) == {i \in 1 .. (j - 1) : Same(ring[i], ring[j])}

\* A message follows another of its connection: the first statement after Connect is
\* the one the snapshot was taken before, and nothing follows Disconnect.
Follows(n, m) ==
  /\ m.type \in {"Connect", "Stmt"} /\ m.client = n.client
  /\ n.val = IF m.type = "Connect" THEN m.val ELSE m.val + 1

\* What the capture holds of one connection can be replayed: it starts with the
\* connection, whose snapshot was taken exactly before its first statement, it
\* misses, repeats and reorders none of the statements that follow, buffered
\* and live ones alike, and a disconnect comes after all of them.
ClientStream ==
  \A j \in DOMAIN ring : ~IsLsn(ring[j]) =>
    LET before == Before(j)
    IN  IF ring[j].type = "Connect" THEN before = {}
        ELSE \E i \in before :
               Follows(ring[j], ring[i]) /\ \A k \in before : k <= i

\* What the first capture holds of its connections can be replayed, up to the start of
\* the next one: a restart between the two reads of the generation (hooks.c:117 and
\* 120) lets a backend adopt the second capture inside an old transaction.
FirstClientStream == generation <= 1 => ClientStream

InStream(g, w) ==
  \A k \in w.first .. w.upto :
    \E j \in DOMAIN ring :
      /\ ring[j].type = "Stmt" /\ ring[j].gen = g
      /\ ring[j].be = w.be /\ ring[j].conn = w.conn /\ ring[j].val = k

\* A transaction entered after the sync point was published is captured whole
\* before it commits, and the base does not contain it, for as long as its
\* capture neither is stopped nor starts to be replaced.
ReadyTxCaptured ==
  \A i \in DOMAIN wal :
    wal[i].ready /\ wal[i].epoch = generation /\ running /\ lock = NoProc =>
      /\ InStream(generation, wal[i])
      /\ \A j \in DOMAIN ring :
           IsLsn(ring[j]) /\ ring[j].gen = generation => ring[j].val < i

\* The first capture holds every transaction that saw its sync point.  In the second,
\* wal_ready can be that of the first, set late (capture.c:143).
FirstReadyTxCaptured == generation <= 1 => ReadyTxCaptured

\* The transaction behind a commit record has been through tx_finish.
Finished(w) ==
  \/ conn[w.be] # w.conn
  \/ pc[w.be] \notin {"leave", "finish", "ready", "connect", "flush"}
  \/ \E i \in DOMAIN wal : /\ wal[i].be = w.be /\ wal[i].conn = w.conn
                           /\ wal[i].first > w.upto

NoLostCommit ==
  \A j \in DOMAIN ring, i \in DOMAIN wal :
    IsLsn(ring[j]) /\ i > ring[j].val /\ running /\ Finished(wal[i]) =>
      InStream(ring[j].gen, wal[i])

NoDoubleApply ==
  \A j \in DOMAIN ring, i \in DOMAIN wal :
    IsLsn(ring[j]) /\ i <= ring[j].val => ~InStream(ring[j].gen, wal[i])

\* A replay on top of the base shows every committed row exactly once: what
\* commits after the sync point is captured, what commits before it is not.
\* False: tx_finish looks at wal_ready at another time than capture_sync_lsn
\* reads the position, and wal_ready is set after it.
ReplayExact == NoLostCommit /\ NoDoubleApply

\* A running capture with no pre transaction left gets its sync point.
SyncHappens ==
  \A g \in 1 .. MaxCaptures :
    (generation = g /\ running /\ lock = NoProc /\ pending_xacts = 0) ~>
      (wal_ready \/ ~running \/ generation > g)

----------------------------------------------------------------------------
(* The inductive invariant behind PendingExact and PreInBase: what the      *)
(* proofs of CaptureSyncProofs need beyond the properties themselves.       *)

\* open_xacts counts the open transactions.  A backend about to leave a
\* transaction is inside one, and is inside none until it is idle again.
Closed == {"finish", "ready", "exit", "readlsn", "pushlsn", "setready"}

OpenExact == open_xacts = Cardinality(Open)
XactPc == \A b \in Backends : /\ pc[b] = "leave" => TxOpen[b]
                              /\ pc[b] \in Closed => ~TxOpen[b]

\* The capture lock is held exactly inside the two steps of capture_start.
LockInv ==
  /\ lock # NoProc => lock \in Admins /\ pc[lock] \in {"reset", "publish"}
  /\ \A a \in Admins : pc[a] \in {"reset", "publish"} => lock = a

\* A tag is 0 or the generation its transaction was entered in.
TagInv ==
  /\ running => generation > 0
  /\ \A b \in Open : /\ tx[b].epoch <= generation
                     /\ TxGen[b] \in {0, tx[b].epoch}

\* pending_xacts is exact when the lock is free, and counts every open
\* transaction just before the capture is published.
PendingInv ==
  /\ running /\ lock = NoProc => pending_xacts = Cardinality(Pre)
  /\ lock # NoProc /\ pc[lock] = "publish" => pending_xacts = open_xacts

CountInv == OpenExact /\ XactPc /\ LockInv /\ TagInv /\ PendingInv

\* No open transaction is older than the capture, by its generation g.
OpenSince(g) == g <= generation /\ \A b \in Open : tx[b].epoch >= g

\* A process that has to sync, does so when every open transaction is younger
\* than the capture it syncs for ...
SyncOpen == \A p \in Procs : last[p] => OpenSince(syncGen[p])
SyncPc   == \A p \in Procs :
              pc[p] \in {"readlsn", "pushlsn", "setready"} => last[p]

\* ... so that what commits after the position it has read is younger too ...
SyncWal == \A p \in Procs : pc[p] = "pushlsn" =>
             \A i \in DOMAIN wal : i > lsn[p] => wal[i].epoch >= syncGen[p]

\* ... and so is what commits after the position was pushed.
RingOpen == \A j \in DOMAIN ring : IsLsn(ring[j]) => OpenSince(ring[j].gen)

SyncInv == SyncOpen /\ SyncPc /\ SyncWal /\ RingOpen /\ PreInBase

IInv == TypeOK /\ CountInv /\ SyncInv
============================================================================
