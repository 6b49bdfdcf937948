# Verification of pgr

pgr records the workload of a PostgreSQL server and replays it. An extension
(`src/extension`, C) hooks into every backend, captures what clients send, and
writes captures, traces and timings through shared-memory channels. A utility
(`src/src`, Rust) replays a capture against another server, joins a capture
with the trace of its replay, compares timings, and serves a viewer
(`src/trace_viewer`, TypeScript).

This directory holds TLA+ models of that code, TLC configurations that check
them, and theorems that TLAPS proves about nine of them. Paths below are
relative to the repository unless they end in `.tla` or `.cfg`. `PROJECT.json`
lists components, runs, mutants (a plausible bug for every checked property),
the source lines of every definition, hazards, findings and theorems.

    tlc -workers 2 -config Ring.cfg MCRing
    tlapm CaptureSyncProofs.tla

## 1. Inventory

| Component (source) | State | Operations | Hard part | What makes it correct |
|---|---|---|---|---|
| Capture protocol (`hooks.c`, `capture.c`, `shmem.c`) | `open_xacts`, `pending_xacts`, `generation`, `running`, `wal_ready`, client ids; per backend its transaction tag, generation, buffer | gate before every message, enter/leave transaction, finish, go live, exit, start, stop, sync | every backend acts on shared words between which others run | one exact sync point per capture; streams that replay; base plus replay = source |
| Event ring (`ring.c`) | header and byte arrays, four counters | push, pop | copies outside the lock, wrap-around | a FIFO queue, no two owners of a cell |
| Channel worker (`channel.c`) | `id`, `generation`, `running`, `worker_pid`, the worker's open file | start, stop, push, worker loop | start and stop racing with the worker's exit; failures | one consumer; files without gaps; somebody drains |
| Recording ids (`helpers.c`) | files of a directory | `reserve_id` | a listing that is stale when used | unique, dense ids |
| Session dump and restore (`session.c`) | settings, prepared statements, temporary tables, the file | dump, restore | errors that are raised, ignored or caught, at any record; a killed backend | whole files, restores that fail cleanly, round trip |
| SQL functions, statistics (`funcs.c`, `shmem.c`) | four counters | report, reset | counters changed at different moments | never negative |
| Trace and timing events (`trace.c`, `timing.c`, `hooks.c`) | `StatementIndex`, spans | begin, end, event | nesting, errors in between | an event names the message that caused it |
| Client identification (`client_info.c`, `init.c`) | start-up options | read once | none | - |
| Replay loop (`loop.rs`, `manager.rs`) | bounded channel, lookahead, slots, timers, shift | pull, poll, dispatch, execute, end | two threads, a waker, a server that answers or dies | captured order, no lost wake, termination |
| Protocol client (`client.rs`, `proto.rs`, `utils.rs`, the socket part of `loop.rs`) | connection phase, three byte streams with compaction, what the loop awaits | connect, password, read, frames, flush, write, Terminate, drop | non-blocking sockets with edge-triggered events; partial reads and writes; a server that refuses, drops or resets | each byte once and in order; frames handled whole; nothing sent past an unanswered frame; no wait for ever |
| Readers (`capture.rs`, `trace_reader.rs`) | position in a file | next message | truncated files | what was written is read |
| Analyzer (`analyzer.rs`, `viewer.rs`) | per client: message number, queued statements, names; query, params, row and chunk files | one trace record at a time, reading the capture as far as needed | two files in different orders, numbers counted on both sides | rows name the right statement; ranges of chunks hold every row |
| Compare (`compare.rs`) | two queues per client | read, drain, skip | no sequence numbers, losses | an event is not paired with a later message; nothing is left over |
| Viewer front end (`main.ts`, `api.ts`) | caches, pending sets, chosen row | fetch, answer, redraw | late answers | what is shown belongs to what was chosen |
| Capture dump, command line, tests, scripts | - | one pass | none | - |

Interaction. A backend's hooks run the capture protocol and push messages into
a ring; the worker of the channel pops them into a file whose id
`reserve_id` chose. The capture's client records hold the name of a session
file. The manager thread reads the capture and sends commands over a bounded
channel to the loop, which speaks to the server; the server's hooks, seeing a
replayed client, record trace and timing events through two more channels. The
analyzer and compare read pairs of those files afterwards.

## 2. Modules

| Module | Models | Extends, uses |
|---|---|---|
| `CaptureSync` | the capture protocol | - |
| `CaptureSyncProofs` | theorems about it | `CaptureSync` |
| `MsgQueue` | abstract: what a ring promises | - |
| `Ring` | `ring.c` | implements `MsgQueue` under the mapping at its end |
| `Channel` | `channel.c` | uses the actions of `MsgQueue` as its ring |
| `ChannelProofs` | theorems about it | `Channel` |
| `ReserveId` | `reserve_id` | - |
| `SharedProofs` | theorems about `Ring` and `ReserveId`, what recordings share | `Ring`, `ReserveId` |
| `Session` | `session.c`, the Connect that names the file | - |
| `SessionProofs` | theorems about it | `Session` |
| `ReplayLoop` | manager thread, channel, loop, server | - |
| `ReplayLoopProofs` | theorems about it | `ReplayLoop` |
| `Stream` | the byte buffer of `utils.rs` | - |
| `Dialog` | abstract: what a connection promises the loop | - |
| `Connection` | one client, its socket and its server | `Stream`; implements `Dialog` |
| `ConnectionProofs` | theorems about it | `Connection` |
| `Storage` | the query and params files, written and read | - |
| `Analyzer` | recording, traced replay, `analyze`, chunk lookup | `Storage` |
| `AnalyzerProofs` | theorems about it and about `Storage` | `Analyzer` |
| `Compare` | recording, timed replay, `compare` | - |
| `CompareProofs` | theorems about it | `Compare` |
| `MC...` | instances for TLC | the module of that name |

There are two abstract specifications. `MsgQueue` is what a ring promises: `Ring`
implements it, and `Channel` is built on it, so that what is said about channels
rests on the promise of the ring and not on its bytes. `Dialog` is what a
connection promises: `Connection` implements it, and `ReplayLoop` relies on it
where it treats a frame, its answer and the loss of a connection as one step
each. `Channel` in turn takes from `CaptureSync!LsnFirst` that a capture's
messages begin with the Lsn record (of a second capture this is not always so, see
section 3), unless the full ring refused it, and from
`ReserveId!Unique` that ids are fresh; `ReplayLoop` takes from
`CaptureSync!FirstClientStream` what the capture can hold of a client.

### CaptureSync

A step is a stretch of C between two accesses to shared memory. `XactEnter`,
`NextMessage` and `Commit`/`Abort`/`Exit` are what the client does; the rest of
a hook is control that `pc` walks through: `gate` (the checks of
`capture_gate`), `adopt` (new generation seen), `client` (a client id is drawn),
`live` and `connect` (the go-live with its snapshot), `flush` (the transaction
buffer is pushed), `emit`, `leave` (`xact_leave_shared` under the spinlock),
`finish` and `ready` (`tx_finish`), `readlsn`, `pushlsn`, `setready`
(`capture_sync_lsn`). An administrator holds the capture lock at `reset` and
`publish`. `ring` is everything pushed, `wal` every commit record; a WAL
position is a length of `wal`. `tx`, `conn`, `syncGen` are history: they
remember when a transaction was entered and for which capture a process syncs.

Not modelled: messages outside a transaction (Sync, Close), a full ring (its worst
case, the Lsn record that is refused, is an outcome in `Channel`), buffers that
overflow, failing session dumps (see `Session`), psql clients.

### Ring, MsgQueue

Counters, headers and bytes are those of the code; bytes are pairs of message
and place so that a wrong copy shows. The section under the producer's spinlock
is one step; the copies are one step per `memcpy` (two when the range wraps), and
the consumer's releases of bytes and header are separate steps. `RingOverflow`
is left out: no message is longer than the consumer's buffer.

### Channel

`cpc` is the place of a controller in `channel_start` (reserve, publish id,
generation, running, claim the slot, register), `wpc` that of a worker in
`channel_worker_main`, one value for each of the four calls of `write_events`.
`Failures` says which of registration, fork, fopen and SIGTERM may happen.
SIGTERM sets a flag that the worker reads at the top of its loop only. Initially
`open_on_lsn` is chosen: it says whether the channel is the capture channel,
which opens its file at an Lsn message, or one that opens at once. On
the capture channel starts publish under the capture lock (`MayPublish`); on
the others under none. A recording's first message on the capture channel is the
Lsn, or any other when the ring was full and refused the Lsn (`Begun`,
`capture.c:136-144`): the worker then opens no file and discards what it pops.
The latch is left out: the wait ends after a second. So are errors of `fwrite`,
which the code does not look at.

### ReserveId

`ReadDir` sees a listing that may or may not hold the files created since the
directory was opened. The loop of `FirstFree` goes over the sorted numbers; since it
only ever asks whether the next id is among them, it is written as that question,
once for each number. `Create` is `open` with `O_CREAT|O_EXCL`.

### Session

A dump writes records one by one; a restore reads them one by one, creates tables as
it reads them and applies settings and prepared statements at the end.
Subtransaction rollback restores settings and tables, prepared statements are not
transactional. An error takes one of three ways:

- It is raised, and the dump is abandoned (`DumpFails`: `fwrite`, a lock, a cancel) or
  the restore rolled back (`RestoreFails`). The latter can be in the middle of the
  statements: outside of the block that catches their errors a subtransaction begins
  (`session.c:499`), a warning is given (`515`) and memory is taken (`529-533`). The
  statements made before it stay.
- Nobody is told: what `fflush`, `fseeko` and `fclose` return is ignored
  (`session.c:74`, `228-232`, `302`), and so is a `fread` that finds nothing between two
  records, or fewer rows than there are (`592`, `392-400`). The dump or restore goes on
  without these bytes (`Write` with `Lost`, `ReadShort`); `damage` is then `lost`. Of a
  table whose length was not patched (`Torn`) the reader takes what rows it finds.
- It is caught: any error in a prepared statement, a cancel included, is a warning
  (`507-518`), and the restore goes on without it (`skipped`).

`TypeMissing` is the case of a column type that only the dumping session's path shows.
`go_live` is where the capture writes the Connect that names the file; from then on a
replay may read it. A backend can be killed at any write (`Killed`), which leaves a
file that is `cut`, perhaps at a record's or a row's boundary, where the reader cannot
tell. Two abstractions: bytes lost are decided where the record is written, though
the kernel may refuse them as late as in `fclose`; and a reader that is out of step
after a damaged record either meets an error or takes records of the file, it does not
take bytes for a record that was never written. Two
sessions that dump under one name are left out: `pg_session_start` takes the name
from its caller, and nothing in the code keeps two callers apart.

### ReplayLoop

The manager's `Push` does `try_send`, counts what it has not announced, wakes
after `WakeBatch` or before it blocks (`SendHeld`); a push and the wake after a
batch are one step. The loop's places are the first pull, poll, handling of the
batch, second pull, dispatch, `try` (`try_dispatch` for the client `cur`) and
finish. Timers are a set; ties are broken in any way. The server owes each
client its answers in order (`owed`), gives them (`inbox`), and may drop a
connection, which the loop learns from its inbox or from a flush that fails
(`FlushFails`). `Tick` lets time pass up to `MaxNow` and whenever a timer or the
lookahead waits. `CatchUp` counts halves. Not modelled: failing polls; partial
writes, frames and authentication are in `Connection`, and here connecting ends
with the first ReadyForQuery.

### Connection, Stream, Dialog

One connection from `connect_client` to `drop_slot`. A byte is a cell: the k-th
byte of a frame of some kind, so that a byte that is lost, doubled or out of place
shows. `Stream` is `DynamicStream`: data, its three offsets and the compaction
that starts once enough was read. The loop's places are `poll`, `read` (one
`read` of at most `ReadBuf`), `parse` (one `try_read_frame` and `handle_frame`),
`flush` (outbox to write stream), `write` (one `write`) and `done` (what the
handler decides at its end); between two of them the kernel and the server act.
The kernel holds at most `NetCap` cells each way and reports an edge when cells
arrive, when a full buffer gets space again, and at the end of the connection; it may
report one for nothing (`Spurious`). The server takes whole frames, asks for a
password or refuses, answers a block with ReadyForQuery, says other things
unasked, closes or resets.

`Dialog` has a phase, the frames sent, how many of them the server answers with
ReadyForQuery, and how many of these it has said. The phase is read off the loop's
own `awaiting` and what it executes, the frames off a history of `send_frame`
(`frames`), the two counts off the bytes: where frames of these kinds begin in what was
sent (`queued`) and in what the server has said (`said`). `ImplementsDialog` is the
steps, `EveryWaitEnds` the liveness of the dialog: a connection that waits is
answered or gone in the end, which is where a lost edge would show.

### Analyzer, Compare

Both begin with a recording phase and a replay phase that produce the two files
in any interleaving the program can produce, with each record's true cause as
history (`cause`, `number`, and in `Compare` `sends`: all that each client sends), and then run the code: `analyze` (`NextTrace`,
`ReadCapture`, `OnTrace`, chunks) and `compare` (`ReadTiming`, `ReadCapture`,
`DrainSkip`, `DrainMatch`). The properties compare what the code finds with
the true cause. An event also has its `place` among the events of its client in the
file, which is the message that caused it but for the events lost before.
Left out: hash collisions, floating point, messages that fail
on the server, statistics.

`Storage` holds the writer of the query and params files byte for byte, with the
offset that is counted beside what is written, and the readers: the server that
cuts an entry out at an offset (`viewer.rs`) and the page that parses the answers
one after the other (`api.ts`). `Analyzer` calls the writer for every statement
and, once it is done, asks for the entry of every row (`Served`).

## 3. Runs

Ten runs pass, two find a violation of what the repository says of itself.

| Run | Checks | Instance |
|---|---|---|
| `sync_streams` | `TypeOK`, `LsnFirst`, `FirstClientStream`, `PreInBase`, `FirstReadyTxCaptured`, `UniqueClientIds` | 2 backends, 1 administrator, 2 captures, up to 2 statements each in the first (3 together, `MaxPair`) and 1 in the second; 5.2 million states |
| `sync_restart` | `PendingExact`, `OneLsnPerCapture`, `SyncHappens` | 1 backend, 2 administrators, 2 captures, up to 3 statements in the first and 2 in the second |
| `sync_exact` | `ReplayExact` (violated) | as `sync_streams`, 1 capture |
| `ring` | `IInv`, `Exclusive`, `ImplementsQueue`, `AllDelivered` | 2 producers, 3 headers, 4 bytes, lengths 1 to 3, 5 messages |
| `channel` | `IInv`, `SingleConsumer`, `FilesWellFormed`, `WorkerServes` (`Consumed` and `WorkerLeaves`) | either kind of channel, 2 controllers, 1 producer, all failures, 2 starts, 3 messages |
| `reserve` | `Unique`, `Dense`, `Returns` | 3 callers, files 1 and 3 exist |
| `replay` | `TypeOK`, `WireOrder` (`InOrder` and `AwaitsAnswer`), `TimersServe` (`NoLostWakeup` and `ShiftBound`), `AllSent`, `EndedTerminates` | 2 clients, 3 commands, queue of 1, wake batch of 2 |
| `replay_terminates` | `Terminates` (violated) | 1 client, 2 commands |
| `analyzer` | `TypeOK`, `Attributed` (`RowsTell` and `NothingLost`), `ChunksServe` (`ChunksTile` and `PeakFound`), `Served` | 2 clients, 1 with a session, 3 messages, 2 records |
| `compare` | `QueuesServe` (`TypeOK`, `Drained`), `NeverAhead`, `AllMatched` | 2 clients, 1 with a session, 5 messages, 2 losses each |
| `session` | `TypeOK`, `FileWhole`, `FailsCleanly`, `RoundTrip` | 2 settings, 2 statements, 2 tables, 3 commands, errors raised, ignored and caught, kills |
| `connection` | `Conveyed` (`TypeOK`, `WireOut`, `WireIn`), `Framed`, `ImplementsDialog`, `EveryWaitEnds` | frames of 2 or 3 cells, reads of 2, socket buffers of 4, 2 commands, all failures |

Why the bounds are enough to be of use:

- *CaptureSync*: the protocol's races are between a process that leaves a
  transaction, one that enters, and one that starts or syncs. Two backends give
  the pair of a syncing and a buffering one; two statements give a transaction of
  more than one message, beside one of the other backend; two captures give the
  restart, in which both backends can carry ids, buffers and transactions from the
  first to the second while the counter of client ids is reset. A transaction may
  have `MaxStmts` statements in the first capture and one less in the second
  (`StmtsIn`); the second starts while each has not used more than that.
- *Ring*: three headers and four bytes wrap both arrays within five messages, the
  array can be filled, and two producers beside the consumer commit out of order.
  What is said of the ring's safety is proved for all sizes.
- *Channel*: two starts give the overlap of an old and a new worker, two
  controllers the race for the slot, three messages a file that could have a gap.
  One producer keeps the run short: what two of them do to each other is the
  ring's matter, and `SingleConsumer` and `FilesWellFormed` are proved for any
  number.
- *Connection*: reads of two cells and a socket of four split every frame at every
  place, more is sent than either buffer holds, and a threshold of two makes the
  streams compact both between and inside frames. Two commands give a block, what
  may not overtake it, and Terminate. `MaxSaid` leaves the server room for a few
  frames unasked.
- *Session*: three commands give a temporary table with rows, a statement on it, and
  a setting or a change after the dump, two tables of which one is written or read in
  part, or two statements of which one is caught; one restore after one or several dumps.
- *ReplayLoop*: a queue of one makes every push block; a wake batch of two makes
  wakes both come and be held back; three commands give two clients that connect
  and one that goes on, or one that sends twice.
- *Analyzer* and *Compare*: two clients give files that mix in different orders;
  three messages give a Bind or Execute with and without what it refers to.

`CHECK_DEADLOCK FALSE` everywhere: clients, administrators and producers may stop
for good, and the bounds end every behaviour.

### What the passing runs say with a restriction

- `FirstClientStream` and `FirstReadyTxCaptured` speak of the first capture until a
  second is published, and `LsnFirst` of the first message of all. With two captures,
  the backend that publishes the sync
  point of the first can set `wal_ready` (`capture.c:143`) after the second has reset
  it, so clients of the second push before its Lsn; and `hooks.c:117` and `hooks.c:120`
  read the generation twice, so that a restart in between lets a backend adopt the new
  capture within an old transaction. What they say of a capture (`ClientStream`,
  `ReadyTxCaptured`) is false of the second; `UniqueClientIds` and `PreInBase` hold of
  every one.
- `UniqueClientIds` speaks of states with the capture lock free. Between the reset of
  the counter and the publication of the next capture (`capture_start`), backends of
  the running capture draw from the new count, and one that goes live then can write a
  Connect with an id that capture has already.
- `FilesWellFormed` says that no message is lost inside a file or doubled
  across files. That a file holds only its own recording is false after a
  start that does not wait for the last recording to drain: the worker writes
  to the file that is open (`channel.c:54-67`), and a new generation closes it
  without draining (`channel.c:114-116`). On a channel that opens at once the
  worker may open a file before it sees the generation, and open it again, with
  mode `w`, when it does (`channel.c:113`, `121`, `46`).
- `Consumed` asks for a worker that exists or is being started. A worker that is
  registered and never runs leaves `worker_pid` at -1 (`channel.c:150-159`), one
  that dies leaves `running` set, and a start that publishes while another
  start's registration fails finds the slot taken (`channel.c:174-178`).
- `Attributed` (`RowsTell` and `NothingLost`) speaks of clients without a saved
  session. A
  replayed client with one first runs the restoring statement
  (`manager.rs:95`), which the server counts and `on_capture` does not
  (`analyzer.rs:192`): its rows name the next message.
- `params_offset` of the analyzer counts 2 bytes for each type and writes 4
  (`analyzer.rs:102-108`), and `read_params` and `parseParams` take the types for
  format codes of 2 bytes (`viewer.rs:139-150`, `api.ts:114-120`). `Served` therefore
  speaks of the params file only while no Bind had parameters; of the query file it
  speaks always. No doc says what the layout should be, so this is no finding.
- `RoundTrip` speaks of named prepared statements: `apply_prepared` skips the
  unnamed one (`session.c:537`), which `build_prepared` writes; and not of those in
  which an error was caught. From a file that a killed backend cut or that lost bytes, a
  restore can succeed with a part of the tables and of their rows; `RoundTrip` says
  that it then brings in nothing that was not dumped.
- `FileWhole` says of a file that lost bytes without an error only that it holds nothing
  that was not there: the dump counts as done and a Connect names the file.
- `FailsCleanly` allows statements to stay behind after a restore that failed: they
  do not roll back.
- `FilesWellFormed` does not say that a recording has a file: when the ring refuses
  the Lsn record, `wal_ready` is set all the same (`capture.c:138-143`), the worker
  never opens a file for the recording and drops what it pops.
- `ImplementsDialog` lets a connection leave at any time: a server that refuses or
  drops ends the client, and `handle_auth` gives up on any request but a password.

### Findings

- `sync_exact`: `tx_finish` (`hooks.c:162`) reads `wal_ready` once to decide
  between dropping and pushing a buffered transaction. `capture_sync_lsn`
  (`capture.c:138-143`) reads the WAL position, pushes it, and sets `wal_ready`.
  A transaction that commits and finishes in between is behind the position and
  dropped; one that commits before the position and finishes after the flag is
  before the position and pushed. `tests/pgbench.py:80-81` expects no difference.
- `replay_terminates`: `next_timeout` (`loop.rs:185`) is None once the channel
  was seen closed and no timer is set. The manager wakes the loop before it drops
  the sender (`manager.rs:223-225`), so the first pull of a round can see the
  close after the last wake was consumed, and the poll sleeps for ever.

## 4. Fairness

- `CaptureSync`: a hook that was entered runs on (`WF` on `Hook`, `Start`,
  `Sync`); the spinlock is given to every waiter in the end, which is what the
  `SF` on `xact_leave_shared` says. Clients and administrators need do nothing:
  `SyncHappens` speaks of a capture with no transaction left to wait for.
- `Ring`: producers that have reserved and the consumer go on.
- `Channel`: a start that has begun, a copy into the ring and the worker, which
  polls, go on. Nobody has to start, stop or push.
- `ReserveId`: a call goes on; it need not fail.
- `Connection`: the loop handles events and finishes what it began; the network
  delivers; the server reads, answers what it was asked, writes what there is
  space for, and closes when it was told to, has refused its client or has lost it
  (`ServerClose`). Nothing makes the capture hold a next command, and nothing makes the
  server refuse, drop (`ServerDrop`) or reset: no wait ends because of one.
- `ReplayLoop`: both threads, the clock, and the server's answers go on, and the
  reading of the capture ends.
- `Analyzer`, `Compare`, `Session` have safety properties only.

## 5. Proofs

All theorems hold for every value of the constants that the named assumptions
allow (any finite set of backends, any bounds).

- `CaptureSyncProofs`: `TypeCorrect`, `CountersExact` (`PendingExact`) and
  `SyncPointCoversPre` (`PreInBase`), from `Invariance`.
  `IInv == TypeOK /\ CountInv /\ SyncInv`.
  *CountInv* is needed because `PendingExact` says nothing while the lock is held
  or the capture is stopped: it adds that the lock is held exactly inside the two
  steps of a start, that just before a start publishes `pending_xacts` equals
  `open_xacts`, that a tag is 0 or the generation the transaction entered under,
  and where in its control a backend is inside a transaction. The counters are
  cardinalities of sets of backends, so the steps that enter and leave cite the
  facts about adding to and removing from a finite set.
  *SyncInv* carries `PreInBase` from the decision to the push: a process that has
  to sync does so when every open transaction is younger than the capture it
  syncs for (`SyncOpen`), hence so is what commits after the position it read
  (`SyncWal`) and after it was pushed (`RingOpen`). The proofs treat the actions in kinds:
  those that leave the counters alone, those that enter, leave, start or stop,
  those that decide, those that sync.
  `OneSyncPoint` (`OneLsnPerCapture`) and `ClientIdsUnique`
  (`UniqueClientIds`) stand on top of `Invariance`. `OnceInv` says that one process has
  to sync for a capture (`OneOwner`), that once it has pushed the position it has only
  `wal_ready` left to set (`OneDone`), and that once somebody was to sync nothing is
  pending (`NonePending`), so that no later decrement decides again; the last needs
  `PendingExact`. `IdsInv` says that no backend and no Connect is ahead of the
  generation (`NotAhead`), that with the lock free every id in use lies below the counter
  and a backend whose Connect is in the stream is live (`Drawn`), and that one which is
  about to write its Connect is not (`ConnectsOnce`). The reset of the counter breaks
  `Drawn` until the new generation is published, since then no id is in use.
- `CaptureSyncProofs`, last part: `StreamStartsAtLsn` (`LsnFirst`), `FirstCaptureReplays`
  (`FirstClientStream`) and `FirstReadyCaptured` (`FirstReadyTxCaptured`), the last two
  as long as there is one capture (`generation <= 1`), whatever the bounds.
  `LsnFirst` needs `Silent`: while the ring is empty `wal_ready` is neither set nor about
  to be, and nobody is live or going to be.
  `StreamInv == Begun /\ ClientStream /\ \A b : Local(b)` ties the stream to what each
  backend holds. What follows the stream of a connection is in the backend: the
  statements it buffers run up to its last one from the one the snapshot was taken before
  (`Buffered`); once it is live the last message of the connection ends where the buffer
  begins, and before it there is none (`Said`). This rests on where in its hook a backend
  can be with which flags (`Placed`) and on a backend past the gate having adopted the
  capture its transaction is of (`Adopted`). `ClientStream` alone does not say what may be
  pushed next. Statements that come while no capture runs leave a gap between the buffer
  and the last statement; `Going` excludes those, since such a backend pushes nothing more.
  `Begun` says that a client message comes from a connection there has been, so that
  the next one of a backend starts with nothing in the stream.
  `ReadyInv` follows a transaction from its entry: who sees `wal_ready` has the
  sync point in the ring (`ReadySynced`); an open transaction that saw it is of the
  capture, live when it gets to its statement, and all its statements are in the stream
  as long as nobody stops or starts (`ReadyTx`); so are those that committed, behind
  the position (`ReadyWal`). That there is no other position is `OneSyncPoint`.
- `ChannelProofs`: `Invariance`, `OneConsumer` (`SingleConsumer`) and `FilesHold`
  (`FilesWellFormed`).
  `IInv == TypeOK /\ SlotOwned /\ Published`. `SlotOwned` says who holds
  `worker_pid` in each phase (a starter, a worker not yet registered, a worker
  that serves) and that there is one of them; `SingleConsumer` alone is not
  inductive because a second worker would come from a slot thought free.
  `FilesHold` strengthens `FilesWellFormed` to
  `FInv == IInv /\ Len(delivered) <= Len(accepted) /\ Known /\ Current /\ FilesWellFormed`:
  what files hold has been delivered (`Known`), and an open file belongs to the worker
  that serves, ends with the message popped last, and on the capture channel is not
  empty (`Current`). A file is appended to only while it is current, and the message
  just popped is in no file yet, so it extends its own run and meets no other.
- `SharedProofs`, about `Ring`: `RingInvariant` (`IInv`), `RingExclusive` (`Exclusive`) and
  `RingImplements` (`ImplementsQueue`), for any number of producers and any sizes.
  `IInv == TypeOK /\ Counters /\ Layout /\ Owners /\ Contents`. Neither
  `Exclusive` nor the refinement is inductive: that two copies do not overlap rests
  on the ranges of the headers in use lying in order between the two byte counters
  (`Layout`), whose distance `reserve` keeps within the size (`Counters`); that a
  header is not given out again rests on who is at it (`Owners`); that a message is
  delivered as it was pushed rests on the bytes between the copy in and the copy
  out (`Contents`). Lemmas about numbers modulo the size say that positions that lie
  less than the size apart are at different places, which turns order into
  disjointness. For the refinement, a buffer decodes to the message whose bytes it
  holds, and to no other, since bytes carry their message; each step of the ring
  then is one of the queue's (`Reserve`, `Publish`, `Pop`) or changes nothing of it.
- `ConnectionProofs`: `ConnectionConveys` (`Conveyed`), for any sizes of frames,
  reads, sockets and any compaction threshold. The invariant is `Conveyed` itself:
  it is inductive because it says of both directions where every byte is. Lemmas
  about `Stream` say what a write appends, what marking as read removes, and that
  compaction changes no data.
  `FramesWhole` (`Framed`) adds
  `FramesInv == Conveyed /\ Frames(said) /\ Framed`: what the server says is a sequence
  of frames, located by position and not by recursion; what is handled is, by
  `Conveyed`, a prefix of it, and if that prefix ends with a frame and a header is
  readable, the length read there is that of the next frame.
  `DialogKept` (`ImplementsDialog`) proves the refinement, from
  `DialogInv == FramesInv /\ Taking /\ Answering /\ Passing /\ Working /\ Awaiting`.
  What the client and the server do about each other's frames is tied together only by
  the bytes on their way. `Taking` says that the server reads what was sent from where
  it has taken the last frame, so that the next it takes is the next that was sent;
  `Answering` that it has said ReadyForQuery at most once for each frame it has taken
  that asks for it, and in the states in which it will say it, less often; `Awaiting`
  that the client has sent one such frame more than it has read answers if it waits, and
  as many if it does not. Between the two stand `FramesInv` and the fact that frames
  that begin in a prefix are no more than those in the whole, hence at most one frame is
  unanswered, an answer comes only while the client waits, and when it is taken for
  ready all is answered. `Passing` follows the one request for a password from
  `said` to the "pass" in `queued`, since nobody answers before that has been sent;
  `Working` says where the loop is in its work, and that a Terminate which was sent is
  remembered.
- `ReplayLoopProofs`: `TypeCorrect` (`TypeOK`), `WireOrderHolds` (`WireOrder`) and
  `TimersServeClients` (`TimersServe`), for any capture, any number of clients, any size
  of the channel and of the wake batch, and whatever servers drop.
  `IInv == TypeOK /\ Streams /\ Closing /\ Queues /\ UnderWay /\ InOrder /\ Dialogs /\ Armed /\ Clocked`.
  `WireOrder` is about what was sent; that the next frame is the right one rests on
  what is still under way. The commands of all clients share the manager's hand, the
  channel and the lookahead, so `UnderWay` says of each client that its commands are
  embedded in this flow, none between them, as the continuation of its slot's queue
  (`Queues`), which in turn continues what was sent; `Streams` says that a captured
  client begins with Connect and that nothing follows its Terminate, and `Closing` that nothing is left
  in the channel when the loop sees it closed. `Dialogs` relates what the loop awaits to
  what the server owes, so that a frame goes out only when all is answered. `Armed` says
  which clients have a timer: all that could send, but for the one that is being tried;
  `Clocked` that neither the shift nor an answer lies in the future.
- `SessionProofs`: `TypeCorrect` (`TypeOK`), `FilesWhole` (`FileWhole`),
  `RestoresFailCleanly` (`FailsCleanly`) and `RestoresWhatWasDumped` (`RoundTrip`), for
  any finite sets of statements and tables and any settings, with errors raised, ignored
  or caught at every record and kills at every write.
  `IInv == TypeOK /\ TypeKept /\ Progress /\ Files /\ Reading /\ Preparing /\ Results`.
  The properties speak of the end of a dump or restore; in the middle, `Progress` says
  which records of the session are in the file and which are to come, `Files` that a file
  that is there and lost nothing holds every record once, and any other only records of
  the session, of a table perhaps a part, `Reading` that every record is either
  applied or still to be read, `Preparing` the same of the prepared statements, each of
  which is prepared or still on the list, or was skipped because its table is not there or
  an error was caught. That `FailsCleanly` holds although statements stay rests on
  `StatementsKept` in `Preparing`: at each place a restore can fail, those made so far are
  as dumped and stand where there was none.
- `CompareProofs`: `QueuesHold` (`QueuesServe`), `MatchesTrue`
  (`NeverAhead`) and `EveryEventMatched` (`AllMatched`), for any numbers of clients,
  messages and lost events and any interleaving of either file.
  `IInv` is `Types`, `Phases`, `Drained`, `Waits`, `PairsTrue` and, of each client,
  `CaptureShape /\ TimingShape /\ CapQueue /\ TimQueue /\ SkipsLost`.
  The queues of a client are the stretches of the two files that have been read and
  not yet been consumed: `CapQueue` says that the numbers in the one are consecutive,
  after those matched and skipped, with the kinds of `sends`; `TimQueue` the same of the
  places in the other, after those matched. The k-th event of a client was caused by a
  message at k or later, by at most as many as were lost before it (`TimingShape`);
  so the message at the front is never later than the cause of the event at the front,
  and when their kinds differ it is not the cause: an event was lost, which
  `SkipsLost` counts. `Waits` says that only the client whose event was read last can
  still need a message.
- `SharedProofs`, about `ReserveId`: `IdsUnique` (`Unique`), from `UniqueInv`: what was handed
  out is in the directory, so exclusive creation cannot hand it out again; and
  `IdsDense` (`Dense`), from `DenseInv`: all numbers below an id that a caller is about
  to create are taken, and stay so. The latter rests on what the loop over the
  listing returns, its lowest free number (`FirstFreeLowest`), for a listing of any length.
  This is an induction over data: the library's induction theorems
  are no help, but `SetInduction` (a set of naturals with 0 and, with each number, the
  next, holds all) follows from the well-foundedness of `<` and takes a set in place of
  an operator.
- `AnalyzerProofs`: `TypeCorrect` (`TypeOK`), `RowsAttributed` (`Attributed`),
  `ChunksHold` (`ChunksServe`) and `ServedHolds` (`Served`), for any clients, names,
  texts, types and times, any capture and any mix of its replay.
  `IInv == Recording \/ Replaying \/ Joining` follows the phases. While the capture is
  replayed, a record carries the number that the message which caused it has among the
  counted messages of its client (`RecordOK`), and the records of a client are in the
  order of these numbers (`TraceOK`). In the join, `ClientOK` says of each client what the
  messages read so far say: its counter is their number (`Number`), a name or portal stands
  for the text of its last Parse or Bind (`NameTells`, `PortalTells`), and each statement
  kept is that of a message, in order (`QueriesTell`); `Keeps` says that no statement is
  missing that a record still to come may be about, since only those before the record in
  hand were dropped and later records of that client do not go back. Record and statement
  meet by number because different messages of a client have different numbers
  (`NumberUnique`). `RowsOK` and `ChunksOK` say the same of what has been written. What
  was written at an offset stays there (`StorageOK`, `Carries`) and is read back as it was
  written (`ReadHeld`).
  `Served` is about the files as a whole. That an answer is taken apart into the entries
  it was made of is an induction over its entries (`ParsedBack`, again by `SetInduction`):
  each stands where those before it end, and an entry is read from its own bytes alone
  (`EntryRead`). For the parameters, a second invariant, `ParamsKept`: while no Bind had
  parameters, what is counted is what is written, and each statement, portal and row that
  has an offset has an entry there that names its text. `BindRead` reads such an entry
  back. `ServedHolds` says `Len(st.queries) < Huge => Served`: the model does not tell
  numbers of 2^24 and more apart when it reads bytes (`Value`), so a text beyond that
  offset could not be recognised.

Only model-checked is liveness (`SyncHappens`, `AllDelivered`, `WorkerServes`, `Returns`,
`AllSent`, `EndedTerminates`, `EveryWaitEnds`), which the prover does not reach. Every
safety property of a passing run is stated by a theorem, `Served` under the bound above.

## 6. Plan

Done, in this order: `CaptureSync` with its proofs, since it is what makes a replay
mean anything; `MsgQueue`, `Ring`, `Channel`, `ReserveId`, which stand behind a push;
`ReplayLoop`, the other concurrent half; `Session`, `Analyzer`, `Compare`, sequential
code on interleaved inputs; `Connection` with `Dialog`; `Storage`; killed dumps in
`Session`; refused Lsn records and both kinds of channel in `Channel`; the proofs
about `Ring`, the files of `Channel`, the bytes and frames of `Connection`, sync
points, client ids and streams of `CaptureSync`, `ReplayLoop`, `Session`, `Compare`,
`ReserveId`, `Analyzer` with `Storage`, and the refinement of `Dialog`.

Left:

1. `CaptureSync`: a full ring and overflowing buffers as outcomes of every push,
   messages outside a transaction.
2. `Analyzer`: messages that fail on the server.

## 7. Not modelled

- The viewer front end: what it does with late answers depends on the browser's
  event loop, which the repository does not hold; what the page and its server rely
  on in the files is in `Analyzer` and `Storage`.
- The statistics counters: four independent sums, read one by one; the one hazard
  they have (a rollback counted when its statement starts, the abort when the
  transaction ends) is listed.
- Client identification and the installation of hooks: one pass, no shared state.
- The CSV dump and the command line, with the counters of `ReplayStats`: sequential,
  no state that a later step depends on.
- Tests and scripts: read for what they promise.

Time durations, texts, floating point and wrap-around of 32-bit counters at 2^32 are
abstracted everywhere.
