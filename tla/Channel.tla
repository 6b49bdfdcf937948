------------------------------ MODULE Channel ------------------------------
(***************************************************************************)
(* One channel of channel.c (capture, trace or timing): the shared state    *)
(* id / generation / running, the slot worker_pid, the controllers that     *)
(* start and stop a recording, and the background worker that empties the   *)
(* ring into the file of the recording.                                     *)
(*                                                                         *)
(* The ring is the queue MsgQueue, which Ring implements.  What a producer  *)
(* pushes is abstracted to the recording it saw running and, on the capture *)
(* channel, to whether it is that recording's Lsn message (which precedes   *)
(* its other messages: CaptureSync!LsnFirst).  A push that the full ring     *)
(* refuses leaves no trace, except that of the Lsn message.  The latch is    *)
(* left out: the wait it shortens ends after a second (channel.c:137-138).   *)
(***************************************************************************)
EXTENDS Integers, Sequences, FiniteSets

CONSTANTS Controllers,  \* sessions that call the start and stop functions
          Producers,    \* backends that push
          Failures,     \* what may fail: "register", "fork", "open", "term"
          MaxStarts,    \* bound: starts, and so worker processes
          MaxMsgs       \* bound: messages accepted

ASSUME ChannelAssumption ==
  /\ Failures \subseteq {"register", "fork", "open", "term"}
  /\ MaxStarts \in Nat /\ MaxMsgs \in Nat

Workers == 1 .. MaxStarts      \* pids: at most one worker per start
Ids == 1 .. MaxStarts          \* what reserve_id hands out
Claimed == -1                  \* worker_pid while a worker is being started

VARIABLES open_on_lsn,     \* Descs[k].open_on = MsgTypeLsn: the capture channel
          id, generation, running, worker_pid,     \* struct Channel
          accepted, committed, delivered,          \* its ring
          cpc, myid, reserved,     \* controllers; ids handed out so far
          ppc, saw, place,         \* producers
          wpc, File, WorkerGeneration, busy, \* workers
          files,                   \* positions of the messages in each file
          name                     \* history: generation -> id its start returns

chan  == <<open_on_lsn, id, generation, running>>
ring  == <<accepted, committed, delivered>>
ctl   == <<cpc, myid, reserved>>
prod  == <<ppc, saw, place>>
work  == <<wpc, File, WorkerGeneration, busy>>
vars  == <<chan, worker_pid, ring, ctl, prod, work, files, name>>

\* The recording a message belongs to, and whether it is its Lsn message.
Message == [of : Ids, lsn : BOOLEAN]

Ring == INSTANCE MsgQueue WITH Msgs <- Message

Init ==
  /\ open_on_lsn \in BOOLEAN
  /\ id = 0 /\ generation = 0 /\ running = FALSE /\ worker_pid = 0
  /\ accepted = <<>> /\ committed = {} /\ delivered = <<>>
  /\ cpc = [c \in Controllers |-> "idle"]
  /\ myid = [c \in Controllers |-> 0] /\ reserved = 0
  /\ ppc = [p \in Producers |-> "idle"]
  /\ saw = [p \in Producers |-> 0] /\ place = [p \in Producers |-> 0]
  /\ wpc = [w \in Workers |-> "none"]
  /\ File = [w \in Workers |-> 0]
  /\ WorkerGeneration = [w \in Workers |-> 0]
  /\ busy = [w \in Workers |-> FALSE]
  /\ files = [i \in Ids |-> <<>>]
  /\ name = <<>>

----------------------------------------------------------------------------
(* Controllers: channel_start, capture_start and channel_stop.             *)

CGoto(c, l) == cpc' = [cpc EXCEPT ![c] = l]

\* reserve_id returns an id nobody else has (module ReserveId).
Start(c) ==
  /\ cpc[c] = "idle" /\ reserved < MaxStarts
  /\ reserved' = reserved + 1
  /\ myid' = [myid EXCEPT ![c] = reserved']
  /\ CGoto(c, "id")
  /\ UNCHANGED <<chan, worker_pid, ring, prod, work, files, name>>

\* capture_start publishes under the capture lock; channel_start under none.
MayPublish == open_on_lsn => \A d \in Controllers : cpc[d] \notin {"gen", "run"}

PublishId(c) ==
  /\ cpc[c] = "id" /\ MayPublish
  /\ id' = myid[c]
  /\ CGoto(c, "gen")
  /\ UNCHANGED <<open_on_lsn, generation, running, worker_pid, ring, myid, reserved, prod,
                 work, files, name>>

\* Nothing reads the id after this.
PublishGeneration(c) ==
  /\ cpc[c] = "gen"
  /\ generation' = generation + 1
  /\ name' = Append(name, myid[c])
  /\ myid' = [myid EXCEPT ![c] = 0]
  /\ CGoto(c, "run")
  /\ UNCHANGED <<open_on_lsn, id, running, worker_pid, ring, reserved, prod,
                 work, files>>

PublishRunning(c) ==
  /\ cpc[c] = "run"
  /\ running' = TRUE
  /\ CGoto(c, "ensure")
  /\ UNCHANGED <<open_on_lsn, id, generation, worker_pid, ring, myid, reserved, prod, work,
                 files, name>>

\* Faulty variant: a slot that is being filled counts as free.
SlotFree_Claimed == worker_pid \in {0, Claimed}
SlotFree == worker_pid = 0

ClaimSlot(c) ==
  /\ cpc[c] = "ensure"
  /\ IF SlotFree
       THEN worker_pid' = Claimed /\ CGoto(c, "register")
       ELSE UNCHANGED worker_pid /\ CGoto(c, "idle")
  /\ UNCHANGED <<chan, ring, myid, reserved, prod, work, files, name>>

\* RegisterDynamicBackgroundWorker, and the postmaster's fork.
Registers(c) ==
  /\ cpc[c] = "register"
  /\ \E w \in Workers :
       /\ wpc[w] = "none" /\ \A v \in 1 .. w - 1 : wpc[v] # "none"
       /\ \E l \in {"spawned"} \cup (IF "fork" \in Failures THEN {"lost"} ELSE {}) :
            wpc' = [wpc EXCEPT ![w] = l]
  /\ CGoto(c, "idle")
  /\ UNCHANGED <<chan, worker_pid, ring, myid, reserved, prod, File,
                 WorkerGeneration, busy, files, name>>

RegisterFails(c) ==
  /\ cpc[c] = "register" /\ "register" \in Failures
  /\ running' = FALSE
  /\ CGoto(c, "unclaim")
  /\ UNCHANGED <<open_on_lsn, id, generation, worker_pid, ring, myid, reserved, prod, work,
                 files, name>>

Unclaim(c) ==
  /\ cpc[c] = "unclaim"
  /\ worker_pid' = 0
  /\ CGoto(c, "idle")
  /\ UNCHANGED <<chan, ring, myid, reserved, prod, work, files, name>>

\* channel_stop
Stop(c) ==
  /\ cpc[c] = "idle" /\ running
  /\ running' = FALSE
  /\ UNCHANGED <<open_on_lsn, id, generation, worker_pid, ring, ctl, prod, work, files, name>>

Control(c) ==
  \/ PublishId(c) \/ PublishGeneration(c) \/ PublishRunning(c)
  \/ ClaimSlot(c) \/ Registers(c) \/ RegisterFails(c) \/ Unclaim(c)

----------------------------------------------------------------------------
(* Producers: a hook finds the channel running, and pushes later.          *)

Hook(p) ==
  /\ ppc[p] = "idle" /\ running
  /\ saw' = [saw EXCEPT ![p] = name[generation]]
  /\ ppc' = [ppc EXCEPT ![p] = "push"]
  /\ UNCHANGED <<chan, worker_pid, ring, ctl, place, work, files, name>>

Begun(i) == \E n \in DOMAIN accepted : accepted[n].of = i

\* A recording's Lsn message is its first, unless the full ring refused it: then it
\* has none (capture.c:138-141 goes on all the same).
Reserve(p) ==
  /\ ppc[p] = "push" /\ Len(accepted) < MaxMsgs
  /\ \E lsn \in BOOLEAN :
       /\ lsn => open_on_lsn /\ ~Begun(saw[p])
       /\ Ring!Accept([of |-> saw[p], lsn |-> lsn])
  /\ place' = [place EXCEPT ![p] = Len(accepted')]
  /\ ppc' = [ppc EXCEPT ![p] = "copy"]
  /\ UNCHANGED <<chan, worker_pid, ctl, saw, work, files, name>>

Commit(p) ==
  /\ ppc[p] = "copy"
  /\ Ring!CommitAt(place[p])
  /\ ppc' = [ppc EXCEPT ![p] = "idle"]
  /\ UNCHANGED <<chan, worker_pid, ctl, saw, place, work, files, name>>

----------------------------------------------------------------------------
(* channel_worker_main.                                                    *)

WGoto(w, l) == wpc' = [wpc EXCEPT ![w] = l]

Register(w) ==
  /\ wpc[w] = "spawned"
  /\ worker_pid' = w
  /\ WGoto(w, "top")
  /\ UNCHANGED <<chan, ring, ctl, prod, File, WorkerGeneration, busy, files, name>>

\* SIGTERM sets a flag that is read at the top of the loop and nowhere else, so
\* the signal comes when it is read.
ShutDown(w) ==
  /\ "term" \in Failures /\ wpc[w] = "top"
  /\ WGoto(w, "final")
  /\ UNCHANGED <<chan, worker_pid, ring, ctl, prod, File, WorkerGeneration, busy,
                 files, name>>

\* A new generation closes the file; what is still in the ring stays there.
NewGeneration(w) ==
  /\ wpc[w] = "top" /\ WorkerGeneration[w] # generation
  /\ File' = [File EXCEPT ![w] = 0]
  /\ WorkerGeneration' = [WorkerGeneration EXCEPT ![w] = generation]
  /\ WGoto(w, "open")
  /\ UNCHANGED <<chan, worker_pid, ring, ctl, prod, busy, files, name>>

SameGeneration(w) ==
  /\ wpc[w] = "top" /\ WorkerGeneration[w] = generation
  /\ WGoto(w, "stopped")
  /\ UNCHANGED <<chan, worker_pid, ring, ctl, prod, File, WorkerGeneration, busy,
                 files, name>>

DrainIfStopped(w) ==
  /\ wpc[w] = "stopped"
  /\ WGoto(w, IF ~running /\ File[w] # 0 THEN "drain" ELSE "open")
  /\ UNCHANGED <<chan, worker_pid, ring, ctl, prod, File, WorkerGeneration, busy,
                 files, name>>

\* fopen(path, "w") empties the file.
Opened == [files EXCEPT ![id] = <<>>]

OpenFile(w) ==
  /\ wpc[w] = "open" /\ ~open_on_lsn /\ running /\ File[w] = 0
  /\ files' = Opened
  /\ File' = [File EXCEPT ![w] = id]
  /\ WGoto(w, "write")
  /\ UNCHANGED <<chan, worker_pid, ring, ctl, prod, WorkerGeneration, busy, name>>

NothingToOpen(w) ==
  /\ wpc[w] = "open" /\ (open_on_lsn \/ ~running \/ File[w] # 0)
  /\ WGoto(w, "write")
  /\ UNCHANGED <<chan, worker_pid, ring, ctl, prod, File, WorkerGeneration, busy,
                 files, name>>

\* The calls of write_events, by the line they are made from.
Writing == {"drain", "write", "rewrite", "final"}

Next1 == Ring!NextOut
Popping(w) ==
  /\ wpc[w] \in Writing
  /\ Ring!Deliver
  /\ busy' = [busy EXCEPT ![w] = TRUE]

\* Faulty variant: what is popped after a stop is not written.
WriteEvent_Running(w) ==
  /\ Popping(w) /\ File[w] # 0
  /\ files' = IF running THEN [files EXCEPT ![File[w]] = Append(@, Next1)] ELSE files
  /\ UNCHANGED <<chan, worker_pid, ctl, prod, wpc, File, WorkerGeneration, name>>
WriteEvent(w) ==
  /\ Popping(w) /\ File[w] # 0
  /\ files' = [files EXCEPT ![File[w]] = Append(@, Next1)]
  /\ UNCHANGED <<chan, worker_pid, ctl, prod, wpc, File, WorkerGeneration, name>>

Opens(m) == open_on_lsn /\ m.lsn /\ running

OpenAndWriteEvent(w) ==
  /\ Popping(w) /\ File[w] = 0 /\ Opens(accepted[Next1])
  /\ files' = [Opened EXCEPT ![id] = Append(@, Next1)]
  /\ File' = [File EXCEPT ![w] = id]
  /\ UNCHANGED <<chan, worker_pid, ctl, prod, wpc, WorkerGeneration, name>>

SkipEvent(w) ==
  /\ Popping(w) /\ File[w] = 0 /\ ~Opens(accepted[Next1])
  /\ UNCHANGED <<chan, worker_pid, ctl, prod, wpc, File, WorkerGeneration,
                 files, name>>

AfterWriting(w) ==
  CASE wpc[w] = "drain" -> "open"
    [] wpc[w] = "final" -> "cleanup"
    [] wpc[w] = "write" -> IF busy[w] THEN "top" ELSE "exit"
    [] wpc[w] = "rewrite" -> "top"

\* write_events finds nothing ready; two of its callers then close the file.
Emptied(w) ==
  /\ wpc[w] \in Writing /\ Next1 \notin committed
  /\ File' = IF wpc[w] \in {"drain", "final"} THEN [File EXCEPT ![w] = 0] ELSE File
  /\ busy' = [busy EXCEPT ![w] = FALSE]
  /\ WGoto(w, AfterWriting(w))
  /\ UNCHANGED <<chan, worker_pid, ring, ctl, prod, WorkerGeneration, files, name>>

\* Faulty variant: the slot is not given back.
TryExit_KeepSlot(w) ==
  /\ wpc[w] = "exit"
  /\ IF running
       THEN WGoto(w, "rewrite") /\ UNCHANGED <<worker_pid, File>>
       ELSE WGoto(w, "gone") /\ File' = [File EXCEPT ![w] = 0] /\ UNCHANGED worker_pid
  /\ UNCHANGED <<chan, ring, ctl, prod, WorkerGeneration, busy, files, name>>
\* worker_try_exit, close_file and the exit of the process.
TryExit(w) ==
  /\ wpc[w] = "exit"
  /\ IF running
       THEN WGoto(w, "rewrite") /\ UNCHANGED <<worker_pid, File>>
       ELSE WGoto(w, "cleanup") /\ worker_pid' = 0 /\ File' = [File EXCEPT ![w] = 0]
  /\ UNCHANGED <<chan, ring, ctl, prod, WorkerGeneration, busy, files, name>>

\* Faulty variant: the cleanup empties the slot whoever holds it.
Cleanup_Always(w) ==
  /\ wpc[w] = "cleanup"
  /\ worker_pid' = 0
  /\ WGoto(w, "gone")
  /\ UNCHANGED <<chan, ring, ctl, prod, File, WorkerGeneration, busy, files, name>>
\* worker_cleanup, at the exit of the process.
Cleanup(w) ==
  /\ wpc[w] = "cleanup"
  /\ worker_pid' = IF worker_pid = w THEN 0 ELSE worker_pid
  /\ WGoto(w, "gone")
  /\ UNCHANGED <<chan, ring, ctl, prod, File, WorkerGeneration, busy, files, name>>

\* open_file raises ERROR, which ends the process.
OpenFails(w) ==
  /\ "open" \in Failures /\ File[w] = 0
  /\ \/ wpc[w] = "open" /\ ~open_on_lsn /\ running /\ UNCHANGED <<ring, busy>>
     \/ Popping(w) /\ Opens(accepted[Next1])
  /\ WGoto(w, "cleanup")
  /\ UNCHANGED <<chan, worker_pid, ctl, prod, File, WorkerGeneration, files, name>>

Work(w) ==
  \/ Register(w) \/ ShutDown(w) \/ NewGeneration(w) \/ SameGeneration(w)
  \/ DrainIfStopped(w) \/ OpenFile(w) \/ NothingToOpen(w)
  \/ WriteEvent(w) \/ OpenAndWriteEvent(w) \/ SkipEvent(w) \/ Emptied(w)
  \/ TryExit(w) \/ Cleanup(w) \/ OpenFails(w)

----------------------------------------------------------------------------

Next ==
  \/ \E c \in Controllers : Start(c) \/ Stop(c) \/ Control(c)
  \/ \E p \in Producers : Hook(p) \/ Reserve(p) \/ Commit(p)
  \/ \E w \in Workers : Work(w)

Spec == Init /\ [][Next]_vars

\* A start that has begun runs on, so does a copy into the ring, and the
\* worker polls.  Nobody has to start, to stop or to push.
FairSpec ==
  /\ Spec
  /\ \A c \in Controllers : WF_vars(Control(c))
  /\ \A p \in Producers : WF_vars(Commit(p))
  /\ \A w \in Workers : WF_vars(Work(w))

----------------------------------------------------------------------------
(* Properties.                                                             *)

\* Type correctness of the channel, its controllers, producers and workers.
TypeOK ==
  /\ open_on_lsn \in BOOLEAN
  /\ id \in {0} \cup Ids /\ generation \in Nat /\ running \in BOOLEAN
  /\ worker_pid \in {0, Claimed} \cup Workers
  /\ accepted \in Seq(Message)
  /\ committed \subseteq DOMAIN accepted
  /\ delivered \in Seq(Message)
  /\ cpc \in [Controllers ->
               {"idle", "id", "gen", "run", "ensure", "register", "unclaim"}]
  /\ myid \in [Controllers -> {0} \cup Ids] /\ reserved \in {0} \cup Ids
  /\ ppc \in [Producers -> {"idle", "push", "copy"}]
  /\ saw \in [Producers -> {0} \cup Ids] /\ place \in [Producers -> Nat]
  /\ wpc \in [Workers -> {"none", "spawned", "lost", "top", "stopped", "open", "drain",
                          "write", "exit", "rewrite", "final", "cleanup", "gone"}]
  /\ File \in [Workers -> {0} \cup Ids]
  /\ WorkerGeneration \in [Workers -> Nat]
  /\ busy \in [Workers -> BOOLEAN]
  /\ files \in [Ids -> Seq(Nat)]
  /\ name \in Seq(Ids)

\* Workers that have registered and may still empty the ring.
Serving ==
  {w \in Workers :
     wpc[w] \in {"top", "stopped", "open", "drain", "write", "exit", "rewrite", "final"}}

\* Those who hold the slot for a worker that has not registered.
Starters == {c \in Controllers : cpc[c] \in {"register", "unclaim"}}
Unborn == {w \in Workers : wpc[w] \in {"spawned", "lost"}}

\* The ring has at most one consumer, which ring_pop relies on: whatever starts,
\* stops, failed registrations, signals and failed opens do, no worker begins
\* before the last one has popped for the last time.
SingleConsumer == \A v, w \in Serving : v = w

\* worker_pid says who holds the slot.  (Strengthens SingleConsumer.)
SlotOwned ==
  /\ \A w \in Serving : worker_pid = w
  /\ \A w \in Unborn : worker_pid = Claimed
  /\ \A c \in Starters : worker_pid = Claimed
  /\ Unborn # {} => Starters = {}
  /\ \A v, w \in Unborn : v = w
  /\ \A c, d \in Starters : c = d

\* A recording that runs has been published, and whoever names one has an id.
Published ==
  /\ Len(name) = generation
  /\ running => generation > 0
  /\ \A c \in Controllers :
       /\ cpc[c] = "run" => generation > 0
       /\ cpc[c] \in {"id", "gen"} => myid[c] \in Ids
  /\ \A p \in Producers : ppc[p] = "push" => saw[p] \in Ids

IInv == TypeOK /\ SlotOwned /\ Published

\* A file holds a run of consecutive messages, on the capture channel one that
\* begins with an Lsn message, and no message is in two files: a recording has
\* no gap, also across restarts, failures and signals.
FilesWellFormed ==
  /\ \A i \in Ids :
       /\ \A k \in 1 .. Len(files[i]) - 1 : files[i][k + 1] = files[i][k] + 1
       /\ open_on_lsn /\ files[i] # <<>> => accepted[files[i][1]].lsn
  /\ \A i, j \in Ids : \A k \in DOMAIN files[i], l \in DOMAIN files[j] :
       i # j => files[i][k] # files[j][l]

\* A worker that leaves because fopen failed or a signal came.
Dying(w) == wpc[w] = "cleanup" /\ worker_pid = w

\* The starts that were claimed and yield no worker.
Unserved ==
  \/ \E w \in Workers : wpc[w] = "lost"
  \/ \E c \in Controllers : cpc[c] = "unclaim"

\* While a recording runs that has a worker or is getting one, what is ready in the
\* ring is taken out until nothing is, unless the worker dies or could not be started:
\* no start is lost in a race with the exit of the last worker.  (MaxMsgs ends what
\* producers push, so that the ring does get empty.)
Consumed ==
  /\ running /\ Next1 \in committed
  /\ worker_pid # 0 \/ \E c \in Controllers : cpc[c] = "ensure"
  ~> \/ Next1 \notin committed \/ ~running
     \/ Unserved \/ \E w \in Workers : Dying(w)

\* After a stop the worker leaves and frees its slot, unless a start comes or the
\* postmaster never ran the worker.
WorkerLeaves == ~running ~> running \/ worker_pid = 0 \/ \E w \in Workers : wpc[w] = "lost"

\* A channel has its worker exactly as long as it needs one.
WorkerServes == Consumed /\ WorkerLeaves
=============================================================================
