--------------------------- MODULE ChannelProofs ---------------------------
(***************************************************************************)
(* Theorems of Channel: the inductive invariant IInv, and with it that the  *)
(* ring never has two consumers, for any number of controllers, producers   *)
(* and starts, and whatever fails.                                          *)
(***************************************************************************)
EXTENDS Channel, TLAPS

\* The state the program starts in satisfies the invariant.
LEMMA InitIInv == Init => IInv
<1> SUFFICES ASSUME Init PROVE IInv
  OBVIOUS
<1>1. TypeOK
  <2>1. accepted \in Seq(Message) /\ delivered \in Seq(Message) /\ name \in Seq(Ids)
    BY DEF Init
  <2>2. files \in [Ids -> Seq(Nat)]
    BY DEF Init
  <2>3. committed \subseteq DOMAIN accepted
    BY DEF Init
  <2>4. wpc \in [Workers -> {"none", "spawned", "lost", "top", "stopped", "open", "drain",
                 "write", "exit", "rewrite", "final", "cleanup", "gone"}]
    BY DEF Init
  <2> QED BY <2>1, <2>2, <2>3, <2>4 DEF Init, TypeOK
<1>2. SlotOwned
  BY DEF Init, SlotOwned, Serving, Unborn, Starters
<1>3. Published
  BY DEF Init, Published
<1> QED BY <1>1, <1>2, <1>3 DEF IInv

\* Whoever has the slot has it alone.
LEMMA SlotHolders ==
  ASSUME SlotOwned
  PROVE  /\ Serving # {} => Unborn = {} /\ Starters = {}
         /\ \A v, w \in Serving : v = w
<1>1. \A w \in Serving : w # Claimed
  BY ChannelAssumption DEF Serving, Workers, Claimed
<1> QED BY <1>1 DEF SlotOwned

\* Opening a file empties it.
LEMMA OpenedType == ASSUME TypeOK PROVE Opened \in [Ids -> Seq(Nat)]
<1>1. DOMAIN files = Ids /\ \A i \in Ids : files[i] \in Seq(Nat)
  BY DEF TypeOK
<1>2. <<>> \in Seq(Nat)
  OBVIOUS
<1>3. Opened = [i \in Ids |-> IF i = id THEN <<>> ELSE files[i]]
  BY <1>1 DEF Opened, TypeOK
<1> QED BY <1>1, <1>2, <1>3

\* A pop leaves the ring well typed.
LEMMA PopType ==
  ASSUME TypeOK, NEW w \in Workers, Popping(w)
  PROVE  /\ delivered' \in Seq(Message)
         /\ busy' \in [Workers -> BOOLEAN]
         /\ UNCHANGED <<accepted, committed>>
         /\ Next1 \in Nat
BY DEF Popping, Ring!Deliver, Ring!NextOut, Next1, TypeOK

\* The start and stop functions keep the types.
LEMMA TypesController ==
  ASSUME IInv, NEW c \in Controllers, Start(c) \/ Stop(c) \/ Control(c)
  PROVE  TypeOK'
<1>1. CASE Start(c)
  <2>1. reserved' \in Ids
    BY <1>1, ChannelAssumption DEF Start, IInv, TypeOK, Ids
  <2>2. cpc' \in [Controllers -> {"idle", "id", "gen", "run", "ensure", "register", "unclaim"}]
    BY <1>1 DEF Start, CGoto, IInv, TypeOK
  <2> QED BY <1>1, <2>1, <2>2 DEF Start, IInv, TypeOK, chan, ring, prod, work
<1>2. CASE PublishId(c)
  BY <1>2, ChannelAssumption
     DEF PublishId, CGoto, IInv, Published, TypeOK, Workers, Ids, Claimed, chan,
         ring, prod, work
<1>3. CASE PublishGeneration(c)
  <2>1. name' \in Seq(Ids)
    BY <1>3 DEF PublishGeneration, IInv, TypeOK, Published
  <2>2. cpc' \in [Controllers -> {"idle", "id", "gen", "run", "ensure", "register", "unclaim"}]
    BY <1>3 DEF PublishGeneration, CGoto, IInv, TypeOK
  <2>3. myid' \in [Controllers -> {0} \cup Ids]
    BY <1>3 DEF PublishGeneration, IInv, TypeOK
  <2> QED BY <1>3, <2>1, <2>2, <2>3 DEF PublishGeneration, IInv, TypeOK, ring, prod, work
<1>4. CASE PublishRunning(c)
  BY <1>4, ChannelAssumption
     DEF PublishRunning, CGoto, IInv, Published, TypeOK, Workers, Ids, Claimed,
         chan, ring, prod, work
<1>5. CASE ClaimSlot(c)
  BY <1>5, ChannelAssumption
     DEF ClaimSlot, CGoto, SlotFree, IInv, Published, TypeOK, Workers, Ids,
         Claimed, chan, ring, prod, work
<1>6. CASE Registers(c)
  <2>1. wpc' \in [Workers -> {"none", "spawned", "lost", "top", "stopped", "open", "drain",
                 "write", "exit", "rewrite", "final", "cleanup", "gone"}]
    BY <1>6 DEF Registers, IInv, TypeOK
  <2>2. cpc' \in [Controllers -> {"idle", "id", "gen", "run", "ensure", "register", "unclaim"}]
    BY <1>6 DEF Registers, CGoto, IInv, TypeOK
  <2>3. UNCHANGED <<chan, worker_pid, ring, myid, reserved, prod, File,
                    WorkerGeneration, busy, files, name>>
    BY <1>6 DEF Registers
  <2> QED BY <2>1, <2>2, <2>3 DEF IInv, TypeOK, chan, ring, prod
<1>7. CASE RegisterFails(c)
  BY <1>7, ChannelAssumption
     DEF RegisterFails, CGoto, IInv, Published, TypeOK, Workers, Ids, Claimed,
         chan, ring, prod, work
<1>8. CASE Unclaim(c)
  BY <1>8, ChannelAssumption
     DEF Unclaim, CGoto, IInv, Published, TypeOK, Workers, Ids, Claimed, chan,
         ring, prod, work
<1>9. CASE Stop(c)
  BY <1>9, ChannelAssumption
     DEF Stop, CGoto, IInv, Published, TypeOK, Workers, Ids, Claimed, ctl, ring,
         prod, work
<1> QED BY <1>1, <1>2, <1>3, <1>4, <1>5, <1>6, <1>7, <1>8, <1>9 DEF Control

\* channel_ensure_worker claims the slot only when it is free, and passes it to one
\* worker or gives it back.
LEMMA SlotController ==
  ASSUME IInv, NEW c \in Controllers, Start(c) \/ Stop(c) \/ Control(c)
  PROVE  SlotOwned'
<1>1. CASE Start(c)
  BY <1>1
     DEF Start, CGoto, IInv, TypeOK, Workers, SlotOwned, Serving, Unborn, Starters,
         Claimed, chan, ring, prod, work
<1>2. CASE PublishId(c)
  BY <1>2
     DEF PublishId, CGoto, IInv, TypeOK, Workers, SlotOwned, Serving, Unborn,
         Starters, Claimed, chan, ring, prod, work
<1>3. CASE PublishGeneration(c)
  BY <1>3
     DEF PublishGeneration, CGoto, IInv, TypeOK, Workers, SlotOwned, Serving,
         Unborn, Starters, Claimed, chan, ring, prod, work
<1>4. CASE PublishRunning(c)
  BY <1>4
     DEF PublishRunning, CGoto, IInv, TypeOK, Workers, SlotOwned, Serving, Unborn,
         Starters, Claimed, chan, ring, prod, work
<1>5. CASE ClaimSlot(c)
  BY <1>5
     DEF ClaimSlot, CGoto, SlotFree, IInv, TypeOK, Workers, SlotOwned, Serving,
         Unborn, Starters, Claimed, chan, ring, prod, work
<1>6. CASE Registers(c)
  <2>1. worker_pid = Claimed /\ Serving = {} /\ Unborn = {} /\ Starters = {c}
    BY <1>6, SlotHolders DEF Registers, IInv, SlotOwned, Starters
  <2>2. PICK w \in Workers :
          wpc[w] = "none" /\ \E l \in {"spawned", "lost"} : wpc' = [wpc EXCEPT ![w] = l]
    BY <1>6 DEF Registers
  <2>3. Serving' = {} /\ Unborn' = {w}
    BY <2>1, <2>2 DEF IInv, TypeOK, Serving, Unborn
  <2>4. Starters' = {} /\ worker_pid' = Claimed
    BY <1>6, <2>1 DEF Registers, CGoto, IInv, TypeOK, Starters
  <2> QED BY <2>3, <2>4 DEF SlotOwned
<1>7. CASE RegisterFails(c)
  BY <1>7
     DEF RegisterFails, CGoto, IInv, TypeOK, Workers, SlotOwned, Serving, Unborn,
         Starters, Claimed, chan, ring, prod, work
<1>8. CASE Unclaim(c)
  <2>1. Serving = {} /\ Unborn = {} /\ Starters = {c}
    BY <1>8, SlotHolders DEF Unclaim, IInv, SlotOwned, Starters
  <2>2. Serving' = {} /\ Unborn' = {}
    BY <1>8, <2>1 DEF Unclaim, work, Serving, Unborn
  <2>3. Starters' = {}
    BY <1>8, <2>1 DEF Unclaim, CGoto, IInv, TypeOK, Starters
  <2> QED BY <2>2, <2>3 DEF SlotOwned
<1>9. CASE Stop(c)
  BY <1>9
     DEF Stop, CGoto, IInv, TypeOK, Workers, SlotOwned, Serving, Unborn, Starters,
         Claimed, ctl, ring, prod, work
<1> QED BY <1>1, <1>2, <1>3, <1>4, <1>5, <1>6, <1>7, <1>8, <1>9 DEF Control

\* channel_publish stores the id before the generation, and both before running.
LEMMA NamedController ==
  ASSUME IInv, NEW c \in Controllers, Start(c) \/ Stop(c) \/ Control(c)
  PROVE  Published'
<1>1. CASE Start(c)
  <2>1. reserved' \in Ids
    BY <1>1, ChannelAssumption DEF Start, IInv, TypeOK, Ids
  <2> QED BY <1>1, <2>1 DEF Start, CGoto, IInv, TypeOK, Published, chan, prod
<1>2. CASE PublishId(c)
  BY <1>2 DEF PublishId, CGoto, IInv, TypeOK, Published, Ids, chan, ring, prod, work
<1>3. CASE PublishGeneration(c)
  BY <1>3
     DEF PublishGeneration, CGoto, IInv, TypeOK, Published, Ids, chan, ring, prod,
         work
<1>4. CASE PublishRunning(c)
  BY <1>4
     DEF PublishRunning, CGoto, IInv, TypeOK, Published, Ids, chan, ring, prod,
         work
<1>5. CASE ClaimSlot(c)
  BY <1>5
     DEF ClaimSlot, CGoto, SlotFree, IInv, TypeOK, Published, Ids, chan, ring,
         prod, work
<1>6. CASE Registers(c)
  BY <1>6 DEF Registers, CGoto, IInv, TypeOK, Published, Ids, chan, ring, prod, work
<1>7. CASE RegisterFails(c)
  BY <1>7 DEF RegisterFails, CGoto, IInv, TypeOK, Published, Ids, chan, ring, prod, work
<1>8. CASE Unclaim(c)
  BY <1>8 DEF Unclaim, CGoto, IInv, TypeOK, Published, Ids, chan, ring, prod, work
<1>9. CASE Stop(c)
  BY <1>9 DEF Stop, CGoto, IInv, TypeOK, Published, Ids, ctl, ring, prod, work
<1> QED BY <1>1, <1>2, <1>3, <1>4, <1>5, <1>6, <1>7, <1>8, <1>9 DEF Control

\* Pushing keeps the types.
LEMMA TypesProducer ==
  ASSUME IInv, NEW p \in Producers, Hook(p) \/ Reserve(p) \/ Commit(p)
  PROVE  TypeOK'
<1>1. CASE Hook(p)
  <2>1. name[generation] \in Ids
    BY <1>1 DEF Hook, IInv, TypeOK, Published
  <2> QED BY <1>1, <2>1 DEF Hook, IInv, TypeOK, chan, ring, ctl, work
<1>2. CASE Reserve(p)
  <2>0. PICK lsn \in BOOLEAN : Ring!Accept([of |-> saw[p], lsn |-> lsn])
    BY <1>2 DEF Reserve
  <2>1. [of |-> saw[p], lsn |-> lsn] \in Message
    BY <1>2, ChannelAssumption DEF Reserve, IInv, Published, Message
  <2>2. /\ accepted' \in Seq(Message) /\ Len(accepted') \in Nat
        /\ committed' \subseteq DOMAIN accepted'
    BY <2>0, <2>1 DEF Ring!Accept, IInv, TypeOK
  <2>3. delivered' = delivered
    BY <2>0 DEF Ring!Accept
  <2>4. ppc' \in [Producers -> {"idle", "push", "copy"}] /\ place' \in [Producers -> Nat]
    BY <1>2, <2>2 DEF Reserve, IInv, TypeOK
  <2> QED BY <1>2, <2>2, <2>3, <2>4 DEF Reserve, IInv, TypeOK, chan, ctl, work
<1>3. CASE Commit(p)
  BY <1>3, ChannelAssumption
     DEF Commit, Ring!CommitAt, IInv, Published, TypeOK, Workers, Ids, Claimed,
         chan, ctl, work
<1> QED BY <1>1, <1>2, <1>3

\* channel_push touches neither the slot nor the workers.
LEMMA SlotProducer ==
  ASSUME IInv, NEW p \in Producers, Hook(p) \/ Reserve(p) \/ Commit(p)
  PROVE  SlotOwned'
<1>1. CASE Hook(p)
  BY <1>1
     DEF Hook, IInv, TypeOK, Workers, SlotOwned, Serving, Unborn, Starters,
         Claimed, chan, ring, ctl, work
<1>2. CASE Reserve(p)
  BY <1>2
     DEF Reserve, Ring!Accept, IInv, TypeOK, Workers, SlotOwned, Serving, Unborn,
         Starters, Claimed, chan, ctl, work
<1>3. CASE Commit(p)
  BY <1>3
     DEF Commit, Ring!CommitAt, IInv, TypeOK, Workers, SlotOwned, Serving, Unborn,
         Starters, Claimed, chan, ctl, work
<1> QED BY <1>1, <1>2, <1>3

\* A hook that finds the channel running finds a published recording.
LEMMA NamedProducer ==
  ASSUME IInv, NEW p \in Producers, Hook(p) \/ Reserve(p) \/ Commit(p)
  PROVE  Published'
<1>1. CASE Hook(p)
  <2>1. name[generation] \in Ids
    BY <1>1 DEF Hook, IInv, TypeOK, Published
  <2> QED BY <1>1, <2>1 DEF Hook, IInv, TypeOK, Published, chan, ctl
<1>2. CASE Reserve(p)
  BY <1>2 DEF Reserve, Ring!Accept, IInv, TypeOK, Published, Ids, chan, ctl, work
<1>3. CASE Commit(p)
  BY <1>3 DEF Commit, Ring!CommitAt, IInv, TypeOK, Published, Ids, chan, ctl, work
<1> QED BY <1>1, <1>2, <1>3

\* channel_worker_main keeps the types.
LEMMA TypesWorker ==
  ASSUME IInv, NEW w \in Workers, Work(w)
  PROVE  TypeOK'
<1>1. CASE Register(w)
  BY <1>1, ChannelAssumption
     DEF Register, WGoto, IInv, Published, TypeOK, Workers, Ids, Claimed, chan,
         ring, ctl, prod
<1>2. CASE ShutDown(w)
  BY <1>2, ChannelAssumption
     DEF ShutDown, WGoto, IInv, Published, TypeOK, Workers, Ids, Claimed, chan,
         ring, ctl, prod
<1>3. CASE NewGeneration(w)
  BY <1>3, ChannelAssumption
     DEF NewGeneration, WGoto, IInv, Published, TypeOK, Workers, Ids, Claimed,
         chan, ring, ctl, prod
<1>4. CASE SameGeneration(w)
  BY <1>4, ChannelAssumption
     DEF SameGeneration, WGoto, IInv, Published, TypeOK, Workers, Ids, Claimed,
         chan, ring, ctl, prod
<1>5. CASE DrainIfStopped(w)
  BY <1>5, ChannelAssumption
     DEF DrainIfStopped, WGoto, IInv, Published, TypeOK, Workers, Ids, Claimed,
         chan, ring, ctl, prod
<1>6. CASE OpenFile(w)
  <2>1. wpc' \in [Workers -> {"none", "spawned", "lost", "top", "stopped", "open", "drain",
                  "write", "exit", "rewrite", "final", "cleanup", "gone"}]
    BY <1>6 DEF OpenFile, WGoto, IInv, TypeOK
  <2>2. files' \in [Ids -> Seq(Nat)]
    BY <1>6, OpenedType DEF OpenFile, IInv
  <2>3. File' \in [Workers -> {0} \cup Ids]
    BY <1>6 DEF OpenFile, IInv, TypeOK
  <2> QED BY <1>6, <2>1, <2>2, <2>3 DEF OpenFile, IInv, TypeOK, chan, ring, ctl, prod
<1>7. CASE NothingToOpen(w)
  BY <1>7, ChannelAssumption
     DEF NothingToOpen, WGoto, IInv, Published, TypeOK, Workers, Ids, Claimed,
         chan, ring, ctl, prod
<1>8. CASE WriteEvent(w)
  <2>1. files' \in [Ids -> Seq(Nat)]
    BY <1>8, PopType DEF WriteEvent, IInv, TypeOK
  <2> QED BY <1>8, <2>1, PopType DEF WriteEvent, IInv, TypeOK, chan, ctl, prod
<1>9. CASE OpenAndWriteEvent(w)
  <2>1. Opened \in [Ids -> Seq(Nat)]
    BY OpenedType DEF IInv
  <2>2. files' \in [Ids -> Seq(Nat)]
    <3> DEFINE F == Opened
    <3>1. files' = [F EXCEPT ![id] = Append(@, Next1)]
      BY <1>9 DEF OpenAndWriteEvent
    <3>2. Next1 \in Nat
      BY <1>9, PopType DEF OpenAndWriteEvent, IInv
    <3>3. F \in [Ids -> Seq(Nat)]
      BY <2>1
    <3> HIDE DEF F
    <3>4. \A i \in Ids : F[i] \in Seq(Nat) /\ Append(F[i], Next1) \in Seq(Nat)
      BY <3>2, <3>3
    <3>5. \A i \in Ids : files'[i] \in Seq(Nat)
      BY <3>1, <3>3, <3>4
    <3>6. files' = [i \in Ids |-> files'[i]]
      BY <3>1, <3>3
    <3> QED BY <3>5, <3>6
  <2>3. File' \in [Workers -> {0} \cup Ids]
    BY <1>9 DEF OpenAndWriteEvent, IInv, TypeOK
  <2> QED BY <1>9, <2>2, <2>3, PopType
     DEF OpenAndWriteEvent, IInv, TypeOK, chan, ctl, prod
<1>10. CASE SkipEvent(w)
  BY <1>10, PopType, ChannelAssumption
     DEF SkipEvent, WGoto, Popping, IInv, Published, TypeOK, Workers, Ids, Claimed,
         chan, ctl, prod
<1>11. CASE Emptied(w)
  BY <1>11, ChannelAssumption
     DEF Emptied, WGoto, Writing, AfterWriting, IInv, Published, TypeOK, Workers,
         Ids, Claimed, chan, ring, ctl, prod
<1>12. CASE TryExit(w)
  BY <1>12, ChannelAssumption
     DEF TryExit, WGoto, IInv, Published, TypeOK, Workers, Ids, Claimed, chan,
         ring, ctl, prod
<1>13. CASE Cleanup(w)
  BY <1>13, ChannelAssumption
     DEF Cleanup, WGoto, IInv, Published, TypeOK, Workers, Ids, Claimed, chan,
         ring, ctl, prod
<1>14. CASE OpenFails(w)
  BY <1>14, PopType, ChannelAssumption
     DEF OpenFails, WGoto, Writing, Popping, IInv, Published, TypeOK, Workers, Ids,
         Claimed, chan, ring, ctl, prod
<1> QED BY <1>1, <1>2, <1>3, <1>4, <1>5, <1>6, <1>7, <1>8, <1>9, <1>10, <1>11, <1>12, <1>13, <1>14
   DEF Work

\* A worker has the slot from its registration until worker_try_exit or
\* worker_cleanup, after which it pops no more.
LEMMA SlotWorker ==
  ASSUME IInv, NEW w \in Workers, Work(w)
  PROVE  SlotOwned'
<1>1. CASE Register(w)
  <2>1. Serving = {} /\ Unborn = {w} /\ Starters = {}
    BY <1>1, SlotHolders DEF Register, IInv, SlotOwned, Unborn
  <2>2. Serving' = {w} /\ Unborn' = {}
    BY <1>1, <2>1 DEF Register, WGoto, IInv, TypeOK, Serving, Unborn
  <2>3. Starters' = {} /\ worker_pid' = w
    BY <1>1, <2>1 DEF Register, ctl, Starters
  <2> QED BY <2>2, <2>3 DEF SlotOwned
<1>2. CASE ShutDown(w)
  BY <1>2
     DEF ShutDown, WGoto, IInv, TypeOK, Workers, SlotOwned, Serving, Unborn,
         Starters, Claimed, chan, ring, ctl, prod
<1>3. CASE NewGeneration(w)
  BY <1>3
     DEF NewGeneration, WGoto, IInv, TypeOK, Workers, SlotOwned, Serving, Unborn,
         Starters, Claimed, chan, ring, ctl, prod
<1>4. CASE SameGeneration(w)
  BY <1>4
     DEF SameGeneration, WGoto, IInv, TypeOK, Workers, SlotOwned, Serving, Unborn,
         Starters, Claimed, chan, ring, ctl, prod
<1>5. CASE DrainIfStopped(w)
  BY <1>5
     DEF DrainIfStopped, WGoto, IInv, TypeOK, Workers, SlotOwned, Serving, Unborn,
         Starters, Claimed, chan, ring, ctl, prod
<1>6. CASE OpenFile(w)
  BY <1>6
     DEF OpenFile, WGoto, Opened, IInv, TypeOK, Workers, SlotOwned, Serving,
         Unborn, Starters, Claimed, chan, ring, ctl, prod
<1>7. CASE NothingToOpen(w)
  BY <1>7
     DEF NothingToOpen, WGoto, IInv, TypeOK, Workers, SlotOwned, Serving, Unborn,
         Starters, Claimed, chan, ring, ctl, prod
<1>8. CASE WriteEvent(w)
  BY <1>8, PopType
     DEF WriteEvent, WGoto, Popping, IInv, TypeOK, Workers, SlotOwned, Serving,
         Unborn, Starters, Claimed, chan, ctl, prod
<1>9. CASE OpenAndWriteEvent(w)
  BY <1>9, PopType
     DEF OpenAndWriteEvent, WGoto, Popping, Opened, IInv, TypeOK, Workers,
         SlotOwned, Serving, Unborn, Starters, Claimed, chan, ctl, prod
<1>10. CASE SkipEvent(w)
  BY <1>10, PopType
     DEF SkipEvent, WGoto, Popping, IInv, TypeOK, Workers, SlotOwned, Serving,
         Unborn, Starters, Claimed, chan, ctl, prod
<1>11. CASE Emptied(w)
  BY <1>11
     DEF Emptied, WGoto, Writing, AfterWriting, IInv, TypeOK, Workers, SlotOwned,
         Serving, Unborn, Starters, Claimed, chan, ring, ctl, prod
<1>12. CASE TryExit(w)
  <2>1. Serving = {w} /\ Unborn = {} /\ Starters = {}
    BY <1>12, SlotHolders DEF TryExit, IInv, SlotOwned, Serving
  <2>2. Unborn' = {} /\ Starters' = {} /\ Serving' \subseteq {w}
    BY <1>12, <2>1 DEF TryExit, WGoto, IInv, TypeOK, ctl, Serving, Unborn, Starters
  <2>3. CASE running
    BY <1>12, <2>1, <2>2, <2>3 DEF TryExit, IInv, SlotOwned
  <2>4. CASE ~running
    <3>1. Serving' = {}
      BY <1>12, <2>2, <2>4 DEF TryExit, WGoto, IInv, TypeOK, Serving
    <3> QED BY <3>1, <2>2 DEF SlotOwned
  <2> QED BY <2>3, <2>4
<1>13. CASE Cleanup(w)
  BY <1>13
     DEF Cleanup, WGoto, IInv, TypeOK, Workers, SlotOwned, Serving, Unborn,
         Starters, Claimed, chan, ring, ctl, prod
<1>14. CASE OpenFails(w)
  BY <1>14, PopType
     DEF OpenFails, WGoto, Writing, Popping, IInv, TypeOK, Workers, SlotOwned,
         Serving, Unborn, Starters, Claimed, chan, ring, ctl, prod
<1> QED BY <1>1, <1>2, <1>3, <1>4, <1>5, <1>6, <1>7, <1>8, <1>9, <1>10, <1>11, <1>12, <1>13, <1>14
   DEF Work

\* A worker changes nothing of what is published.
LEMMA NamedWorker ==
  ASSUME IInv, NEW w \in Workers, Work(w)
  PROVE  Published'
<1>1. CASE Register(w)
  BY <1>1 DEF Register, WGoto, IInv, TypeOK, Published, Ids, chan, ring, ctl, prod
<1>2. CASE ShutDown(w)
  BY <1>2 DEF ShutDown, WGoto, IInv, TypeOK, Published, Ids, chan, ring, ctl, prod
<1>3. CASE NewGeneration(w)
  BY <1>3 DEF NewGeneration, WGoto, IInv, TypeOK, Published, Ids, chan, ring, ctl, prod
<1>4. CASE SameGeneration(w)
  BY <1>4 DEF SameGeneration, WGoto, IInv, TypeOK, Published, Ids, chan, ring, ctl, prod
<1>5. CASE DrainIfStopped(w)
  BY <1>5 DEF DrainIfStopped, WGoto, IInv, TypeOK, Published, Ids, chan, ring, ctl, prod
<1>6. CASE OpenFile(w)
  BY <1>6
     DEF OpenFile, WGoto, Opened, IInv, TypeOK, Published, Ids, chan, ring, ctl,
         prod
<1>7. CASE NothingToOpen(w)
  BY <1>7 DEF NothingToOpen, WGoto, IInv, TypeOK, Published, Ids, chan, ring, ctl, prod
<1>8. CASE WriteEvent(w)
  BY <1>8 DEF WriteEvent, WGoto, Popping, IInv, TypeOK, Published, Ids, chan, ctl, prod
<1>9. CASE OpenAndWriteEvent(w)
  BY <1>9
     DEF OpenAndWriteEvent, WGoto, Popping, Opened, IInv, TypeOK, Published, Ids,
         chan, ctl, prod
<1>10. CASE SkipEvent(w)
  BY <1>10 DEF SkipEvent, WGoto, Popping, IInv, TypeOK, Published, Ids, chan, ctl, prod
<1>11. CASE Emptied(w)
  BY <1>11
     DEF Emptied, WGoto, Writing, AfterWriting, IInv, TypeOK, Published, Ids, chan,
         ring, ctl, prod
<1>12. CASE TryExit(w)
  BY <1>12 DEF TryExit, WGoto, IInv, TypeOK, Published, Ids, chan, ring, ctl, prod
<1>13. CASE Cleanup(w)
  BY <1>13 DEF Cleanup, WGoto, IInv, TypeOK, Published, Ids, chan, ring, ctl, prod
<1>14. CASE OpenFails(w)
  BY <1>14
     DEF OpenFails, WGoto, Writing, Popping, IInv, TypeOK, Published, Ids, chan,
         ring, ctl, prod
<1> QED BY <1>1, <1>2, <1>3, <1>4, <1>5, <1>6, <1>7, <1>8, <1>9, <1>10, <1>11, <1>12, <1>13, <1>14
   DEF Work

\* IInv is an invariant: types, the owner of the slot, and the published id.
THEOREM Invariance == Spec => []IInv
<1>1. IInv /\ UNCHANGED vars => IInv'
  <2> SUFFICES ASSUME IInv, UNCHANGED vars PROVE IInv'
    OBVIOUS
  <2>1. TypeOK'
    BY DEF vars, chan, ring, ctl, prod, work, IInv, TypeOK
  <2>2. SlotOwned'
    BY DEF vars, chan, ring, ctl, prod, work, IInv, SlotOwned, Serving, Unborn, Starters
  <2>3. Published'
    BY DEF vars, chan, ring, ctl, prod, work, IInv, Published
  <2> QED BY <2>1, <2>2, <2>3 DEF IInv
<1>2. IInv /\ [Next]_vars => IInv'
  BY <1>1, TypesController, SlotController, NamedController, TypesProducer,
     SlotProducer, NamedProducer, TypesWorker, SlotWorker, NamedWorker DEF Next, IInv
<1> QED BY <1>2, InitIInv, PTL DEF Spec

\* At most one process is between its registration in channel_worker_main and
\* its last ring_pop: the single consumer that the ring is written for.
THEOREM OneConsumer == Spec => []SingleConsumer
<1>1. IInv => SingleConsumer
  BY DEF IInv, SlotOwned, SingleConsumer
<1> QED BY <1>1, Invariance, PTL

----------------------------------------------------------------------------
(* The files.                                                              *)

\* The messages of a file have been delivered.
Known == \A i \in Ids : \A k \in DOMAIN files[i] : files[i][k] \in 1 .. Len(delivered)

\* An open file belongs to the worker that serves, ends with the message that was
\* popped last, and on the capture channel is not empty.
Current ==
  \A w \in Workers : File[w] # 0 =>
    /\ w \in Serving
    /\ files[File[w]] # <<>> => files[File[w]][Len(files[File[w]])] = Len(delivered)
    /\ open_on_lsn => files[File[w]] # <<>>

\* FilesWellFormed is kept because a file is only appended to while it is current.
FInv == IInv /\ Len(delivered) <= Len(accepted) /\ Known /\ Current /\ FilesWellFormed

\* No file is written and none is opened: a step of anybody else, or one of a worker
\* that at most closes its file.
LEMMA FilesRest ==
  ASSUME FInv, IInv', files' = files, open_on_lsn' = open_on_lsn,
         delivered' = delivered,
         Len(accepted) <= Len(accepted'),
         \A n \in 1 .. Len(accepted) : accepted'[n] = accepted[n],
         \A v \in Workers : File'[v] # 0 => File'[v] = File[v] /\ v \in Serving'
  PROVE  FInv'
<1>1. Len(delivered') <= Len(accepted') /\ Known'
  BY DEF FInv, IInv, TypeOK, Known
<1>2. Current'
  BY DEF FInv, Current
<1>3. FilesWellFormed'
  <2>1. \A i \in Ids : files[i] # <<>> => files[i][1] \in 1 .. Len(accepted)
    <3> SUFFICES ASSUME NEW i \in Ids, files[i] # <<>>
                 PROVE  files[i][1] \in 1 .. Len(accepted)
      OBVIOUS
    <3>1. files[i] \in Seq(Nat) /\ Len(files[i]) > 0
      BY DEF FInv, IInv, TypeOK
    <3>2. files[i][1] \in 1 .. Len(delivered)
      BY <3>1 DEF FInv, Known
    <3> QED BY <3>2 DEF FInv, IInv, TypeOK
  <2> QED BY <2>1 DEF FInv, FilesWellFormed
<1> QED BY <1>1, <1>2, <1>3 DEF FInv

\* Controllers and producers touch no file.
LEMMA FilesOthers ==
  ASSUME FInv, IInv',
         \/ \E c \in Controllers : Start(c) \/ Stop(c) \/ Control(c)
         \/ \E p \in Producers : Hook(p) \/ Reserve(p) \/ Commit(p)
  PROVE  FInv'
<1>1. /\ UNCHANGED <<files, open_on_lsn, delivered, File>>
      /\ \A v \in Workers : v \in Serving => v \in Serving'
  <2>1. ASSUME NEW c \in Controllers, Start(c) \/ Stop(c) \/ Control(c)
        PROVE  /\ UNCHANGED <<files, open_on_lsn, delivered, File>>
               /\ \A v \in Workers : v \in Serving => v \in Serving'
    <3>1. CASE Registers(c)
      BY <3>1 DEF Registers, Serving, CGoto, chan, ring, prod, FInv, IInv, TypeOK
    <3>2. CASE ~Registers(c)
      BY <2>1, <3>2
         DEF Start, Stop, Control, PublishId, PublishGeneration, PublishRunning, ClaimSlot,
             RegisterFails, Unclaim, Serving, chan, ring, ctl, prod, work
    <3> QED BY <3>1, <3>2
  <2>2. ASSUME NEW p \in Producers, Hook(p) \/ Reserve(p) \/ Commit(p)
        PROVE  /\ UNCHANGED <<files, open_on_lsn, delivered, File>>
               /\ \A v \in Workers : v \in Serving => v \in Serving'
    BY <2>2
       DEF Hook, Reserve, Commit, Ring!Accept, Ring!CommitAt, Serving, chan, ring, ctl, prod, work
  <2> QED BY <2>1, <2>2
<1>2. /\ Len(accepted) <= Len(accepted')
      /\ \A n \in 1 .. Len(accepted) : accepted'[n] = accepted[n]
  <2>1. CASE \E p \in Producers : Reserve(p)
    <3>1. PICK p \in Producers : Reserve(p)
      BY <2>1
    <3>2. PICK m : accepted' = Append(accepted, m)
      BY <3>1 DEF Reserve, Ring!Accept
    <3> QED BY <3>2 DEF FInv, IInv, TypeOK
  <2>2. CASE ~\E p \in Producers : Reserve(p)
    <3>1. accepted' = accepted
      BY <2>2
         DEF Start, Stop, Control, PublishId, PublishGeneration, PublishRunning, ClaimSlot,
             Registers, RegisterFails, Unclaim, Hook, Commit, Ring!CommitAt, ring
    <3> QED BY <3>1 DEF FInv, IInv, TypeOK
  <2> QED BY <2>1, <2>2
<1> QED BY <1>1, <1>2, FilesRest DEF FInv, Current

\* The worker that serves is the only one with an open file.
LEMMA Alone ==
  ASSUME FInv, NEW w \in Workers, w \in Serving
  PROVE  \A v \in Workers \ {w} : File[v] = 0
BY SlotHolders DEF FInv, IInv, Current

\* A pop takes the next message that was accepted.
LEMMA PopNext ==
  ASSUME FInv, NEW w \in Workers, Popping(w)
  PROVE  /\ w \in Serving
         /\ Next1 = Len(delivered) + 1 /\ Next1 = Len(delivered')
         /\ Len(delivered) \in Nat /\ Len(delivered') <= Len(accepted)
         /\ accepted' = accepted
<1>1. delivered' = Append(delivered, accepted[Len(delivered) + 1])
      /\ Len(delivered) + 1 \in DOMAIN accepted
      /\ accepted' = accepted
  BY DEF Popping, Ring!Deliver, Ring!NextOut, FInv, IInv, TypeOK
<1>2. w \in Serving
  BY DEF Popping, Writing, Serving
<1> QED BY <1>1, <1>2 DEF Next1, Ring!NextOut, FInv, IInv, TypeOK

\* A message that is popped while no file is open goes nowhere.
LEMMA FilesSkip ==
  ASSUME FInv, IInv', NEW w \in Workers, Popping(w), File[w] = 0,
         UNCHANGED <<files, File, open_on_lsn>>
  PROVE  FInv'
<1>1. \A v \in Workers : File'[v] = 0
  BY PopNext, Alone
<1>2. Known'
  BY PopNext DEF FInv, Known
<1>3. Current'
  BY <1>1 DEF Current
<1> QED BY <1>2, <1>3, PopNext DEF FInv, FilesWellFormed

\* The message that is popped is appended to the open file, which it continues.
LEMMA FilesWrite ==
  ASSUME FInv, IInv', NEW w \in Workers, WriteEvent(w)
  PROVE  FInv'
<1> DEFINE i == File[w]
           n == Next1
<1>1. /\ i \in Ids /\ files[i] \in Seq(Nat) /\ n \in Nat
      /\ \A j \in Ids : files[j] \in Seq(Nat)
      /\ DOMAIN files = Ids
      /\ files' = [files EXCEPT ![i] = Append(files[i], n)]
      /\ File' = File /\ wpc' = wpc /\ open_on_lsn' = open_on_lsn
      /\ Popping(w) /\ i # 0
  BY PopNext DEF WriteEvent, FInv, IInv, TypeOK, chan
<1>2. /\ n = Len(delivered) + 1 /\ n = Len(delivered') /\ Len(delivered) \in Nat
      /\ Len(delivered') <= Len(accepted') /\ accepted' = accepted /\ w \in Serving
  BY <1>1, PopNext
<1>3. /\ files'[i] = Append(files[i], n)
      /\ \A j \in Ids \ {i} : files'[j] = files[j]
      /\ Len(files'[i]) = Len(files[i]) + 1 /\ Len(files[i]) \in Nat
      /\ DOMAIN files'[i] = 1 .. Len(files[i]) + 1 /\ DOMAIN files[i] = 1 .. Len(files[i])
      /\ files'[i][Len(files[i]) + 1] = n
  <2>1. files'[i] = Append(files[i], n) /\ \A j \in Ids \ {i} : files'[j] = files[j]
    BY <1>1
  <2> HIDE DEF i, n
  <2> QED BY <2>1, <1>1
<1>4. Known'
  <2>1. \A k \in DOMAIN files'[i] : files'[i][k] \in 1 .. Len(delivered')
    BY <1>1, <1>2, <1>3 DEF FInv, Known
  <2> QED BY <2>1, <1>1, <1>2, <1>3 DEF FInv, Known
<1>5. Current'
  <2>1. files'[i][Len(files'[i])] = n /\ files'[i] # <<>>
    BY <1>3
  <2>2. w \in Serving'
    BY <1>1, <1>2 DEF Serving
  <2>3. \A v \in Workers \ {w} : File'[v] = 0
    BY <1>1, <1>2, Alone
  <2> QED BY <1>1, <1>2, <2>1, <2>2, <2>3 DEF Current
<1>6. FilesWellFormed'
  <2>1. \A k \in 1 .. Len(files'[i]) - 1 : files'[i][k + 1] = files'[i][k] + 1
    <3> SUFFICES ASSUME NEW k \in 1 .. Len(files'[i]) - 1
                 PROVE  files'[i][k + 1] = files'[i][k] + 1
      OBVIOUS
    <3>1. CASE k = Len(files[i])
      <4>1. files[i] # <<>> /\ files[i][k] = Len(delivered)
        BY <3>1, <1>1 DEF FInv, Current
      <4> QED BY <4>1, <3>1, <1>1, <1>2, <1>3
    <3>2. CASE k # Len(files[i])
      <4>1. k \in 1 .. Len(files[i]) - 1
        BY <3>2, <1>1, <1>3
      <4>2. files[i][k + 1] = files[i][k] + 1
        BY <4>1, <1>1 DEF FInv, FilesWellFormed
      <4> QED BY <4>1, <4>2, <1>1, <1>3
    <3> QED BY <3>1, <3>2
  <2>2. open_on_lsn => accepted'[files'[i][1]].lsn
    <3> SUFFICES ASSUME open_on_lsn PROVE accepted'[files'[i][1]].lsn
      OBVIOUS
    <3>1. files[i] # <<>>
      BY <1>1 DEF FInv, Current
    <3>2. files'[i][1] = files[i][1]
      BY <3>1, <1>1, <1>3
    <3> QED BY <3>1, <3>2, <1>1, <1>2 DEF FInv, FilesWellFormed
  <2>3. \A j \in Ids \ {i} : \A k \in DOMAIN files'[i], l \in DOMAIN files'[j] :
          files'[i][k] # files'[j][l]
    <3> SUFFICES ASSUME NEW j \in Ids \ {i}, NEW k \in DOMAIN files'[i],
                        NEW l \in DOMAIN files'[j]
                 PROVE  files'[i][k] # files'[j][l]
      OBVIOUS
    <3>1. files'[j][l] = files[j][l] /\ l \in DOMAIN files[j]
      BY <1>3
    <3>2. CASE k \in DOMAIN files[i]
      <4>1. files[i][k] # files[j][l]
        BY <3>1, <3>2, <1>1 DEF FInv, FilesWellFormed
      <4> QED BY <4>1, <3>1, <3>2, <1>1, <1>3
    <3>3. CASE k \notin DOMAIN files[i]
      <4>1. k = Len(files[i]) + 1 /\ files'[i][k] = n
        BY <3>3, <1>3
      <4>2. files[j][l] \in 1 .. Len(delivered)
        BY <3>1 DEF FInv, Known
      <4> QED BY <4>1, <4>2, <3>1, <1>2
    <3> QED BY <3>2, <3>3
  <2>4. ASSUME NEW j \in Ids
        PROVE  /\ \A k \in 1 .. Len(files'[j]) - 1 : files'[j][k + 1] = files'[j][k] + 1
               /\ open_on_lsn' /\ files'[j] # <<>> => accepted'[files'[j][1]].lsn
    <3>1. CASE j = i
      BY <2>1, <2>2, <1>1, <3>1
    <3>2. CASE j # i
      <4>1. files'[j] = files[j]
        BY <1>3, <3>2
      <4>2. /\ \A k \in 1 .. Len(files[j]) - 1 : files[j][k + 1] = files[j][k] + 1
            /\ open_on_lsn /\ files[j] # <<>> => accepted[files[j][1]].lsn
        BY DEF FInv, FilesWellFormed
      <4> QED BY <1>1, <1>2, <4>1, <4>2
    <3> QED BY <3>1, <3>2
  <2>5. ASSUME NEW j \in Ids, NEW h \in Ids, j # h,
               NEW k \in DOMAIN files'[j], NEW l \in DOMAIN files'[h]
        PROVE  files'[j][k] # files'[h][l]
    <3>1. CASE j = i
      BY <3>1, <2>5, <2>3
    <3>2. CASE h = i
      BY <3>2, <2>5, <2>3
    <3>3. CASE j # i /\ h # i
      BY <3>3, <2>5, <1>3 DEF FInv, FilesWellFormed
    <3> QED BY <3>1, <3>2, <3>3
  <2> QED BY <2>4, <2>5 DEF FilesWellFormed
<1> QED BY <1>2, <1>4, <1>5, <1>6 DEF FInv

\* An opened file is empty, whatever it held.
LEMMA OpenedIs ==
  ASSUME TypeOK, id \in Ids
  PROVE  /\ Opened \in [Ids -> Seq(Nat)] /\ Opened[id] = <<>>
         /\ \A j \in Ids \ {id} : Opened[j] = files[j]
<1>1. DOMAIN files = Ids
  BY DEF TypeOK
<1> QED BY <1>1, OpenedType DEF Opened

\* fopen empties a file; nothing is in it until the worker writes.
LEMMA FilesOpen ==
  ASSUME FInv, IInv', NEW w \in Workers, OpenFile(w)
  PROVE  FInv'
<1>1. /\ files' = Opened /\ File' = [File EXCEPT ![w] = id] /\ ~open_on_lsn
      /\ File[w] = 0 /\ wpc[w] = "open" /\ wpc' = [wpc EXCEPT ![w] = "write"]
      /\ UNCHANGED <<accepted, delivered, open_on_lsn, id>>
  BY DEF OpenFile, WGoto, chan, ring
<1>2. w \in Serving /\ w \in Serving' /\ \A v \in Workers \ {w} : File[v] = 0 /\ File'[v] = 0
  <2>1. DOMAIN wpc = Workers /\ DOMAIN File = Workers
    BY DEF FInv, IInv, TypeOK
  <2>2. w \in Serving /\ w \in Serving'
    BY <1>1, <2>1 DEF Serving
  <2> QED BY <1>1, <2>1, <2>2, Alone
<1>3. CASE id \in Ids
  <2>1. /\ files'[id] = <<>> /\ File'[w] = id
        /\ \A j \in Ids \ {id} : files'[j] = files[j]
    BY <1>1, <1>3, OpenedIs DEF FInv, IInv, TypeOK
  <2>2. Known' /\ Len(delivered') <= Len(accepted')
    BY <2>1, <1>1 DEF FInv, Known
  <2>3. Current'
    BY <2>1, <1>1, <1>2 DEF Current
  <2>4. FilesWellFormed'
    BY <2>1, <1>1 DEF FInv, FilesWellFormed
  <2> QED BY <2>2, <2>3, <2>4 DEF FInv
<1>4. CASE id \notin Ids
  <2>1. id = 0 /\ 0 \notin Ids /\ DOMAIN files = Ids
    BY <1>4 DEF FInv, IInv, TypeOK, Ids
  <2>2. files' = files /\ File' = File
    BY <2>1, <1>1 DEF Opened, FInv, IInv, TypeOK
  <2>3. Len(accepted) <= Len(accepted')
    BY <1>1 DEF FInv, IInv, TypeOK
  <2>4. \A v \in Workers : File'[v] # 0 => File'[v] = File[v] /\ v \in Serving'
    BY <2>2, <1>1, <1>2
  <2> QED BY <2>2, <2>3, <2>4, <1>1, FilesRest
<1> QED BY <1>3, <1>4

\* The Lsn message opens the file and is the first in it.
LEMMA FilesOpenWrite ==
  ASSUME FInv, IInv', NEW w \in Workers, OpenAndWriteEvent(w)
  PROVE  FInv'
<1> DEFINE n == Next1
<1>1. /\ files' = [Opened EXCEPT ![id] = Append(Opened[id], n)]
      /\ File' = [File EXCEPT ![w] = id]
      /\ open_on_lsn /\ accepted[n].lsn /\ File[w] = 0 /\ Popping(w) /\ running
      /\ wpc' = wpc /\ UNCHANGED <<open_on_lsn, id>>
  BY DEF OpenAndWriteEvent, Opens, chan
<1>2. /\ n = Len(delivered) + 1 /\ n = Len(delivered') /\ Len(delivered) \in Nat
      /\ Len(delivered') <= Len(accepted') /\ accepted' = accepted /\ w \in Serving
  BY <1>1, PopNext
<1>3. \A v \in Workers \ {w} : File'[v] = 0
  BY <1>1, <1>2, Alone DEF FInv, IInv, TypeOK
<1>4. CASE id \in Ids
  <2>1. /\ files'[id] = <<n>> /\ File'[w] = id
        /\ \A j \in Ids \ {id} : files'[j] = files[j]
    <3>1. /\ Opened \in [Ids -> Seq(Nat)] /\ Opened[id] = <<>>
          /\ \A j \in Ids \ {id} : Opened[j] = files[j]
      BY <1>4, OpenedIs DEF FInv, IInv
    <3>2. Append(Opened[id], n) = <<n>>
      BY <3>1
    <3> HIDE DEF n
    <3>3. File'[w] = id
      BY <1>1 DEF FInv, IInv, TypeOK
    <3> QED BY <3>1, <3>2, <3>3, <1>1, <1>4
  <2> HIDE DEF n
  <2>2. Known'
    BY <2>1, <1>2 DEF FInv, Known
  <2>3. Current'
    <3>1. w \in Serving'
      BY <1>1, <1>2 DEF Serving
    <3>2. files'[id] # <<>> /\ files'[id][Len(files'[id])] = n
      BY <2>1
    <3> QED BY <3>1, <3>2, <2>1, <1>2, <1>3 DEF Current
  <2>4. FilesWellFormed'
    <3>1. \A j \in Ids \ {id} : \A k \in DOMAIN files[j] : files[j][k] # n
      BY <1>2 DEF FInv, Known
    <3>2. DOMAIN files'[id] = {1} /\ files'[id][1] = n /\ Len(files'[id]) = 1
      BY <2>1
    <3>3. \A j \in Ids \ {id} : \A k \in DOMAIN files'[j] : files'[j][k] # n
      BY <2>1, <3>1
    <3>4. ASSUME NEW j \in Ids
          PROVE  /\ \A k \in 1 .. Len(files'[j]) - 1 : files'[j][k + 1] = files'[j][k] + 1
                 /\ open_on_lsn' /\ files'[j] # <<>> => accepted'[files'[j][1]].lsn
      <4>1. CASE j = id
        BY <4>1, <3>2, <1>1, <1>2 DEF n
      <4>2. CASE j # id
        BY <4>2, <2>1, <1>1, <1>2 DEF FInv, FilesWellFormed
      <4> QED BY <4>1, <4>2
    <3>5. ASSUME NEW j \in Ids, NEW h \in Ids, j # h,
                 NEW k \in DOMAIN files'[j], NEW l \in DOMAIN files'[h]
          PROVE  files'[j][k] # files'[h][l]
      <4>1. CASE j = id
        BY <4>1, <3>5, <3>2, <3>3
      <4>2. CASE h = id
        BY <4>2, <3>5, <3>2, <3>3
      <4>3. CASE j # id /\ h # id
        BY <4>3, <3>5, <2>1 DEF FInv, FilesWellFormed
      <4> QED BY <4>1, <4>2, <4>3
    <3> QED BY <3>4, <3>5 DEF FilesWellFormed
  <2> QED BY <2>2, <2>3, <2>4, <1>2 DEF FInv
<1>5. CASE id \notin Ids
  <2>1. id = 0 /\ 0 \notin Ids /\ DOMAIN files = Ids
    BY <1>5 DEF FInv, IInv, TypeOK, Ids
  <2>2. files' = files /\ File' = File
    BY <2>1, <1>1 DEF Opened, FInv, IInv, TypeOK
  <2> QED BY <2>2, <1>1, FilesSkip
<1> QED BY <1>4, <1>5

\* What the worker does keeps the files well formed.
LEMMA FilesWorker ==
  ASSUME FInv, IInv', NEW w \in Workers, Work(w)
  PROVE  FInv'
<1>1. ASSUME UNCHANGED <<files, open_on_lsn, accepted, delivered>>,
             \A v \in Workers : File'[v] # 0 => File'[v] = File[v] /\ v \in Serving'
      PROVE  FInv'
  <2>1. Len(accepted) <= Len(accepted')
    BY <1>1 DEF FInv, IInv, TypeOK
  <2> QED BY <1>1, <2>1, FilesRest
<1>2. ASSUME UNCHANGED <<files, open_on_lsn, accepted, delivered, File>>,
             \E l : WGoto(w, l) /\ (w \in Serving => File[w] = 0 \/ w \in Serving')
      PROVE  FInv'
  BY <1>1, <1>2 DEF WGoto, Serving, FInv, Current, IInv, TypeOK
<1>3. CASE Register(w)
  BY <1>2, <1>3 DEF Register, WGoto, Serving, chan, ring, FInv, IInv, TypeOK
<1>4. CASE ShutDown(w)
  BY <1>2, <1>4 DEF ShutDown, WGoto, Serving, chan, ring, FInv, IInv, TypeOK
<1>5. CASE NewGeneration(w)
  BY <1>1, <1>5 DEF NewGeneration, WGoto, Serving, chan, ring, FInv, Current, IInv, TypeOK
<1>6. CASE SameGeneration(w)
  BY <1>2, <1>6 DEF SameGeneration, WGoto, Serving, chan, ring, FInv, IInv, TypeOK
<1>7. CASE DrainIfStopped(w)
  BY <1>2, <1>7 DEF DrainIfStopped, WGoto, Serving, chan, ring, FInv, IInv, TypeOK
<1>8. CASE NothingToOpen(w)
  BY <1>2, <1>8 DEF NothingToOpen, WGoto, Serving, chan, ring, FInv, IInv, TypeOK
<1>9. CASE OpenFile(w)
  BY <1>9, FilesOpen
<1>10. CASE WriteEvent(w)
  BY <1>10, FilesWrite
<1>11. CASE OpenAndWriteEvent(w)
  BY <1>11, FilesOpenWrite
<1>12. CASE SkipEvent(w)
  BY <1>12, FilesSkip DEF SkipEvent, chan
<1>13. CASE Emptied(w)
  BY <1>1, <1>13
     DEF Emptied, AfterWriting, Writing, WGoto, Serving, chan, ring, FInv, Current, IInv, TypeOK
<1>14. CASE TryExit(w)
  <2>1. CASE running
    BY <1>2, <1>14, <2>1 DEF TryExit, WGoto, Serving, chan, ring, FInv, IInv, TypeOK
  <2>2. CASE ~running
    <3>1. /\ File'[w] = 0 /\ UNCHANGED <<files, open_on_lsn, accepted, delivered>>
          /\ \A v \in Workers \ {w} : File'[v] = File[v] /\ wpc'[v] = wpc[v]
      BY <1>14, <2>2 DEF TryExit, WGoto, chan, ring, FInv, IInv, TypeOK
    <3> QED BY <1>1, <3>1 DEF Serving, FInv, Current
  <2> QED BY <2>1, <2>2
<1>15. CASE Cleanup(w)
  BY <1>1, <1>15 DEF Cleanup, WGoto, Serving, chan, ring, FInv, Current, IInv, TypeOK
<1>16. CASE OpenFails(w)
  <2>1. CASE Popping(w)
    <3>1. UNCHANGED <<files, open_on_lsn, File>> /\ File[w] = 0
      BY <1>16 DEF OpenFails, chan
    <3> QED BY <3>1, <2>1, FilesSkip
  <2>2. CASE ~Popping(w)
    BY <1>1, <1>16, <2>2
       DEF OpenFails, WGoto, Serving, chan, ring, FInv, Current, IInv, TypeOK
  <2> QED BY <2>1, <2>2
<1> QED BY <1>3, <1>4, <1>5, <1>6, <1>7, <1>8, <1>9, <1>10, <1>11, <1>12, <1>13, <1>14, <1>15, <1>16
   DEF Work

\* Each file is a run of consecutive messages and shares none with another, and a
\* capture begins with its Lsn message, for any number of starts, messages and failures.
THEOREM FilesHold == Spec => []FilesWellFormed
<1>1. Init => FInv
  <2> SUFFICES ASSUME Init PROVE FInv
    OBVIOUS
  <2>1. IInv
    BY InitIInv
  <2> QED BY <2>1 DEF Init, FInv, Known, Current, FilesWellFormed
<1>2. FInv /\ IInv' /\ [Next]_vars => FInv'
  <2> SUFFICES ASSUME FInv, IInv', [Next]_vars PROVE FInv'
    OBVIOUS
  <2>1. CASE \E w \in Workers : Work(w)
    BY <2>1, FilesWorker
  <2>2. CASE ~\E w \in Workers : Work(w)
    <3>1. CASE UNCHANGED vars
      BY <3>1, FilesRest DEF vars, chan, ring, work, Serving, FInv, Current, IInv, TypeOK
    <3> QED BY <2>2, <3>1, FilesOthers DEF Next
  <2> QED BY <2>1, <2>2
<1>3. FInv => FilesWellFormed
  BY DEF FInv
<1> QED BY <1>1, <1>2, <1>3, Invariance, PTL DEF Spec
=============================================================================
