------------------------- MODULE CaptureSyncProofs -------------------------
(* Proofs about CaptureSync, for every set of processes and every bound.   *)
EXTENDS CaptureSync, FiniteSetTheorems, TLAPS

----------------------------------------------------------------------------
(* Type correctness.                                                       *)

\* A message of a backend is well typed.
LEMMA MessageType ==
  ASSUME TypeOK, NEW b \in Backends, NEW val \in Nat,
         NEW type \in {"Connect", "Stmt", "Disconnect"}
  PROVE  Message(type, b, val) \in Messages
BY DEF TypeOK, TypeIdent, TypeLife, Message, Messages, Procs

\* Finitely many transactions are open: open_xacts can count them.
LEMMA OpenFinite == IsFiniteSet(Open) /\ Cardinality(Open) \in Nat
BY CaptureSyncAssumption, FS_Subset, FS_CardinalityType DEF Open

\* A backend that leaves its transaction is counted in open_xacts.
LEMMA OpenPositive ==
  ASSUME TypeOK, OpenExact, XactPc, NEW b \in Backends, pc[b] = "leave"
  PROVE  open_xacts > 0
<1>1. b \in Open
  BY DEF XactPc, Open
<1>2. Cardinality(Open) # 0
  BY <1>1, OpenFinite, FS_EmptySet
<1> QED
  BY <1>2, OpenFinite DEF OpenExact

\* Every step keeps the types: one case per action of Next, one step per part
\* of TypeOK the action disturbs.
LEMMA TypeStep == TypeOK /\ OpenExact /\ XactPc /\ [Next]_vars => TypeOK'
<1> USE CaptureSyncAssumption DEF Procs
<1> USE DEF chan, xacts, stream, txVars, ident, buf, life, sync
<1>1. ASSUME TypeOK, NEW b \in Backends, XactEnter(b) PROVE TypeOK'
  <2>1. TypeStream' /\ TypeIdent' /\ TypeLife' /\ TypeSync'
    BY <1>1 DEF TypeOK, XactEnter, TypeStream, TypeIdent, TypeLife, TypeSync
  <2>2. TypeShared'
    BY <1>1 DEF TypeOK, XactEnter, TypeShared, EnterGen
  <2>3. TypeTx'
    BY <1>1 DEF TypeOK, XactEnter, TypeTx, TypeLife, TypeShared, EnterGen, TxRecord
  <2>4. TypeBuf'
    BY <1>1 DEF TypeOK, XactEnter, TypeBuf, TypeLife, TypeShared
  <2>5. (pc \in [Procs -> Locations])'
    BY <1>1 DEF TypeOK, XactEnter, Locations, Goto
  <2> QED BY <2>1, <2>2, <2>3, <2>4, <2>5 DEF TypeOK
<1>2. ASSUME TypeOK, NEW b \in Backends, NextMessage(b) PROVE TypeOK'
  <2>1. TypeShared' /\ TypeStream' /\ TypeTx' /\ TypeIdent' /\ TypeBuf' /\
       TypeLife' /\ TypeSync'
    BY <1>2 DEF TypeOK, NextMessage, TypeShared, TypeStream, TypeTx, TypeIdent,
         TypeBuf, TypeLife, TypeSync
  <2>2. (pc \in [Procs -> Locations])'
    BY <1>2 DEF TypeOK, NextMessage, Locations, Goto
  <2> QED BY <2>1, <2>2 DEF TypeOK
<1>3. ASSUME TypeOK, NEW b \in Backends, GateSkip(b) PROVE TypeOK'
  <2>1. TypeShared' /\ TypeStream' /\ TypeTx' /\ TypeIdent' /\ TypeBuf' /\ TypeSync'
    BY <1>3 DEF TypeOK, GateSkip, TypeShared, TypeStream, TypeTx, TypeIdent,
         TypeBuf, TypeSync
  <2>2. TypeLife'
    BY <1>3 DEF TypeOK, GateSkip, TypeLife
  <2>3. (pc \in [Procs -> Locations])'
    BY <1>3 DEF TypeOK, GateSkip, Locations, Goto
  <2> QED BY <2>1, <2>2, <2>3 DEF TypeOK
<1>4. ASSUME TypeOK, NEW b \in Backends, GatePass(b) PROVE TypeOK'
  <2>1. TypeShared' /\ TypeStream' /\ TypeTx' /\ TypeIdent' /\ TypeBuf' /\
       TypeLife' /\ TypeSync'
    BY <1>4 DEF TypeOK, GatePass, TypeShared, TypeStream, TypeTx, TypeIdent,
         TypeBuf, TypeLife, TypeSync
  <2>2. (pc \in [Procs -> Locations])'
    BY <1>4 DEF TypeOK, GatePass, Locations, Goto
  <2> QED BY <2>1, <2>2 DEF TypeOK
<1>5. ASSUME TypeOK, NEW b \in Backends, AdoptCapture(b) PROVE TypeOK'
  <2>1. TypeShared' /\ TypeStream' /\ TypeTx' /\ TypeLife' /\ TypeSync'
    BY <1>5 DEF TypeOK, AdoptCapture, TypeShared, TypeStream, TypeTx, TypeLife,
         TypeSync
  <2>2. TypeIdent'
    BY <1>5 DEF TypeOK, AdoptCapture, TypeIdent, TypeShared
  <2>3. TypeBuf'
    BY <1>5 DEF TypeOK, AdoptCapture, TypeBuf, TypeLife, TypeShared
  <2>4. (pc \in [Procs -> Locations])'
    BY <1>5 DEF TypeOK, AdoptCapture, Locations, Goto
  <2> QED BY <2>1, <2>2, <2>3, <2>4 DEF TypeOK
<1>6. ASSUME TypeOK, NEW b \in Backends, SameCapture(b) PROVE TypeOK'
  <2>1. TypeShared' /\ TypeStream' /\ TypeTx' /\ TypeIdent' /\ TypeBuf' /\
       TypeLife' /\ TypeSync'
    BY <1>6 DEF TypeOK, SameCapture, TypeShared, TypeStream, TypeTx, TypeIdent,
         TypeBuf, TypeLife, TypeSync
  <2>2. (pc \in [Procs -> Locations])'
    BY <1>6 DEF TypeOK, SameCapture, Locations, Goto
  <2> QED BY <2>1, <2>2 DEF TypeOK
<1>7. ASSUME TypeOK, NEW b \in Backends, acquire_client_id(b) PROVE TypeOK'
  <2>1. TypeStream' /\ TypeTx' /\ TypeLife' /\ TypeSync'
    BY <1>7 DEF TypeOK, acquire_client_id, TypeStream, TypeTx, TypeLife, TypeSync
  <2>2. TypeShared'
    BY <1>7 DEF TypeOK, acquire_client_id, TypeShared
  <2>3. TypeIdent'
    BY <1>7 DEF TypeOK, acquire_client_id, TypeIdent, TypeShared
  <2>4. TypeBuf'
    BY <1>7 DEF TypeOK, acquire_client_id, TypeBuf, TypeLife, TypeShared,
         FreshSession
  <2>5. (pc \in [Procs -> Locations])'
    BY <1>7 DEF TypeOK, acquire_client_id, Locations, Goto
  <2> QED BY <2>1, <2>2, <2>3, <2>4, <2>5 DEF TypeOK
<1>8. ASSUME TypeOK, NEW b \in Backends, GateLive(b) PROVE TypeOK'
  <2>1. TypeShared' /\ TypeStream' /\ TypeTx' /\ TypeIdent' /\ TypeLife' /\
       TypeSync'
    BY <1>8 DEF TypeOK, GateLive, TypeShared, TypeStream, TypeTx, TypeIdent,
         TypeLife, TypeSync
  <2>2. TypeBuf'
    BY <1>8 DEF TypeOK, GateLive, TypeBuf, TypeLife, TypeShared
  <2>3. (pc \in [Procs -> Locations])'
    BY <1>8 DEF TypeOK, GateLive, Locations, Goto
  <2> QED BY <2>1, <2>2, <2>3 DEF TypeOK
<1>9. ASSUME TypeOK, NEW b \in Backends, GoLive(b) PROVE TypeOK'
  <2>1. TypeShared' /\ TypeTx' /\ TypeIdent' /\ TypeLife' /\ TypeSync'
    BY <1>9 DEF TypeOK, GoLive, TypeShared, TypeTx, TypeIdent, TypeLife, TypeSync
  <2>2. TypeStream'
    BY <1>9 DEF TypeOK, GoLive, TypeStream, TypeTx, TypeIdent, TypeLife,
         TypeBuf, TypeSync, Push, Message, SnapStart, Messages
  <2>3. TypeBuf'
    BY <1>9 DEF TypeOK, GoLive, TypeBuf, TypeLife, TypeShared
  <2>4. (pc \in [Procs -> Locations])'
    BY <1>9 DEF TypeOK, GoLive, Locations, Goto
  <2> QED BY <2>1, <2>2, <2>3, <2>4 DEF TypeOK
<1>10. ASSUME TypeOK, NEW b \in Backends, FlushTxBuf(b) PROVE TypeOK'
  <2>1. TypeShared' /\ TypeTx' /\ TypeIdent' /\ TypeLife' /\ TypeSync' /\ (pc
       \in [Procs -> Locations])'
    BY <1>10 DEF TypeOK, FlushTxBuf, TypeShared, TypeTx, TypeIdent, TypeLife,
         TypeSync
  <2>2. TypeStream'
    BY <1>10 DEF TypeOK, FlushTxBuf, TypeStream, TypeTx, TypeIdent, TypeLife,
         TypeBuf, TypeSync, Push, Message, Messages
  <2>3. TypeBuf'
    BY <1>10 DEF TypeOK, FlushTxBuf, TypeBuf, TypeLife, TypeShared
  <2> QED BY <2>1, <2>2, <2>3 DEF TypeOK
<1>11. ASSUME TypeOK, NEW b \in Backends, FlushToFinish(b) PROVE TypeOK'
  <2>1. TypeShared' /\ TypeStream' /\ TypeTx' /\ TypeIdent' /\ TypeLife' /\
       TypeSync'
    BY <1>11 DEF TypeOK, FlushToFinish, EndTx, TypeShared, TypeStream, TypeTx,
         TypeIdent, TypeLife, TypeSync
  <2>2. TypeBuf'
    BY <1>11 DEF TypeOK, FlushToFinish, TypeBuf, TypeLife, TypeShared, EndTx
  <2>3. (pc \in [Procs -> Locations])'
    BY <1>11 DEF TypeOK, FlushToFinish, Locations, Goto, EndTx, AfterTx
  <2> QED BY <2>1, <2>2, <2>3 DEF TypeOK
<1>12. ASSUME TypeOK, NEW b \in Backends, Emit(b) PROVE TypeOK'
  <2>1. TypeShared' /\ TypeTx' /\ TypeIdent' /\ TypeSync'
    BY <1>12 DEF TypeOK, Emit, TypeShared, TypeTx, TypeIdent, TypeSync
  <2>2. TypeStream'
    <3>1. sess[b] + 1 \in Nat
      BY <1>12 DEF TypeOK, TypeLife
    <3>2. Message("Stmt", b, sess[b] + 1) \in Messages
      BY <1>12, <3>1, MessageType
    <3> QED
      BY <1>12, <3>2 DEF TypeOK, TypeStream, Emit, Push
  <2>3. TypeBuf'
    <3>1. sess[b] + 1 \in Nat /\ Append(TxBuf[b], sess[b] + 1) \in Seq(Nat)
      BY <1>12 DEF TypeOK, TypeLife, TypeBuf
    <3> QED
      BY <1>12, <3>1 DEF TypeOK, Emit, TypeBuf
  <2>4. TypeLife'
    BY <1>12 DEF TypeOK, Emit, TypeLife
  <2>5. (pc \in [Procs -> Locations])'
    BY <1>12 DEF TypeOK, Emit, Locations, Goto
  <2> QED BY <2>1, <2>2, <2>3, <2>4, <2>5 DEF TypeOK
<1>13. ASSUME TypeOK, NEW b \in Backends, Commit(b) PROVE TypeOK'
  <2>1. TypeShared' /\ TypeTx' /\ TypeIdent' /\ TypeBuf' /\ TypeLife' /\ TypeSync'
    BY <1>13 DEF TypeOK, Commit, TypeShared, TypeTx, TypeIdent, TypeBuf,
         TypeLife, TypeSync
  <2>2. TypeStream'
    BY <1>13 DEF TypeOK, Commit, TypeStream, TypeTx, TypeIdent, TypeLife,
         TypeBuf, TypeSync, CommitRecords, TxRecord
  <2>3. (pc \in [Procs -> Locations])'
    BY <1>13 DEF TypeOK, Commit, Locations, Goto
  <2> QED BY <2>1, <2>2, <2>3 DEF TypeOK
<1>14. ASSUME TypeOK, NEW b \in Backends, Abort(b) PROVE TypeOK'
  <2>1. TypeShared' /\ TypeStream' /\ TypeTx' /\ TypeIdent' /\ TypeBuf' /\
       TypeLife' /\ TypeSync'
    BY <1>14 DEF TypeOK, Abort, TypeShared, TypeStream, TypeTx, TypeIdent,
         TypeBuf, TypeLife, TypeSync
  <2>2. (pc \in [Procs -> Locations])'
    BY <1>14 DEF TypeOK, Abort, Locations, Goto
  <2> QED BY <2>1, <2>2 DEF TypeOK
<1>15. ASSUME TypeOK, OpenExact, XactPc, NEW b \in Backends, xact_leave_shared(b) PROVE TypeOK'
  <2>1. TypeStream' /\ TypeIdent' /\ TypeBuf' /\ TypeLife'
    BY <1>15 DEF TypeOK, xact_leave_shared, TypeStream, TypeIdent, TypeBuf, TypeLife
  <2>2. TypeShared'
    BY <1>15, OpenPositive
       DEF TypeOK, xact_leave_shared, TypeShared, CountsDown
  <2>3. TypeTx'
    BY <1>15 DEF TypeOK, xact_leave_shared, TypeTx, TypeLife, TypeShared, NoTx,
         TxRecord
  <2>4. TypeSync'
    <3>1. TypeSync /\ generation \in Nat /\ b \in Procs
      BY <1>15 DEF TypeOK, TypeShared, Procs
    <3>2. LastPre \in BOOLEAN
      BY DEF LastPre
    <3>3. /\ lsn' = lsn
          /\ last' \in {last, [last EXCEPT ![b] = LastPre]}
          /\ syncGen' \in {syncGen, [syncGen EXCEPT ![b] = generation]}
      BY <1>15 DEF xact_leave_shared
    <3> HIDE DEF LastPre
    <3>4. (last \in [Procs -> BOOLEAN])' /\ (syncGen \in [Procs -> Nat])'
      BY <3>1, <3>2, <3>3 DEF TypeSync
    <3> QED BY <1>15, <3>1, <3>3, <3>4
       DEF TypeOK, TypeSync, TypeShared, TypeStream, xact_leave_shared, stream
  <2>5. (pc \in [Procs -> Locations])'
    BY <1>15 DEF TypeOK, xact_leave_shared, Locations, Goto
  <2> QED BY <2>1, <2>2, <2>3, <2>4, <2>5 DEF TypeOK
<1>16. ASSUME TypeOK, NEW b \in Backends, FinishCaptured(b) PROVE TypeOK'
  <2>1. TypeShared' /\ TypeStream' /\ TypeTx' /\ TypeIdent' /\ TypeBuf' /\
       TypeLife' /\ TypeSync'
    BY <1>16 DEF TypeOK, FinishCaptured, TypeShared, TypeStream, TypeTx,
         TypeIdent, TypeBuf, TypeLife, TypeSync
  <2>2. (pc \in [Procs -> Locations])'
    BY <1>16 DEF TypeOK, FinishCaptured, Locations, Goto
  <2> QED BY <2>1, <2>2 DEF TypeOK
<1>17. ASSUME TypeOK, NEW b \in Backends, FinishOther(b) PROVE TypeOK'
  <2>1. TypeShared' /\ TypeStream' /\ TypeTx' /\ TypeIdent' /\ TypeLife' /\
       TypeSync'
    BY <1>17 DEF TypeOK, FinishOther, EndTx, TypeShared, TypeStream, TypeTx,
         TypeIdent, TypeLife, TypeSync
  <2>2. TypeBuf'
    BY <1>17 DEF TypeOK, FinishOther, TypeBuf, TypeLife, TypeShared, EndTx
  <2>3. (pc \in [Procs -> Locations])'
    BY <1>17 DEF TypeOK, FinishOther, Locations, Goto, EndTx, AfterTx
  <2> QED BY <2>1, <2>2, <2>3 DEF TypeOK
<1>18. ASSUME TypeOK, NEW b \in Backends, FinishGoesLive(b) PROVE TypeOK'
  <2>1. TypeShared' /\ TypeStream' /\ TypeTx' /\ TypeIdent' /\ TypeBuf' /\
       TypeLife' /\ TypeSync'
    BY <1>18 DEF TypeOK, FinishGoesLive, TypeShared, TypeStream, TypeTx,
         TypeIdent, TypeBuf, TypeLife, TypeSync
  <2>2. (pc \in [Procs -> Locations])'
    BY <1>18 DEF TypeOK, FinishGoesLive, Locations, Goto
  <2> QED BY <2>1, <2>2 DEF TypeOK
<1>19. ASSUME TypeOK, NEW b \in Backends, FinishDrops(b) PROVE TypeOK'
  <2>1. TypeShared' /\ TypeStream' /\ TypeTx' /\ TypeIdent' /\ TypeLife' /\
       TypeSync'
    BY <1>19 DEF TypeOK, FinishDrops, EndTx, TypeShared, TypeStream, TypeTx,
         TypeIdent, TypeLife, TypeSync
  <2>2. TypeBuf'
    BY <1>19 DEF TypeOK, FinishDrops, TypeBuf, TypeLife, TypeShared, EndTx
  <2>3. (pc \in [Procs -> Locations])'
    BY <1>19 DEF TypeOK, FinishDrops, Locations, Goto, EndTx, AfterTx
  <2> QED BY <2>1, <2>2, <2>3 DEF TypeOK
<1>20. ASSUME TypeOK, NEW p \in Procs, ReadLsn(p) PROVE TypeOK'
  <2>1. TypeShared' /\ TypeStream' /\ TypeTx' /\ TypeIdent' /\ TypeBuf' /\ TypeLife'
    BY <1>20 DEF TypeOK, ReadLsn, TypeShared, TypeStream, TypeTx, TypeIdent,
         TypeBuf, TypeLife
  <2>2. TypeSync'
    BY <1>20 DEF TypeOK, ReadLsn, TypeSync, TypeShared, TypeStream
  <2>3. (pc \in [Procs -> Locations])'
    BY <1>20 DEF TypeOK, ReadLsn, Locations, Goto
  <2> QED BY <2>1, <2>2, <2>3 DEF TypeOK
<1>21. ASSUME TypeOK, NEW p \in Procs, PushLsn(p) PROVE TypeOK'
  <2>1. TypeShared' /\ TypeTx' /\ TypeIdent' /\ TypeBuf' /\ TypeLife' /\ TypeSync'
    BY <1>21 DEF TypeOK, PushLsn, TypeShared, TypeTx, TypeIdent, TypeBuf,
         TypeLife, TypeSync
  <2>2. TypeStream'
    BY <1>21 DEF TypeOK, PushLsn, TypeStream, TypeTx, TypeIdent, TypeLife,
         TypeBuf, TypeSync, Push, LsnMessage, Messages
  <2>3. (pc \in [Procs -> Locations])'
    BY <1>21 DEF TypeOK, PushLsn, Locations, Goto
  <2> QED BY <2>1, <2>2, <2>3 DEF TypeOK
<1>22. ASSUME TypeOK, NEW p \in Procs, SetReady(p) PROVE TypeOK'
  <2>1. TypeStream' /\ TypeTx' /\ TypeIdent' /\ TypeBuf' /\ TypeLife'
    BY <1>22 DEF TypeOK, SetReady, TypeStream, TypeTx, TypeIdent, TypeBuf, TypeLife
  <2>2. TypeShared'
    BY <1>22 DEF TypeOK, SetReady, TypeShared
  <2>3. TypeSync'
    BY <1>22 DEF TypeOK, SetReady, TypeSync, TypeShared, TypeStream
  <2>4. (pc \in [Procs -> Locations])'
    BY <1>22 DEF TypeOK, SetReady, Locations, Goto, AfterSync
  <2> QED BY <2>1, <2>2, <2>3, <2>4 DEF TypeOK
<1>23. ASSUME TypeOK, NEW b \in Backends, Exit(b) PROVE TypeOK'
  <2>1. TypeShared' /\ TypeStream' /\ TypeTx' /\ TypeIdent' /\ TypeBuf' /\ TypeSync'
    BY <1>23 DEF TypeOK, Exit, TypeShared, TypeStream, TypeTx, TypeIdent,
         TypeBuf, TypeSync
  <2>2. TypeLife'
    BY <1>23 DEF TypeOK, Exit, TypeLife
  <2>3. (pc \in [Procs -> Locations])'
    BY <1>23 DEF TypeOK, Exit, Locations, Goto
  <2> QED BY <2>1, <2>2, <2>3 DEF TypeOK
<1>24. ASSUME TypeOK, NEW b \in Backends, pgr_exit(b) PROVE TypeOK'
  <2>1. TypeShared' /\ TypeSync'
    BY <1>24 DEF TypeOK, pgr_exit, TypeShared, TypeSync
  <2>2. TypeStream'
    <3>1. sess[b] + 1 \in Nat
      BY <1>24 DEF TypeOK, TypeLife
    <3>2. Message("Disconnect", b, sess[b] + 1) \in Messages
      BY <1>24, <3>1, MessageType
    <3>3. /\ wal' = wal
          /\ ring' = ring \/ ring' = Append(ring, Message("Disconnect", b, sess[b] + 1))
      BY <1>24 DEF pgr_exit, Push
    <3> QED
      BY <1>24, <3>2, <3>3 DEF TypeOK, TypeStream
  <2>3. TypeTx'
    BY <1>24 DEF TypeOK, pgr_exit, TypeTx, TypeLife, TypeShared
  <2>4. TypeIdent'
    BY <1>24 DEF TypeOK, pgr_exit, TypeIdent, TypeShared
  <2>5. TypeBuf'
    BY <1>24 DEF TypeOK, pgr_exit, TypeBuf, TypeLife, TypeShared
  <2>6. TypeLife'
    BY <1>24 DEF TypeOK, pgr_exit, TypeLife
  <2>7. (pc \in [Procs -> Locations])'
    BY <1>24 DEF TypeOK, pgr_exit, Locations, Goto
  <2> QED BY <2>1, <2>2, <2>3, <2>4, <2>5, <2>6, <2>7 DEF TypeOK
<1>25. ASSUME TypeOK, NEW a \in Admins, StartLock(a) PROVE TypeOK'
  <2>1. TypeStream' /\ TypeTx' /\ TypeIdent' /\ TypeBuf' /\ TypeLife' /\ TypeSync'
    BY <1>25 DEF TypeOK, StartLock, TypeStream, TypeTx, TypeIdent, TypeBuf,
         TypeLife, TypeSync
  <2>2. TypeShared'
    BY <1>25 DEF TypeOK, StartLock, TypeShared
  <2>3. (pc \in [Procs -> Locations])'
    BY <1>25 DEF TypeOK, StartLock, Locations, Goto
  <2> QED BY <2>1, <2>2, <2>3 DEF TypeOK
<1>26. ASSUME TypeOK, NEW a \in Admins, StartReset(a) PROVE TypeOK'
  <2>1. TypeStream' /\ TypeTx' /\ TypeIdent' /\ TypeBuf' /\ TypeLife' /\ TypeSync'
    BY <1>26 DEF TypeOK, StartReset, TypeStream, TypeTx, TypeIdent, TypeBuf,
         TypeLife, TypeSync
  <2>2. TypeShared'
    BY <1>26 DEF TypeOK, StartReset, TypeShared, PendingAtStart
  <2>3. (pc \in [Procs -> Locations])'
    BY <1>26 DEF TypeOK, StartReset, Locations, Goto
  <2> QED BY <2>1, <2>2, <2>3 DEF TypeOK
<1>27. ASSUME TypeOK, NEW a \in Admins, StartPublish(a) PROVE TypeOK'
  <2>1. TypeStream' /\ TypeTx' /\ TypeIdent' /\ TypeBuf' /\ TypeLife'
    BY <1>27 DEF TypeOK, StartPublish, TypeStream, TypeTx, TypeIdent, TypeBuf,
         TypeLife
  <2>2. TypeShared'
    BY <1>27 DEF TypeOK, StartPublish, TypeShared, NothingPending
  <2>3. TypeSync'
    BY <1>27 DEF TypeOK, StartPublish, TypeSync, TypeShared, TypeStream,
         NothingPending
  <2>4. (pc \in [Procs -> Locations])'
    BY <1>27 DEF TypeOK, StartPublish, Locations, Goto
  <2> QED BY <2>1, <2>2, <2>3, <2>4 DEF TypeOK
<1>28. ASSUME TypeOK, NEW a \in Admins, WorkerReady(a) PROVE TypeOK'
  <2>1. TypeShared' /\ TypeStream' /\ TypeTx' /\ TypeIdent' /\ TypeBuf' /\
       TypeLife' /\ TypeSync'
    BY <1>28 DEF TypeOK, WorkerReady, TypeShared, TypeStream, TypeTx, TypeIdent,
         TypeBuf, TypeLife, TypeSync
  <2>2. (pc \in [Procs -> Locations])'
    BY <1>28 DEF TypeOK, WorkerReady, Locations, Goto
  <2> QED BY <2>1, <2>2 DEF TypeOK
<1>29. ASSUME TypeOK, NEW a \in Admins, WorkerFailed(a) PROVE TypeOK'
  <2>1. TypeStream' /\ TypeTx' /\ TypeIdent' /\ TypeBuf' /\ TypeLife'
    BY <1>29 DEF TypeOK, WorkerFailed, TypeStream, TypeTx, TypeIdent, TypeBuf,
         TypeLife
  <2>2. TypeShared'
    BY <1>29 DEF TypeOK, WorkerFailed, TypeShared
  <2>3. TypeSync'
    BY <1>29 DEF TypeOK, WorkerFailed, TypeSync, TypeShared, TypeStream
  <2>4. (pc \in [Procs -> Locations])'
    BY <1>29 DEF TypeOK, WorkerFailed, Locations, Goto
  <2> QED BY <2>1, <2>2, <2>3, <2>4 DEF TypeOK
<1>30. ASSUME TypeOK, NEW a \in Admins, Stop(a) PROVE TypeOK'
  <2>1. TypeStream' /\ TypeTx' /\ TypeIdent' /\ TypeBuf' /\ TypeLife' /\
       TypeSync' /\ (pc \in [Procs -> Locations])'
    BY <1>30 DEF TypeOK, Stop, TypeStream, TypeTx, TypeIdent, TypeBuf, TypeLife,
         TypeSync
  <2>2. TypeShared'
    BY <1>30 DEF TypeOK, Stop, TypeShared
  <2> QED BY <2>1, <2>2 DEF TypeOK
<1>31. ASSUME TypeOK, UNCHANGED vars PROVE TypeOK'
  BY <1>31 DEF TypeOK, vars, TypeShared, TypeStream, TypeTx, TypeIdent, TypeBuf,
       TypeLife, TypeSync
<1> QED
  BY <1>1, <1>2, <1>3, <1>4, <1>5, <1>6, <1>7, <1>8, <1>9, <1>10, <1>11, <1>12,
       <1>13, <1>14, <1>15, <1>16, <1>17, <1>18, <1>19, <1>20, <1>21, <1>22, <1>23,
       <1>24, <1>25, <1>26, <1>27, <1>28, <1>29, <1>30, <1>31   DEF Next, Client,
       Hook, Sync, Start

----------------------------------------------------------------------------
(* The counters of CaptureState.                                           *)

CountVars == <<running, generation, open_xacts, pending_xacts, lock,
               TxOpen, TxGen, tx>>

\* Most steps only move one process: they touch no counter, no tag and no lock,
\* and respect XactPc.
Quiet(p) ==
  /\ UNCHANGED CountVars
  /\ pc' = [pc EXCEPT ![p] = pc'[p]]
  /\ pc[p] \notin {"reset", "publish"}
  /\ pc'[p] \notin {"reset", "publish"}
  /\ p \in Backends => /\ pc'[p] = "leave" => TxOpen[p]
                       /\ pc'[p] \in Closed => ~TxOpen[p]

\* A step that neither enters, leaves nor starts keeps the counters exact.
LEMMA QuietKeepsCounts ==
  ASSUME TypeOK, CountInv, NEW p \in Procs, Quiet(p)
  PROVE  CountInv'
<1>1. Open' = Open /\ Pre' = Pre
  BY DEF Quiet, CountVars, Open, Pre
<1>2. OpenExact' /\ TagInv'
  BY <1>1 DEF CountInv, OpenExact, TagInv, Quiet, CountVars
<1>3. XactPc'
  BY DEF CountInv, XactPc, Quiet, CountVars, TypeOK, Procs
<1>4. LockInv'
  BY CaptureSyncAssumption DEF CountInv, LockInv, Quiet, CountVars, TypeOK, Procs
<1>5. PendingInv'
  BY <1>1, CaptureSyncAssumption
     DEF CountInv, PendingInv, LockInv, Quiet, CountVars, TypeOK, Procs
<1> QED
  BY <1>2, <1>3, <1>4, <1>5 DEF CountInv

\* The steps that are quiet.
QuietAction(p) ==
  \/ /\ p \in Backends
     /\ \/ NextMessage(p) \/ GateSkip(p) \/ GatePass(p) \/ AdoptCapture(p)
        \/ SameCapture(p) \/ acquire_client_id(p) \/ GateLive(p)
        \/ GoLive(p) \/ FlushTxBuf(p) \/ FlushToFinish(p) \/ Emit(p)
        \/ Commit(p) \/ Abort(p) \/ Exit(p)
        \/ FinishCaptured(p) \/ FinishOther(p) \/ FinishGoesLive(p)
        \/ FinishDrops(p)
  \/ p \in Admins /\ WorkerReady(p)
  \/ Sync(p)

\* The steps of the protocol, sorted by what they do to the counters.
LEMMA StepKinds ==
  ASSUME [Next]_vars
  PROVE  \/ \E p \in Procs : QuietAction(p)
         \/ \E b \in Backends : XactEnter(b) \/ xact_leave_shared(b) \/ pgr_exit(b)
         \/ \E a \in Admins : \/ StartLock(a) \/ StartReset(a) \/ StartPublish(a)
                              \/ WorkerFailed(a) \/ Stop(a)
         \/ UNCHANGED vars
BY DEF QuietAction, Next, Client, Hook, Start, Procs

\* The hooks, capture_sync_lsn and pgr.cstop leave the counters alone.
LEMMA QuietSteps ==
  ASSUME TypeOK, CountInv, NEW p \in Procs, QuietAction(p)
  PROVE  Quiet(p)
<1> USE CaptureSyncAssumption
<1> USE DEF Quiet, CountVars, Goto, chan, xacts, txVars, Closed, Procs
<1>1. /\ pc \in [Procs -> Locations]
      /\ \A b \in Backends : pc[b] \in Closed => ~TxOpen[b]
  BY DEF TypeOK, CountInv, XactPc
<1>2. CASE p \in Backends /\ (NextMessage(p) \/ GateSkip(p) \/ GatePass(p)
             \/ AdoptCapture(p) \/ SameCapture(p) \/ acquire_client_id(p))
  BY <1>1, <1>2 DEF NextMessage, CanReceive, GateSkip, GatePass, AdoptCapture,
                    SameCapture, acquire_client_id
<1>3. CASE p \in Backends /\ (GateLive(p) \/ GoLive(p) \/ FlushTxBuf(p)
             \/ Emit(p))
  BY <1>1, <1>3 DEF GateLive, GoLive, FlushTxBuf, Emit
<1>4. CASE p \in Backends /\ (Commit(p) \/ Abort(p) \/ Exit(p))
  BY <1>1, <1>4 DEF Commit, Abort, Exit, CanEndTx
<1>5. CASE p \in Backends /\ (FlushToFinish(p) \/ FinishCaptured(p)
             \/ FinishOther(p) \/ FinishGoesLive(p) \/ FinishDrops(p))
  BY <1>1, <1>5 DEF FlushToFinish, FinishCaptured, FinishOther, FinishGoesLive,
                    FinishDrops, EndTx, AfterTx
<1>6. CASE p \in Admins /\ WorkerReady(p)
  BY <1>1, <1>6 DEF WorkerReady
<1>7. CASE Sync(p)
  BY <1>1, <1>7 DEF Sync, ReadLsn, PushLsn, SetReady, AfterSync
<1> QED
  BY <1>2, <1>3, <1>4, <1>5, <1>6, <1>7 DEF QuietAction

\* xact_enter_shared counts its transaction, as one of the running capture.
LEMMA XactEnterCounts ==
  ASSUME TypeOK, CountInv, NEW b \in Backends, XactEnter(b)
  PROVE  CountInv'
<1> USE CaptureSyncAssumption
<1>1. /\ b \notin Open /\ lock = NoProc /\ lock' = NoProc
      /\ open_xacts' = open_xacts + 1 /\ pending_xacts' = pending_xacts
      /\ running' = running /\ generation' = generation
      /\ TxOpen' = [TxOpen EXCEPT ![b] = TRUE]
      /\ TxGen' = [TxGen EXCEPT ![b] = EnterGen]
      /\ pc' = [pc EXCEPT ![b] = "gate"]
  BY DEF XactEnter, Open, chan, Goto
<1>2. \A c \in Backends :
        tx'[c] = IF c = b THEN tx'[b] ELSE tx[c]
  BY DEF XactEnter, TypeOK, TypeTx
<1>3. tx'[b].epoch = generation
  BY DEF XactEnter, TypeOK, TypeTx
<1>4. Open' = Open \cup {b}
  BY <1>1 DEF Open, TypeOK, TypeTx
<1>5. OpenExact'
  BY <1>1, <1>4, OpenFinite, FS_AddElement DEF CountInv, OpenExact
<1>6. TagInv'
  BY <1>1, <1>2, <1>3, <1>4
     DEF CountInv, TagInv, EnterGen, TypeOK, TypeTx, TypeShared, Open
<1>7. running => Pre' = Pre
  BY <1>1, <1>4 DEF Pre, Open, EnterGen, TypeOK, TypeTx
<1>8. PendingInv'
  BY <1>1, <1>7 DEF CountInv, PendingInv
<1>9. XactPc' /\ LockInv'
  BY <1>1 DEF CountInv, XactPc, LockInv, Closed, TypeOK, TypeTx, Procs
<1> QED
  BY <1>5, <1>6, <1>8, <1>9 DEF CountInv

\* xact_leave_shared counts it out, of both counters if it was pre.
LEMMA XactLeaveCounts ==
  ASSUME TypeOK, CountInv, NEW b \in Backends, xact_leave_shared(b)
  PROVE  CountInv'
<1> USE CaptureSyncAssumption
<1>1. /\ b \in Open /\ lock = NoProc /\ lock' = NoProc
      /\ open_xacts' = open_xacts - 1
      /\ running' = running /\ generation' = generation
      /\ TxOpen' = [TxOpen EXCEPT ![b] = FALSE] /\ TxGen' = TxGen
      /\ pc' = [pc EXCEPT ![b] = "finish"]
  BY DEF xact_leave_shared, CountInv, XactPc, Open, chan, Goto
<1>2. \A c \in Backends \ {b} : tx'[c] = tx[c]
  BY DEF xact_leave_shared, TypeOK, TypeTx
<1>3. Open' = Open \ {b} /\ Pre' = Pre \ {b}
  BY <1>1 DEF Open, Pre, TypeOK, TypeTx
<1>4. OpenExact'
  BY <1>1, <1>3, OpenFinite, FS_RemoveElement DEF CountInv, OpenExact
<1>5. TagInv'
  BY <1>1, <1>2, <1>3 DEF CountInv, TagInv, Open
<1>6. PendingInv'
  <2>1. SUFFICES ASSUME running PROVE pending_xacts' = Cardinality(Pre')
    BY <1>1 DEF PendingInv
  <2>2. /\ IsFiniteSet(Pre) /\ Cardinality(Pre) \in Nat
        /\ pending_xacts = Cardinality(Pre)
    BY <1>1, <2>1, OpenFinite, FS_Subset, FS_CardinalityType
       DEF Pre, CountInv, PendingInv
  <2>3. CASE b \in Pre
    <3>1. Cardinality(Pre) # 0
      BY <2>2, <2>3, FS_EmptySet
    <3>2. CountsDown(b)
      BY <2>1, <2>2, <2>3, <3>1 DEF CountsDown, xact_is_pre, Pre
    <3>3. pending_xacts' = pending_xacts - 1
      BY <3>2 DEF xact_leave_shared
    <3> QED
      BY <1>3, <2>2, <2>3, <3>3, FS_RemoveElement
  <2>4. CASE b \notin Pre
    <3>1. ~CountsDown(b) /\ Pre' = Pre
      BY <1>1, <1>3, <2>4 DEF CountsDown, xact_is_pre, Pre
    <3> QED
      BY <2>2, <3>1 DEF xact_leave_shared
  <2> QED
    BY <2>3, <2>4
<1>7. XactPc' /\ LockInv'
  BY <1>1 DEF CountInv, XactPc, LockInv, Closed, TypeOK, TypeTx, Procs
<1> QED
  BY <1>4, <1>5, <1>6, <1>7 DEF CountInv

\* pgr.cstart: while it holds the lock no transaction enters or leaves, and the
\* tags taken before the new generation make every open transaction pre.
LEMMA StartCounts ==
  ASSUME TypeOK, CountInv, NEW a \in Admins,
         StartLock(a) \/ StartReset(a) \/ StartPublish(a)
  PROVE  CountInv'
<1> USE CaptureSyncAssumption
<1>1. /\ Open' = Open /\ open_xacts' = open_xacts
      /\ TxOpen' = TxOpen /\ TxGen' = TxGen /\ tx' = tx
  BY DEF StartLock, StartReset, StartPublish, Open, txVars
<1>2. pc \in [Procs -> Locations] /\ a \in Procs /\ a \notin Backends
  BY DEF TypeOK, Procs
<1>3. OpenExact'
  BY <1>1 DEF CountInv, OpenExact
<1>4. XactPc'
  BY <1>1, <1>2 DEF StartLock, StartReset, StartPublish, CountInv, XactPc,
                    Closed, Goto, Procs
<1>5. LockInv'
  BY <1>2 DEF StartLock, StartReset, StartPublish, CountInv, LockInv, Goto,
              Procs, chan, xacts
<1>6. CASE StartLock(a) \/ StartReset(a)
  <2>1. running' = running /\ generation' = generation /\ Pre' = Pre
    BY <1>1, <1>6 DEF StartLock, StartReset, Pre
  <2>2. lock' = a /\ a # NoProc
    BY <1>6 DEF StartLock, StartReset, CountInv, LockInv
  <2>3. PendingInv'
    BY <1>2, <1>6, <2>2 DEF StartLock, StartReset, PendingAtStart, PendingInv,
                            Goto
  <2> QED
    BY <1>1, <1>3, <1>4, <1>5, <2>1, <2>3 DEF CountInv, TagInv
<1>7. CASE StartPublish(a)
  <2>1. lock = a /\ a # NoProc /\ pending_xacts = open_xacts
    BY <1>7 DEF StartPublish, CountInv, LockInv, PendingInv
  <2>2. /\ generation' = generation + 1 /\ lock' = NoProc
        /\ pending_xacts' = pending_xacts
    BY <1>7 DEF StartPublish
  <2>3. \A b \in Open : tx[b].epoch \in Nat
    BY DEF TypeOK, TypeTx, TxRecord, Open
  <2>4. TagInv'
    BY <1>1, <2>2, <2>3 DEF CountInv, TagInv, TypeOK, TypeShared
  <2>5. Pre' = Open
    BY <1>1, <2>2, <2>3 DEF Pre, CountInv, TagInv, TypeOK, TypeShared
  <2>6. PendingInv'
    BY <2>1, <2>2, <2>5 DEF PendingInv, CountInv, OpenExact
  <2> QED
    BY <1>3, <1>4, <1>5, <2>4, <2>6 DEF CountInv
<1> QED
  BY <1>6, <1>7

\* A stop, a failed worker start and the end of a connection.
LEMMA StopCounts ==
  ASSUME TypeOK, CountInv,
         \/ \E a \in Admins : WorkerFailed(a) \/ Stop(a)
         \/ \E b \in Backends : pgr_exit(b)
  PROVE  CountInv'
<1> USE CaptureSyncAssumption
<1>1. pc \in [Procs -> Locations]
  BY DEF TypeOK
<1>2. CASE \E a \in Admins : WorkerFailed(a) \/ Stop(a)
  <2>1. /\ running' = FALSE /\ generation' = generation /\ lock' = lock
        /\ open_xacts' = open_xacts /\ pending_xacts' = pending_xacts
        /\ TxOpen' = TxOpen /\ TxGen' = TxGen /\ tx' = tx
    BY <1>2 DEF WorkerFailed, Stop, xacts, txVars
  <2>2. \A q \in Procs :
          pc'[q] = pc[q] \/ (q \in Admins /\ pc[q] = "ensure" /\ pc'[q] = "idle")
    BY <1>1, <1>2 DEF WorkerFailed, Stop, Goto, Procs
  <2> QED
    BY <2>1, <2>2 DEF CountInv, OpenExact, Open, XactPc, LockInv, TagInv,
                      PendingInv, Procs, Closed
<1>3. ASSUME NEW b \in Backends, pgr_exit(b) PROVE CountInv'
  <2>1. /\ running' = running /\ generation' = generation /\ lock' = lock
        /\ open_xacts' = open_xacts /\ pending_xacts' = pending_xacts
        /\ TxOpen' = TxOpen /\ TxGen' = [TxGen EXCEPT ![b] = 0] /\ tx' = tx
        /\ pc' = [pc EXCEPT ![b] = "idle"] /\ pc[b] = "exit"
    BY <1>3 DEF pgr_exit, chan, xacts, Goto
  <2>2. b \notin Open
    BY <2>1 DEF CountInv, XactPc, Closed, Open
  <2>3. Open' = Open /\ Pre' = Pre
    BY <2>1, <2>2 DEF Open, Pre, TypeOK, TypeTx
  <2>4. OpenExact' /\ XactPc'
    BY <1>1, <2>1, <2>3 DEF CountInv, OpenExact, XactPc, Closed, Procs
  <2>5. LockInv' /\ PendingInv'
    BY <1>1, <2>1, <2>3 DEF CountInv, LockInv, PendingInv, Procs
  <2>6. TagInv'
    BY <2>1, <2>2, <2>3 DEF CountInv, TagInv, TypeOK, TypeTx
  <2> QED
    BY <2>4, <2>5, <2>6 DEF CountInv
<1> QED
  BY <1>2, <1>3

\* Every step keeps the counters exact.
LEMMA CountStep == TypeOK /\ CountInv /\ [Next]_vars => CountInv'
<1> SUFFICES ASSUME TypeOK, CountInv, [Next]_vars PROVE CountInv'
  OBVIOUS
<1>1. CASE \E p \in Procs : QuietAction(p)
  BY <1>1, QuietSteps, QuietKeepsCounts
<1>2. CASE \E b \in Backends :
             XactEnter(b) \/ xact_leave_shared(b) \/ pgr_exit(b)
  BY <1>2, XactEnterCounts, XactLeaveCounts, StopCounts
<1>3. CASE \E a \in Admins : \/ StartLock(a) \/ StartReset(a) \/ StartPublish(a)
                             \/ WorkerFailed(a) \/ Stop(a)
  BY <1>3, StartCounts, StopCounts
<1>4. CASE UNCHANGED vars
  BY <1>4 DEF vars, chan, xacts, txVars, CountInv, OpenExact, Open, XactPc, LockInv,
              TagInv, PendingInv, Pre
<1> QED
  BY <1>1, <1>2, <1>3, <1>4, StepKinds

----------------------------------------------------------------------------
(* The sync point.                                                         *)

\* Generations only grow, and a transaction found open after a step was open
\* before it or has just been entered in the current generation.
LEMMA OpenStep ==
  ASSUME TypeOK, CountInv, [Next]_vars
  PROVE  /\ generation' \in Nat /\ generation' >= generation
         /\ \A b \in Open' : \/ b \in Open /\ tx'[b] = tx[b]
                             \/ tx'[b].epoch = generation
<1> USE CaptureSyncAssumption
<1>1. ASSUME NEW b \in Backends, XactEnter(b)
      PROVE  /\ generation' = generation
             /\ \A c \in Open' : \/ c \in Open /\ tx'[c] = tx[c]
                                 \/ tx'[c].epoch = generation
  BY <1>1 DEF XactEnter, Open, chan, TypeOK, TypeTx
<1>2. ASSUME NEW b \in Backends, xact_leave_shared(b)
      PROVE  /\ generation' = generation
             /\ \A c \in Open' : c \in Open /\ tx'[c] = tx[c]
  BY <1>2 DEF xact_leave_shared, Open, chan, TypeOK, TypeTx
<1>3. ASSUME NEW a \in Admins, \/ StartLock(a) \/ StartReset(a) \/ StartPublish(a)
                               \/ WorkerFailed(a) \/ Stop(a)
      PROVE  /\ generation' = generation \/ generation' = generation + 1
             /\ TxOpen' = TxOpen /\ tx' = tx
  BY <1>3 DEF StartLock, StartReset, StartPublish, WorkerFailed, Stop, txVars
<1>4. ASSUME NEW b \in Backends, pgr_exit(b)
      PROVE  generation' = generation /\ TxOpen' = TxOpen /\ tx' = tx
  BY <1>4 DEF pgr_exit, chan
<1>5. ASSUME NEW p \in Procs, Quiet(p)
      PROVE  generation' = generation /\ TxOpen' = TxOpen /\ tx' = tx
  BY <1>5 DEF Quiet, CountVars
<1>6. ASSUME UNCHANGED vars
      PROVE  generation' = generation /\ TxOpen' = TxOpen /\ tx' = tx
  BY <1>6 DEF vars, chan, txVars
<1>7. \/ \E b \in Backends : XactEnter(b) \/ xact_leave_shared(b) \/ pgr_exit(b)
      \/ \E a \in Admins : \/ StartLock(a) \/ StartReset(a) \/ StartPublish(a)
                           \/ WorkerFailed(a) \/ Stop(a)
      \/ \E p \in Procs : Quiet(p)
      \/ UNCHANGED vars
  BY QuietSteps, StepKinds
<1> QED
  BY <1>1, <1>2, <1>3, <1>4, <1>5, <1>6, <1>7 DEF TypeOK, TypeShared, Open

\* Once every transaction older than a generation is gone, it stays so.
LEMMA OpenSinceKept ==
  ASSUME TypeOK, CountInv, [Next]_vars, NEW g \in Nat, OpenSince(g)
  PROVE  OpenSince(g)'
BY OpenStep DEF OpenSince, TypeOK, TypeShared

\* Who decides to sync does so when no transaction older than the capture is
\* open: the last pre transaction to leave, or pgr.cstart if there is none.
LEMMA LeaveSyncs ==
  ASSUME TypeOK, CountInv, NEW b \in Backends, xact_leave_shared(b),
         CountsDown(b), LastPre
  PROVE  OpenSince(syncGen[b])'
<1> USE CaptureSyncAssumption
<1>1. /\ running /\ b \in Pre /\ pending_xacts = 1
      /\ pending_xacts = Cardinality(Pre) /\ IsFiniteSet(Pre)
  BY OpenFinite, FS_Subset
     DEF CountsDown, xact_is_pre, LastPre, xact_leave_shared, CountInv, XactPc,
         PendingInv, Pre, Open
<1>2. Pre \ {b} = {}
  <2>1. IsFiniteSet(Pre \ {b}) /\ Cardinality(Pre \ {b}) = 0
    BY <1>1, FS_RemoveElement
  <2> QED
    BY <2>1, FS_EmptySet
<1>3. \A c \in Open \ {b} : tx[c].epoch = generation
  BY <1>1, <1>2 DEF Pre, CountInv, TagInv, TypeOK, TypeShared
<1>4. /\ generation' = generation /\ Open' = Open \ {b}
      /\ \A c \in Open \ {b} : tx'[c] = tx[c]
  BY DEF xact_leave_shared, Open, chan, TypeOK, TypeTx
<1>5. syncGen'[b] = generation
  BY DEF xact_leave_shared, TypeOK, TypeSync, Procs
<1> QED
  BY <1>3, <1>4, <1>5 DEF OpenSince, TypeOK, TypeShared

\* pgr.cstart syncs at once only if no transaction is open.
LEMMA PublishSyncs ==
  ASSUME TypeOK, CountInv, NEW a \in Admins, StartPublish(a), NothingPending
  PROVE  OpenSince(syncGen[a])'
<1> USE CaptureSyncAssumption
<1>1. lock = a /\ a # NoProc /\ open_xacts = 0
  BY DEF StartPublish, CountInv, LockInv, PendingInv, NothingPending
<1>2. Open = {}
  BY <1>1, OpenFinite, FS_EmptySet DEF CountInv, OpenExact
<1>3. generation' = generation + 1 /\ Open' = {}
  BY <1>2 DEF StartPublish, Open, txVars
<1>4. syncGen'[a] = generation + 1
  BY DEF StartPublish, TypeOK, TypeSync, Procs
<1> QED
  BY <1>3, <1>4 DEF OpenSince, TypeOK, TypeShared

\* Most steps decide nothing about the sync: they move one process, and push at
\* most a message that is no Lsn or write the commit record of an open
\* transaction.
Plain(p) ==
  /\ UNCHANGED <<last, syncGen, lsn>>
  /\ pc' = [pc EXCEPT ![p] = pc'[p]]
  /\ pc'[p] \notin {"pushlsn", "setready"}
  /\ pc'[p] = "readlsn" => last[p]
  /\ \/ UNCHANGED <<ring, wal>>
     \/ /\ wal' = wal
        /\ \E m \in Messages : ~IsLsn(m) /\ ring' = Append(ring, m)
     \/ /\ ring' = ring
        /\ \E w \in CommitRecords, b \in Open :
             w.epoch = tx[b].epoch /\ wal' = Append(wal, w)

\* The hooks outside of capture_sync_lsn change none of what a sync rests on.
LEMMA PlainSteps ==
  ASSUME TypeOK, CountInv, NEW b \in Backends,
         \/ XactEnter(b) \/ NextMessage(b) \/ GateSkip(b) \/ GatePass(b)
         \/ AdoptCapture(b) \/ SameCapture(b) \/ acquire_client_id(b)
         \/ GateLive(b) \/ GoLive(b) \/ FlushTxBuf(b) \/ FlushToFinish(b)
         \/ Emit(b) \/ Commit(b) \/ Abort(b) \/ Exit(b)
         \/ FinishCaptured(b) \/ FinishOther(b) \/ FinishGoesLive(b)
         \/ FinishDrops(b) \/ pgr_exit(b)
  PROVE  Plain(b)
<1> USE DEF Plain, Goto, sync, stream, Procs
<1>1. pc \in [Procs -> Locations]
  BY DEF TypeOK
<1>2. CASE XactEnter(b) \/ NextMessage(b) \/ GateSkip(b) \/ GatePass(b)
  BY <1>1, <1>2 DEF XactEnter, NextMessage, GateSkip, GatePass
<1>3. CASE AdoptCapture(b) \/ SameCapture(b) \/ acquire_client_id(b)
           \/ GateLive(b) \/ Abort(b) \/ Exit(b)
  BY <1>1, <1>3 DEF AdoptCapture, SameCapture, acquire_client_id, GateLive, Abort,
                    Exit
<1>4. CASE FlushToFinish(b) \/ FinishCaptured(b) \/ FinishOther(b)
           \/ FinishGoesLive(b) \/ FinishDrops(b)
  BY <1>1, <1>4 DEF FlushToFinish, FinishCaptured, FinishOther, FinishGoesLive,
                    FinishDrops, EndTx, AfterTx
<1>5. /\ SnapStart(b) \in Nat /\ sess[b] + 1 \in Nat
      /\ TxBuf[b] # <<>> => Head(TxBuf[b]) \in Nat
  BY DEF TypeOK, TypeBuf, TypeLife, SnapStart
<1>6. ASSUME NEW type \in {"Connect", "Stmt", "Disconnect"}, NEW val \in Nat
      PROVE  Message(type, b, val) \in Messages /\ ~IsLsn(Message(type, b, val))
  BY MessageType, <1>6 DEF IsLsn, Message
<1>7. CASE GoLive(b) \/ FlushTxBuf(b)
  <2>1. \E m \in Messages : ~IsLsn(m) /\ ring' = Append(ring, m)
    BY <1>5, <1>6, <1>7 DEF GoLive, FlushTxBuf, Push
  <2> QED
    BY <1>1, <1>7, <2>1 DEF GoLive, FlushTxBuf
<1>8. CASE Emit(b) \/ pgr_exit(b)
  <2>1. ring' = ring \/ \E m \in Messages : ~IsLsn(m) /\ ring' = Append(ring, m)
    BY <1>5, <1>6, <1>8 DEF Emit, pgr_exit, Push
  <2> QED
    BY <1>1, <1>8, <2>1 DEF Emit, pgr_exit
<1>9. CASE Commit(b)
  <2>1. b \in Open /\ tx[b] \in TxRecord /\ sess[b] \in Nat /\ conn[b] \in Nat
    BY <1>9 DEF Commit, CanEndTx, Open, TypeOK, TypeTx, TypeLife
  <2>2. PICK w : /\ wal' = Append(wal, w)
                 /\ w = [be |-> b, conn |-> conn[b], first |-> tx[b].first,
                         upto |-> sess[b], epoch |-> tx[b].epoch,
                         ready |-> tx[b].ready]
    BY <1>9 DEF Commit
  <2>3. w \in CommitRecords /\ w.epoch = tx[b].epoch
    BY <2>1, <2>2 DEF CommitRecords, TxRecord
  <2> QED
    BY <1>1, <1>9, <2>1, <2>2, <2>3 DEF Commit
<1> QED
  BY <1>2, <1>3, <1>4, <1>7, <1>8, <1>9

\* So do the steps of pgr.cstart outside of its publication, and pgr.cstop.
LEMMA PlainStarts ==
  ASSUME TypeOK, CountInv, NEW a \in Admins,
         StartLock(a) \/ StartReset(a) \/ WorkerReady(a) \/ Stop(a)
  PROVE  Plain(a)
BY DEF Plain, StartLock, StartReset, WorkerReady, Stop, Goto, sync, stream, Procs,
       TypeOK

\* A decision to sync stays sound while the process has not finished it.
LEMMA SyncOpenKept ==
  ASSUME TypeOK, CountInv, SyncOpen, [Next]_vars, NEW p \in Procs,
         last[p], syncGen'[p] = syncGen[p]
  PROVE  OpenSince(syncGen[p])'
<1>1. OpenSince(syncGen[p]) /\ syncGen[p] \in Nat
  BY DEF SyncOpen, TypeOK, TypeSync
<1> QED
  BY <1>1, OpenStep DEF OpenSince, TypeOK, TypeShared

\* A sync point already in the ring stays sound.
LEMMA RingOpenKept ==
  ASSUME TypeOK, CountInv, RingOpen, [Next]_vars, NEW j \in DOMAIN ring,
         IsLsn(ring[j]), ring'[j] = ring[j]
  PROVE  OpenSince(ring[j].gen)'
<1>1. OpenSince(ring[j].gen)
  BY DEF RingOpen
<1>2. ring[j] \in Messages
  BY DEF TypeOK, TypeStream
<1>3. ring[j].gen \in Nat
  BY <1>2 DEF Messages
<1> QED
  BY <1>1, <1>3, OpenStep DEF OpenSince, TypeOK, TypeShared

\* The steps of the last two lemmas keep the sync points sound.
LEMMA PlainKeepsSync ==
  ASSUME TypeOK, TypeOK', CountInv, SyncInv, [Next]_vars,
         NEW q \in Procs, Plain(q)
  PROVE  SyncInv'
<1>1. SyncOpen /\ SyncPc /\ SyncWal /\ RingOpen /\ PreInBase
  BY DEF SyncInv
<1>2. last' = last /\ syncGen' = syncGen /\ lsn' = lsn
  BY DEF Plain
<1>3. SyncOpen'
  BY <1>1, <1>2, SyncOpenKept DEF SyncOpen
<1>4. SyncPc'
  BY <1>1, <1>2 DEF SyncPc, Plain, TypeOK
<1>5. \A p \in Procs : pc'[p] = "pushlsn" => pc[p] = "pushlsn" /\ last[p]
  BY <1>1 DEF SyncPc, Plain, TypeOK
<1>6. wal \in Seq(CommitRecords) /\ ring \in Seq(Messages)
  BY DEF TypeOK, TypeStream
<1>7. CASE UNCHANGED <<ring, wal>>
  <2>1. SyncWal'
    BY <1>1, <1>2, <1>5, <1>7 DEF SyncWal
  <2>2. RingOpen'
    BY <1>1, <1>7, RingOpenKept DEF RingOpen
  <2>3. PreInBase'
    BY <1>1, <1>7 DEF PreInBase
  <2> QED
    BY <1>3, <1>4, <2>1, <2>2, <2>3 DEF SyncInv
<1>8. ASSUME NEW m \in Messages, ~IsLsn(m), ring' = Append(ring, m), wal' = wal
      PROVE  SyncInv'
  <2>1. SyncWal'
    BY <1>1, <1>2, <1>5, <1>8 DEF SyncWal
  <2>2. \A j \in DOMAIN ring' :
          IsLsn(ring'[j]) => j \in DOMAIN ring /\ ring'[j] = ring[j]
    BY <1>6, <1>8
  <2>3. RingOpen'
    BY <1>1, <2>2, RingOpenKept DEF RingOpen
  <2>4. PreInBase'
    BY <1>1, <1>8, <2>2 DEF PreInBase
  <2> QED
    BY <1>3, <1>4, <2>1, <2>3, <2>4 DEF SyncInv
<1>9. ASSUME NEW w \in CommitRecords, NEW b \in Open, w.epoch = tx[b].epoch,
             wal' = Append(wal, w), ring' = ring
      PROVE  SyncInv'
  <2>1. \A i \in DOMAIN wal' : \/ i \in DOMAIN wal /\ wal'[i] = wal[i]
                               \/ wal'[i].epoch = tx[b].epoch
    BY <1>6, <1>9
  <2>2. \A p \in Procs : last[p] => tx[b].epoch >= syncGen[p]
    BY <1>1, <1>9 DEF SyncOpen, OpenSince
  <2>3. SyncWal'
    BY <1>1, <1>2, <1>5, <2>1, <2>2 DEF SyncWal
  <2>4. RingOpen'
    BY <1>1, <1>9, RingOpenKept DEF RingOpen
  <2>5. \A j \in DOMAIN ring : IsLsn(ring[j]) => tx[b].epoch >= ring[j].gen
    BY <1>1, <1>9 DEF RingOpen, OpenSince
  <2>6. PreInBase'
    BY <1>1, <1>9, <2>1, <2>5 DEF PreInBase
  <2> QED
    BY <1>3, <1>4, <2>3, <2>4, <2>6 DEF SyncInv
<1> QED
  BY <1>7, <1>8, <1>9 DEF Plain

\* The steps of capture_sync_lsn itself.
LEMMA SyncKeepsSync ==
  ASSUME TypeOK, TypeOK', CountInv, SyncInv, [Next]_vars,
         NEW q \in Procs, Sync(q)
  PROVE  SyncInv'
<1>1. SyncOpen /\ SyncPc /\ SyncWal /\ RingOpen /\ PreInBase
  BY DEF SyncInv
<1>2. /\ wal \in Seq(CommitRecords) /\ ring \in Seq(Messages)
      /\ pc \in [Procs -> Locations] /\ last \in [Procs -> BOOLEAN]
      /\ lsn \in [Procs -> Nat]
  BY DEF TypeOK, TypeStream, TypeSync
<1>3. wal' = wal /\ syncGen' = syncGen
  BY DEF Sync, ReadLsn, PushLsn, SetReady, stream, sync
<1>4. \A p \in Procs : last'[p] => last[p]
  BY <1>2 DEF Sync, ReadLsn, PushLsn, SetReady, sync
<1>5. SyncOpen'
  BY <1>1, <1>3, <1>4, SyncOpenKept DEF SyncOpen
<1>6. CASE ReadLsn(q)
  <2>1. /\ last' = last /\ ring' = ring
        /\ pc' = [pc EXCEPT ![q] = "pushlsn"] /\ pc[q] = "readlsn"
        /\ lsn' = [lsn EXCEPT ![q] = Len(wal)]
    BY <1>6 DEF ReadLsn, Goto, stream
  <2>2. SyncPc'
    BY <1>1, <1>2, <2>1 DEF SyncPc
  <2>3. SyncWal'
    BY <1>1, <1>2, <1>3, <2>1 DEF SyncWal
  <2>4. RingOpen' /\ PreInBase'
    BY <1>1, <1>3, <2>1, RingOpenKept DEF RingOpen, PreInBase
  <2> QED
    BY <1>5, <2>2, <2>3, <2>4 DEF SyncInv
<1>7. CASE PushLsn(q)
  <2>1. /\ last' = last /\ lsn' = lsn
        /\ ring' = Append(ring, LsnMessage(q))
        /\ pc' = [pc EXCEPT ![q] = "setready"] /\ pc[q] = "pushlsn"
    BY <1>7 DEF PushLsn, Push, Goto, sync
  <2>2. SyncPc'
    BY <1>1, <1>2, <2>1 DEF SyncPc
  <2>3. SyncWal'
    BY <1>1, <1>2, <1>3, <2>1 DEF SyncWal
  <2>4. LsnMessage(q).gen = syncGen[q] /\ LsnMessage(q).val = lsn[q]
    BY DEF LsnMessage
  <2>5. last[q] /\ OpenSince(syncGen[q])'
    BY <1>1, <1>3, <2>1, SyncOpenKept DEF SyncPc
  <2>6. \A j \in DOMAIN ring' : \/ j \in DOMAIN ring /\ ring'[j] = ring[j]
                                \/ ring'[j] = LsnMessage(q)
    BY <1>2, <2>1
  <2>7. RingOpen'
    <3>1. SUFFICES ASSUME NEW j \in DOMAIN ring', IsLsn(ring'[j])
                   PROVE  OpenSince(ring[j].gen)'
      BY DEF RingOpen
    <3>2. CASE j \in DOMAIN ring /\ ring'[j] = ring[j]
      BY <1>1, <3>1, <3>2, RingOpenKept
    <3>3. CASE ring'[j] = LsnMessage(q)
      BY <1>3, <2>4, <2>5, <3>3 DEF OpenSince
    <3> QED
      BY <2>6, <3>2, <3>3
  <2>8. PreInBase'
    BY <1>1, <1>3, <2>1, <2>4, <2>6 DEF PreInBase, SyncWal
  <2> QED
    BY <1>5, <2>2, <2>3, <2>7, <2>8 DEF SyncInv
<1>8. CASE SetReady(q)
  <2>1. /\ ring' = ring /\ lsn' = lsn /\ last' = [last EXCEPT ![q] = FALSE]
        /\ pc' = [pc EXCEPT ![q] = AfterSync(q)] /\ pc[q] = "setready"
    BY <1>8 DEF SetReady, Goto, stream
  <2>2. SyncPc'
    BY <1>1, <1>2, <2>1 DEF SyncPc, AfterSync
  <2>3. SyncWal'
    BY <1>1, <1>2, <1>3, <2>1 DEF SyncWal, AfterSync
  <2>4. RingOpen' /\ PreInBase'
    BY <1>1, <1>3, <2>1, RingOpenKept DEF RingOpen, PreInBase
  <2> QED
    BY <1>5, <2>2, <2>3, <2>4 DEF SyncInv
<1> QED
  BY <1>6, <1>7, <1>8 DEF Sync

\* The steps that decide who syncs.
LEMMA DecideKeepsSync ==
  ASSUME TypeOK, TypeOK', CountInv, SyncInv, [Next]_vars,
         \/ \E b \in Backends : xact_leave_shared(b)
         \/ \E a \in Admins : StartPublish(a) \/ WorkerFailed(a)
  PROVE  SyncInv'
<1> USE CaptureSyncAssumption
<1>1. SyncOpen /\ SyncPc /\ SyncWal /\ RingOpen /\ PreInBase
  BY DEF SyncInv
<1>2. /\ pc \in [Procs -> Locations] /\ last \in [Procs -> BOOLEAN]
      /\ syncGen \in [Procs -> Nat]
  BY DEF TypeOK, TypeSync
<1>3. ring' = ring /\ wal' = wal /\ lsn' = lsn
  BY DEF xact_leave_shared, StartPublish, WorkerFailed, stream
<1>4. PICK q \in Procs :
        /\ \/ q \in Backends /\ xact_leave_shared(q)
           \/ q \in Admins /\ (StartPublish(q) \/ WorkerFailed(q))
        /\ pc[q] \in {"leave", "publish", "ensure"}
        /\ pc' = [pc EXCEPT ![q] = pc'[q]]
        /\ pc'[q] \in {"finish", "ensure", "idle"}
        /\ \A p \in Procs \ {q} : last'[p] = last[p] /\ syncGen'[p] = syncGen[p]
  BY <1>2 DEF xact_leave_shared, StartPublish, WorkerFailed, Goto, Procs
<1>5. \/ last'[q] => last[q] /\ syncGen'[q] = syncGen[q]
      \/ xact_leave_shared(q) /\ q \in Backends /\ CountsDown(q) /\ LastPre
      \/ StartPublish(q) /\ q \in Admins /\ NothingPending
  BY <1>2, <1>4 DEF xact_leave_shared, StartPublish, WorkerFailed, Procs
<1>6. SyncOpen'
  BY <1>1, <1>4, <1>5, SyncOpenKept, LeaveSyncs, PublishSyncs DEF SyncOpen
<1>7. SyncPc'
  BY <1>1, <1>2, <1>4 DEF SyncPc
<1>8. SyncWal'
  BY <1>1, <1>2, <1>3, <1>4 DEF SyncWal
<1>9. RingOpen' /\ PreInBase'
  BY <1>1, <1>3, RingOpenKept DEF RingOpen, PreInBase
<1> QED
  BY <1>6, <1>7, <1>8, <1>9 DEF SyncInv

\* Every step keeps the sync points sound.
LEMMA SyncStep ==
  TypeOK /\ TypeOK' /\ CountInv /\ SyncInv /\ [Next]_vars => SyncInv'
<1> SUFFICES ASSUME TypeOK, TypeOK', CountInv, SyncInv, [Next]_vars
             PROVE  SyncInv'
  OBVIOUS
<1>1. CASE \E q \in Procs : Plain(q)
  BY <1>1, PlainKeepsSync
<1>2. CASE \E q \in Procs : Sync(q)
  BY <1>2, SyncKeepsSync
<1>3. CASE \/ \E b \in Backends : xact_leave_shared(b)
           \/ \E a \in Admins : StartPublish(a) \/ WorkerFailed(a)
  BY <1>3, DecideKeepsSync
<1>4. CASE UNCHANGED vars
  <2>1. SyncOpen' /\ RingOpen'
    BY <1>4 DEF SyncInv, SyncOpen, RingOpen, OpenSince, Open, vars, chan, stream,
                txVars, sync
  <2> QED
    BY <1>4, <2>1 DEF SyncInv, SyncPc, SyncWal, PreInBase, vars, stream, sync
<1> QED
  BY <1>1, <1>2, <1>3, <1>4, PlainSteps, PlainStarts
     DEF Next, Client, Hook, Start, Procs

----------------------------------------------------------------------------
(* The theorems.                                                           *)

\* The server starts in a state of the invariant.
LEMMA InitIInv == Init => IInv
<1> SUFFICES ASSUME Init PROVE IInv
  OBVIOUS
<1> USE CaptureSyncAssumption DEF Init
<1>1. TypeShared
  BY DEF TypeShared
<1>2. TypeStream
  BY DEF TypeStream
<1>3. TypeTx /\ TypeIdent
  BY DEF TypeTx, TypeIdent, TxRecord, NoTx
<1>4. TypeBuf
  BY DEF TypeBuf
<1>5. TypeLife
  BY DEF TypeLife
<1>6. TypeSync
  BY DEF TypeSync
<1>7. pc \in [Procs -> Locations]
  BY DEF Locations
<1>8. Open = {} /\ Pre = {}
  BY DEF Open, Pre
<1>9. CountInv
  BY <1>8, FS_EmptySet DEF CountInv, OpenExact, XactPc, Closed, LockInv, TagInv,
                           PendingInv, Procs
<1>10. SyncInv
  BY DEF SyncInv, SyncOpen, SyncPc, SyncWal, RingOpen, PreInBase, Procs
<1> QED
  BY <1>1, <1>2, <1>3, <1>4, <1>5, <1>6, <1>7, <1>9, <1>10 DEF IInv, TypeOK

\* IInv is an inductive invariant of the protocol: types, counters, sync points.
THEOREM Invariance == Spec => []IInv
<1>1. IInv /\ [Next]_vars => IInv'
  BY TypeStep, CountStep, SyncStep DEF IInv, CountInv
<1> QED
  BY InitIInv, <1>1, PTL DEF Spec

\* The types hold, and with them the counters of CaptureState never underflow.
THEOREM TypeCorrect == Spec => []TypeOK
<1>1. IInv => TypeOK
  BY DEF IInv
<1> QED
  BY Invariance, <1>1, PTL

\* open_xacts and pending_xacts count exactly the transactions they stand for.
THEOREM CountersExact == Spec => []PendingExact
<1>1. IInv => PendingExact
  BY DEF IInv, CountInv, OpenExact, PendingInv, PendingExact
<1> QED
  BY Invariance, <1>1, PTL

\* The sync point decided for a capture covers every transaction that was open
\* when the capture was published.
THEOREM SyncPointCoversPre == Spec => []PreInBase
<1>1. IInv => PreInBase
  BY DEF IInv, SyncInv
<1> QED
  BY Invariance, <1>1, PTL

----------------------------------------------------------------------------
(* The sync point is decided once.                                         *)

\* Somebody has to sync for capture g, or has done so.
Decided(g) ==
  \/ \E p \in Procs : last[p] /\ syncGen[p] = g
  \/ \E j \in DOMAIN ring : IsLsn(ring[j]) /\ ring[j].gen = g

\* One process has to sync for a capture; once it has pushed the position it has
\* only wal_ready left to set; and nobody is left to decide it again.
OneOwner == \A p, q \in Procs : last[p] /\ last[q] /\ syncGen[p] = syncGen[q] => p = q
OneDone ==
  \A j \in DOMAIN ring, p \in Procs :
    IsLsn(ring[j]) /\ last[p] /\ syncGen[p] = ring[j].gen => pc[p] = "setready"
NonePending == lock = NoProc /\ Decided(generation) => pending_xacts = 0

OnceInv == OneOwner /\ OneDone /\ NonePending /\ OneLsnPerCapture

\* The steps that decide nothing: they change neither who has to sync nor what is
\* pending, unless they hold the lock, and they do not move a syncing process.
Unsynced(p) ==
  /\ Plain(p)
  /\ generation' = generation
  /\ lock' # NoProc \/ (lock' = lock /\ pending_xacts' = pending_xacts)
  /\ pc[p] # "setready"

\* The hooks outside of capture_sync_lsn are such steps.
LEMMA UnsyncedHooks ==
  ASSUME TypeOK, CountInv, NEW b \in Backends,
         \/ XactEnter(b) \/ NextMessage(b) \/ GateSkip(b) \/ GatePass(b)
         \/ AdoptCapture(b) \/ SameCapture(b) \/ acquire_client_id(b)
         \/ GateLive(b) \/ GoLive(b) \/ FlushTxBuf(b) \/ FlushToFinish(b)
         \/ Emit(b) \/ Commit(b) \/ Abort(b) \/ Exit(b)
         \/ FinishCaptured(b) \/ FinishOther(b) \/ FinishGoesLive(b)
         \/ FinishDrops(b) \/ pgr_exit(b)
  PROVE  Unsynced(b)
<1>1. Plain(b)
  BY PlainSteps
<1> USE <1>1 DEF Unsynced, chan, xacts
<1>2. CASE XactEnter(b) \/ NextMessage(b) \/ GateSkip(b) \/ GatePass(b)
           \/ AdoptCapture(b) \/ SameCapture(b) \/ acquire_client_id(b)
  BY <1>2 DEF XactEnter, NextMessage, CanReceive, GateSkip, GatePass, AdoptCapture,
              SameCapture, acquire_client_id
<1>3. CASE GateLive(b) \/ GoLive(b) \/ FlushTxBuf(b) \/ FlushToFinish(b)
           \/ Emit(b) \/ Commit(b) \/ Abort(b) \/ Exit(b)
  BY <1>3 DEF GateLive, GoLive, FlushTxBuf, FlushToFinish, EndTx, Emit, Commit,
              Abort, CanEndTx, Exit
<1>4. CASE FinishCaptured(b) \/ FinishOther(b) \/ FinishGoesLive(b)
           \/ FinishDrops(b) \/ pgr_exit(b)
  BY <1>4 DEF FinishCaptured, FinishOther, FinishGoesLive, FinishDrops, EndTx,
              pgr_exit
<1> QED
  BY <1>2, <1>3, <1>4

\* So are the steps of pgr.cstart that hold the lock or follow it, and pgr.cstop.
LEMMA UnsyncedStarts ==
  ASSUME TypeOK, CountInv, NEW a \in Admins,
         StartLock(a) \/ StartReset(a) \/ WorkerReady(a) \/ Stop(a)
  PROVE  Unsynced(a)
<1>1. Plain(a)
  BY PlainStarts
<1>2. StartReset(a) => lock # NoProc
  BY CaptureSyncAssumption DEF StartReset, CountInv, LockInv
<1> QED
  BY <1>1, <1>2, CaptureSyncAssumption
     DEF Unsynced, StartLock, StartReset, WorkerReady, Stop, chan, xacts

\* They keep the decision unique.
LEMMA UnsyncedKeepsOnce ==
  ASSUME TypeOK, TypeOK', OnceInv, NEW q \in Procs, Unsynced(q)
  PROVE  OnceInv'
<1>1. OneOwner /\ OneDone /\ NonePending /\ OneLsnPerCapture
  BY DEF OnceInv
<1>2. /\ last' = last /\ syncGen' = syncGen
      /\ \A p \in Procs : pc[p] = "setready" => pc'[p] = pc[p]
  BY DEF Unsynced, Plain, TypeOK
<1>3. \A j \in DOMAIN ring' : IsLsn(ring'[j]) => j \in DOMAIN ring /\ ring'[j] = ring[j]
  BY DEF Unsynced, Plain, TypeOK, TypeStream
<1>4. OneOwner' /\ OneDone' /\ OneLsnPerCapture'
  BY <1>1, <1>2, <1>3 DEF OneOwner, OneDone, OneLsnPerCapture
<1>5. Decided(generation)' => Decided(generation)
  BY <1>2, <1>3 DEF Decided, Unsynced
<1>6. NonePending'
  BY <1>1, <1>5 DEF NonePending, Unsynced
<1> QED
  BY <1>4, <1>6 DEF OnceInv

\* Whoever pushes the position is the one who has to sync, and has not pushed it.
LEMMA SyncKeepsOnce ==
  ASSUME TypeOK, TypeOK', SyncInv, OnceInv, NEW q \in Procs, Sync(q)
  PROVE  OnceInv'
<1>1. OneOwner /\ OneDone /\ NonePending /\ OneLsnPerCapture
  BY DEF OnceInv
<1>2. /\ ring \in Seq(Messages) /\ pc \in [Procs -> Locations]
      /\ last \in [Procs -> BOOLEAN]
  BY DEF TypeOK, TypeStream, TypeSync
<1>3. /\ syncGen' = syncGen /\ generation' = generation
      /\ lock' = lock /\ pending_xacts' = pending_xacts
      /\ \A p \in Procs : last'[p] => last[p]
  BY <1>2 DEF Sync, ReadLsn, PushLsn, SetReady, sync, chan, xacts
<1>4. OneOwner'
  BY <1>1, <1>3 DEF OneOwner
<1>5. CASE ReadLsn(q)
  <2>1. /\ ring' = ring /\ last' = last
        /\ \A p \in Procs : pc[p] = "setready" => pc'[p] = pc[p]
    BY <1>2, <1>5 DEF ReadLsn, Goto, stream
  <2> QED
    BY <1>1, <1>3, <1>4, <2>1
       DEF OnceInv, OneDone, NonePending, OneLsnPerCapture, Decided
<1>6. CASE PushLsn(q)
  <2>1. /\ last' = last /\ pc[q] = "pushlsn" /\ pc' = [pc EXCEPT ![q] = "setready"]
        /\ ring' = Append(ring, LsnMessage(q)) /\ LsnMessage(q).gen = syncGen[q]
    BY <1>6 DEF PushLsn, Push, LsnMessage, Goto, sync
  <2>2. last[q]
    BY <2>1 DEF SyncInv, SyncPc
  <2>3. /\ DOMAIN ring' = DOMAIN ring \cup {Len(ring) + 1} /\ Len(ring) + 1 \notin DOMAIN ring
        /\ \A j \in DOMAIN ring : ring'[j] = ring[j]
        /\ ring'[Len(ring) + 1] = LsnMessage(q)
    BY <1>2, <2>1
  <2>4. \A j \in DOMAIN ring : IsLsn(ring[j]) => ring[j].gen # syncGen[q]
    BY <1>1, <2>1, <2>2 DEF OneDone
  <2>5. OneLsnPerCapture'
    BY <1>1, <2>1, <2>3, <2>4 DEF OneLsnPerCapture
  <2>6. OneDone'
    <3> SUFFICES ASSUME NEW j \in DOMAIN ring', NEW p \in Procs, IsLsn(ring'[j]),
                        last'[p], syncGen'[p] = ring'[j].gen
                 PROVE  pc'[p] = "setready"
      BY DEF OneDone
    <3>1. CASE p = q
      BY <1>2, <2>1, <3>1
    <3>2. CASE p # q /\ j \in DOMAIN ring
      BY <1>1, <1>2, <1>3, <2>1, <2>3, <3>2 DEF OneDone
    <3>3. CASE p # q /\ j = Len(ring) + 1
      BY <1>1, <1>3, <2>1, <2>2, <2>3, <3>3 DEF OneOwner
    <3> QED
      BY <2>3, <3>1, <3>2, <3>3
  <2>7. Decided(generation)' => Decided(generation)
    BY <1>3, <2>1, <2>2, <2>3 DEF Decided
  <2> QED
    BY <1>1, <1>3, <1>4, <2>5, <2>6, <2>7 DEF OnceInv, NonePending
<1>7. CASE SetReady(q)
  <2>1. /\ ring' = ring
        /\ last' = [last EXCEPT ![q] = FALSE]
        /\ \A p \in Procs \ {q} : pc'[p] = pc[p]
    BY <1>2, <1>7 DEF SetReady, Goto, stream
  <2>2. OneDone'
    BY <1>1, <1>2, <1>3, <2>1 DEF OneDone
  <2> QED
    BY <1>1, <1>3, <1>4, <2>1, <2>2
       DEF OnceInv, NonePending, OneLsnPerCapture, Decided
<1> QED
  BY <1>5, <1>6, <1>7 DEF Sync

\* The last pre transaction decides only if nobody has: something was pending.
LEMMA LeaveKeepsOnce ==
  ASSUME TypeOK, TypeOK', OnceInv, NEW b \in Backends, xact_leave_shared(b)
  PROVE  OnceInv'
<1>1. OneOwner /\ OneDone /\ NonePending /\ OneLsnPerCapture
  BY DEF OnceInv
<1>2. /\ pc \in [Procs -> Locations] /\ last \in [Procs -> BOOLEAN]
      /\ syncGen \in [Procs -> Nat] /\ b \in Procs /\ pending_xacts \in Nat
  BY DEF TypeOK, TypeSync, TypeShared, Procs
<1>3. /\ ring' = ring /\ generation' = generation /\ lock = NoProc /\ lock' = lock
      /\ pc[b] = "leave" /\ \A p \in Procs \ {b} : pc'[p] = pc[p]
  BY <1>2 DEF xact_leave_shared, Goto, stream, chan
<1>4. OneLsnPerCapture'
  BY <1>1, <1>3 DEF OneLsnPerCapture
<1>5. CASE ~CountsDown(b)
  <2>1. last' = last /\ syncGen' = syncGen /\ pending_xacts' = pending_xacts
    BY <1>5 DEF xact_leave_shared
  <2>2. OneOwner' /\ NonePending'
    BY <1>1, <1>3, <2>1 DEF OneOwner, NonePending, Decided
  <2>3. OneDone'
    BY <1>1, <1>3, <2>1 DEF OneDone
  <2> QED
    BY <1>4, <2>2, <2>3 DEF OnceInv
<1>6. CASE CountsDown(b)
  <2>1. /\ pending_xacts > 0 /\ pending_xacts' = pending_xacts - 1
        /\ last' = [last EXCEPT ![b] = LastPre]
        /\ syncGen' = [syncGen EXCEPT ![b] = generation]
    BY <1>6 DEF xact_leave_shared, CountsDown
  <2>2. /\ \A p \in Procs : last[p] => syncGen[p] # generation
        /\ \A j \in DOMAIN ring : IsLsn(ring[j]) => ring[j].gen # generation
    BY <1>1, <1>3, <2>1 DEF NonePending, Decided
  <2>3. OneOwner'
    BY <1>1, <1>2, <2>1, <2>2 DEF OneOwner
  <2>4. OneDone'
    BY <1>1, <1>2, <1>3, <2>1, <2>2 DEF OneDone
  <2>5. Decided(generation)' => LastPre
    BY <1>2, <1>3, <2>1, <2>2 DEF Decided
  <2>6. NonePending'
    BY <1>2, <2>1, <2>5 DEF NonePending, LastPre
  <2> QED
    BY <1>4, <2>3, <2>4, <2>6 DEF OnceInv
<1> QED
  BY <1>5, <1>6

\* pgr.cstart decides for a generation nobody has seen, and a failing worker start
\* takes the decision back.
LEMMA StartKeepsOnce ==
  ASSUME TypeOK, TypeOK', SyncInv, OnceInv, NEW a \in Admins,
         StartPublish(a) \/ WorkerFailed(a)
  PROVE  OnceInv'
<1>1. OneOwner /\ OneDone /\ NonePending /\ OneLsnPerCapture
  BY DEF OnceInv
<1>2. /\ pc \in [Procs -> Locations] /\ last \in [Procs -> BOOLEAN]
      /\ syncGen \in [Procs -> Nat] /\ a \in Procs /\ generation \in Nat
  BY DEF TypeOK, TypeSync, TypeShared, Procs
<1>3. /\ ring' = ring /\ pending_xacts' = pending_xacts
      /\ pc[a] \in {"publish", "ensure"} /\ \A p \in Procs \ {a} : pc'[p] = pc[p]
  BY <1>2 DEF StartPublish, WorkerFailed, Goto, stream, xacts
<1>4. OneLsnPerCapture'
  BY <1>1, <1>3 DEF OneLsnPerCapture
<1>5. CASE StartPublish(a)
  <2>1. /\ generation' = generation + 1
        /\ last' = [last EXCEPT ![a] = NothingPending]
        /\ syncGen' = [syncGen EXCEPT ![a] = generation + 1]
    BY <1>5 DEF StartPublish
  <2>2. /\ \A p \in Procs : last[p] => syncGen[p] # generation + 1
        /\ \A j \in DOMAIN ring : IsLsn(ring[j]) => ring[j].gen # generation + 1
    <3>1. /\ \A p \in Procs : last[p] => syncGen[p] <= generation
          /\ \A j \in DOMAIN ring : IsLsn(ring[j]) => ring[j].gen <= generation
      BY DEF SyncInv, SyncOpen, RingOpen, OpenSince
    <3> QED
      BY <1>2, <3>1
  <2>3. OneOwner'
    BY <1>1, <1>2, <2>1, <2>2 DEF OneOwner
  <2>4. OneDone'
    BY <1>1, <1>2, <1>3, <2>1, <2>2 DEF OneDone
  <2>5. Decided(generation)' => NothingPending
    BY <1>2, <1>3, <2>1, <2>2 DEF Decided
  <2>6. NonePending'
    BY <1>3, <2>5 DEF NonePending, NothingPending
  <2> QED
    BY <1>4, <2>3, <2>4, <2>6 DEF OnceInv
<1>6. CASE WorkerFailed(a)
  <2>1. /\ last' = [last EXCEPT ![a] = FALSE] /\ syncGen' = syncGen
        /\ generation' = generation /\ lock' = lock
    BY <1>6 DEF WorkerFailed, xacts
  <2>2. OneOwner' /\ NonePending'
    BY <1>1, <1>2, <1>3, <2>1 DEF OneOwner, NonePending, Decided
  <2>3. OneDone'
    BY <1>1, <1>2, <1>3, <2>1 DEF OneDone
  <2> QED
    BY <1>4, <2>2, <2>3 DEF OnceInv
<1> QED
  BY <1>5, <1>6

\* Every step keeps the decision unique.
LEMMA OnceStep == IInv /\ IInv' /\ OnceInv /\ [Next]_vars => OnceInv'
<1> SUFFICES ASSUME IInv, IInv', OnceInv, [Next]_vars
             PROVE  OnceInv'
  OBVIOUS
<1> USE DEF IInv
<1>1. CASE \E q \in Procs : Unsynced(q)
  BY <1>1, UnsyncedKeepsOnce
<1>2. CASE \E q \in Procs : Sync(q)
  BY <1>2, SyncKeepsOnce
<1>3. CASE \/ \E b \in Backends : xact_leave_shared(b)
           \/ \E a \in Admins : StartPublish(a) \/ WorkerFailed(a)
  BY <1>3, LeaveKeepsOnce, StartKeepsOnce
<1>4. CASE UNCHANGED vars
  BY <1>4 DEF OnceInv, OneOwner, OneDone, NonePending, OneLsnPerCapture, Decided,
              vars, chan, xacts, stream, sync
<1> QED
  BY <1>1, <1>2, <1>3, <1>4, UnsyncedHooks, UnsyncedStarts
     DEF Next, Client, Hook, Start, Procs

\* The last pre transaction and pgr.cstart never both run capture_sync_lsn for one
\* capture: it gets at most one sync point.
THEOREM OneSyncPoint == Spec => []OneLsnPerCapture
<1>1. Init => OnceInv
  BY DEF Init, OnceInv, OneOwner, OneDone, NonePending, OneLsnPerCapture, Decided,
         Procs
<1>2. OnceInv => OneLsnPerCapture
  BY DEF OnceInv
<1> QED
  BY Invariance, <1>1, <1>2, OnceStep, PTL DEF Spec

----------------------------------------------------------------------------
(* Client ids.                                                             *)

\* The backends that have an id of the current capture.
Known == {b \in Backends : MyCaptureGen[b] = generation /\ pc[b] # "client"}

\* The Connect messages of the current capture.
Connects == {j \in DOMAIN ring : ring[j].type = "Connect" /\ ring[j].gen = generation}

\* No backend and no message is ahead of the generation.
NotAhead ==
  /\ \A b \in Backends : MyCaptureGen[b] <= generation
  /\ \A j \in DOMAIN ring : ring[j].type = "Connect" => ring[j].gen <= generation

\* With the lock free, what was drawn is below the counter, and a backend whose
\* Connect is in the stream is live.
Drawn ==
  lock = NoProc /\ generation > 0 =>
    /\ \A b \in Known : MyClientId[b] < next_client_id
    /\ \A j \in Connects : ring[j].client < next_client_id
    /\ \A b \in Known, j \in Connects : ring[j].client = MyClientId[b] => CaptureLive[b]

\* Who is about to write its Connect is not live yet.
ConnectsOnce == \A b \in Backends : pc[b] = "connect" => ~CaptureLive[b]

IdsInv == NotAhead /\ Drawn /\ ConnectsOnce /\ UniqueClientIds

\* The numbers in a message.
LEMMA MessageNats ==
  ASSUME TypeOK, NEW j \in DOMAIN ring
  PROVE  /\ ring[j].gen \in Nat /\ ring[j].client \in Nat
         /\ ring[j].conn \in Nat /\ ring[j].val \in Nat
<1>1. ring[j] \in Messages
  BY DEF TypeOK, TypeStream
<1> QED
  BY <1>1 DEF Messages

\* Most steps draw no id, push no Connect and start no capture: whoever has an id
\* after them had it before and is as live as before.
Calm ==
  /\ generation' = generation
  /\ lock' # NoProc \/ (lock = NoProc /\ next_client_id' = next_client_id)
  /\ \A c \in Backends : MyCaptureGen'[c] \in {0, generation, MyCaptureGen[c]}
  /\ generation > 0 => \A c \in Known' :
       c \in Known /\ MyClientId'[c] = MyClientId[c] /\ CaptureLive'[c] = CaptureLive[c]
  /\ ConnectsOnce'
  /\ ring' = ring \/ \E m \in Messages : m.type # "Connect" /\ ring' = Append(ring, m)

\* Those of them that change nothing of the backends but control.
Moves(p) ==
  /\ generation' = generation
  /\ lock' # NoProc \/ (lock = NoProc /\ next_client_id' = next_client_id)
  /\ UNCHANGED <<MyCaptureGen, MyClientId, CaptureLive>>
  /\ pc' = [pc EXCEPT ![p] = pc'[p]]
  /\ p \in Backends => pc[p] # "client" /\ (pc'[p] = "connect" => ~CaptureLive[p])
  /\ ring' = ring \/ \E m \in Messages : m.type # "Connect" /\ ring' = Append(ring, m)

LEMMA MovesCalm ==
  ASSUME TypeOK, ConnectsOnce, NEW p \in Procs, Moves(p)
  PROVE  Calm
<1>1. /\ MyCaptureGen' = MyCaptureGen /\ MyClientId' = MyClientId
      /\ CaptureLive' = CaptureLive /\ generation' = generation
      /\ pc' = [pc EXCEPT ![p] = pc'[p]] /\ pc \in [Procs -> Locations]
  BY DEF Moves, TypeOK
<1>2. \A c \in Known' : c \in Known
  BY <1>1 DEF Known, Moves, Procs
<1>3. ConnectsOnce'
  BY <1>1 DEF ConnectsOnce, Moves, Procs
<1> QED
  BY <1>1, <1>2, <1>3 DEF Calm, Moves

\* The hooks that neither adopt a capture nor draw an id nor go live.
LEMMA HooksMove ==
  ASSUME TypeOK, NEW b \in Backends,
         \/ XactEnter(b) \/ NextMessage(b) \/ GateSkip(b) \/ GatePass(b)
         \/ SameCapture(b) \/ GateLive(b) \/ FlushTxBuf(b) \/ FlushToFinish(b)
         \/ Emit(b) \/ Commit(b) \/ Abort(b) \/ Exit(b) \/ xact_leave_shared(b)
         \/ FinishCaptured(b) \/ FinishOther(b) \/ FinishGoesLive(b)
         \/ FinishDrops(b)
  PROVE  Moves(b)
<1> USE DEF Moves, Goto, chan, xacts, stream, ident, buf, Procs
<1>1. pc \in [Procs -> Locations]
  BY DEF TypeOK
<1>2. CASE XactEnter(b) \/ NextMessage(b) \/ GateSkip(b) \/ GatePass(b)
           \/ SameCapture(b)
  BY <1>1, <1>2 DEF XactEnter, NextMessage, CanReceive, GateSkip, GatePass,
                    SameCapture
<1>3. CASE GateLive(b) \/ Commit(b) \/ Abort(b) \/ Exit(b) \/ xact_leave_shared(b)
  BY <1>1, <1>3 DEF GateLive, GoesLive, Commit, Abort, CanEndTx, Exit,
                    xact_leave_shared
<1>4. CASE FlushToFinish(b) \/ FinishCaptured(b) \/ FinishOther(b)
           \/ FinishGoesLive(b) \/ FinishDrops(b)
  BY <1>1, <1>4 DEF FlushToFinish, FinishCaptured, FinishOther, FinishGoesLive,
                    FinishDrops, GoesLive, EndTx, AfterTx
<1>5. /\ sess[b] + 1 \in Nat
      /\ TxBuf[b] # <<>> => Head(TxBuf[b]) \in Nat
  BY DEF TypeOK, TypeBuf, TypeLife
<1>6. \A val \in Nat : Message("Stmt", b, val) \in Messages
                       /\ Message("Stmt", b, val).type # "Connect"
  BY MessageType DEF Message
<1>7. CASE FlushTxBuf(b)
  <2>1. \E m \in Messages : m.type # "Connect" /\ ring' = Append(ring, m)
    BY <1>5, <1>6, <1>7 DEF FlushTxBuf, Push
  <2> QED
    BY <1>1, <1>7, <2>1 DEF FlushTxBuf
<1>8. CASE Emit(b)
  <2>1. ring' = ring \/ \E m \in Messages : m.type # "Connect" /\ ring' = Append(ring, m)
    BY <1>5, <1>6, <1>8 DEF Emit, Push
  <2> QED
    BY <1>1, <1>8, <2>1 DEF Emit
<1> QED
  BY <1>2, <1>3, <1>4, <1>7, <1>8

\* The sync, and what pgr.cstart and pgr.cstop do but for the publication.
LEMMA OthersMove ==
  ASSUME TypeOK, CountInv, NEW p \in Procs,
         \/ Sync(p)
         \/ p \in Admins /\ \/ StartLock(p) \/ StartReset(p) \/ WorkerReady(p)
                            \/ WorkerFailed(p) \/ Stop(p)
  PROVE  Moves(p)
<1> USE CaptureSyncAssumption DEF Moves, Goto, chan, xacts, stream, ident, buf, Procs
<1>1. pc \in [Procs -> Locations] /\ lsn \in [Procs -> Nat] /\ syncGen \in [Procs -> Nat]
  BY DEF TypeOK, TypeSync
<1>2. CASE p \in Admins /\ (StartLock(p) \/ WorkerReady(p) \/ WorkerFailed(p) \/ Stop(p))
  BY <1>1, <1>2 DEF StartLock, WorkerReady, WorkerFailed, Stop
<1>3. CASE p \in Admins /\ StartReset(p)
  <2>1. lock = p /\ lock' = p /\ p # NoProc
    BY <1>3 DEF StartReset, CountInv, LockInv
  <2> QED
    BY <1>1, <1>3, <2>1 DEF StartReset
<1>4. CASE ReadLsn(p) \/ SetReady(p)
  BY <1>1, <1>4 DEF ReadLsn, SetReady, AfterSync
<1>5. CASE PushLsn(p)
  <2>1. LsnMessage(p) \in Messages /\ LsnMessage(p).type # "Connect"
    BY <1>1 DEF LsnMessage, Messages
  <2> QED
    BY <1>1, <1>5, <2>1 DEF PushLsn, Push
<1> QED
  BY <1>2, <1>3, <1>4, <1>5 DEF Sync

\* A backend that adopts a capture or exits has no id any more.
LEMMA ForgettingCalm ==
  ASSUME TypeOK, ConnectsOnce, NEW b \in Backends, AdoptCapture(b) \/ pgr_exit(b)
  PROVE  Calm
<1>1. /\ pc \in [Procs -> Locations] /\ b \in Procs /\ Backends \subseteq Procs
      /\ MyCaptureGen \in [Backends -> Nat] /\ MyClientId \in [Backends -> Nat]
      /\ CaptureLive \in [Backends -> BOOLEAN] /\ generation \in Nat
  BY DEF TypeOK, TypeIdent, TypeBuf, TypeShared, Procs
<1>2. /\ generation' = generation /\ lock' = lock /\ next_client_id' = next_client_id
      /\ \A c \in Backends \ {b} : /\ MyCaptureGen'[c] = MyCaptureGen[c]
                                   /\ MyClientId'[c] = MyClientId[c]
                                   /\ CaptureLive'[c] = CaptureLive[c]
                                   /\ pc'[c] = pc[c]
  BY <1>1 DEF AdoptCapture, pgr_exit, Goto, chan, xacts
<1>3. /\ CaptureLive'[b] = FALSE
      /\ \/ MyCaptureGen'[b] = generation /\ pc'[b] = "client"
         \/ MyCaptureGen'[b] = 0
  BY <1>1 DEF AdoptCapture, pgr_exit, Goto
<1>4. ring' = ring \/ \E m \in Messages : m.type # "Connect" /\ ring' = Append(ring, m)
  <2>1. CASE AdoptCapture(b)
    BY <2>1 DEF AdoptCapture, stream
  <2>2. CASE pgr_exit(b)
    <3>1. sess[b] + 1 \in Nat
      BY DEF TypeOK, TypeLife
    <3>2. /\ Message("Disconnect", b, sess[b] + 1) \in Messages
          /\ Message("Disconnect", b, sess[b] + 1).type # "Connect"
      BY <3>1, MessageType DEF Message
    <3> QED
      BY <2>2, <3>2 DEF pgr_exit, Push
  <2> QED
    BY <2>1, <2>2
<1>5. generation > 0 => \A c \in Known' : c \in Known \ {b}
  BY <1>1, <1>2, <1>3 DEF Known
<1>6. ConnectsOnce'
  BY <1>2, <1>3 DEF ConnectsOnce
<1>7. \A c \in Backends : MyCaptureGen'[c] \in {0, generation, MyCaptureGen[c]}
  BY <1>2, <1>3
<1> QED
  BY <1>2, <1>4, <1>5, <1>6, <1>7 DEF Calm, Known

\* Such steps keep the ids apart.
LEMMA CalmKeepsIds ==
  ASSUME TypeOK, IdsInv, Calm
  PROVE  IdsInv'
<1>1. NotAhead /\ Drawn /\ UniqueClientIds
  BY DEF IdsInv
<1>2. /\ MyCaptureGen \in [Backends -> Nat] /\ generation \in Nat
      /\ ring \in Seq(Messages)
  BY DEF TypeOK, TypeIdent, TypeShared, TypeStream
<1>3. \A j \in DOMAIN ring' :
        ring'[j].type = "Connect" => j \in DOMAIN ring /\ ring'[j] = ring[j]
  BY <1>2 DEF Calm
<1>4. NotAhead'
  BY <1>1, <1>2, <1>3 DEF NotAhead, Calm
<1>5. SUFFICES ASSUME lock' = NoProc, generation' > 0 PROVE Drawn' /\ UniqueClientIds'
  BY <1>4 DEF IdsInv, Calm, Drawn, UniqueClientIds
<1>6. /\ lock = NoProc /\ generation > 0 /\ generation' = generation
      /\ next_client_id' = next_client_id
      /\ \A c \in Known' : c \in Known /\ MyClientId'[c] = MyClientId[c]
                           /\ CaptureLive'[c] = CaptureLive[c]
  BY <1>5 DEF Calm
<1>7. \A j \in Connects' : j \in Connects /\ ring'[j] = ring[j]
  BY <1>3, <1>6 DEF Connects
<1>8. Drawn'
  BY <1>1, <1>6, <1>7 DEF Drawn
<1>9. UniqueClientIds'
  <2>1. \A b, c \in Known' : MyClientId'[b] = MyClientId'[c] => b = c
    BY <1>1, <1>6 DEF UniqueClientIds, Known
  <2>2. \A i, j \in Connects' : ring'[i].client = ring'[j].client => i = j
    BY <1>1, <1>6, <1>7 DEF UniqueClientIds, Connects
  <2> QED
    BY <2>1, <2>2 DEF UniqueClientIds, Known, Connects
<1> QED
  BY <1>8, <1>9

\* The id that is drawn is above all others.
LEMMA DrawKeepsIds ==
  ASSUME TypeOK, IdsInv, NEW b \in Backends, acquire_client_id(b)
  PROVE  IdsInv'
<1>1. NotAhead /\ Drawn /\ UniqueClientIds /\ ConnectsOnce
  BY DEF IdsInv
<1>2. /\ MyClientId \in [Backends -> Nat] /\ next_client_id \in Nat
      /\ ring \in Seq(Messages) /\ pc \in [Procs -> Locations]
      /\ Backends \subseteq Procs
  BY DEF TypeOK, TypeIdent, TypeShared, TypeStream, Procs
<1>3. /\ generation' = generation /\ lock' = lock /\ ring' = ring
      /\ next_client_id' = next_client_id + 1
      /\ MyCaptureGen' = MyCaptureGen /\ CaptureLive' = CaptureLive
      /\ MyClientId' = [MyClientId EXCEPT ![b] = next_client_id]
      /\ pc' = [pc EXCEPT ![b] = "live"]
  BY DEF acquire_client_id, Goto, xacts, stream
<1>4. NotAhead' /\ ConnectsOnce'
  BY <1>1, <1>2, <1>3 DEF NotAhead, ConnectsOnce
<1>5. SUFFICES ASSUME lock = NoProc, generation > 0 PROVE Drawn' /\ UniqueClientIds'
  BY <1>3, <1>4 DEF IdsInv, Drawn, UniqueClientIds
<1>6. Connects' = Connects /\ Known' \subseteq Known \cup {b}
  BY <1>2, <1>3 DEF Connects, Known
<1>7. \A j \in Connects : ring[j].client \in Nat /\ ring[j].client < next_client_id
  BY <1>1, <1>5, MessageNats DEF Drawn, Connects
<1>8. \A c \in Known' \ {b} : /\ MyClientId'[c] = MyClientId[c] /\ MyClientId[c] \in Nat
                              /\ MyClientId[c] < next_client_id
  BY <1>1, <1>2, <1>3, <1>5, <1>6 DEF Drawn, Known
<1>9. MyClientId'[b] = next_client_id
  BY <1>2, <1>3
<1>10. Drawn'
  <2>1. \A c \in Known' : MyClientId'[c] < next_client_id'
    BY <1>2, <1>3, <1>8, <1>9
  <2>2. \A j \in Connects' : ring'[j].client < next_client_id'
    BY <1>2, <1>3, <1>6, <1>7
  <2>3. \A c \in Known', j \in Connects' :
          ring'[j].client = MyClientId'[c] => CaptureLive'[c]
    BY <1>1, <1>2, <1>3, <1>5, <1>6, <1>7, <1>8, <1>9 DEF Drawn
  <2> QED
    BY <2>1, <2>2, <2>3 DEF Drawn
<1>11. UniqueClientIds'
  <2>1. \A c, d \in Known' : MyClientId'[c] = MyClientId'[d] => c = d
    <3>1. \A c, d \in Known : MyClientId[c] = MyClientId[d] => c = d
      BY <1>1, <1>5 DEF UniqueClientIds, Known
    <3> QED
      BY <1>2, <1>6, <1>8, <1>9, <3>1
  <2>2. \A i, j \in Connects' : ring'[i].client = ring'[j].client => i = j
    BY <1>1, <1>3, <1>5, <1>6 DEF UniqueClientIds, Connects
  <2> QED
    BY <2>1, <2>2 DEF UniqueClientIds, Known, Connects
<1> QED
  BY <1>10, <1>11

\* A backend sends its Connect when it goes live, once for each id.
LEMMA GoLiveKeepsIds ==
  ASSUME TypeOK, IdsInv, NEW b \in Backends, GoLive(b)
  PROVE  IdsInv'
<1>1. NotAhead /\ Drawn /\ UniqueClientIds /\ ConnectsOnce
  BY DEF IdsInv
<1>2. /\ ring \in Seq(Messages) /\ pc \in [Procs -> Locations]
      /\ Backends \subseteq Procs /\ CaptureLive \in [Backends -> BOOLEAN]
      /\ MyClientId \in [Backends -> Nat] /\ next_client_id \in Nat
  BY DEF TypeOK, TypeStream, TypeBuf, TypeIdent, TypeShared, Procs
<1> DEFINE m == Message("Connect", b, SnapStart(b))
<1>3. /\ generation' = generation /\ lock' = lock
      /\ next_client_id' = next_client_id
      /\ MyCaptureGen' = MyCaptureGen /\ MyClientId' = MyClientId
      /\ CaptureLive' = [CaptureLive EXCEPT ![b] = TRUE]
      /\ pc[b] = "connect" /\ pc' = [pc EXCEPT ![b] = "flush"]
      /\ ring' = Append(ring, m)
  BY DEF GoLive, Push, Goto, chan, xacts, ident
<1>4. m.type = "Connect" /\ m.gen = MyCaptureGen[b] /\ m.client = MyClientId[b]
  BY DEF Message
<1> HIDE DEF m
<1>5. /\ DOMAIN ring' = DOMAIN ring \cup {Len(ring) + 1}
      /\ Len(ring) + 1 \notin DOMAIN ring
      /\ \A j \in DOMAIN ring : ring'[j] = ring[j]
      /\ ring'[Len(ring) + 1] = m
  BY <1>2, <1>3
<1>6. NotAhead'
  BY <1>1, <1>3, <1>4, <1>5 DEF NotAhead
<1>7. ConnectsOnce'
  BY <1>1, <1>2, <1>3 DEF ConnectsOnce
<1>8. SUFFICES ASSUME lock = NoProc, generation > 0 PROVE Drawn' /\ UniqueClientIds'
  BY <1>3, <1>6, <1>7 DEF IdsInv, Drawn, UniqueClientIds
<1>9. Known' = Known
  BY <1>2, <1>3 DEF Known
<1>10. \A j \in Connects' : \/ j \in Connects /\ ring'[j] = ring[j]
                            \/ /\ j = Len(ring) + 1 /\ ring'[j].client = MyClientId[b]
                               /\ b \in Known
  BY <1>3, <1>4, <1>5 DEF Connects, Known
<1>11. \A c, d \in Known : MyClientId[c] = MyClientId[d] => c = d
  BY <1>1, <1>8 DEF UniqueClientIds, Known
<1>12. b \in Known => \A j \in Connects : ring[j].client # MyClientId[b]
  BY <1>1, <1>3, <1>8 DEF Drawn, ConnectsOnce
<1>13. Drawn'
  <2>1. \A c \in Known' : MyClientId'[c] < next_client_id'
    BY <1>1, <1>3, <1>8, <1>9 DEF Drawn
  <2>2. \A j \in Connects' : ring'[j].client < next_client_id'
    BY <1>1, <1>3, <1>8, <1>10 DEF Drawn
  <2>3. \A c \in Known', j \in Connects' :
          ring'[j].client = MyClientId'[c] => CaptureLive'[c]
    <3>1. CaptureLive'[b]
      BY <1>2, <1>3
    <3>2. \A c \in Known : CaptureLive[c] => CaptureLive'[c]
      BY <1>2, <1>3 DEF Known
    <3>3. \A c \in Known, j \in Connects : ring[j].client = MyClientId[c] => CaptureLive[c]
      BY <1>1, <1>8 DEF Drawn
    <3> SUFFICES ASSUME NEW c \in Known, NEW j \in Connects',
                        ring'[j].client = MyClientId[c]
                 PROVE  CaptureLive'[c]
      BY <1>3, <1>9
    <3>4. CASE c = b
      BY <3>1, <3>4
    <3>5. CASE c # b
      <4>1. j \in Connects /\ ring'[j] = ring[j]
        BY <1>10, <1>11, <3>5
      <4> QED BY <3>2, <3>3, <4>1
    <3> QED BY <3>4, <3>5
  <2> QED
    BY <2>1, <2>2, <2>3 DEF Drawn
<1>14. UniqueClientIds'
  <2>1. \A i, j \in Connects : ring[i].client = ring[j].client => i = j
    BY <1>1, <1>8 DEF UniqueClientIds, Connects
  <2>2. \A i, j \in Connects' : ring'[i].client = ring'[j].client => i = j
    BY <1>10, <1>12, <2>1
  <2> QED
    BY <1>3, <1>9, <1>11, <2>2 DEF UniqueClientIds, Known, Connects
<1> QED
  BY <1>13, <1>14

\* Nobody has an id of a capture that is just published.
LEMMA PublishKeepsIds ==
  ASSUME TypeOK, IdsInv, NEW a \in Admins, StartPublish(a)
  PROVE  IdsInv'
<1> USE CaptureSyncAssumption
<1>1. NotAhead /\ ConnectsOnce
  BY DEF IdsInv
<1>2. /\ MyCaptureGen \in [Backends -> Nat] /\ generation \in Nat
      /\ ring \in Seq(Messages) /\ pc \in [Procs -> Locations]
  BY DEF TypeOK, TypeIdent, TypeShared, TypeStream
<1>3. /\ generation' = generation + 1 /\ ring' = ring
      /\ MyCaptureGen' = MyCaptureGen /\ CaptureLive' = CaptureLive
      /\ \A b \in Backends : pc'[b] = pc[b]
  BY <1>2 DEF StartPublish, Goto, stream, ident, buf, Procs
<1>4. \A j \in DOMAIN ring : ring[j].gen \in Nat
  BY MessageNats
<1>5. NotAhead' /\ ConnectsOnce'
  BY <1>1, <1>2, <1>3, <1>4 DEF NotAhead, ConnectsOnce
<1>6. Known' = {} /\ Connects' = {}
  BY <1>1, <1>2, <1>3, <1>4 DEF NotAhead, Known, Connects
<1> QED
  BY <1>5, <1>6 DEF IdsInv, Drawn, UniqueClientIds, Known, Connects

\* Every step keeps the ids apart.
LEMMA IdsStep == IInv /\ IdsInv /\ [Next]_vars => IdsInv'
<1> SUFFICES ASSUME IInv, IdsInv, [Next]_vars
             PROVE  IdsInv'
  OBVIOUS
<1>1. TypeOK /\ CountInv /\ ConnectsOnce
  BY DEF IInv, IdsInv
<1>2. CASE \/ \E p \in Procs : Moves(p)
           \/ \E b \in Backends : AdoptCapture(b) \/ pgr_exit(b)
  BY <1>1, <1>2, MovesCalm, ForgettingCalm, CalmKeepsIds
<1>3. CASE \E b \in Backends : acquire_client_id(b) \/ GoLive(b)
  BY <1>1, <1>3, DrawKeepsIds, GoLiveKeepsIds
<1>4. CASE \E a \in Admins : StartPublish(a)
  BY <1>1, <1>4, PublishKeepsIds
<1>5. CASE UNCHANGED vars
  BY <1>5 DEF IdsInv, NotAhead, Drawn, ConnectsOnce, UniqueClientIds, Known, Connects,
              vars, chan, xacts, stream, ident, buf
<1> QED
  BY <1>1, <1>2, <1>3, <1>4, <1>5, HooksMove, OthersMove
     DEF Next, Client, Hook, Start, Procs

\* Two connections never share a client id in the current capture, although the
\* counter is reset while backends still draw from it.
THEOREM ClientIdsUnique == Spec => []UniqueClientIds
<1>1. Init => IdsInv
  BY DEF Init, IdsInv, NotAhead, Drawn, ConnectsOnce, UniqueClientIds, Known, Connects,
         Procs
<1>2. IdsInv => UniqueClientIds
  BY DEF IdsInv
<1> QED
  BY Invariance, <1>1, <1>2, IdsStep, PTL DEF Spec

----------------------------------------------------------------------------
(* What the stream of messages holds of each client while the first capture *)
(* is the only one.                                                         *)

----------------------------------------------------------------------------
(* Lemmas about the steps.                                                 *)

\* What the types say of the variables of the backends.
LEMMA Functions ==
  ASSUME TypeOK
  PROVE  /\ ring \in Seq(Messages) /\ wal \in Seq(CommitRecords)
         /\ generation \in Nat /\ running \in BOOLEAN /\ wal_ready \in BOOLEAN
         /\ TxOpen \in [Backends -> BOOLEAN] /\ TxGen \in [Backends -> Nat]
         /\ tx \in [Backends -> TxRecord]
         /\ TxCaptured \in [Backends -> BOOLEAN] /\ CaptureLive \in [Backends -> BOOLEAN]
         /\ MyCaptureGen \in [Backends -> Nat] /\ MyClientId \in [Backends -> Nat]
         /\ TxBuf \in [Backends -> Seq(Nat)] /\ SkipSnap \in [Backends -> BOOLEAN]
         /\ snap \in [Backends -> Nat] /\ sess \in [Backends -> Nat]
         /\ conn \in [Backends -> Nat] /\ exiting \in [Backends -> BOOLEAN]
         /\ pc \in [Procs -> Locations] /\ Backends \subseteq Procs
BY DEF TypeOK, TypeShared, TypeStream, TypeTx, TypeIdent, TypeBuf, TypeLife, Procs

\* What a push leaves in the ring.
LEMMA RingAppend ==
  ASSUME ring \in Seq(Messages), NEW m, ring' = Append(ring, m)
  PROVE  /\ Len(ring) \in Nat /\ DOMAIN ring = 1 .. Len(ring)
         /\ DOMAIN ring' = 1 .. (Len(ring) + 1)
         /\ DOMAIN ring' = DOMAIN ring \cup {Len(ring) + 1}
         /\ Len(ring) + 1 \notin DOMAIN ring
         /\ \A j \in DOMAIN ring : ring'[j] = ring[j] /\ j < Len(ring) + 1
         /\ ring'[Len(ring) + 1] = m
OBVIOUS

\* The same, with a name for the new position.
LEMMA RingPosition ==
  ASSUME ring \in Seq(Messages), NEW m, ring' = Append(ring, m)
  PROVE  \E n \in Nat :
           /\ DOMAIN ring = 1 .. (n - 1) /\ DOMAIN ring' = DOMAIN ring \cup {n}
           /\ \A j \in DOMAIN ring : ring'[j] = ring[j]
           /\ ring'[n] = m
<1>1. (Len(ring) + 1) - 1 = Len(ring) /\ Len(ring) + 1 \in Nat
  BY RingAppend
<1> QED
  BY <1>1, RingAppend

\* What a step leaves of a backend: all but its place, which stays, or is none of
\* those the invariants below speak of.
Rest == {"idle", "leave", "exit", "readlsn", "pushlsn", "setready"}

Steady(c) ==
  /\ pc'[c] = pc[c] \/ (pc[c] \in Rest /\ pc'[c] \in Rest)
  /\ TxOpen'[c] = TxOpen[c] /\ TxGen'[c] = TxGen[c] /\ tx'[c] = tx[c]
  /\ TxCaptured'[c] = TxCaptured[c] /\ CaptureLive'[c] = CaptureLive[c]
  /\ MyCaptureGen'[c] = MyCaptureGen[c] /\ MyClientId'[c] = MyClientId[c]
  /\ TxBuf'[c] = TxBuf[c] /\ SkipSnap'[c] = SkipSnap[c] /\ snap'[c] = snap[c]
  /\ sess'[c] = sess[c] /\ conn'[c] = conn[c]

\* A hook changes nothing of another backend, and not whether a capture runs.
LEMMA HooksApart ==
  ASSUME TypeOK, NEW b \in Backends, Client(b) \/ Hook(b)
  PROVE  /\ generation' = generation /\ running' = running /\ wal_ready' = wal_ready
         /\ \A c \in Backends \ {b} : Steady(c)
<1> SUFFICES ASSUME NEW c \in Backends, c # b \/ c = b
             PROVE  /\ generation' = generation /\ running' = running
                    /\ wal_ready' = wal_ready
                    /\ c # b => Steady(c)
  OBVIOUS
<1> USE Functions DEF Steady, Goto, chan, stream, txVars, ident, buf, life
<1>1. CASE XactEnter(b)
  BY <1>1 DEF XactEnter
<1>2. CASE NextMessage(b)
  BY <1>2 DEF NextMessage
<1>3. CASE Commit(b)
  BY <1>3 DEF Commit
<1>4. CASE Abort(b)
  BY <1>4 DEF Abort
<1>5. CASE Exit(b)
  BY <1>5 DEF Exit
<1>6. CASE GateSkip(b)
  BY <1>6 DEF GateSkip
<1>7. CASE GatePass(b)
  BY <1>7 DEF GatePass
<1>8. CASE AdoptCapture(b)
  BY <1>8 DEF AdoptCapture
<1>9. CASE SameCapture(b)
  BY <1>9 DEF SameCapture
<1>10. CASE acquire_client_id(b)
  BY <1>10 DEF acquire_client_id
<1>11. CASE GateLive(b)
  BY <1>11 DEF GateLive
<1>12. CASE GoLive(b)
  BY <1>12 DEF GoLive
<1>13. CASE FlushTxBuf(b)
  BY <1>13 DEF FlushTxBuf
<1>14. CASE FlushToFinish(b)
  BY <1>14 DEF FlushToFinish, EndTx
<1>15. CASE Emit(b)
  BY <1>15 DEF Emit
<1>16. CASE xact_leave_shared(b)
  BY <1>16 DEF xact_leave_shared
<1>17. CASE FinishCaptured(b)
  BY <1>17 DEF FinishCaptured
<1>18. CASE FinishOther(b)
  BY <1>18 DEF FinishOther, EndTx
<1>19. CASE FinishGoesLive(b)
  BY <1>19 DEF FinishGoesLive
<1>20. CASE FinishDrops(b)
  BY <1>20 DEF FinishDrops, EndTx
<1>21. CASE pgr_exit(b)
  BY <1>21 DEF pgr_exit
<1> QED
  BY <1>1, <1>2, <1>3, <1>4, <1>5, <1>6, <1>7, <1>8, <1>9, <1>10, <1>11,
     <1>12, <1>13, <1>14, <1>15, <1>16, <1>17, <1>18, <1>19, <1>20, <1>21 DEF Client, Hook

\* The sync and the administrators change nothing of a backend but the place of one
\* that syncs; only a start makes a capture run.
LEMMA OthersApart ==
  ASSUME TypeOK,
         \/ \E p \in Procs : Sync(p)
         \/ \E a \in Admins : \/ StartLock(a) \/ StartReset(a) \/ StartPublish(a)
                              \/ WorkerReady(a) \/ WorkerFailed(a) \/ Stop(a)
         \/ UNCHANGED vars
  PROVE  /\ \A c \in Backends : Steady(c)
         /\ \/ generation' = generation /\ (running' => running)
            \/ \E a \in Admins : StartPublish(a)
<1> USE Functions, CaptureSyncAssumption
<1> USE DEF Steady, Rest, Goto, chan, xacts, stream, txVars, ident, buf, life, sync
<1>1. CASE \E p \in Procs : Sync(p)
  BY <1>1 DEF Sync, ReadLsn, PushLsn, SetReady, AfterSync
<1>2. CASE \E a \in Admins : StartLock(a) \/ StartReset(a)
  BY <1>2 DEF StartLock, StartReset, Procs
<1>3. ASSUME NEW a \in Admins, StartPublish(a), NEW c \in Backends PROVE Steady(c)
  <2>1. c # a /\ pc'[c] = pc[c]
    BY <1>3 DEF StartPublish, Procs
  <2> QED
    BY <1>3, <2>1 DEF StartPublish
<1>4. CASE \E a \in Admins : WorkerReady(a) \/ WorkerFailed(a) \/ Stop(a)
  BY <1>4 DEF WorkerReady, WorkerFailed, Stop, Procs
<1>5. CASE UNCHANGED vars
  BY <1>5 DEF vars
<1> QED
  BY <1>1, <1>2, <1>3, <1>4, <1>5

\* Who pushes what.
LEMMA WhoPushes ==
  ASSUME TypeOK, [Next]_vars
  PROVE  \/ ring' = ring
         \/ \E p \in Procs : PushLsn(p) /\ ring' = Append(ring, LsnMessage(p))
         \/ \E b \in Backends :
              \/ GoLive(b) \/ FlushTxBuf(b)
              \/ /\ Emit(b) /\ CaptureLive[b]
                 /\ ring' = Append(ring, Message("Stmt", b, sess[b] + 1))
              \/ /\ pgr_exit(b) /\ CaptureLive[b] /\ running /\ MyCaptureGen[b] = generation
                 /\ ring' = Append(ring, Message("Disconnect", b, sess[b] + 1))
<1> USE DEF stream, Push
<1>1. CASE \E p \in Procs : Sync(p)
  BY <1>1 DEF Sync, ReadLsn, PushLsn, SetReady
<1>2. CASE \E a \in Admins : StartLock(a) \/ Start(a) \/ Stop(a)
  BY <1>2 DEF StartLock, Start, StartReset, StartPublish, WorkerReady, WorkerFailed, Stop
<1>3. ASSUME NEW b \in Backends, Client(b)
      PROVE  ring' = ring
  BY <1>3 DEF Client, XactEnter, NextMessage, Commit, Abort, Exit
<1>4. ASSUME NEW b \in Backends,
             \/ GateSkip(b) \/ GatePass(b) \/ AdoptCapture(b) \/ SameCapture(b)
             \/ acquire_client_id(b) \/ GateLive(b) \/ FlushToFinish(b)
      PROVE  ring' = ring
  BY <1>4 DEF GateSkip, GatePass, AdoptCapture, SameCapture, acquire_client_id,
              GateLive, FlushToFinish, EndTx
<1>5. ASSUME NEW b \in Backends,
             \/ xact_leave_shared(b) \/ FinishCaptured(b) \/ FinishOther(b)
             \/ FinishGoesLive(b) \/ FinishDrops(b)
      PROVE  ring' = ring
  BY <1>5 DEF xact_leave_shared, FinishCaptured, FinishOther, FinishGoesLive,
              FinishDrops, EndTx
<1>6. ASSUME NEW b \in Backends, Emit(b), ring' # ring
      PROVE  CaptureLive[b] /\ ring' = Append(ring, Message("Stmt", b, sess[b] + 1))
  BY <1>6 DEF Emit
<1>7. ASSUME NEW b \in Backends, pgr_exit(b), ring' # ring
      PROVE  /\ CaptureLive[b] /\ running /\ MyCaptureGen[b] = generation
             /\ ring' = Append(ring, Message("Disconnect", b, sess[b] + 1))
  BY <1>7 DEF pgr_exit
<1>8. CASE UNCHANGED vars
  BY <1>8 DEF vars
<1> QED
  BY <1>1, <1>2, <1>3, <1>4, <1>5, <1>6, <1>7, <1>8 DEF Next, Hook

----------------------------------------------------------------------------
(* The stream starts with the sync point.                                  *)

\* Until the first sync point has been pushed nobody is live or about to be.
Silent ==
  /\ ~wal_ready
  /\ \A p \in Procs : pc[p] \notin {"setready", "connect", "flush"}
  /\ \A b \in Backends : ~CaptureLive[b]

FirstInv == LsnFirst /\ (ring = <<>> => Silent)

\* A step that pushes nothing keeps the silence.
LEMMA SilentKept ==
  ASSUME TypeOK, [Next]_vars, Silent, ring' = ring
  PROVE  Silent'
<1> USE Functions DEF Silent, Goto, chan, stream, buf
<1>1. ASSUME NEW b \in Backends, Client(b)
      PROVE  Silent'
  BY <1>1 DEF Client, XactEnter, NextMessage, Commit, Abort, Exit
<1>2. ASSUME NEW b \in Backends,
             GateSkip(b) \/ GatePass(b) \/ SameCapture(b)
      PROVE  Silent'
  BY <1>2 DEF GateSkip, GatePass, SameCapture
<1>3. ASSUME NEW b \in Backends,
             acquire_client_id(b) \/ GateLive(b) \/ GoLive(b) \/ FlushTxBuf(b)
      PROVE  Silent'
  BY <1>3 DEF acquire_client_id, GateLive, GoesLive, GoLive, FlushTxBuf
<1>4. ASSUME NEW b \in Backends, FlushToFinish(b) \/ FinishOther(b) \/ FinishDrops(b)
      PROVE  Silent'
  BY <1>4 DEF FlushToFinish, FinishOther, FinishDrops, EndTx, AfterTx
<1>5. ASSUME NEW b \in Backends,
             Emit(b) \/ xact_leave_shared(b) \/ FinishCaptured(b) \/ FinishGoesLive(b)
      PROVE  Silent'
  BY <1>5 DEF Emit, xact_leave_shared, FinishCaptured, FinishGoesLive, GoesLive
<1>6. ASSUME NEW b \in Backends, AdoptCapture(b) \/ pgr_exit(b)
      PROVE  Silent'
  <2>1. CASE AdoptCapture(b)
    BY <2>1 DEF AdoptCapture
  <2>2. CASE pgr_exit(b)
    BY <2>2 DEF pgr_exit
  <2> QED
    BY <1>6, <2>1, <2>2
<1>7. ASSUME NEW p \in Procs, Sync(p)
      PROVE  Silent'
  <2>1. ~PushLsn(p)
    <3>1. Append(ring, LsnMessage(p)) # ring
      <4>1. Len(Append(ring, LsnMessage(p))) = Len(ring) + 1 /\ Len(ring) \in Nat
        OBVIOUS
      <4> QED BY <4>1
    <3> QED BY <3>1 DEF PushLsn, Push
  <2> QED
    BY <1>7, <2>1 DEF Sync, ReadLsn, SetReady, AfterSync
<1>8. ASSUME NEW a \in Admins, StartLock(a) \/ Start(a) \/ Stop(a)
      PROVE  Silent'
  <2>1. a \in Procs
    BY DEF Procs
  <2> QED
    BY <1>8, <2>1 DEF StartLock, Start, StartReset, StartPublish, WorkerReady,
                      WorkerFailed, Stop
<1>9. CASE UNCHANGED vars
  BY <1>9 DEF vars
<1> QED
  BY <1>1, <1>2, <1>3, <1>4, <1>5, <1>6, <1>7, <1>8, <1>9 DEF Next, Hook

\* Every step keeps the sync point in front.
LEMMA FirstStep == TypeOK /\ FirstInv /\ [Next]_vars => FirstInv'
<1> SUFFICES ASSUME TypeOK, FirstInv, [Next]_vars
             PROVE  FirstInv'
  OBVIOUS
<1>1. ring \in Seq(Messages) /\ Backends \subseteq Procs
  BY Functions
<1>2. CASE ring' = ring
  BY <1>2, SilentKept DEF FirstInv, LsnFirst
<1>3. CASE ring' # ring
  <2>1. PICK m : ring' = Append(ring, m) /\ (ring = <<>> => IsLsn(m))
    <3>1. CASE \E p \in Procs : PushLsn(p) /\ ring' = Append(ring, LsnMessage(p))
      BY <3>1 DEF LsnMessage, IsLsn
    <3>2. CASE \E b \in Backends : GoLive(b) \/ FlushTxBuf(b)
      BY <1>1, <3>2 DEF GoLive, FlushTxBuf, Push, FirstInv, Silent
    <3>3. CASE \E b \in Backends :
                 /\ CaptureLive[b]
                 /\ \/ ring' = Append(ring, Message("Stmt", b, sess[b] + 1))
                    \/ ring' = Append(ring, Message("Disconnect", b, sess[b] + 1))
      BY <3>3 DEF FirstInv, Silent
    <3> QED
      BY <1>3, <3>1, <3>2, <3>3, WhoPushes
  <2>2. ring' # <<>> /\ ring'[1] = IF ring = <<>> THEN m ELSE ring[1]
    BY <1>1, <2>1
  <2> QED
    BY <2>1, <2>2 DEF FirstInv, LsnFirst
<1> QED
  BY <1>2, <1>3

\* Nothing is ever pushed before a sync point has been: a backend goes live only
\* after it saw wal_ready, which capture_sync_lsn sets after its push.
THEOREM StreamStartsAtLsn == Spec => []LsnFirst
<1>1. Init => FirstInv
  BY CaptureSyncAssumption DEF Init, FirstInv, LsnFirst, Silent
<1>2. IInv => TypeOK
  BY DEF IInv
<1>3. FirstInv => LsnFirst
  BY DEF FirstInv
<1> QED
  BY Invariance, <1>1, <1>2, <1>3, FirstStep, PTL DEF Spec

----------------------------------------------------------------------------
(* The stream of a connection.                                             *)

\* The message is one of the connection that a backend serves.
IsOf(m, b) == ~IsLsn(m) /\ m.be = b /\ m.conn = conn[b]

\* What a backend does next, it does for the stream: it is past the gate, or will be.
Going(b) ==
  running \/ pc[b] \in {"adopt", "client", "live", "connect", "flush", "emit", "ready"}

\* The statement that follows what has been said.
NextStmt(b) == sess[b] - Len(TxBuf[b]) + 1

\* Who is past the gate has adopted the capture, and its transaction is of it.
Adopted(b) ==
  /\ MyCaptureGen[b] <= generation
  /\ pc[b] = "adopt" => generation = 1 /\ TxGen[b] = 1
  /\ \/ pc[b] \in {"client", "live", "connect", "emit", "ready"}
     \/ CaptureLive[b] \/ TxCaptured[b]
     => MyCaptureGen[b] = 1
  /\ MyCaptureGen[b] = 1 /\ TxOpen[b] /\ running => TxGen[b] = 1

\* What the place of a backend says of its flags.
Placed(b) ==
  /\ pc[b] \in {"gate", "adopt", "client", "live", "emit"} => TxOpen[b]
  /\ pc[b] = "flush" => CaptureLive[b]
  /\ pc[b] \in {"client", "connect"} => ~CaptureLive[b]
  /\ pc[b] = "client" => ~TxCaptured[b]
  /\ pc[b] \in {"connect", "emit", "ready"} => TxCaptured[b]
  /\ TxCaptured[b] => TxOpen[b] \/ pc[b] \in {"finish", "ready", "connect", "flush"}
  /\ SkipSnap[b] => pc[b] = "live" /\ sess[b] = 0 /\ ~CaptureLive[b] /\ ~TxCaptured[b]

\* What a backend keeps of its transaction: the statements up to the last, from the
\* one its snapshot was taken before.
Buffered(b) ==
  /\ TxBuf[b] # <<>> => TxCaptured[b] /\ (CaptureLive[b] => pc[b] = "flush")
  /\ Going(b) => \A i \in DOMAIN TxBuf[b] : TxBuf[b][i] = sess[b] - Len(TxBuf[b]) + i
  /\ Going(b) /\ TxCaptured[b] /\ ~CaptureLive[b] => SnapStart(b) = NextStmt(b)

\* The last message of the connection ends where what is kept begins.
SaidLast(b, j) ==
  /\ IsOf(ring[j], b) /\ \A k \in DOMAIN ring : k > j => ~IsOf(ring[k], b)
  /\ ring[j].type \in {"Connect", "Stmt"} /\ ring[j].client = MyClientId[b]
  /\ NextStmt(b) = IF ring[j].type = "Connect" THEN ring[j].val ELSE ring[j].val + 1

\* What the stream holds of the connection: nothing before it is live.
Said(b) ==
  /\ ~CaptureLive[b] => \A j \in DOMAIN ring : ~IsOf(ring[j], b)
  /\ Going(b) /\ CaptureLive[b] => \E j \in DOMAIN ring : SaidLast(b, j)

Local(b) == Adopted(b) /\ Placed(b) /\ Buffered(b) /\ Said(b)

\* Messages are of the first capture, and of connections that have begun.
Begun == \A j \in DOMAIN ring : ~IsLsn(ring[j]) =>
           /\ ring[j].gen = 1 /\ ring[j].be \in Backends
           /\ ring[j].conn <= conn[ring[j].be]

StreamInv == Begun /\ ClientStream /\ \A b \in Backends : Local(b)

----------------------------------------------------------------------------
(* What is kept by a step of somebody else.                                *)

\* A step says nothing for a backend: it pushes nothing, or a message of another.
Unsaid(b) ==
  \/ ring' = ring
  \/ \E m : ~IsOf(m, b) /\ ring' = Append(ring, m)

\* What has been said stays said while a backend neither speaks nor moves on.
LEMMA SaidKept ==
  ASSUME TypeOK, NEW b \in Backends, Said(b), Unsaid(b),
         conn'[b] = conn[b], CaptureLive'[b] = CaptureLive[b],
         Going(b)' /\ CaptureLive[b] => /\ Going(b) /\ NextStmt(b)' = NextStmt(b)
                                        /\ MyClientId'[b] = MyClientId[b]
  PROVE  Said(b)'
<1>1. /\ DOMAIN ring \subseteq DOMAIN ring' /\ DOMAIN ring \subseteq Int
      /\ \A j \in DOMAIN ring : ring'[j] = ring[j]
      /\ \A k \in DOMAIN ring' : k \in DOMAIN ring \/ ~IsOf(ring'[k], b)
  <2>1. ring \in Seq(Messages)
    BY Functions
  <2>2. CASE ring' = ring
    BY <2>1, <2>2
  <2>3. CASE \E m : ~IsOf(m, b) /\ ring' = Append(ring, m)
    BY <2>1, <2>3, RingAppend
  <2> QED
    BY <2>2, <2>3 DEF Unsaid
<1>2. \A j \in DOMAIN ring' : IsOf(ring[j], b)' <=> IsOf(ring'[j], b)
  BY DEF IsOf
<1>3. ~CaptureLive'[b] => \A j \in DOMAIN ring' : ~IsOf(ring[j], b)'
  BY <1>1, <1>2 DEF Said
<1>4. ASSUME Going(b)', CaptureLive'[b] PROVE \E j \in DOMAIN ring' : SaidLast(b, j)'
  <2>1. PICK j \in DOMAIN ring : SaidLast(b, j)
    BY <1>4 DEF Said
  <2>2. IsOf(ring[j], b)' /\ \A k \in DOMAIN ring' : k > j => ~IsOf(ring[k], b)'
    BY <1>1, <1>2, <2>1 DEF SaidLast
  <2>3. SaidLast(b, j)'
    BY <1>1, <1>4, <2>1, <2>2 DEF SaidLast
  <2> QED
    BY <1>1, <2>3
<1> QED
  BY <1>3, <1>4 DEF Said

\* A backend that does not move keeps its part while the capture is the same.
LEMMA LocalKept ==
  ASSUME TypeOK, NEW b \in Backends, Local(b), Steady(b), Unsaid(b),
         generation' = generation, running' => running
  PROVE  Local(b)'
<1> USE DEF Local, Steady, Rest
<1>1. Adopted(b)'
  BY DEF Adopted
<1>2. Placed(b)'
  BY DEF Placed
<1>3. (Going(b)' => Going(b)) /\ NextStmt(b)' = NextStmt(b) /\ SnapStart(b)' = SnapStart(b)
  BY DEF Going, NextStmt, SnapStart
<1>4. Buffered(b)'
  BY <1>3 DEF Buffered
<1>5. Said(b)'
  BY <1>3, SaidKept
<1> QED
  BY <1>1, <1>2, <1>4, <1>5

----------------------------------------------------------------------------
(* A push.                                                                 *)

\* What a backend may push: its Connect when the stream holds nothing of the
\* connection, else what follows the last message.
Continues(b, m) ==
  \/ m.type = "Connect" /\ \A j \in DOMAIN ring : ~IsOf(ring[j], b)
  \/ /\ m.type # "Connect"
     /\ \E j \in DOMAIN ring :
          /\ IsOf(ring[j], b) /\ \A k \in DOMAIN ring : k > j => ~IsOf(ring[k], b)
          /\ Follows(m, ring[j])

\* A message that continues its connection leaves a stream that can be replayed.
LEMMA PushKeepsStream ==
  ASSUME TypeOK, Begun, ClientStream, NEW b \in Backends, NEW m,
         IsOf(m, b), m.gen = 1, Continues(b, m), ring' = Append(ring, m)
  PROVE  ClientStream'
<1>1. PICK n \in Nat :
        /\ DOMAIN ring = 1 .. (n - 1) /\ DOMAIN ring' = DOMAIN ring \cup {n}
        /\ \A j \in DOMAIN ring : ring'[j] = ring[j]
        /\ ring'[n] = m
  BY Functions, RingPosition
<1>2. \A j \in DOMAIN ring : Before(j)' = Before(j)
  BY <1>1 DEF Before
<1>3. \A j \in DOMAIN ring : Same(ring[j], m) <=> IsOf(ring[j], b)
  BY DEF Begun, Same, IsOf
<1>4. \A i : i \in Before(n)' <=> i \in DOMAIN ring /\ IsOf(ring[i], b)
  BY <1>1, <1>3 DEF Before
<1> SUFFICES ASSUME NEW j \in DOMAIN ring', ~IsLsn(ring'[j])
             PROVE  IF ring'[j].type = "Connect" THEN Before(j)' = {}
                    ELSE \E i \in Before(j)' :
                           Follows(ring'[j], ring'[i]) /\ \A k \in Before(j)' : k <= i
  BY DEF ClientStream
<1>5. CASE j \in DOMAIN ring
  <2>1. Before(j) \subseteq DOMAIN ring
    BY <1>1, <1>5 DEF Before
  <2> QED
    BY <1>1, <1>2, <1>5, <2>1 DEF ClientStream
<1>6. CASE j = n /\ m.type = "Connect"
  BY <1>1, <1>4, <1>6 DEF Continues
<1>7. CASE j = n /\ m.type # "Connect"
  <2>1. PICK i \in DOMAIN ring :
          /\ IsOf(ring[i], b) /\ \A k \in DOMAIN ring : k > i => ~IsOf(ring[k], b)
          /\ Follows(m, ring[i])
    BY <1>7 DEF Continues
  <2>2. i \in Before(j)' /\ Follows(ring'[j], ring'[i])
    BY <1>1, <1>4, <1>7, <2>1
  <2>3. \A k \in Before(j)' : k <= i
    BY <1>1, <1>4, <1>7, <2>1
  <2> QED
    BY <1>1, <1>7, <2>2, <2>3
<1> QED
  BY <1>1, <1>5, <1>6, <1>7

\* A sync point is of no connection.
LEMMA LsnKeepsStream ==
  ASSUME TypeOK, ClientStream, NEW m, IsLsn(m), ring' = Append(ring, m)
  PROVE  ClientStream'
<1>1. PICK n \in Nat :
        /\ DOMAIN ring = 1 .. (n - 1) /\ DOMAIN ring' = DOMAIN ring \cup {n}
        /\ \A j \in DOMAIN ring : ring'[j] = ring[j]
        /\ ring'[n] = m
  BY Functions, RingPosition
<1>2. \A j \in DOMAIN ring : Before(j)' = Before(j)
  BY <1>1 DEF Before
<1> SUFFICES ASSUME NEW j \in DOMAIN ring', ~IsLsn(ring'[j])
             PROVE  IF ring'[j].type = "Connect" THEN Before(j)' = {}
                    ELSE \E i \in Before(j)' :
                           Follows(ring'[j], ring'[i]) /\ \A k \in Before(j)' : k <= i
  BY DEF ClientStream
<1>3. j \in DOMAIN ring /\ Before(j) \subseteq DOMAIN ring
  BY <1>1 DEF Before
<1> QED
  BY <1>1, <1>2, <1>3 DEF ClientStream

\* What is pushed is of its connection, and of the capture its backend has adopted.
LEMMA MessageIsOf ==
  ASSUME NEW b \in Backends, NEW val, NEW type \in {"Connect", "Stmt", "Disconnect"}
  PROVE  LET m == Message(type, b, val)
         IN /\ IsOf(m, b) /\ m.gen = MyCaptureGen[b] /\ m.be = b /\ m.conn = conn[b]
            /\ m.type = type /\ m.client = MyClientId[b] /\ m.val = val /\ ~IsLsn(m)
            /\ \A c \in Backends \ {b} : ~IsOf(m, c)
BY DEF Message, IsOf, IsLsn

\* What follows the last message of a connection continues it.
LEMMA NextContinues ==
  ASSUME NEW b \in Backends, Said(b), Going(b), CaptureLive[b],
         NEW type \in {"Stmt", "Disconnect"}
  PROVE  Continues(b, Message(type, b, NextStmt(b)))
<1>1. PICK j \in DOMAIN ring : SaidLast(b, j)
  BY DEF Said
<1>2. LET m == Message(type, b, NextStmt(b))
      IN m.type = type /\ m.client = MyClientId[b] /\ m.val = NextStmt(b)
  BY DEF Message
<1> QED
  BY <1>1, <1>2 DEF Continues, SaidLast, Follows

\* The message a backend pushes is the last of its connection from then on.
LEMMA SaidPush ==
  ASSUME TypeOK, NEW b \in Backends, NEW m, ring' = Append(ring, m),
         IsOf(m, b), conn'[b] = conn[b], CaptureLive'[b],
         m.type \in {"Connect", "Stmt"}, m.client = MyClientId'[b],
         NextStmt(b)' = IF m.type = "Connect" THEN m.val ELSE m.val + 1
  PROVE  Said(b)'
<1>1. PICK n \in DOMAIN ring' :
        ring'[n] = m /\ \A k \in DOMAIN ring' : ~(k > n)
  <2>1. ring'[Len(ring) + 1] = m /\ Len(ring) + 1 \in DOMAIN ring'
    BY Functions, RingAppend
  <2>2. \A k \in DOMAIN ring' : ~(k > Len(ring) + 1)
    BY Functions, RingAppend
  <2> QED
    BY <2>1, <2>2
<1>2. IsOf(ring[n], b)'
  BY <1>1 DEF IsOf
<1>3. SaidLast(b, n)'
  BY <1>1, <1>2 DEF SaidLast
<1> QED
  BY <1>1, <1>3 DEF Said

----------------------------------------------------------------------------
(* What is kept by the steps of a backend itself.                          *)

\* While there is one capture, a running one is the first.
LEMMA FirstRuns ==
  ASSUME TypeOK, CountInv, generation <= 1, running
  PROVE  generation = 1
BY Functions DEF CountInv, TagInv

\* The steps that only move the backend: each guard is what its next place needs.
LEMMA ControlKeeps ==
  ASSUME TypeOK, CountInv, generation <= 1, NEW b \in Backends,
         Local(b), \/ NextMessage(b) \/ GatePass(b) \/ SameCapture(b)
                   \/ FinishCaptured(b) \/ FinishGoesLive(b)
  PROVE  Local(b)'
<1>1. Adopted(b) /\ Placed(b) /\ Buffered(b) /\ Said(b)
  BY DEF Local
<1>2. /\ generation' = generation /\ running' = running
      /\ running => generation = 1
  BY HooksApart, FirstRuns DEF Client, Hook
<1>3. /\ \/ pc[b] = "idle" /\ pc'[b] = "gate" /\ TxOpen[b]
         \/ /\ pc[b] = "gate" /\ pc'[b] = "adopt" /\ running /\ ~xact_is_pre(b)
         \/ /\ pc[b] = "adopt" /\ pc'[b] = "live" /\ MyCaptureGen[b] = generation
         \/ pc[b] = "finish" /\ pc'[b] = "ready" /\ CapturedHere(b)
         \/ pc[b] = "ready" /\ pc'[b] = "connect" /\ GoesLive(b)
  <2> USE Functions DEF Goto
  <2>1. CASE NextMessage(b) \/ GatePass(b)
    BY <2>1 DEF NextMessage, CanReceive, GatePass
  <2>2. CASE SameCapture(b) \/ FinishCaptured(b)
    BY <2>2 DEF SameCapture, FinishCaptured
  <2>3. CASE FinishGoesLive(b)
    BY <2>3 DEF FinishGoesLive
  <2> QED
    BY <2>1, <2>2, <2>3
<1>4. /\ TxOpen'[b] = TxOpen[b] /\ TxGen'[b] = TxGen[b]
      /\ MyCaptureGen'[b] = MyCaptureGen[b] /\ MyClientId'[b] = MyClientId[b]
      /\ TxCaptured'[b] = TxCaptured[b] /\ CaptureLive'[b] = CaptureLive[b]
      /\ TxBuf'[b] = TxBuf[b] /\ SkipSnap'[b] = SkipSnap[b] /\ snap'[b] = snap[b]
      /\ sess'[b] = sess[b] /\ conn'[b] = conn[b]
      /\ ring' = ring
  BY DEF NextMessage, GatePass, SameCapture, FinishCaptured, FinishGoesLive, stream,
         txVars, ident, buf, life
<1>5. Adopted(b)'
  BY <1>1, <1>2, <1>3, <1>4, Functions DEF Adopted, xact_is_pre, CapturedHere, GoesLive
<1>6. Placed(b)'
  BY <1>1, <1>2, <1>3, <1>4, Functions DEF Placed, xact_is_pre, CapturedHere, GoesLive
<1>7. (Going(b)' => Going(b)) /\ NextStmt(b)' = NextStmt(b) /\ SnapStart(b)' = SnapStart(b)
  BY <1>2, <1>3, <1>4 DEF Going, NextStmt, SnapStart, CapturedHere
<1>8. Buffered(b)'
  BY <1>1, <1>3, <1>4, <1>7 DEF Buffered
<1>9. Said(b)'
  BY <1>1, <1>2, <1>3, <1>4, <1>7, SaidKept DEF Unsaid
<1> QED
  BY <1>5, <1>6, <1>8, <1>9 DEF Local

\* A transaction entered while the capture runs is one of it.
LEMMA EnterKeeps ==
  ASSUME TypeOK, CountInv, generation <= 1, NEW b \in Backends,
         Local(b), XactEnter(b)
  PROVE  Local(b)'
<1>1. Adopted(b) /\ Placed(b) /\ Buffered(b) /\ Said(b)
  BY DEF Local
<1>2. /\ generation' = generation /\ running' = running
      /\ running => generation = 1
  BY HooksApart, FirstRuns DEF Client, Hook
<1>3. /\ pc[b] = "idle" /\ pc'[b] = "gate" /\ ~TxOpen[b] /\ TxOpen'[b]
      /\ TxGen'[b] = EnterGen
      /\ TxCaptured'[b] = FALSE /\ CaptureLive'[b] = CaptureLive[b]
      /\ TxBuf'[b] = IF CaptureLive[b] THEN TxBuf[b] ELSE <<>>
      /\ SkipSnap'[b] = SkipSnap[b] /\ snap'[b] = snap[b]
      /\ MyCaptureGen'[b] = MyCaptureGen[b] /\ MyClientId'[b] = MyClientId[b]
      /\ sess'[b] = sess[b] /\ conn'[b] = conn[b]
      /\ ring' = ring
  BY Functions DEF XactEnter, CanReceive, Goto, stream, txVars, ident, buf, life
<1>4. Adopted(b)'
  BY <1>1, <1>2, <1>3, Functions DEF Adopted, EnterGen
<1>5. Placed(b)'
  BY <1>1, <1>2, <1>3, Functions DEF Placed, EnterGen
<1>6. (Going(b)' => Going(b)) /\ (CaptureLive[b] => NextStmt(b)' = NextStmt(b))
  BY <1>2, <1>3 DEF Going, NextStmt
<1>7. Buffered(b)'
  BY <1>1, <1>3, <1>6 DEF Buffered
<1>8. Said(b)'
  BY <1>1, <1>2, <1>3, <1>6, SaidKept DEF Unsaid
<1> QED
  BY <1>4, <1>5, <1>7, <1>8 DEF Local

\* A statement outside of the capture counts, but of no connection in the stream.
LEMMA SkipKeeps ==
  ASSUME TypeOK, CountInv, generation <= 1, NEW b \in Backends,
         Local(b), GateSkip(b)
  PROVE  Local(b)'
<1>1. Adopted(b) /\ Placed(b) /\ Buffered(b) /\ Said(b)
  BY DEF Local
<1>2. /\ generation' = generation /\ running' = running
      /\ running => generation = 1
  BY HooksApart, FirstRuns DEF Client, Hook
<1>3. /\ pc[b] = "gate" /\ pc'[b] = "idle" /\ (~running \/ xact_is_pre(b))
      /\ sess'[b] = sess[b] + 1 /\ conn'[b] = conn[b]
      /\ TxOpen'[b] = TxOpen[b] /\ TxGen'[b] = TxGen[b]
      /\ MyCaptureGen'[b] = MyCaptureGen[b] /\ MyClientId'[b] = MyClientId[b]
      /\ TxCaptured'[b] = TxCaptured[b] /\ CaptureLive'[b] = CaptureLive[b]
      /\ TxBuf'[b] = TxBuf[b] /\ SkipSnap'[b] = SkipSnap[b] /\ snap'[b] = snap[b]
      /\ ring' = ring
  BY Functions DEF GateSkip, Goto, stream, txVars, ident, buf, life
<1>4. Adopted(b)'
  BY <1>1, <1>2, <1>3, Functions DEF Adopted, xact_is_pre
<1>5. Placed(b)'
  BY <1>1, <1>2, <1>3, Functions DEF Placed, xact_is_pre
<1>6. Going(b)' => MyCaptureGen[b] # 1 /\ ~CaptureLive[b] /\ ~TxCaptured[b] /\ TxBuf[b] = <<>>
  BY <1>1, <1>2, <1>3 DEF Going, Adopted, Placed, Buffered, xact_is_pre
<1>7. Buffered(b)'
  BY <1>1, <1>3, <1>6 DEF Buffered
<1>8. Said(b)'
  BY <1>1, <1>2, <1>3, <1>6, SaidKept DEF Unsaid
<1> QED
  BY <1>4, <1>5, <1>7, <1>8 DEF Local

\* A capture that is adopted starts with nothing buffered and nothing said.
LEMMA AdoptKeeps ==
  ASSUME TypeOK, CountInv, generation <= 1, NEW b \in Backends,
         Local(b), AdoptCapture(b)
  PROVE  Local(b)'
<1>1. Adopted(b) /\ Placed(b) /\ Buffered(b) /\ Said(b)
  BY DEF Local
<1>2. /\ generation' = generation /\ running' = running
      /\ running => generation = 1
  BY HooksApart, FirstRuns DEF Client, Hook
<1>3. /\ pc[b] = "adopt" /\ pc'[b] = "client" /\ MyCaptureGen[b] # generation
      /\ MyCaptureGen'[b] = generation /\ TxBuf'[b] = <<>> /\ CaptureLive'[b] = FALSE
      /\ TxCaptured'[b] = TxCaptured[b] /\ SkipSnap'[b] = SkipSnap[b]
      /\ TxOpen'[b] = TxOpen[b] /\ TxGen'[b] = TxGen[b]
      /\ sess'[b] = sess[b] /\ conn'[b] = conn[b]
      /\ ring' = ring
  BY Functions DEF AdoptCapture, Goto, stream, txVars, ident, buf, life
<1>4. CaptureLive[b] = FALSE /\ TxCaptured[b] = FALSE
  BY <1>1, <1>3, Functions DEF Adopted
<1>5. Adopted(b)'
  BY <1>1, <1>2, <1>3, Functions DEF Adopted
<1>6. Placed(b)'
  BY <1>1, <1>2, <1>3, <1>4, Functions DEF Placed
<1>7. Buffered(b)'
  BY <1>1, <1>3, <1>4 DEF Buffered
<1>8. Said(b)'
  BY <1>1, <1>2, <1>3, <1>4, SaidKept DEF Unsaid
<1> QED
  BY <1>5, <1>6, <1>7, <1>8 DEF Local

\* Drawing a client id says nothing: the backend is not live.
LEMMA ClientKeeps ==
  ASSUME TypeOK, CountInv, generation <= 1, NEW b \in Backends,
         Local(b), acquire_client_id(b)
  PROVE  Local(b)'
<1>1. Adopted(b) /\ Placed(b) /\ Buffered(b) /\ Said(b)
  BY DEF Local
<1>2. /\ generation' = generation /\ running' = running
      /\ running => generation = 1
  BY HooksApart, FirstRuns DEF Client, Hook
<1>3. /\ pc[b] = "client" /\ pc'[b] = "live"
      /\ SkipSnap'[b] = FreshSession(b) /\ snap'[b] = snap[b]
      /\ MyCaptureGen'[b] = MyCaptureGen[b] /\ TxBuf'[b] = TxBuf[b]
      /\ TxOpen'[b] = TxOpen[b] /\ TxGen'[b] = TxGen[b]
      /\ TxCaptured'[b] = TxCaptured[b] /\ CaptureLive'[b] = CaptureLive[b]
      /\ sess'[b] = sess[b] /\ conn'[b] = conn[b]
      /\ ring' = ring
  BY Functions DEF acquire_client_id, Goto, stream, txVars, ident, buf, life
<1>4. Adopted(b)'
  BY <1>1, <1>2, <1>3, Functions DEF Adopted, FreshSession
<1>5. Placed(b)'
  BY <1>1, <1>2, <1>3, Functions DEF Placed, FreshSession
<1>6. (Going(b)' => Going(b)) /\ NextStmt(b)' = NextStmt(b) /\ SnapStart(b)' = SnapStart(b)
  BY <1>2, <1>3 DEF Going, NextStmt, SnapStart
<1>7. Buffered(b)'
  BY <1>1, <1>3, <1>6 DEF Buffered
<1>8. Said(b)'
  BY <1>1, <1>2, <1>3, <1>5, <1>6, SaidKept DEF Unsaid, Placed
<1> QED
  BY <1>4, <1>5, <1>7, <1>8 DEF Local

\* The snapshot is taken before the first statement that is kept.
LEMMA GateKeeps ==
  ASSUME TypeOK, CountInv, generation <= 1, NEW b \in Backends,
         Local(b), GateLive(b)
  PROVE  Local(b)'
<1>1. Adopted(b) /\ Placed(b) /\ Buffered(b) /\ Said(b)
  BY DEF Local
<1>2. /\ generation' = generation /\ running' = running
      /\ running => generation = 1
  BY HooksApart, FirstRuns DEF Client, Hook
<1>3. /\ pc[b] = "live" /\ pc'[b] \in {"connect", "emit"}
      /\ pc'[b] = "connect" => ~CaptureLive[b]
      /\ TxCaptured'[b] = TRUE /\ CaptureLive'[b] = CaptureLive[b] /\ TxBuf'[b] = TxBuf[b]
      /\ IF NeedsSnapshot(b)
           THEN SkipSnap'[b] = FALSE /\ snap'[b] = IF SkipSnap[b] THEN 0 ELSE sess[b] + 1
           ELSE SkipSnap'[b] = SkipSnap[b] /\ snap'[b] = snap[b]
      /\ TxOpen'[b] = TxOpen[b] /\ TxGen'[b] = TxGen[b]
      /\ MyCaptureGen'[b] = MyCaptureGen[b] /\ MyClientId'[b] = MyClientId[b]
      /\ sess'[b] = sess[b] /\ conn'[b] = conn[b]
      /\ ring' = ring
  BY Functions DEF GateLive, GoesLive, Goto, stream, txVars, ident, buf, life
<1>4. Adopted(b)'
  BY <1>1, <1>2, <1>3, Functions DEF Adopted, NeedsSnapshot
<1>5. Placed(b)'
  BY <1>1, <1>2, <1>3, Functions DEF Placed, NeedsSnapshot
<1>6. Going(b) /\ NextStmt(b)' = NextStmt(b)
  BY <1>2, <1>3 DEF Going, NextStmt
<1>7. Buffered(b)'
  <2>1. ~CaptureLive[b] => SnapStart(b)' = NextStmt(b)
    <3>1. CASE TxCaptured[b]
      BY <1>1, <1>3, <1>6, <3>1 DEF Buffered, NeedsSnapshot, SnapStart
    <3>2. CASE ~TxCaptured[b] /\ ~CaptureLive[b]
      <4>1. TxBuf[b] = <<>> /\ (SkipSnap[b] => sess[b] = 0) /\ sess[b] \in Nat
        BY <1>1, <3>2, Functions DEF Buffered, Placed
      <4>2. NextStmt(b) = sess[b] + 1
        BY <4>1 DEF NextStmt
      <4> QED
        BY <1>3, <3>2, <4>1, <4>2 DEF NeedsSnapshot, SnapStart
    <3> QED BY <3>1, <3>2
  <2>2. TxBuf[b] # <<>> /\ CaptureLive[b] => FALSE
    BY <1>1, <1>3 DEF Buffered
  <2> QED
    BY <1>1, <1>3, <1>6, <2>1, <2>2 DEF Buffered
<1>8. Said(b)'
  BY <1>1, <1>2, <1>3, <1>6, SaidKept DEF Unsaid
<1> QED
  BY <1>4, <1>5, <1>7, <1>8 DEF Local

\* The end of a transaction drops what is kept of it, which a live backend does not.
LEMMA EndKeeps ==
  ASSUME TypeOK, CountInv, generation <= 1, NEW b \in Backends, Local(b),
         FlushToFinish(b) \/ FinishOther(b) \/ FinishDrops(b)
  PROVE  Local(b)'
<1>1. Adopted(b) /\ Placed(b) /\ Buffered(b) /\ Said(b)
  BY DEF Local
<1>2. /\ generation' = generation /\ running' = running
      /\ running => generation = 1
  BY HooksApart, FirstRuns DEF Client, Hook
<1>3. EndTx(b) /\ pc[b] \in {"flush", "finish", "ready"}
      /\ (pc[b] = "flush" => TxBuf[b] = <<>> /\ ~TxOpen[b])
  BY DEF FlushToFinish, FinishOther, FinishDrops
<1>4. /\ pc'[b] \in {"readlsn", "exit", "idle"}
      /\ TxBuf'[b] = IF CaptureLive[b] THEN TxBuf[b] ELSE <<>>
      /\ TxCaptured'[b] = FALSE /\ CaptureLive'[b] = CaptureLive[b]
      /\ SkipSnap'[b] = SkipSnap[b]
      /\ TxOpen'[b] = TxOpen[b] /\ TxGen'[b] = TxGen[b]
      /\ MyCaptureGen'[b] = MyCaptureGen[b] /\ MyClientId'[b] = MyClientId[b]
      /\ sess'[b] = sess[b] /\ conn'[b] = conn[b]
      /\ ring' = ring
  BY <1>3, Functions DEF EndTx, AfterTx, Goto, stream, txVars, ident, life
<1>5. Adopted(b)'
  BY <1>1, <1>2, <1>4, Functions DEF Adopted
<1>6. Placed(b)'
  BY <1>1, <1>3, <1>4 DEF Placed
<1>7. /\ CaptureLive[b] => TxBuf[b] = <<>> /\ NextStmt(b)' = NextStmt(b)
      /\ Going(b)' => Going(b)
  BY <1>1, <1>2, <1>3, <1>4 DEF Buffered, NextStmt, Going
<1>8. Buffered(b)'
  BY <1>4, <1>7 DEF Buffered
<1>9. Said(b)'
  BY <1>1, <1>4, <1>7, SaidKept DEF Unsaid
<1> QED
  BY <1>5, <1>6, <1>8, <1>9 DEF Local

\* Leaving the transaction leaves what is kept of it to tx_finish.
LEMMA LeaveKeeps ==
  ASSUME TypeOK, CountInv, generation <= 1, NEW b \in Backends, Local(b),
         xact_leave_shared(b)
  PROVE  Local(b)'
<1>1. Adopted(b) /\ Placed(b) /\ Buffered(b) /\ Said(b)
  BY DEF Local
<1>2. /\ generation' = generation /\ running' = running
  BY HooksApart DEF Hook
<1>3. /\ pc[b] = "leave" /\ pc'[b] = "finish" /\ TxOpen'[b] = FALSE
      /\ MyCaptureGen'[b] = MyCaptureGen[b] /\ MyClientId'[b] = MyClientId[b]
      /\ TxCaptured'[b] = TxCaptured[b] /\ CaptureLive'[b] = CaptureLive[b]
      /\ TxBuf'[b] = TxBuf[b] /\ SkipSnap'[b] = SkipSnap[b] /\ snap'[b] = snap[b]
      /\ sess'[b] = sess[b] /\ conn'[b] = conn[b]
      /\ ring' = ring
  BY Functions DEF xact_leave_shared, Goto, stream, ident, buf, life
<1>4. Adopted(b)'
  BY <1>1, <1>2, <1>3 DEF Adopted
<1>5. Placed(b)'
  BY <1>1, <1>3 DEF Placed
<1>6. (Going(b)' => Going(b)) /\ NextStmt(b)' = NextStmt(b) /\ SnapStart(b)' = SnapStart(b)
  BY <1>2, <1>3 DEF Going, NextStmt, SnapStart
<1>7. Buffered(b)'
  BY <1>1, <1>3, <1>6 DEF Buffered
<1>8. Said(b)'
  BY <1>1, <1>3, <1>6, SaidKept DEF Unsaid
<1> QED
  BY <1>4, <1>5, <1>7, <1>8 DEF Local

\* Going live, a backend says where its session starts: at what it has kept.
LEMMA GoLiveKeeps ==
  ASSUME TypeOK, CountInv, generation <= 1, NEW b \in Backends, Local(b), GoLive(b)
  PROVE  /\ Local(b)'
         /\ \E m : /\ IsOf(m, b) /\ m.gen = 1 /\ Continues(b, m)
                   /\ ring' = Append(ring, m)
<1>1. Adopted(b) /\ Placed(b) /\ Buffered(b) /\ Said(b)
  BY DEF Local
<1>2. /\ generation' = generation /\ running' = running
  BY HooksApart DEF Hook
<1>3. PICK m : m = Message("Connect", b, SnapStart(b)) /\ ring' = Append(ring, m)
  BY DEF GoLive, Push
<1>4. /\ IsOf(m, b) /\ m.gen = MyCaptureGen[b] /\ m.type = "Connect"
      /\ m.client = MyClientId[b] /\ m.val = SnapStart(b)
  BY <1>3, MessageIsOf
<1>5. /\ pc[b] = "connect" /\ pc'[b] = "flush" /\ CaptureLive'[b] = TRUE
      /\ TxOpen'[b] = TxOpen[b] /\ TxGen'[b] = TxGen[b]
      /\ MyCaptureGen'[b] = MyCaptureGen[b] /\ MyClientId'[b] = MyClientId[b]
      /\ TxCaptured'[b] = TxCaptured[b] /\ TxBuf'[b] = TxBuf[b]
      /\ SkipSnap'[b] = SkipSnap[b]
      /\ sess'[b] = sess[b] /\ conn'[b] = conn[b]
  BY Functions DEF GoLive, Goto, txVars, ident, life
<1>6. Adopted(b)'
  BY <1>1, <1>2, <1>5 DEF Adopted
<1>7. Placed(b)'
  BY <1>1, <1>5 DEF Placed
<1>8. Going(b) /\ NextStmt(b)' = NextStmt(b)
  BY <1>5 DEF Going, NextStmt
<1>9. Buffered(b)'
  BY <1>1, <1>5, <1>8 DEF Buffered, Placed
<1>10. SnapStart(b) = NextStmt(b)
  BY <1>1, <1>5, <1>8 DEF Buffered, Placed
<1>11. Said(b)'
  BY <1>3, <1>4, <1>5, <1>8, <1>10, SaidPush
<1>12. m.gen = 1 /\ Continues(b, m)
  BY <1>1, <1>4, <1>5 DEF Adopted, Placed, Said, Continues
<1> QED
  BY <1>3, <1>4, <1>6, <1>7, <1>9, <1>11, <1>12 DEF Local

\* The first of what is kept is the statement that follows what has been said.
LEMMA FlushKeeps ==
  ASSUME TypeOK, CountInv, generation <= 1, NEW b \in Backends, Local(b), FlushTxBuf(b)
  PROVE  /\ Local(b)'
         /\ \E m : /\ IsOf(m, b) /\ m.gen = 1 /\ Continues(b, m)
                   /\ ring' = Append(ring, m)
<1>1. Adopted(b) /\ Placed(b) /\ Buffered(b) /\ Said(b)
  BY DEF Local
<1>2. /\ generation' = generation /\ running' = running
  BY HooksApart DEF Hook
<1>3. /\ pc[b] = "flush" /\ pc'[b] = "flush" /\ TxBuf[b] # <<>>
      /\ TxBuf'[b] = Tail(TxBuf[b]) /\ TxBuf[b] \in Seq(Nat) /\ sess[b] \in Nat
      /\ TxOpen'[b] = TxOpen[b] /\ TxGen'[b] = TxGen[b]
      /\ MyCaptureGen'[b] = MyCaptureGen[b] /\ MyClientId'[b] = MyClientId[b]
      /\ TxCaptured'[b] = TxCaptured[b] /\ CaptureLive'[b] = CaptureLive[b]
      /\ SkipSnap'[b] = SkipSnap[b] /\ sess'[b] = sess[b] /\ conn'[b] = conn[b]
      /\ ring' = Append(ring, Message("Stmt", b, Head(TxBuf[b])))
  BY Functions DEF FlushTxBuf, Push, txVars, ident, life
<1>4. Going(b) /\ CaptureLive[b]
  BY <1>1, <1>3 DEF Going, Placed
<1>5. PICK n \in Nat : n = Len(TxBuf[b])
  BY <1>3
<1>6. /\ \A i \in 1 .. n : TxBuf[b][i] = sess[b] - n + i
      /\ Len(Tail(TxBuf[b])) = n - 1 /\ DOMAIN Tail(TxBuf[b]) = 1 .. (n - 1)
      /\ \A i \in 1 .. (n - 1) : i + 1 \in 1 .. n /\ Tail(TxBuf[b])[i] = TxBuf[b][i + 1]
      /\ 1 \in 1 .. n /\ Head(TxBuf[b]) = TxBuf[b][1]
  <2>1. \A i \in DOMAIN TxBuf[b] : TxBuf[b][i] = sess[b] - n + i
    BY <1>1, <1>4, <1>5 DEF Buffered
  <2> QED
    BY <1>3, <1>5, <2>1
<1>7. Head(TxBuf[b]) = NextStmt(b) /\ NextStmt(b)' = NextStmt(b) + 1
  <2>1. NextStmt(b) = sess[b] - n + 1 /\ NextStmt(b)' = sess[b] - (n - 1) + 1
    BY <1>3, <1>5, <1>6 DEF NextStmt
  <2>2. Head(TxBuf[b]) = sess[b] - n + 1
    BY <1>6
  <2>3. sess[b] - (n - 1) + 1 = sess[b] - n + 1 + 1
    BY <1>3, <1>5
  <2> QED
    BY <2>1, <2>2, <2>3
<1>8. PICK m : m = Message("Stmt", b, NextStmt(b)) /\ ring' = Append(ring, m)
  BY <1>3, <1>7
<1>9. /\ IsOf(m, b) /\ m.gen = MyCaptureGen[b] /\ m.type = "Stmt"
      /\ m.client = MyClientId[b] /\ m.val = NextStmt(b)
  BY <1>8, MessageIsOf
<1>10. Adopted(b)'
  BY <1>1, <1>2, <1>3 DEF Adopted
<1>11. Placed(b)'
  BY <1>1, <1>3 DEF Placed
<1>12. Buffered(b)'
  <2>1. TxCaptured'[b]
    BY <1>1, <1>3 DEF Buffered
  <2>2. \A i \in DOMAIN Tail(TxBuf[b]) :
          Tail(TxBuf[b])[i] = sess[b] - Len(Tail(TxBuf[b])) + i
    <3> SUFFICES ASSUME NEW i \in 1 .. (n - 1)
                 PROVE  Tail(TxBuf[b])[i] = sess[b] - (n - 1) + i
      BY <1>6
    <3>1. Tail(TxBuf[b])[i] = sess[b] - n + (i + 1)
      BY <1>6
    <3>2. sess[b] \in Int /\ n \in Int /\ i \in Int
      BY <1>3, <1>5
    <3>3. sess[b] - n + (i + 1) = sess[b] - (n - 1) + i
      BY <3>2
    <3> QED
      BY <3>1, <3>3
  <2> QED
    BY <1>3, <1>4, <2>1, <2>2 DEF Buffered
<1>13. Said(b)'
  BY <1>3, <1>4, <1>7, <1>8, <1>9, SaidPush
<1>14. m.gen = 1 /\ Continues(b, m)
  BY <1>1, <1>4, <1>8, <1>9, NextContinues DEF Adopted
<1> QED
  BY <1>8, <1>9, <1>10, <1>11, <1>12, <1>13, <1>14 DEF Local

\* A statement is said by a live backend, which has nothing left to say before it,
\* and kept by one that is not, behind what it keeps.
LEMMA EmitKeeps ==
  ASSUME TypeOK, CountInv, generation <= 1, NEW b \in Backends, Local(b), Emit(b)
  PROVE  /\ Local(b)'
         /\ \/ ring' = ring
            \/ \E m : /\ IsOf(m, b) /\ m.gen = 1 /\ Continues(b, m)
                      /\ ring' = Append(ring, m)
<1>1. Adopted(b) /\ Placed(b) /\ Buffered(b) /\ Said(b)
  BY DEF Local
<1>2. /\ generation' = generation /\ running' = running
  BY HooksApart DEF Hook
<1>3. /\ pc[b] \in {"emit", "flush"} /\ pc'[b] = "idle"
      /\ pc[b] = "flush" => TxBuf[b] = <<>> /\ TxOpen[b]
      /\ sess'[b] = sess[b] + 1 /\ sess[b] \in Nat /\ TxBuf[b] \in Seq(Nat)
      /\ TxOpen'[b] = TxOpen[b] /\ TxGen'[b] = TxGen[b]
      /\ MyCaptureGen'[b] = MyCaptureGen[b] /\ MyClientId'[b] = MyClientId[b]
      /\ TxCaptured'[b] = TxCaptured[b] /\ CaptureLive'[b] = CaptureLive[b]
      /\ SkipSnap'[b] = SkipSnap[b] /\ snap'[b] = snap[b] /\ conn'[b] = conn[b]
  BY Functions DEF Emit, Goto, txVars, ident
<1>4. Going(b)
  BY <1>3 DEF Going
<1>5. Adopted(b)'
  BY <1>1, <1>2, <1>3 DEF Adopted
<1>6. Placed(b)'
  BY <1>1, <1>3 DEF Placed
<1>7. CASE CaptureLive[b]
  <2>1. /\ ring' = Append(ring, Message("Stmt", b, sess[b] + 1))
        /\ TxBuf'[b] = TxBuf[b]
    BY <1>7 DEF Emit, Push
  <2>2. TxBuf[b] = <<>>
    BY <1>1, <1>3, <1>7 DEF Buffered
  <2>3. NextStmt(b) = sess[b] + 1 /\ NextStmt(b)' = NextStmt(b) + 1
    BY <1>3, <2>1, <2>2 DEF NextStmt
  <2>4. PICK m : m = Message("Stmt", b, NextStmt(b)) /\ ring' = Append(ring, m)
    BY <2>1, <2>3
  <2>5. /\ IsOf(m, b) /\ m.gen = MyCaptureGen[b] /\ m.type = "Stmt"
        /\ m.client = MyClientId[b] /\ m.val = NextStmt(b)
    BY <2>4, MessageIsOf
  <2>6. Buffered(b)'
    BY <1>3, <1>7, <2>1, <2>2 DEF Buffered
  <2>7. Said(b)'
    BY <1>3, <1>7, <2>3, <2>4, <2>5, SaidPush
  <2>8. m.gen = 1 /\ Continues(b, m)
    BY <1>1, <1>4, <1>7, <2>4, <2>5, NextContinues DEF Adopted
  <2> QED
    BY <1>5, <1>6, <2>4, <2>5, <2>6, <2>7, <2>8 DEF Local
<1>8. CASE ~CaptureLive[b]
  <2>1. /\ ring' = ring /\ TxCaptured[b]
        /\ TxBuf'[b] = Append(TxBuf[b], sess[b] + 1)
    BY <1>1, <1>3, <1>8, Functions DEF Emit, Placed
  <2>2. PICK n \in Nat : n = Len(TxBuf[b])
    BY <1>3
  <2>3. /\ \A i \in 1 .. n : TxBuf[b][i] = sess[b] - n + i
        /\ SnapStart(b) = sess[b] - n + 1
    <3>1. \A i \in DOMAIN TxBuf[b] : TxBuf[b][i] = sess[b] - n + i
      BY <1>1, <1>4, <2>2 DEF Buffered
    <3>2. SnapStart(b) = sess[b] - n + 1
      BY <1>1, <1>4, <1>8, <2>1, <2>2 DEF Buffered, NextStmt
    <3> QED
      BY <1>3, <2>2, <3>1, <3>2
  <2>4. /\ Len(TxBuf'[b]) = n + 1 /\ DOMAIN TxBuf'[b] = 1 .. (n + 1)
        /\ \A i \in 1 .. n : TxBuf'[b][i] = TxBuf[b][i]
        /\ TxBuf'[b][n + 1] = sess[b] + 1
    BY <1>3, <2>1, <2>2
  <2>5. \A i \in 1 .. (n + 1) : TxBuf'[b][i] = (sess[b] + 1) - (n + 1) + i
    <3> SUFFICES ASSUME NEW i \in 1 .. (n + 1)
                 PROVE  TxBuf'[b][i] = (sess[b] + 1) - (n + 1) + i
      OBVIOUS
    <3>1. sess[b] \in Nat /\ n \in Nat
      BY <1>3, <2>2
    <3>2. CASE i \in 1 .. n
      <4>1. TxBuf'[b][i] = sess[b] - n + i
        BY <2>3, <2>4, <3>2
      <4> QED
        BY <3>1, <4>1
    <3>3. CASE i = n + 1
      BY <2>4, <3>1, <3>3
    <3> QED
      BY <3>1, <3>2, <3>3
  <2>6. SnapStart(b)' = SnapStart(b)
    BY <1>3 DEF SnapStart
  <2>7. NextStmt(b)' = sess[b] - n + 1
    <3>1. NextStmt(b)' = (sess[b] + 1) - (n + 1) + 1
      BY <1>3, <2>4 DEF NextStmt
    <3>2. sess[b] \in Nat /\ n \in Nat
      BY <1>3, <2>2
    <3> QED
      BY <3>1, <3>2
  <2>8. Buffered(b)'
    BY <1>3, <1>8, <2>1, <2>3, <2>4, <2>5, <2>6, <2>7 DEF Buffered
  <2>9. Said(b)'
    BY <1>1, <1>3, <1>8, <2>1, SaidKept DEF Unsaid
  <2> QED
    BY <1>5, <1>6, <2>1, <2>8, <2>9 DEF Local
<1> QED
  BY <1>7, <1>8

\* A connection that ends leaves nothing behind, and its successor begins with nothing.
LEMMA ExitKeeps ==
  ASSUME TypeOK, CountInv, generation <= 1, Begun, NEW b \in Backends, Local(b),
         pgr_exit(b)
  PROVE  /\ Local(b)'
         /\ conn'[b] = conn[b] + 1
         /\ \/ ring' = ring
            \/ \E m : /\ IsOf(m, b) /\ m.gen = 1 /\ Continues(b, m)
                      /\ ring' = Append(ring, m)
<1>1. Adopted(b) /\ Placed(b) /\ Buffered(b) /\ Said(b)
  BY DEF Local
<1>2. /\ generation' = generation /\ running' = running /\ generation \in Nat
  BY HooksApart, Functions DEF Hook
<1>3. /\ pc[b] = "exit" /\ pc'[b] = "idle"
      /\ conn'[b] = conn[b] + 1 /\ conn[b] \in Nat /\ sess[b] \in Nat
      /\ sess'[b] = 0 /\ CaptureLive'[b] = FALSE /\ MyCaptureGen'[b] = 0
      /\ TxBuf'[b] = <<>> /\ SkipSnap'[b] = FALSE
      /\ TxOpen'[b] = TxOpen[b] /\ TxCaptured'[b] = TxCaptured[b]
  BY Functions DEF pgr_exit, Goto
<1>4. ~TxOpen[b] /\ ~TxCaptured[b]
  BY <1>1, <1>3 DEF CountInv, XactPc, Closed, Placed
<1>5. Adopted(b)'
  BY <1>2, <1>3, <1>4 DEF Adopted
<1>6. Placed(b)'
  BY <1>3, <1>4 DEF Placed
<1>7. Buffered(b)'
  BY <1>3, <1>4 DEF Buffered
<1>8. ring' = ring \/ \E m : /\ IsOf(m, b) /\ m.gen = 1 /\ Continues(b, m)
                             /\ ring' = Append(ring, m)
  <2>1. SUFFICES ASSUME CaptureLive[b], running, MyCaptureGen[b] = generation,
                        ring' = Append(ring, Message("Disconnect", b, sess[b] + 1))
                 PROVE  \E m : /\ IsOf(m, b) /\ m.gen = 1 /\ Continues(b, m)
                               /\ ring' = Append(ring, m)
    BY DEF pgr_exit, Push
  <2>2. TxBuf[b] = <<>> /\ Going(b)
    BY <1>1, <1>3, <2>1 DEF Buffered, Going
  <2>3. NextStmt(b) = sess[b] + 1
    BY <1>3, <2>2 DEF NextStmt
  <2>4. PICK m : m = Message("Disconnect", b, NextStmt(b)) /\ ring' = Append(ring, m)
    BY <2>1, <2>3
  <2>5. IsOf(m, b) /\ m.gen = MyCaptureGen[b] /\ Continues(b, m)
    BY <1>1, <2>1, <2>2, <2>4, MessageIsOf, NextContinues
  <2>6. m.gen = 1
    BY <1>1, <2>1, <2>5 DEF Adopted
  <2> QED
    BY <2>4, <2>5, <2>6
<1>9. \A j \in DOMAIN ring' : ~IsOf(ring[j], b)'
  <2>1. \A j \in DOMAIN ring : ~IsLsn(ring[j]) /\ ring[j].be = b => ring[j].conn <= conn[b]
    BY DEF Begun
  <2>2. \A j \in DOMAIN ring' : \/ j \in DOMAIN ring /\ ring'[j] = ring[j]
                                \/ IsOf(ring'[j], b)
    BY <1>8, Functions, RingAppend
  <2> QED
    BY <1>3, <2>1, <2>2 DEF IsOf
<1>10. Said(b)'
  BY <1>3, <1>9 DEF Said
<1> QED
  BY <1>3, <1>5, <1>6, <1>7, <1>8, <1>10 DEF Local

\* Every step of a backend keeps its part, and says at most what continues it.
LEMMA OwnStep ==
  ASSUME TypeOK, CountInv, generation <= 1, Begun, NEW b \in Backends, Local(b),
         Client(b) \/ Hook(b)
  PROVE  /\ Local(b)'
         /\ conn'[b] >= conn[b]
         /\ \/ ring' = ring
            \/ \E m : /\ IsOf(m, b) /\ m.gen = 1 /\ Continues(b, m)
                      /\ ring' = Append(ring, m)
<1>1. conn'[b] >= conn[b]
  <2>1. pgr_exit(b) \/ conn'[b] = conn[b]
    BY DEF Client, Hook, XactEnter, NextMessage, Commit, Abort, Exit, GateSkip, GatePass,
           AdoptCapture, SameCapture, acquire_client_id, GateLive, GoLive, FlushTxBuf,
           FlushToFinish, EndTx, Emit, xact_leave_shared, FinishCaptured, FinishOther,
           FinishGoesLive, FinishDrops, life
  <2>2. conn[b] \in Nat
    BY Functions
  <2> QED
    BY <2>1, <2>2, ExitKeeps
<1>2. CASE Commit(b) \/ Abort(b) \/ Exit(b)
  <2>1. Steady(b) /\ ring' = ring
    <3> USE Functions DEF Steady, Rest, Goto, stream, txVars, ident, buf, life
    <3>1. CASE Commit(b) \/ Abort(b)
      BY <3>1 DEF Commit, Abort, CanEndTx
    <3>2. CASE Exit(b)
      BY <3>2 DEF Exit
    <3> QED
      BY <1>2, <3>1, <3>2
  <2> QED
    BY <1>1, <2>1, HooksApart, LocalKept DEF Unsaid
<1>3. CASE NextMessage(b) \/ GatePass(b) \/ SameCapture(b) \/ FinishCaptured(b)
           \/ FinishGoesLive(b)
  <2>1. ring' = ring
    BY <1>3 DEF NextMessage, GatePass, SameCapture, FinishCaptured, FinishGoesLive, stream
  <2> QED
    BY <1>1, <1>3, <2>1, ControlKeeps
<1>4. CASE XactEnter(b) \/ GateSkip(b) \/ AdoptCapture(b) \/ acquire_client_id(b)
           \/ GateLive(b)
  <2>1. ring' = ring
    BY <1>4 DEF XactEnter, GateSkip, AdoptCapture, acquire_client_id, GateLive, stream
  <2> QED
    BY <1>1, <1>4, <2>1, EnterKeeps, SkipKeeps, AdoptKeeps, ClientKeeps, GateKeeps
<1>5. CASE FlushToFinish(b) \/ FinishOther(b) \/ FinishDrops(b) \/ xact_leave_shared(b)
  <2>1. ring' = ring
    BY <1>5 DEF FlushToFinish, FinishOther, FinishDrops, EndTx, xact_leave_shared, stream
  <2> QED
    BY <1>1, <1>5, <2>1, EndKeeps, LeaveKeeps
<1>6. CASE GoLive(b) \/ FlushTxBuf(b) \/ Emit(b) \/ pgr_exit(b)
  BY <1>1, <1>6, GoLiveKeeps, FlushKeeps, EmitKeeps, ExitKeeps
<1> QED
  BY <1>2, <1>3, <1>4, <1>5, <1>6 DEF Client, Hook

----------------------------------------------------------------------------
(* The invariant of the stream.                                            *)

\* The publication of the first capture: nobody has adopted one yet.
LEMMA PublishKeepsStream ==
  ASSUME TypeOK, generation' <= 1, StreamInv, NEW a \in Admins, StartPublish(a)
  PROVE  StreamInv'
<1>1. /\ generation = 0 /\ generation' = 1 /\ ring' = ring
      /\ \A b \in Backends : Steady(b)
  <2>1. generation = 0 /\ generation' = 1 /\ ring' = ring
    BY Functions DEF StartPublish, stream
  <2> QED
    BY <2>1, OthersApart
<1>2. Begun' /\ ClientStream'
  BY <1>1 DEF StreamInv, Begun, ClientStream, Before, Steady
<1>3. ASSUME NEW b \in Backends PROVE Local(b)'
  <2>1. /\ MyCaptureGen[b] = 0 /\ ~CaptureLive[b] /\ ~TxCaptured[b] /\ TxBuf[b] = <<>>
        /\ pc[b] \notin {"adopt", "client", "live", "connect", "emit", "ready"}
    BY <1>1, Functions DEF StreamInv, Local, Adopted, Buffered
  <2>2. Local(b) /\ Steady(b)
    BY <1>1 DEF StreamInv
  <2>3. Adopted(b)'
    BY <1>1, <2>1, <2>2 DEF Adopted, Steady, Rest
  <2>4. Placed(b)'
    BY <2>1, <2>2 DEF Local, Placed, Steady, Rest
  <2>5. Buffered(b)'
    BY <2>1, <2>2 DEF Buffered, Steady
  <2>6. Said(b)'
    BY <1>1, <2>1, <2>2 DEF Local, Said, IsOf, Steady
  <2> QED
    BY <2>3, <2>4, <2>5, <2>6 DEF Local
<1> QED
  BY <1>2, <1>3 DEF StreamInv

\* Every step of the first capture keeps the stream whole.
LEMMA StreamStep ==
  ASSUME TypeOK, TypeOK', CountInv, generation <= 1, generation' <= 1, StreamInv,
         [Next]_vars
  PROVE  StreamInv'
<1>1. CASE \E a \in Admins : StartPublish(a)
  BY <1>1, PublishKeepsStream
<1>2. ASSUME ~ \E a \in Admins : StartPublish(a),
             \/ \E p \in Procs : Sync(p)
             \/ \E a \in Admins : \/ StartLock(a) \/ StartReset(a) \/ StartPublish(a)
                                  \/ WorkerReady(a) \/ WorkerFailed(a) \/ Stop(a)
             \/ UNCHANGED vars
      PROVE  StreamInv'
  <2>1. /\ generation' = generation /\ (running' => running)
        /\ \A b \in Backends : Steady(b)
    BY <1>2, OthersApart
  <2>2. ring' = ring \/ \E m \in Messages : IsLsn(m) /\ ring' = Append(ring, m)
    <3>1. CASE \E p \in Procs : Sync(p)
      <4>1. \A p \in Procs : LsnMessage(p) \in Messages /\ IsLsn(LsnMessage(p))
        BY DEF LsnMessage, Messages, IsLsn, TypeOK, TypeSync
      <4> QED
        BY <3>1, <4>1 DEF Sync, ReadLsn, PushLsn, SetReady, Push, stream
    <3>2. CASE ~ \E p \in Procs : Sync(p)
      BY <1>2, <3>2 DEF StartLock, StartReset, WorkerReady, WorkerFailed, Stop, stream,
                        vars
    <3> QED
      BY <3>1, <3>2
  <2>3. \A b \in Backends : Unsaid(b)
    BY <2>2 DEF Unsaid, IsOf
  <2>4. \A b \in Backends : Local(b)'
    BY <2>1, <2>3, LocalKept DEF StreamInv
  <2>5. Begun'
    BY <2>1, <2>2, Functions, RingAppend DEF StreamInv, Begun, Steady
  <2>6. ClientStream'
    BY <2>2, LsnKeepsStream DEF StreamInv, ClientStream, Before
  <2> QED
    BY <2>4, <2>5, <2>6 DEF StreamInv
<1>3. ASSUME NEW b \in Backends, Client(b) \/ Hook(b)
      PROVE  StreamInv'
  <2>1. /\ Begun /\ ClientStream /\ \A c \in Backends : Local(c)
    BY DEF StreamInv
  <2>2. /\ Local(b)' /\ conn'[b] >= conn[b]
        /\ \/ ring' = ring
           \/ \E m : /\ IsOf(m, b) /\ m.gen = 1 /\ Continues(b, m)
                     /\ ring' = Append(ring, m)
    BY <1>3, <2>1, OwnStep
  <2>3. /\ generation' = generation /\ running' = running
        /\ \A c \in Backends \ {b} : Steady(c)
    BY <1>3, HooksApart
  <2>4. ASSUME NEW c \in Backends \ {b} PROVE Local(c)'
    <3>1. Unsaid(c)
      BY <2>2 DEF Unsaid, IsOf
    <3> QED
      BY <2>1, <2>3, <3>1, LocalKept
  <2>5. ClientStream'
    BY <2>1, <2>2, PushKeepsStream DEF ClientStream, Before
  <2>6. Begun'
    <3>1. \A c \in Backends : conn'[c] >= conn[c] /\ conn[c] \in Nat /\ conn'[c] \in Nat
      <4>1. conn \in [Backends -> Nat] /\ conn' \in [Backends -> Nat]
        BY DEF TypeOK, TypeLife
      <4>2. \A c \in Backends \ {b} : conn'[c] = conn[c]
        BY <2>3 DEF Steady
      <4> QED
        BY <2>2, <4>1, <4>2
    <3>3. \A j \in DOMAIN ring : ring[j].conn \in Nat
      BY MessageNats
    <3>2. \A j \in DOMAIN ring' : \/ j \in DOMAIN ring /\ ring'[j] = ring[j]
                                  \/ IsOf(ring'[j], b) /\ ring'[j].gen = 1
      BY <2>2, Functions, RingAppend
    <3> QED
      BY <2>1, <3>1, <3>2, <3>3 DEF Begun, IsOf
  <2> QED
    BY <2>2, <2>4, <2>5, <2>6 DEF StreamInv
<1> QED
  BY <1>1, <1>2, <1>3 DEF Next, Start

\* As long as there is one capture, its stream can be replayed connection by
\* connection: Connect before the first statement, every statement after it once and in
\* order, Disconnect at the end.
THEOREM FirstCaptureReplays == Spec => []FirstClientStream
<1> DEFINE Inv == generation <= 1 => StreamInv
<1>1. Init => Inv
  BY DEF Init, StreamInv, Begun, ClientStream, Local, Adopted, Placed, Buffered, Said, Procs
<1>2. IInv /\ IInv' /\ Inv /\ [Next]_vars => Inv'
  BY StreamStep, OpenStep, Functions DEF IInv
<1>3. Inv => FirstClientStream
  BY DEF StreamInv, FirstClientStream
<1> QED
  BY Invariance, <1>1, <1>2, <1>3, PTL DEF Spec

----------------------------------------------------------------------------
(* Positions of the log.                                                   *)

\* The ring and the log only grow.
LEMMA RingGrows ==
  ASSUME TypeOK, [Next]_vars
  PROVE  \A j \in DOMAIN ring : j \in DOMAIN ring' /\ ring'[j] = ring[j]
<1>1. ring' = ring \/ \E m : ring' = Append(ring, m)
  BY WhoPushes DEF GoLive, FlushTxBuf, Push
<1> QED
  BY <1>1, Functions, RingAppend

\* The record that a commit writes.
CommitOf(b) ==
  [be |-> b, conn |-> conn[b], first |-> tx[b].first, upto |-> sess[b],
   epoch |-> tx[b].epoch, ready |-> tx[b].ready]

LEMMA WhoCommits ==
  ASSUME TypeOK, [Next]_vars
  PROVE  \/ wal' = wal
         \/ \E b \in Backends : Commit(b) /\ wal' = Append(wal, CommitOf(b))
<1> USE DEF stream
<1>1. CASE \E p \in Procs : Sync(p)
  BY <1>1 DEF Sync, ReadLsn, PushLsn, SetReady
<1>2. CASE \E a \in Admins : StartLock(a) \/ Start(a) \/ Stop(a)
  BY <1>2 DEF StartLock, Start, StartReset, StartPublish, WorkerReady, WorkerFailed, Stop
<1>3. ASSUME NEW b \in Backends, Client(b)
      PROVE  wal' = wal \/ (Commit(b) /\ wal' = Append(wal, CommitOf(b)))
  BY <1>3 DEF Client, XactEnter, NextMessage, Commit, Abort, Exit, CommitOf
<1>4. ASSUME NEW b \in Backends,
             \/ GateSkip(b) \/ GatePass(b) \/ AdoptCapture(b) \/ SameCapture(b)
             \/ acquire_client_id(b) \/ GateLive(b) \/ GoLive(b) \/ FlushTxBuf(b)
             \/ FlushToFinish(b) \/ Emit(b)
      PROVE  wal' = wal
  BY <1>4 DEF GateSkip, GatePass, AdoptCapture, SameCapture, acquire_client_id,
              GateLive, GoLive, FlushTxBuf, FlushToFinish, EndTx, Emit
<1>5. ASSUME NEW b \in Backends,
             \/ xact_leave_shared(b) \/ FinishCaptured(b) \/ FinishOther(b)
             \/ FinishGoesLive(b) \/ FinishDrops(b) \/ pgr_exit(b)
      PROVE  wal' = wal
  BY <1>5 DEF xact_leave_shared, FinishCaptured, FinishOther, FinishGoesLive,
              FinishDrops, EndTx, pgr_exit
<1>6. CASE UNCHANGED vars
  BY <1>6 DEF vars
<1> QED
  BY <1>1, <1>2, <1>3, <1>4, <1>5, <1>6 DEF Next, Hook

\* Positions are positions of the log, who syncs does so for a capture, and what has
\* committed was entered in a generation there has been.
ReadPositions == \A p \in Procs : pc[p] = "pushlsn" => lsn[p] <= Len(wal)
PushedPositions ==
  \A j \in DOMAIN ring : IsLsn(ring[j]) => ring[j].val <= Len(wal) /\ ring[j].gen >= 1
SyncsCapture == \A p \in Procs : last[p] => syncGen[p] >= 1
Epochs == \A i \in DOMAIN wal : wal[i].epoch <= generation

Positions == ReadPositions /\ PushedPositions /\ SyncsCapture /\ Epochs

LEMMA LogGrows ==
  ASSUME TypeOK, [Next]_vars
  PROVE  /\ Len(wal) \in Nat /\ Len(wal') \in Nat /\ Len(wal') >= Len(wal)
         /\ \A i \in DOMAIN wal' : \/ i \in DOMAIN wal /\ wal'[i] = wal[i]
                                   \/ /\ i = Len(wal) + 1
                                      /\ \E b \in Backends :
                                           Commit(b) /\ wal'[i] = CommitOf(b)
<1>1. wal \in Seq(CommitRecords)
  BY Functions
<1>2. CASE wal' = wal
  BY <1>1, <1>2
<1>3. ASSUME NEW b \in Backends, Commit(b), wal' = Append(wal, CommitOf(b))
      PROVE  /\ Len(wal') = Len(wal) + 1 /\ DOMAIN wal' = 1 .. (Len(wal) + 1)
             /\ Len(wal) \in Nat /\ DOMAIN wal = 1 .. Len(wal)
             /\ \A i \in DOMAIN wal : wal'[i] = wal[i]
             /\ wal'[Len(wal) + 1] = CommitOf(b)
  BY <1>1, <1>3
<1>4. CASE wal' # wal
  <2>1. PICK b \in Backends : Commit(b) /\ wal' = Append(wal, CommitOf(b))
    BY <1>4, WhoCommits
  <2>2. PICK n \in Nat : n = Len(wal)
    BY <1>3, <2>1
  <2>3. /\ Len(wal') = n + 1 /\ DOMAIN wal' = 1 .. (n + 1) /\ DOMAIN wal = 1 .. n
        /\ \A i \in DOMAIN wal : wal'[i] = wal[i]
        /\ wal'[n + 1] = CommitOf(b)
    BY <1>3, <2>1, <2>2
  <2> QED
    BY <2>1, <2>2, <2>3
<1> QED
  BY <1>2, <1>4

LEMMA PositionsStep == IInv /\ Positions /\ [Next]_vars => Positions'
<1> SUFFICES ASSUME IInv, Positions, [Next]_vars
             PROVE  Positions'
  OBVIOUS
<1>1. /\ TypeOK /\ CountInv /\ SyncPc
      /\ ReadPositions /\ PushedPositions /\ SyncsCapture /\ Epochs
  BY DEF IInv, SyncInv, Positions
<1>2. /\ ring \in Seq(Messages) /\ generation \in Nat /\ Procs = Backends \cup Admins
      /\ lsn \in [Procs -> Nat] /\ syncGen \in [Procs -> Nat] /\ last \in [Procs -> BOOLEAN]
      /\ pc \in [Procs -> Locations]
  BY <1>1, Functions DEF TypeOK, TypeSync, Procs
<1>3. Epochs'
  <2>1. \A b \in Backends : Commit(b) => CommitOf(b).epoch <= generation
    BY <1>1 DEF Commit, CanEndTx, CommitOf, CountInv, TagInv, Open
  <2>2. generation' \in Nat /\ generation <= generation'
    BY <1>1, <1>2, OpenStep
  <2>3. \A i \in DOMAIN wal' : wal'[i].epoch <= generation
    BY <1>1, <2>1, LogGrows DEF Epochs
  <2>4. \A i \in DOMAIN wal : wal[i].epoch \in Nat
    <3>1. \A i \in DOMAIN wal : wal[i] \in CommitRecords
      BY <1>1, Functions
    <3> QED
      BY <3>1 DEF CommitRecords
  <2>5. \A b \in Backends : CommitOf(b).epoch \in Nat
    BY <1>1, Functions DEF CommitOf, TxRecord
  <2>6. \A i \in DOMAIN wal' : wal'[i].epoch \in Nat
    BY <1>1, <2>4, <2>5, LogGrows
  <2> QED
    BY <1>2, <2>2, <2>3, <2>6 DEF Epochs
<1>4. ASSUME NEW q \in Procs, Plain(q)
      PROVE  ReadPositions' /\ PushedPositions' /\ SyncsCapture'
  <2>1. /\ last' = last /\ syncGen' = syncGen /\ lsn' = lsn
        /\ \A p \in Procs : pc'[p] = "pushlsn" => pc[p] = "pushlsn"
    BY <1>2, <1>4 DEF Plain
  <2>2. \A j \in DOMAIN ring' : IsLsn(ring'[j]) => j \in DOMAIN ring /\ ring'[j] = ring[j]
    BY <1>2, <1>4, RingAppend DEF Plain
  <2>3. ReadPositions'
    BY <1>1, <1>2, <2>1, LogGrows DEF ReadPositions
  <2>4. PushedPositions'
    BY <1>1, <2>2, LogGrows, MessageNats DEF PushedPositions
  <2> QED
    BY <1>1, <2>1, <2>3, <2>4 DEF SyncsCapture
<1>5. ASSUME NEW q \in Procs, Sync(q)
      PROVE  ReadPositions' /\ PushedPositions' /\ SyncsCapture'
  <2>1. wal' = wal /\ syncGen' = syncGen /\ \A p \in Procs : last'[p] => last[p]
    BY <1>2, <1>5 DEF Sync, ReadLsn, PushLsn, SetReady, stream, sync
  <2>2. ReadPositions'
    <3>1. CASE ReadLsn(q)
      BY <1>1, <1>2, <2>1, <3>1, LogGrows DEF ReadPositions, ReadLsn, Goto
    <3>2. CASE PushLsn(q) \/ SetReady(q)
      <4>1. lsn' = lsn /\ \A p \in Procs : pc'[p] = "pushlsn" => pc[p] = "pushlsn"
        BY <1>2, <3>2 DEF PushLsn, SetReady, AfterSync, Goto, sync
      <4> QED
        BY <1>1, <2>1, <4>1 DEF ReadPositions
    <3> QED
      BY <1>5, <3>1, <3>2 DEF Sync
  <2>3. PushedPositions'
    <3>1. CASE ring' = ring
      BY <1>1, <2>1, <3>1 DEF PushedPositions
    <3>2. CASE PushLsn(q) /\ ring' = Append(ring, LsnMessage(q))
      <4>1. LsnMessage(q).val <= Len(wal) /\ LsnMessage(q).gen >= 1
        BY <1>1, <3>2 DEF PushLsn, LsnMessage, ReadPositions, SyncsCapture, SyncPc
      <4> QED
        BY <1>1, <1>2, <2>1, <3>2, <4>1, RingAppend DEF PushedPositions
    <3> QED
      BY <1>5, <3>1, <3>2 DEF Sync, ReadLsn, PushLsn, SetReady, Push, stream
  <2> QED
    BY <1>1, <2>1, <2>2, <2>3 DEF SyncsCapture
<1>6. ASSUME \/ \E b \in Backends : xact_leave_shared(b)
             \/ \E a \in Admins : StartPublish(a) \/ WorkerFailed(a)
      PROVE  ReadPositions' /\ PushedPositions' /\ SyncsCapture'
  <2>1. ring' = ring /\ wal' = wal /\ lsn' = lsn
    BY <1>6 DEF xact_leave_shared, StartPublish, WorkerFailed, stream
  <2>2. \A p \in Procs : pc'[p] = "pushlsn" => pc[p] = "pushlsn"
    BY <1>2, <1>6 DEF xact_leave_shared, StartPublish, WorkerFailed, Goto
  <2>3. SyncsCapture'
    <3>1. CASE \E b \in Backends : xact_leave_shared(b)
      BY <1>1, <1>2, <3>1 DEF xact_leave_shared, CountsDown, xact_is_pre, SyncsCapture,
                              CountInv, TagInv
    <3>2. CASE \E a \in Admins : StartPublish(a)
      BY <1>1, <1>2, <3>2 DEF StartPublish, SyncsCapture
    <3>3. CASE \E a \in Admins : WorkerFailed(a)
      BY <1>1, <1>2, <3>3 DEF WorkerFailed, SyncsCapture
    <3> QED
      BY <1>6, <3>1, <3>2, <3>3
  <2> QED
    BY <1>1, <2>1, <2>2, <2>3 DEF ReadPositions, PushedPositions
<1>7. CASE UNCHANGED vars
  BY <1>1, <1>3, <1>7 DEF Positions, ReadPositions, PushedPositions, SyncsCapture, vars,
                          stream, sync
<1> QED
  BY <1>1, <1>3, <1>4, <1>5, <1>6, <1>7, PlainSteps, PlainStarts
     DEF Positions, Next, Client, Hook, Start, Procs

----------------------------------------------------------------------------
(* The transactions that are entered after the sync point.                 *)

\* The sync point of the first capture is in the stream.
Synced == \E j \in DOMAIN ring : IsLsn(ring[j]) /\ ring[j].gen = 1

\* The first capture runs, and nobody is about to replace it.
Settled == running /\ lock = NoProc /\ generation = 1

\* A statement of a connection is in the stream.
StmtSaid(b, c, k) ==
  \E j \in DOMAIN ring : /\ ring[j].type = "Stmt" /\ ring[j].gen = 1
                         /\ ring[j].be = b /\ ring[j].conn = c /\ ring[j].val = k

\* The same after the step, for values taken before it or after.
SaidThen(b, c, k) ==
  \E j \in DOMAIN ring' : /\ ring'[j].type = "Stmt" /\ ring'[j].gen = 1
                          /\ ring'[j].be = b /\ ring'[j].conn = c /\ ring'[j].val = k

\* Who has seen wal_ready has seen the sync point pushed.
ReadySynced == wal_ready \/ (\E p \in Procs : pc[p] = "setready") => Synced

\* A transaction that was entered after the sync point: it is of the capture, and its
\* backend is live when it gets to its statement.
ReadyTx(b) ==
  TxOpen[b] /\ tx[b].ready =>
    /\ tx[b].epoch = 1 /\ TxGen[b] = 1 /\ Synced
    /\ Settled => /\ wal_ready
                  /\ pc[b] = "emit" => CaptureLive[b]
                  /\ \A k \in tx[b].first .. sess[b] : StmtSaid(b, conn[b], k)

\* One that has committed is in the stream, and in the log behind the position.
ReadyWal ==
  \A i \in DOMAIN wal : wal[i].ready /\ wal[i].epoch = 1 =>
    /\ Settled => \A k \in wal[i].first .. wal[i].upto : StmtSaid(wal[i].be, wal[i].conn, k)
    /\ \E j \in DOMAIN ring : IsLsn(ring[j]) /\ ring[j].gen = 1 /\ ring[j].val < i

ReadyInv == ReadySynced /\ ReadyWal /\ \A b \in Backends : ReadyTx(b)

\* What is in the stream stays there.
LEMMA SaidForGood ==
  ASSUME TypeOK, [Next]_vars
  PROVE  /\ Synced => Synced'
         /\ \A b, c, k : StmtSaid(b, c, k) => SaidThen(b, c, k)
<1>1. Synced => Synced'
  BY RingGrows DEF Synced
<1>2. \A b, c, k : StmtSaid(b, c, k) => SaidThen(b, c, k)
  BY RingGrows DEF StmtSaid, SaidThen
<1> QED
  BY <1>1, <1>2

\* What the steps that matter here change; the others move one process and change
\* neither wal_ready, lock and running nor what transactions are open.
LEMMA SettledBefore ==
  ASSUME TypeOK, CountInv, [Next]_vars, generation <= 1, Settled'
  PROVE  \/ Settled /\ (wal_ready => wal_ready')
         \/ generation = 0
<1> USE CaptureSyncAssumption, Functions DEF Settled, chan, xacts
<1>1. ASSUME NEW b \in Backends, Client(b) \/ Hook(b)
      PROVE  Settled /\ wal_ready' = wal_ready
  <2>1. generation' = generation /\ running' = running /\ wal_ready' = wal_ready
    BY <1>1, HooksApart
  <2>2. lock' = lock
    BY <1>1 DEF Client, Hook, XactEnter, NextMessage, Commit, Abort, Exit, GateSkip,
                GatePass, AdoptCapture, SameCapture, acquire_client_id, GateLive, GoLive,
                FlushTxBuf, FlushToFinish, EndTx, Emit, xact_leave_shared, FinishCaptured,
                FinishOther, FinishGoesLive, FinishDrops, pgr_exit
  <2> QED
    BY <2>1, <2>2
<1>2. ASSUME NEW p \in Procs, Sync(p)
      PROVE  Settled /\ (wal_ready => wal_ready')
  BY <1>2 DEF Sync, ReadLsn, PushLsn, SetReady
<1>3. ASSUME NEW a \in Admins, StartLock(a) \/ StartReset(a)
      PROVE  FALSE
  BY <1>3 DEF StartLock, StartReset, CountInv, LockInv
<1>4. ASSUME NEW a \in Admins, StartPublish(a)
      PROVE  generation = 0
  BY <1>4 DEF StartPublish
<1>5. ASSUME NEW a \in Admins, WorkerReady(a) \/ WorkerFailed(a) \/ Stop(a)
      PROVE  Settled /\ wal_ready' = wal_ready
  BY <1>5 DEF WorkerReady, WorkerFailed, Stop
<1>6. CASE UNCHANGED vars
  BY <1>6 DEF vars
<1> QED
  BY <1>1, <1>2, <1>3, <1>4, <1>5, <1>6 DEF Next, Start

\* Who sees wal_ready set, or is about to set it, has the sync point before it.
LEMMA ReadySyncedStep ==
  ASSUME IInv, IInv', Positions, ReadySynced, [Next]_vars, generation <= 1
  PROVE  ReadySynced'
<1>1. /\ TypeOK /\ CountInv /\ SyncInv /\ pc \in [Procs -> Locations]
      /\ generation \in Nat /\ syncGen \in [Procs -> Nat]
  BY Functions DEF IInv, TypeOK, TypeSync
<1>2. CASE \E p \in Procs : PushLsn(p)
  <2>1. PICK p \in Procs : PushLsn(p)
    BY <1>2
  <2>2. pc[p] = "pushlsn" /\ ring' = Append(ring, LsnMessage(p))
    BY <2>1 DEF PushLsn, Push
  <2>3. last[p]
    BY <1>1, <2>2 DEF SyncInv, SyncPc
  <2>4. syncGen[p] >= 1 /\ syncGen[p] <= generation
    BY <1>1, <2>3 DEF Positions, SyncsCapture, SyncInv, SyncOpen, OpenSince
  <2>5. IsLsn(LsnMessage(p)) /\ LsnMessage(p).gen = 1
    BY <1>1, <2>4 DEF LsnMessage, IsLsn
  <2>6. Synced'
    BY <1>1, <2>2, <2>5, Functions, RingAppend DEF Synced
  <2> QED
    BY <2>6 DEF ReadySynced
<1>3. CASE /\ ~ \E p \in Procs : PushLsn(p)
           /\ wal_ready' => wal_ready \/ \E p \in Procs : pc[p] = "setready"
           /\ \A p \in Procs : pc'[p] = "setready" => pc[p] = "setready"
  BY <1>1, <1>3, SaidForGood DEF ReadySynced
<1>4. ASSUME NEW p \in Procs, Plain(p)
      PROVE  \A q \in Procs : pc'[q] = "setready" => pc[q] = "setready"
  BY <1>1, <1>4 DEF Plain
<1>5. ASSUME NEW b \in Backends, Client(b) \/ Hook(b)
      PROVE  /\ wal_ready' = wal_ready
             /\ \A q \in Procs : pc'[q] = "setready" => pc[q] = "setready"
  <2>1. CASE xact_leave_shared(b)
    BY <1>1, <2>1, HooksApart DEF xact_leave_shared, Goto, Hook
  <2>2. CASE ~xact_leave_shared(b)
    BY <1>1, <1>4, <1>5, <2>2, HooksApart, PlainSteps DEF Client, Hook, Procs
  <2> QED
    BY <2>1, <2>2
<1>6. ASSUME NEW a \in Admins, StartLock(a) \/ Start(a) \/ Stop(a)
      PROVE  /\ wal_ready' => wal_ready
             /\ \A q \in Procs : pc'[q] = "setready" => pc[q] = "setready"
  BY <1>1, <1>6 DEF StartLock, Start, StartReset, StartPublish, WorkerReady,
                    WorkerFailed, Stop, Goto, chan
<1>7. ASSUME NEW p \in Procs, ReadLsn(p) \/ SetReady(p)
      PROVE  /\ wal_ready' => wal_ready \/ pc[p] = "setready"
             /\ \A q \in Procs : pc'[q] = "setready" => pc[q] = "setready"
  BY <1>1, <1>7 DEF ReadLsn, SetReady, AfterSync, Goto, chan
<1>8. CASE UNCHANGED vars
  BY <1>1, <1>8, SaidForGood DEF ReadySynced, vars, chan
<1> QED
  BY <1>2, <1>3, <1>5, <1>6, <1>7, <1>8 DEF Next, Sync

\* What is known of a transaction stays so while its backend does not speak.
LEMMA ReadyTxKept ==
  ASSUME TypeOK, CountInv, [Next]_vars, generation <= 1, NEW c \in Backends, ReadyTx(c),
         TxOpen'[c] = TxOpen[c], tx'[c] = tx[c], TxGen'[c] = TxGen[c],
         sess'[c] = sess[c], conn'[c] = conn[c],
         pc'[c] = "emit" => \/ pc[c] = "emit" /\ CaptureLive'[c] = CaptureLive[c]
                            \/ CaptureLive'[c] \/ ~wal_ready
  PROVE  ReadyTx(c)'
<1> SUFFICES ASSUME TxOpen[c], tx[c].ready
             PROVE  ReadyTx(c)'
  BY DEF ReadyTx
<1>1. /\ tx[c].epoch = 1 /\ TxGen[c] = 1 /\ Synced
      /\ Settled => /\ wal_ready
                    /\ pc[c] = "emit" => CaptureLive[c]
                    /\ \A k \in tx[c].first .. sess[c] : StmtSaid(c, conn[c], k)
  BY DEF ReadyTx
<1>2. generation # 0
  BY <1>1 DEF CountInv, TagInv, Open
<1>3. Settled' => Settled /\ wal_ready'
  BY <1>1, <1>2, SettledBefore
<1>4. Settled' => /\ pc'[c] = "emit" => CaptureLive'[c]
                  /\ \A k \in tx[c].first .. sess[c] : SaidThen(c, conn[c], k)
  BY <1>1, <1>3, SaidForGood
<1>6. Settled' => \A k \in tx'[c].first .. sess'[c] : SaidThen(c, conn'[c], k)
  BY <1>4
<1>7. Synced'
  BY <1>1, SaidForGood
<1> QED
  BY <1>1, <1>3, <1>4, <1>6, <1>7 DEF ReadyTx, StmtSaid, SaidThen

\* A transaction that sees wal_ready when it is entered is one of the capture.
LEMMA EnterReady ==
  ASSUME TypeOK, CountInv, generation <= 1, ReadySynced, NEW c \in Backends, XactEnter(c),
         [Next]_vars
  PROVE  ReadyTx(c)'
<1>1. /\ TxOpen'[c] /\ TxGen'[c] = EnterGen /\ pc'[c] = "gate"
      /\ tx'[c].first = sess[c] + 1 /\ tx'[c].epoch = generation
      /\ tx'[c].ready = (running /\ wal_ready)
      /\ sess'[c] = sess[c] /\ sess[c] \in Nat /\ wal_ready' = wal_ready
  BY Functions DEF XactEnter, Goto, life, chan
<1> SUFFICES ASSUME running, wal_ready
             PROVE  ReadyTx(c)'
  BY <1>1 DEF ReadyTx
<1>2. generation = 1 /\ EnterGen = 1
  BY FirstRuns DEF EnterGen
<1>3. Synced'
  BY SaidForGood DEF ReadySynced
<1>4. tx'[c].first .. sess'[c] = {}
  BY <1>1
<1> QED
  BY <1>1, <1>2, <1>3, <1>4 DEF ReadyTx

\* A statement of such a transaction is pushed: its backend is live.
LEMMA EmitReady ==
  ASSUME TypeOK, CountInv, generation <= 1, NEW c \in Backends, Local(c), ReadyTx(c),
         Emit(c), [Next]_vars
  PROVE  ReadyTx(c)'
<1>1. /\ TxOpen'[c] = TxOpen[c] /\ tx'[c] = tx[c] /\ TxGen'[c] = TxGen[c]
      /\ sess'[c] = sess[c] + 1 /\ conn'[c] = conn[c] /\ pc'[c] = "idle"
      /\ pc[c] \in {"emit", "flush"} /\ sess[c] \in Nat /\ tx[c].first \in Nat
  BY Functions DEF Emit, Goto, txVars, TxRecord
<1> SUFFICES ASSUME TxOpen[c], tx[c].ready
             PROVE  ReadyTx(c)'
  BY <1>1 DEF ReadyTx
<1>2. /\ tx[c].epoch = 1 /\ TxGen[c] = 1 /\ Synced
      /\ Settled => /\ wal_ready
                    /\ pc[c] = "emit" => CaptureLive[c]
                    /\ \A k \in tx[c].first .. sess[c] : StmtSaid(c, conn[c], k)
  BY DEF ReadyTx
<1>3. generation # 0
  BY <1>2 DEF CountInv, TagInv, Open
<1>4. Settled' => Settled /\ wal_ready'
  BY <1>2, <1>3, SettledBefore
<1>5. Synced'
  BY <1>2, SaidForGood
<1>6. ASSUME Settled', NEW k \in tx[c].first .. (sess[c] + 1)
      PROVE  SaidThen(c, conn[c], k)
  <2>1. CASE k \in tx[c].first .. sess[c]
    BY <1>2, <1>4, <1>6, <2>1, SaidForGood
  <2>2. CASE k = sess[c] + 1
    <3>1. CaptureLive[c] /\ MyCaptureGen[c] = 1
      BY <1>1, <1>2, <1>4, <1>6 DEF Local, Placed, Adopted
    <3>2. PICK m : m = Message("Stmt", c, k) /\ ring' = Append(ring, m)
      BY <2>2, <3>1 DEF Emit, Push
    <3>3. m.type = "Stmt" /\ m.gen = 1 /\ m.be = c /\ m.conn = conn[c] /\ m.val = k
      BY <3>1, <3>2, MessageIsOf
    <3> QED
      BY <3>2, <3>3, Functions, RingAppend DEF SaidThen
  <2> QED
    BY <1>1, <2>1, <2>2
<1>7. Settled' => \A k \in tx'[c].first .. sess'[c] : SaidThen(c, conn'[c], k)
  BY <1>1, <1>6
<1> QED
  BY <1>1, <1>2, <1>4, <1>5, <1>7 DEF ReadyTx, StmtSaid, SaidThen

\* Every step keeps what is known of a transaction.
LEMMA ReadyTxStep ==
  ASSUME TypeOK, CountInv, generation <= 1, StreamInv, ReadySynced, [Next]_vars,
         NEW c \in Backends, ReadyTx(c)
  PROVE  ReadyTx(c)'
<1>1. CASE Steady(c)
  BY <1>1, ReadyTxKept DEF Steady, Rest
<1>2. CASE XactEnter(c)
  BY <1>2, EnterReady
<1>3. CASE Emit(c)
  BY <1>3, EmitReady DEF StreamInv
<1>4. CASE GateSkip(c)
  <2>1. /\ TxOpen'[c] = TxOpen[c] /\ tx'[c] = tx[c] /\ TxGen'[c] = TxGen[c]
        /\ pc'[c] = "idle" /\ (~running \/ TxGen[c] # generation)
    BY <1>4, Functions DEF GateSkip, xact_is_pre, Goto, txVars
  <2> SUFFICES ASSUME TxOpen[c], tx[c].ready
               PROVE  ReadyTx(c)'
    BY <2>1 DEF ReadyTx
  <2>2. tx[c].epoch = 1 /\ TxGen[c] = 1 /\ Synced /\ generation # 0
    BY DEF ReadyTx, CountInv, TagInv, Open
  <2>3. ~Settled'
    BY <2>1, <2>2, SettledBefore DEF Settled
  <2> QED
    BY <2>1, <2>2, <2>3, SaidForGood DEF ReadyTx
<1>5. CASE xact_leave_shared(c) \/ pgr_exit(c)
  <2>1. ~TxOpen'[c]
    BY <1>5, Functions DEF xact_leave_shared, pgr_exit, CountInv, XactPc, Closed
  <2> QED
    BY <2>1 DEF ReadyTx
<1>6. ASSUME \/ NextMessage(c) \/ Commit(c) \/ Abort(c) \/ Exit(c) \/ GatePass(c)
             \/ AdoptCapture(c) \/ SameCapture(c) \/ acquire_client_id(c) \/ GateLive(c)
      PROVE  ReadyTx(c)'
  <2>1. /\ TxOpen'[c] = TxOpen[c] /\ tx'[c] = tx[c] /\ TxGen'[c] = TxGen[c]
        /\ sess'[c] = sess[c] /\ conn'[c] = conn[c]
    BY <1>6 DEF NextMessage, Commit, Abort, Exit, GatePass, AdoptCapture, SameCapture,
                acquire_client_id, GateLive, txVars, life
  <2>2. pc'[c] = "emit" => CaptureLive'[c] \/ ~wal_ready
    <3>1. CASE GateLive(c)
      BY <3>1, Functions DEF GateLive, GoesLive, Goto
    <3>2. CASE ~GateLive(c)
      BY <1>6, <3>2, Functions DEF NextMessage, Commit, Abort, Exit, GatePass,
         AdoptCapture, SameCapture, acquire_client_id, Goto
    <3> QED
      BY <3>1, <3>2
  <2> QED
    BY <2>1, <2>2, ReadyTxKept
<1>7. ASSUME \/ GoLive(c) \/ FlushTxBuf(c) \/ FlushToFinish(c) \/ FinishCaptured(c)
             \/ FinishOther(c) \/ FinishGoesLive(c) \/ FinishDrops(c)
      PROVE  ReadyTx(c)'
  <2>1. /\ TxOpen'[c] = TxOpen[c] /\ tx'[c] = tx[c] /\ TxGen'[c] = TxGen[c]
        /\ sess'[c] = sess[c] /\ conn'[c] = conn[c]
    BY <1>7 DEF GoLive, FlushTxBuf, FlushToFinish, FinishCaptured, FinishOther,
                FinishGoesLive, FinishDrops, EndTx, txVars, life
  <2>2. pc'[c] # "emit"
    <3>1. CASE FlushTxBuf(c)
      BY <3>1 DEF FlushTxBuf
    <3>2. CASE FlushToFinish(c) \/ FinishOther(c) \/ FinishDrops(c)
      BY <3>2, Functions DEF FlushToFinish, FinishOther, FinishDrops, EndTx, AfterTx, Goto
    <3>3. CASE GoLive(c) \/ FinishCaptured(c) \/ FinishGoesLive(c)
      BY <3>3, Functions DEF GoLive, FinishCaptured, FinishGoesLive, Goto
    <3> QED
      BY <1>7, <3>1, <3>2, <3>3
  <2> QED
    BY <2>1, <2>2, ReadyTxKept
<1>8. CASE ~(Client(c) \/ Hook(c))
  <2>1. CASE \E b \in Backends : Client(b) \/ Hook(b)
    BY <1>1, <1>8, <2>1, HooksApart
  <2>2. CASE ~ \E b \in Backends : Client(b) \/ Hook(b)
    BY <1>1, <2>2, OthersApart DEF Next, Start
  <2> QED
    BY <2>1, <2>2
<1> QED
  BY <1>2, <1>3, <1>4, <1>5, <1>6, <1>7, <1>8 DEF Client, Hook

\* A transaction commits with what is known of it, behind the sync point.
LEMMA ReadyWalStep ==
  ASSUME TypeOK, CountInv, generation <= 1, Positions, ReadyInv, [Next]_vars
  PROVE  ReadyWal'
<1>1. Len(wal) \in Nat
  BY LogGrows
<1>2. Settled' => Settled \/ generation = 0
  BY SettledBefore
<1> SUFFICES ASSUME NEW i \in DOMAIN wal', wal'[i].ready, wal'[i].epoch = 1
             PROVE  /\ Settled' => \A k \in wal'[i].first .. wal'[i].upto :
                                     SaidThen(wal'[i].be, wal'[i].conn, k)
                    /\ \E j \in DOMAIN ring' :
                         IsLsn(ring'[j]) /\ ring'[j].gen = 1 /\ ring'[j].val < i
  BY DEF ReadyWal, StmtSaid, SaidThen, IsLsn
<1>3. CASE i \in DOMAIN wal /\ wal'[i] = wal[i]
  <2>1. generation # 0
    BY <1>3 DEF Positions, Epochs
  <2>2. PICK j \in DOMAIN ring : IsLsn(ring[j]) /\ ring[j].gen = 1 /\ ring[j].val < i
    BY <1>3 DEF ReadyInv, ReadyWal
  <2>3. j \in DOMAIN ring' /\ ring'[j] = ring[j]
    BY RingGrows
  <2>4. Settled => \A k \in wal[i].first .. wal[i].upto :
                     StmtSaid(wal[i].be, wal[i].conn, k)
    BY <1>3 DEF ReadyInv, ReadyWal
  <2>5. Settled' => \A k \in wal'[i].first .. wal'[i].upto :
                      SaidThen(wal[i].be, wal[i].conn, k)
    BY <1>2, <1>3, <2>1, <2>4, SaidForGood
  <2>6. Settled' => \A k \in wal'[i].first .. wal'[i].upto :
                      SaidThen(wal'[i].be, wal'[i].conn, k)
    BY <1>3, <2>5
  <2> QED
    BY <2>2, <2>3, <2>6
<1>5. ASSUME i = Len(wal) + 1, NEW b \in Backends, Commit(b), wal'[i] = CommitOf(b)
      PROVE  /\ Settled' => \A k \in wal'[i].first .. wal'[i].upto :
                              SaidThen(wal'[i].be, wal'[i].conn, k)
             /\ \E j \in DOMAIN ring' :
                  IsLsn(ring'[j]) /\ ring'[j].gen = 1 /\ ring'[j].val < i
  <2>1. /\ wal'[i].be = b /\ wal'[i].conn = conn[b] /\ wal'[i].first = tx[b].first
        /\ wal'[i].upto = sess[b] /\ tx[b].ready /\ TxOpen[b]
    BY <1>5 DEF CommitOf, Commit, CanEndTx
  <2>2. /\ tx[b].epoch = 1 /\ TxGen[b] = 1 /\ Synced
        /\ Settled => \A k \in tx[b].first .. sess[b] : StmtSaid(b, conn[b], k)
    BY <2>1 DEF ReadyInv, ReadyTx
  <2>3. generation # 0
    BY <2>1, <2>2 DEF CountInv, TagInv, Open
  <2>4. PICK j \in DOMAIN ring : IsLsn(ring[j]) /\ ring[j].gen = 1
    BY <2>2 DEF Synced
  <2>5. ring[j].val \in Nat /\ ring[j].val <= Len(wal)
    BY <2>4, MessageNats DEF Positions, PushedPositions
  <2>6. ring[j].val < i
    BY <1>1, <1>5, <2>5
  <2>7. j \in DOMAIN ring' /\ ring'[j] = ring[j]
    BY RingGrows
  <2>8. ASSUME Settled', NEW k \in wal'[i].first .. wal'[i].upto
        PROVE  SaidThen(wal'[i].be, wal'[i].conn, k)
    <3>1. PICK n \in DOMAIN ring' :
            /\ ring'[n].type = "Stmt" /\ ring'[n].gen = 1
            /\ ring'[n].be = b /\ ring'[n].conn = conn[b] /\ ring'[n].val = k
      <4>1. \E n \in DOMAIN ring :
              /\ ring[n].type = "Stmt" /\ ring[n].gen = 1
              /\ ring[n].be = b /\ ring[n].conn = conn[b] /\ ring[n].val = k
        BY <1>2, <2>1, <2>2, <2>3, <2>8 DEF StmtSaid
      <4> QED
        BY <4>1, RingGrows
    <3> QED
      BY <2>1, <3>1 DEF SaidThen
  <2> QED
    BY <2>4, <2>6, <2>7, <2>8
<1> QED
  BY <1>3, <1>5, LogGrows

LEMMA ReadyStep ==
  ASSUME IInv, IInv', generation <= 1, StreamInv, Positions, ReadyInv, [Next]_vars
  PROVE  ReadyInv'
<1>1. TypeOK /\ CountInv /\ ReadySynced /\ \A b \in Backends : ReadyTx(b)
  BY DEF IInv, ReadyInv
<1>2. ReadySynced'
  BY <1>1, ReadySyncedStep
<1>3. ReadyWal'
  BY <1>1, ReadyWalStep
<1>4. ASSUME NEW b \in Backends
      PROVE  ReadyTx(b)'
  BY <1>1, <1>4, ReadyTxStep
<1> QED
  BY <1>2, <1>3, <1>4 DEF ReadyInv

\* As long as there is one capture, a transaction that was entered after the sync point
\* is captured whole before it commits and is behind the position in the log.
THEOREM FirstReadyCaptured == Spec => []FirstReadyTxCaptured
<1> DEFINE Inv == Positions /\ (generation <= 1 => StreamInv /\ ReadyInv)
<1>1. Init => Inv
  <2> SUFFICES ASSUME Init
               PROVE  Inv
    OBVIOUS
  <2>1. Positions
    BY DEF Init, Positions, ReadPositions, PushedPositions, SyncsCapture, Epochs
  <2>2. StreamInv
    BY DEF Init, StreamInv, Begun, ClientStream, Local, Adopted, Placed, Buffered, Said,
           Procs
  <2>3. ReadyInv
    BY DEF Init, ReadyInv, ReadySynced, ReadyWal, ReadyTx, Procs
  <2> QED
    BY <2>1, <2>2, <2>3
<1>2. IInv /\ IInv' /\ Inv /\ [Next]_vars => Inv'
  BY StreamStep, ReadyStep, PositionsStep, OpenStep, Functions DEF IInv
<1>3. IInv /\ OneLsnPerCapture /\ Inv => FirstReadyTxCaptured
  <2> SUFFICES ASSUME IInv, OneLsnPerCapture, ReadyWal,
                      generation <= 1, running, lock = NoProc,
                      NEW i \in DOMAIN wal, wal[i].ready, wal[i].epoch = generation
               PROVE  /\ InStream(generation, wal[i])
                      /\ \A j \in DOMAIN ring :
                           IsLsn(ring[j]) /\ ring[j].gen = generation => ring[j].val < i
    BY DEF FirstReadyTxCaptured, ReadyTxCaptured, ReadyInv
  <2>1. generation = 1 /\ Settled
    BY FirstRuns DEF IInv, Settled
  <2>2. InStream(generation, wal[i])
    BY <2>1 DEF ReadyWal, StmtSaid, InStream
  <2>3. PICK n \in DOMAIN ring : IsLsn(ring[n]) /\ ring[n].gen = 1 /\ ring[n].val < i
    BY <2>1 DEF ReadyWal
  <2>4. \A j \in DOMAIN ring : IsLsn(ring[j]) /\ ring[j].gen = generation => j = n
    BY <2>1, <2>3 DEF OneLsnPerCapture
  <2> QED
    BY <2>2, <2>3, <2>4
<1> QED
  BY Invariance, OneSyncPoint, <1>1, <1>2, <1>3, PTL DEF Spec
=============================================================================
