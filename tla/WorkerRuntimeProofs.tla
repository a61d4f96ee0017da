------------------------- MODULE WorkerRuntimeProofs -------------------------
(***************************************************************************)
(* Theorems about WorkerRuntime, for every set of workers, callers and     *)
(* dispatches, every policy and every limit.                               *)
(***************************************************************************)
EXTENDS WorkerRuntimeProperties, WorkerRecordProofs, FiniteSetTheorems, TLAPS

-----------------------------------------------------------------------------
(* The derived status and what is committed have their types *)

\* The derivation never leaves the lifecycle states (deriveRuntimeLifecycleState).
LEMMA DeriveStateType ==
    ASSUME NEW R, NEW f, NEW prev \in LifecycleState
    PROVE  DeriveState(R, f, prev) \in LifecycleState
  BY DEF DeriveState, LifecycleState

\* recomputeStatusLocked returns a status, with the in-flight count it was given.
LEMMA RecomputeType ==
    ASSUME NEW R, NEW f, NEW s \in RuntimeStatusRec
    PROVE  /\ Recompute(R, f, s) \in RuntimeStatusRec
           /\ Recompute(R, f, s).inFlight = s.inFlight
<1>1. DeriveState(R, f, s.state) \in LifecycleState
  BY DeriveStateType DEF RuntimeStatusRec
<1>2. DeriveReady(R, f) \in BOOLEAN
  BY DEF DeriveReady
<1> QED
  BY <1>1, <1>2 DEF Recompute, RuntimeStatusRec

\* commitWorkerStateLocked keeps the types of what it writes.
LEMMA CommitType ==
    ASSUME TypeOK, NEW w, NEW s, Commit(w, s), w \in Worker => s \in WorkerState
    PROVE  ws' \in [Worker -> WorkerState] /\ status' \in RuntimeStatusRec
  BY RecomputeType DEF TypeOK, Commit

-----------------------------------------------------------------------------
(* Type correctness *)

\* A sequence of one element.
LEMMA SingletonSeq == ASSUME NEW S, NEW e \in S PROVE << e >> \in Seq(S)
  OBVIOUS

\* A lifecycle call that is idle, waiting at the gate or about to return is a
\* well-typed call record.
LEMMA IdleCallType ==
    /\ IdleCall \in CallState
    /\ \A op \in Op, by \in Dispatch \cup {None}, w \in Worker :
         \A walk \in {<< >>, << [worker |-> w, state |-> "direct"] >>}, ended \in BOOLEAN :
            [IdleCall EXCEPT !.pc = "waiting", !.op = op, !.by = by,
                             !.phase = PhaseOf(op), !.expired = ended,
                             !.walk = walk] \in CallState
<1>1. 0 \in 0 .. MaxGeneration
  BY RecordAssumption DEF RecordAssumption
<1>2. IdleCall \in CallState
  BY <1>1 DEF IdleCall, CallState, CallPc, Op, SingleOps, Phase
<1>3. ASSUME NEW op \in Op, NEW by \in Dispatch \cup {None}, NEW w \in Worker,
             NEW walk \in {<< >>, << [worker |-> w, state |-> "direct"] >>},
             NEW ended \in BOOLEAN
      PROVE  [IdleCall EXCEPT !.pc = "waiting", !.op = op, !.by = by,
                              !.phase = PhaseOf(op), !.expired = ended,
                              !.walk = walk] \in CallState
  <2>1. walk \in Seq(Entry)
    <3>1. [worker |-> w, state |-> "direct"] \in Entry
      BY DEF Entry
    <3>2. << [worker |-> w, state |-> "direct"] >> \in Seq(Entry)
      BY <3>1, SingletonSeq
    <3>3. << >> \in Seq(Entry)
      OBVIOUS
    <3> QED
      BY <3>2, <3>3, Zenon
  <2>2. PhaseOf(op) \in Phase /\ "waiting" \in CallPc
    BY DEF PhaseOf, Phase, CallPc
  <2> QED
    BY <1>2, <2>1, <2>2 DEF CallState
<1> QED
  BY <1>2, <1>3

\* A command record is well-typed in every state of a dispatch.
LEMMA IdleCommandType == IdleCommand \in CommandState
  BY RuntimeAssumption, RecordAssumption
  DEF RuntimeAssumption, RecordAssumption, IdleCommand, CommandState

\* The runtime starts well-typed (New).
LEMMA TypeInit == Init => TypeOK
<1> SUFFICES ASSUME Init PROVE TypeOK
  OBVIOUS
<1>1. NewWorkerState \in WorkerState
  BY RecordAssumption DEF RecordAssumption, NewWorkerState, WorkerState,
                           LifecycleState, Failure
<1>2. status \in RuntimeStatusRec
  BY DEF Init, RuntimeStatusRec, LifecycleState
<1>3. workerOrder \in Seq(Worker) /\ ws \in [Worker -> WorkerState]
  BY <1>1 DEF Init
<1>4. call \in [Caller -> CallState] /\ cmd \in [Dispatch -> CommandState]
  BY IdleCallType, IdleCommandType DEF Init
<1> QED
  BY <1>2, <1>3, <1>4 DEF Init, TypeOK

\* A step that only settles a lifecycle call keeps the type of call.
LEMMA SettlingType ==
    ASSUME TypeOK, NEW c \in Caller,
           NEW o \in {"ok", "failed", "panic", "cleanup"}
    PROVE  Settling(c, o) \in [Caller -> CallState]
<1> DEFINE r == [call[c] EXCEPT !.pc = "settle", !.outcome = o]
<1>0. call[c] \in CallState
  BY DEF TypeOK
<1>1. r \in CallState
  BY <1>0, ZenonT(60) DEF CallState, CallPc
<1>2. Settling(c, o) = [call EXCEPT ![c] = r]
  BY DEF Settling
<1> HIDE DEF r
<1> QED
  BY <1>1, <1>2 DEF TypeOK

\* Going on with the walk keeps the type of call.
LEMMA ProceedType ==
    ASSUME TypeOK, NEW c \in Caller, NEW erred \in BOOLEAN, Proceed(c, erred)
    PROVE  call' \in [Caller -> CallState]
<1>1. PICK e \in BOOLEAN : e = (call[c].err \/ erred)
  OBVIOUS
<1> DEFINE r(walk) == [call[c] EXCEPT !.pc = "walk", !.worker = None, !.gen = 0,
                                      !.outcome = "ok", !.err = e, !.walk = walk]
<1>2. PICK walk \in Seq(Entry) : call' = [call EXCEPT ![c] = r(walk)]
  <2>1. << >> \in Seq(Entry) /\ call[c].walk \in Seq(Entry)
    BY DEF TypeOK, CallState
  <2> QED
    BY <1>1, <2>1, ZenonT(60) DEF Proceed
<1>3. r(walk) \in CallState
  <2>1. 0 \in 0 .. MaxGeneration
    BY RecordAssumption DEF RecordAssumption
  <2>2. call[c] \in CallState
    BY DEF TypeOK
  <2> QED
    BY <2>1, <2>2 DEF CallState, CallPc
<1> HIDE DEF r
<1> QED
  BY <1>2, <1>3 DEF TypeOK

\* Calling user code keeps the type of call.
LEMMA CallUserType ==
    ASSUME TypeOK, NEW c \in Caller, NEW w \in Worker, NEW gen \in 0 .. MaxGeneration,
           Walking(c), CallUser(c, w, gen)
    PROVE  call' \in [Caller -> CallState]
<1> DEFINE r == [call[c] EXCEPT !.pc = "user", !.worker = w, !.gen = gen,
                                !.walk = Tail(call[c].walk)]
<1>1. r \in CallState
  <2>1. Tail(call[c].walk) \in Seq(Entry) /\ call[c] \in CallState
    BY DEF TypeOK, CallState, Walking
  <2>2. PICK walk \in Seq(Entry) : walk = Tail(call[c].walk)
    BY <2>1
  <2>3. r = [call[c] EXCEPT !.pc = "user", !.worker = w, !.gen = gen, !.walk = walk]
    BY <2>2
  <2> QED
    BY <2>1, <2>3 DEF CallState, CallPc
<1>2. call' = [call EXCEPT ![c] = r]
  BY DEF CallUser
<1> HIDE DEF r
<1> QED
  BY <1>1, <1>2 DEF TypeOK

\* The next entry of a walk names a worker.
LEMMA NextEntryType ==
    ASSUME TypeOK, NEW c \in Caller, Walking(c)
    PROVE  NextEntry(c) \in Entry /\ Tail(call[c].walk) \in Seq(Entry)
  BY DEF TypeOK, CallState, Walking, NextEntry

\* The snapshot of the registered workers is a walk.
LEMMA SnapshotType ==
    ASSUME TypeOK, NEW phase
    PROVE  SnapshotWalk(phase) \in Seq(Entry)
<1>1. ASSUME NEW i \in 1 .. Len(workerOrder)
      PROVE  EntryAt(i) \in Entry
  BY DEF EntryAt, Entry, TypeOK, WorkerState
<1> QED
  BY <1>1 DEF SnapshotWalk, TypeOK

\* Every step of the runtime keeps the types.
LEMMA TypeStep == TypeOK /\ [Next]_vars => TypeOK'
<1> SUFFICES ASSUME TypeOK, Next PROVE TypeOK'
  BY DEF vars, TypeOK
<1>a. \A c \in Caller : call[c] \in CallState
  BY DEF TypeOK
<1>b. \A w \in Worker : ws[w] \in WorkerState
  BY DEF TypeOK
<1>c. {"starting", "running", "draining", "stopping", "stopped", "failed"} \subseteq LifecycleState
  BY DEF LifecycleState
<1>1. ASSUME NEW w \in Worker, Register(w) PROVE TypeOK'
  <2>1. NewWorkerState \in WorkerState
    BY RecordAssumption DEF RecordAssumption, NewWorkerState, WorkerState,
                             LifecycleState, Failure
  <2>2. status' \in RuntimeStatusRec
    BY <1>1, RecomputeType DEF Register, TypeOK
  <2> QED
    BY <1>1, <2>1, <2>2 DEF Register, TypeOK
<1>2. ASSUME NEW w \in Worker, Signal(w) PROVE TypeOK'
  <2>1. PICK gen \in Handles(w) :
           \/ \E b \in BOOLEAN : SetReady(w, gen, b)
           \/ \E b \in BOOLEAN : SetAcceptingWork(w, gen, b)
           \/ ReportFailure(w, gen)
    BY <1>2 DEF Signal
  <2>2. ASSUME NEW s \in WorkerState, Commit(w, s),
               UNCHANGED <<workerOrder, admissionClosed, gate, call, cmd>>
        PROVE  TypeOK'
    BY <2>2, CommitType DEF TypeOK
  <2>3. ASSUME NEW b \in BOOLEAN, SetReady(w, gen, b) PROVE TypeOK'
    <3>1. PICK f \in BOOLEAN :
             f = (ws[w].readySetDuringStart \/ ws[w].lifecycle = "starting")
      OBVIOUS
    <3>2. [ws[w] EXCEPT !.ready = b, !.readySetDuringStart = f] \in WorkerState
      BY <1>b DEF WorkerState
    <3> QED
      BY <2>2, <2>3, <3>1, <3>2 DEF SetReady, ReadySet
  <2>4. ASSUME NEW b \in BOOLEAN, SetAcceptingWork(w, gen, b) PROVE TypeOK'
    <3>1. PICK f \in BOOLEAN :
             f = (ws[w].acceptingWorkSetDuringStart \/ ws[w].lifecycle = "starting")
      OBVIOUS
    <3>2. [ws[w] EXCEPT !.acceptingWork = b, !.acceptingWorkSetDuringStart = f]
             \in WorkerState
      BY <1>b DEF WorkerState
    <3> QED
      BY <2>2, <2>4, <3>1, <3>2 DEF SetAcceptingWork, AcceptingWorkSet
  <2>5. ASSUME ReportFailure(w, gen) PROVE TypeOK'
    BY <1>b, <2>2, <2>5, TransformerTypes DEF ReportFailure, HandleMayReport
  <2> QED
    BY <2>1, <2>3, <2>4, <2>5
<1>3. ASSUME NEW c \in Caller, CallerStep(c) PROVE TypeOK'
  <2> DEFINE Rest == UNCHANGED <<workerOrder, ws, status, admissionClosed, gate, cmd>>
             Upd(r) == call' = [call EXCEPT ![c] = r]
  <2>1. ASSUME Rest, NEW r \in CallState, Upd(r) PROVE TypeOK'
    BY <2>1 DEF TypeOK
  <2>2. ASSUME NEW op \in Op, NEW by \in Dispatch \cup {None}, Enter(c, op, by)
        PROVE  TypeOK'
    <3>1. PICK w \in Worker :
             \E walk \in {<< >>, << [worker |-> w, state |-> "direct"] >>}, ended \in BOOLEAN :
                Upd([IdleCall EXCEPT !.pc = "waiting", !.op = op, !.by = by,
                                     !.phase = PhaseOf(op), !.expired = ended,
                                     !.walk = walk])
      BY <2>2 DEF Enter
    <3> QED
      BY <2>1, <2>2, <3>1, IdleCallType DEF Enter
  <2>3. CASE Invoke(c) \/ InvokeFromHandler(c)
    BY <2>2, <2>3, RuntimeAssumption DEF Invoke, InvokeFromHandler, RuntimeAssumption
  <2>4. CASE Expire(c)
    <3>1. [call[c] EXCEPT !.expired = TRUE] \in CallState
      BY <1>a DEF CallState
    <3> QED
      BY <2>1, <2>4, <3>1 DEF Expire
  <2>5. CASE Abandon(c)
    BY <2>1, <2>5, IdleCallType DEF Abandon
  <2>6. CASE Acquire(c) \/ Release(c)
    <3>1. \A pc \in CallPc : [call[c] EXCEPT !.pc = pc] \in CallState
      BY <1>a DEF CallState
    <3>2. PICK r \in CallState : Upd(r)
      BY <2>6, <3>1, IdleCallType DEF Acquire, Release, CallPc
    <3> QED
      BY <2>6, <3>2 DEF Acquire, Release, TypeOK
  <2>7. CASE CloseAdmission(c)
    <3>1. [call[c] EXCEPT !.pc = "snapshot", !.wasClosed = admissionClosed] \in CallState
      BY <1>a, ZenonT(60) DEF TypeOK, CallState, CallPc
    <3>2. Upd([call[c] EXCEPT !.pc = "snapshot", !.wasClosed = admissionClosed])
      BY <2>7 DEF CloseAdmission
    <3> QED
      BY <2>7, <3>1, <3>2 DEF CloseAdmission, TypeOK
  <2>8. CASE Reopen(c)
    <3>1. [call[c] EXCEPT !.pc = "release"] \in CallState /\ call[c].wasClosed \in BOOLEAN
      BY <1>a DEF CallState, CallPc
    <3> QED
      BY <2>8, <3>1 DEF Reopen, TypeOK
  <2>9. CASE Snapshot(c)
    <3>1. SnapshotWalk(call[c].phase) \in Seq(Entry)
      BY SnapshotType
    <3>2. PICK walk \in Seq(Entry) : walk = SnapshotWalk(call[c].phase)
      BY <3>1
    <3>3. [call[c] EXCEPT !.pc = "walk", !.walk = walk] \in CallState
      BY <1>a, ZenonT(60) DEF CallState, CallPc
    <3>4. Upd([call[c] EXCEPT !.pc = "walk", !.walk = walk])
      BY <2>9, <3>2 DEF Snapshot
    <3> QED
      BY <2>1, <2>9, <3>3, <3>4 DEF Snapshot
  <2>10. CASE Skip(c)
    <3>1. PICK walk \in Seq(Entry) : walk = Tail(call[c].walk)
      BY <2>10, NextEntryType DEF Skip
    <3>2. [call[c] EXCEPT !.walk = walk] \in CallState
      BY <1>a DEF CallState
    <3> QED
      BY <2>1, <2>10, <3>1, <3>2 DEF Skip
  <2>11. CASE Reject(c)
    <3>1. PICK walk \in Seq(Entry) :
             walk = IF KeepsGoing(call[c].op) THEN Tail(call[c].walk) ELSE << >>
      <4>1. << >> \in Seq(Entry) /\ Tail(call[c].walk) \in Seq(Entry)
        BY <2>11, NextEntryType DEF Reject
      <4> QED
        BY <4>1, Zenon
    <3>2. [call[c] EXCEPT !.err = TRUE, !.walk = walk] \in CallState
      BY <1>a DEF CallState
    <3> QED
      BY <2>1, <2>11, <3>1, <3>2 DEF Reject
  <2>12. CASE BeginStart(c)
    <3> DEFINE w == NextEntry(c).worker
    <3>1. w \in Worker
      BY <2>12, NextEntryType DEF BeginStart, CanBegin, Entry
    <3>2. Commit(w, BegunStart(ws[w])) /\ CallUser(c, w, ws[w].generation + 1)
            /\ ws[w].generation < MaxGeneration /\ Walking(c)
      BY <2>12 DEF BeginStart, CanBegin
    <3> HIDE DEF w
    <3>3. ws[w].generation + 1 \in 0 .. MaxGeneration
      BY <1>b, <3>1, <3>2, RecordAssumption DEF WorkerState, RecordAssumption
    <3>4. ws' \in [Worker -> WorkerState] /\ status' \in RuntimeStatusRec
      BY <1>b, <3>1, <3>2, CommitType, TransformerTypes
    <3>5. call' \in [Caller -> CallState]
      BY <3>1, <3>2, <3>3, CallUserType
    <3> QED
      BY <2>12, <3>4, <3>5 DEF BeginStart, TypeOK
  <2>13. CASE BeginStop(c)
    <3> DEFINE w == NextEntry(c).worker
    <3>1. w \in Worker
      BY <2>13, NextEntryType DEF BeginStop, CanBegin, Entry
    <3>2. Commit(w, BegunStop(ws[w])) /\ CallUser(c, w, ws[w].generation) /\ Walking(c)
      BY <2>13 DEF BeginStop, CanBegin
    <3> HIDE DEF w
    <3>3. ws[w].generation \in 0 .. MaxGeneration
      BY <1>b, <3>1 DEF WorkerState
    <3>4. ws' \in [Worker -> WorkerState] /\ status' \in RuntimeStatusRec
      BY <1>b, <3>1, <3>2, CommitType, TransformerTypes
    <3>5. call' \in [Caller -> CallState]
      BY <3>1, <3>2, <3>3, CallUserType
    <3> QED
      BY <2>13, <3>4, <3>5 DEF BeginStop, TypeOK
  <2>14. CASE Drain(c)
    <3> DEFINE w == NextEntry(c).worker
    <3>1. w \in Worker /\ Tail(call[c].walk) \in Seq(Entry)
      BY <2>14, NextEntryType DEF Drain, CanBegin, Entry
    <3>2. ws' \in [Worker -> WorkerState] /\ status' \in RuntimeStatusRec
      <4>1. Commit(w, Drained(ws[w]))
        BY <2>14 DEF Drain
      <4> HIDE DEF w
      <4> QED
        BY <1>b, <3>1, <4>1, CommitType, TransformerTypes
    <3>3. PICK walk \in Seq(Entry) : walk = Tail(call[c].walk)
      BY <3>1
    <3>4. [call[c] EXCEPT !.walk = walk] \in CallState
      BY <1>a DEF CallState
    <3>5. call' \in [Caller -> CallState]
      BY <2>14, <3>3, <3>4 DEF Drain, TypeOK
    <3> QED
      BY <2>14, <3>2, <3>5 DEF Drain, TypeOK
  <2>15. CASE WalkDone(c)
    <3>1. PICK pc \in CallPc, e \in BOOLEAN : Upd([call[c] EXCEPT !.pc = pc, !.err = e])
      <4>1. {"waitIdle", "reopen", "release"} \subseteq CallPc
        BY DEF CallPc
      <4>2. PICK e \in BOOLEAN : e = (call[c].err \/ (call[c].op = "Shutdown" /\ call[c].phase = "drain"
                            /\ call[c].expired))
        OBVIOUS
      <4> QED
        BY <2>15, <4>1, <4>2 DEF WalkDone
    <3>2. [call[c] EXCEPT !.pc = pc, !.err = e] \in CallState
      BY <1>a DEF CallState
    <3> QED
      BY <2>1, <2>15, <3>1, <3>2 DEF WalkDone
  <2>16. CASE WaitedIdle(c)
    <3>1. [call[c] EXCEPT !.pc = "snapshot", !.phase = "stop"] \in CallState
      BY <1>a, ZenonT(60) DEF CallState, CallPc, Phase
    <3>2. Upd([call[c] EXCEPT !.pc = "snapshot", !.phase = "stop"])
      BY <2>16 DEF WaitedIdle
    <3> QED
      BY <2>1, <2>16, <3>1, <3>2 DEF WaitedIdle
  <2>17. CASE WaitExpired(c)
    <3>1. [call[c] EXCEPT !.pc = "reopen", !.err = TRUE] \in CallState
      BY <1>a, ZenonT(60) DEF CallState, CallPc
    <3>2. Upd([call[c] EXCEPT !.pc = "reopen", !.err = TRUE])
      BY <2>17 DEF WaitExpired
    <3> QED
      BY <2>1, <2>17, <3>1, <3>2 DEF WaitExpired
  <2>18. RecordFailure(c) => ws' \in [Worker -> WorkerState]
    <3>1. \A w \in Worker : [ws[w] EXCEPT !.lastFailure = "primary"] \in WorkerState
      BY <1>b DEF WorkerState, Failure
    <3>2. [ws EXCEPT ![call[c].worker].lastFailure = "primary"] \in [Worker -> WorkerState]
      BY <3>1 DEF TypeOK
    <3> QED
      BY <3>2 DEF RecordFailure, TypeOK
  <2>19. CASE UserReturns(c)
    BY <2>19, SettlingType DEF UserReturns, TypeOK
  <2>20. CASE UserFails(c)
    BY <2>18, <2>20, SettlingType DEF UserFails, TypeOK
  <2>21. CASE UserCleanupFails(c)
    BY <2>21, SettlingType DEF UserCleanupFails, TypeOK
  <2>22. CASE Retry(c)
    <3>1. [call[c] EXCEPT !.pc = "backoff"] \in CallState
      BY <1>a DEF CallState, CallPc
    <3>2. call' \in [Caller -> CallState]
      BY <2>22, <3>1 DEF Retry, TypeOK
    <3> QED
      BY <2>18, <2>22, <3>2 DEF Retry, TypeOK
  <2>23. CASE BackoffElapses(c)
    <3>1. [call[c] EXCEPT !.pc = "user"] \in CallState
      BY <1>a DEF CallState, CallPc
    <3> QED
      BY <2>1, <2>23, <3>1 DEF BackoffElapses
  <2>24. CASE BackoffExpires(c)
    BY <2>24, SettlingType DEF BackoffExpires, TypeOK
  <2>25. CASE Complete(c)
    <3> DEFINE w == call[c].worker
    <3>1. ws' \in [Worker -> WorkerState] /\ status' \in RuntimeStatusRec
      <4>1. \/ Commit(w, CompletedStart(w, ws[w])) \/ Commit(w, CompletedStop(ws[w]))
            \/ UNCHANGED <<ws, status>>
        BY <2>25 DEF Complete
      <4>2. w \in Worker => /\ CompletedStart(w, ws[w]) \in WorkerState
                            /\ CompletedStop(ws[w]) \in WorkerState
        BY <1>b, TransformerTypes
      <4> HIDE DEF w
      <4> QED
        BY <4>1, <4>2, CommitType DEF TypeOK
    <3>2. call' \in [Caller -> CallState]
      BY <2>25, ProceedType DEF Complete
    <3> QED
      BY <2>25, <3>1, <3>2 DEF Complete, TypeOK
  <2>26. CASE Fail(c)
    <3> DEFINE w == call[c].worker
    <3>1. ws' \in [Worker -> WorkerState] /\ status' \in RuntimeStatusRec
      <4>1. \/ Commit(w, CleanupFailed(ws[w])) \/ Commit(w, Failed(ws[w]))
            \/ UNCHANGED <<ws, status>>
        BY <2>26 DEF Fail
      <4>2. w \in Worker => /\ CleanupFailed(ws[w]) \in WorkerState
                            /\ Failed(ws[w]) \in WorkerState
        BY <1>b, TransformerTypes
      <4> HIDE DEF w
      <4> QED
        BY <4>1, <4>2, CommitType DEF TypeOK
    <3>2. call' \in [Caller -> CallState]
      BY <2>26, ProceedType DEF Fail
    <3> QED
      BY <2>26, <3>1, <3>2 DEF Fail, TypeOK
  <2> QED
    BY <1>3, <2>3, <2>4, <2>5, <2>6, <2>7, <2>8, <2>9, <2>10, <2>11, <2>12, <2>13, <2>14,
       <2>15, <2>16, <2>17, <2>19, <2>20, <2>21, <2>22, <2>23, <2>24, <2>25, <2>26
    DEF CallerStep, Internal, UserEnds
<1>4. ASSUME NEW d \in Dispatch, CommandStep(d) PROVE TypeOK'
  <2> DEFINE v == cmd[d].worker
  <2>1. v \in Worker \cup {None} /\ cmd[d].gen \in 0 .. MaxGeneration /\ cmd[d] \in CommandState
    BY DEF TypeOK, CommandState
  <2>2. \A pc \in {"idle", "running", "finished"} : [cmd[d] EXCEPT !.pc = pc] \in CommandState
    BY <2>1 DEF CommandState
  <2>3. ASSUME NEW w \in Worker, Admit(d, w) PROVE TypeOK'
    <3>1. [ws[w] EXCEPT !.inFlight = ws[w].inFlight + 1] \in WorkerState
      BY <1>b DEF WorkerState
    <3>2. [status EXCEPT !.inFlight = status.inFlight + 1] \in RuntimeStatusRec
      BY DEF TypeOK, RuntimeStatusRec
    <3>3. [pc |-> "running", worker |-> w, gen |-> ws[w].generation] \in CommandState
      BY <1>b DEF WorkerState, CommandState
    <3>4. ws' \in [Worker -> WorkerState] /\ cmd' \in [Dispatch -> CommandState]
      BY <2>3, <3>1, <3>3 DEF Admit, TypeOK
    <3> QED
      BY <2>3, <3>2, <3>4 DEF Admit, TypeOK
  <2>4. CASE HandlerReturns(d)
    BY <2>2, <2>4 DEF HandlerReturns, TypeOK
  <2>5. CASE HandlerFails(d)
    <3>1. v \in Worker => CommandFailed(ws[v], cmd[d].gen) \in WorkerState
      BY <1>b, TransformerTypes
    <3>2. ws' = [ws EXCEPT ![v] = CommandFailed(ws[v], cmd[d].gen)]
      BY <2>5 DEF HandlerFails
    <3>3. cmd' \in [Dispatch -> CommandState]
      BY <2>2, <2>5 DEF HandlerFails, TypeOK
    <3> HIDE DEF v
    <3>4. ws' \in [Worker -> WorkerState]
      BY <3>1, <3>2 DEF TypeOK
    <3> QED
      BY <2>5, <3>3, <3>4 DEF HandlerFails, TypeOK
  <2>6. CASE HandlerPanics(d)
    <3> DEFINE s == CommandPanicked(ws[v], cmd[d].gen)
    <3>1. v \in Worker => s \in WorkerState
      BY <1>b, TransformerTypes
    <3>2. Commit(v, s) \/ (ws' = [ws EXCEPT ![v] = s] /\ UNCHANGED status)
      BY <2>6 DEF HandlerPanics
    <3>3. cmd' \in [Dispatch -> CommandState]
      BY <2>2, <2>6 DEF HandlerPanics, TypeOK
    <3> HIDE DEF v, s
    <3>4. ws' \in [Worker -> WorkerState] /\ status' \in RuntimeStatusRec
      BY <3>1, <3>2, CommitType DEF TypeOK
    <3> QED
      BY <2>6, <3>3, <3>4 DEF HandlerPanics, TypeOK
  <2>7. CASE ReleaseSlot(d)
    <3>1. \A n \in Nat : Decrement(n) \in Nat
      BY DEF Decrement
    <3>2. \A w \in Worker : [ws[w] EXCEPT !.inFlight = Decrement(ws[w].inFlight)] \in WorkerState
      BY <1>b, <3>1 DEF WorkerState
    <3>3. [status EXCEPT !.inFlight = Decrement(status.inFlight)] \in RuntimeStatusRec
      BY <3>1 DEF TypeOK, RuntimeStatusRec
    <3>4. ws' \in [Worker -> WorkerState]
      BY <2>7, <3>2 DEF ReleaseSlot, TypeOK
    <3>5. cmd' \in [Dispatch -> CommandState]
      BY <2>7, IdleCommandType DEF ReleaseSlot, TypeOK
    <3> QED
      BY <2>7, <3>3, <3>4, <3>5 DEF ReleaseSlot, TypeOK
  <2> QED
    BY <1>4, <2>3, <2>4, <2>5, <2>6, <2>7 DEF CommandStep
<1> QED
  BY <1>1, <1>2, <1>3, <1>4 DEF Next

\* The types hold in every reachable state (the records of runtime.go).
THEOREM TypeCorrect == Spec => []TypeOK
  BY TypeInit, TypeStep, PTL DEF Spec

-----------------------------------------------------------------------------
(* What the steps leave alone *)

Stored(v, s) == ws' = [ws EXCEPT ![v] = s]

\* commitWorkerStateLocked writes the record of one worker.
LEMMA StoredEffect ==
    ASSUME TypeOK, NEW v, NEW s, Stored(v, s) \/ Commit(v, s)
    PROVE  /\ v \in Worker => ws'[v] = s
           /\ \A w \in Worker : w # v => ws'[w] = ws[w]
  BY DEF TypeOK, Commit, Stored

\* Registration adds one worker and leaves the others alone (Register).
LEMMA RegisterFrame ==
    ASSUME TypeOK, NEW w \in Worker, Register(w)
    PROVE  /\ Registered' = Registered \cup {w}
           /\ ws'[w] = NewWorkerState
           /\ \A v \in Worker : v # w => ws'[v] = ws[v]
<1>1. workerOrder \in Seq(Worker) /\ workerOrder' = Append(workerOrder, w)
  BY DEF TypeOK, Register
<1>2. /\ Len(workerOrder') = Len(workerOrder) + 1
      /\ \A i \in 1 .. Len(workerOrder) : workerOrder'[i] = workerOrder[i]
      /\ workerOrder'[Len(workerOrder) + 1] = w
      /\ Len(workerOrder) \in Nat
  BY <1>1
<1>3. Registered' = Registered \cup {w}
  BY <1>2 DEF Registered
<1> QED
  BY <1>3 DEF Register, TypeOK

\* A step outside the lifecycle operations moves a worker only from running or
\* draining to failed, and opens no generation.
Untouched ==
    \A w \in Worker :
        /\ ws'[w].generation = ws[w].generation
        /\ \/ ws'[w].lifecycle = ws[w].lifecycle
           \/ ws[w].lifecycle \in {"running", "draining"} /\ ws'[w].lifecycle = "failed"

\* Signals of a handle (setWorkerReady, setWorkerAcceptingWork,
\* reportWorkerFailure) are such steps.
LEMMA SignalFrame ==
    ASSUME TypeOK, NEW v \in Worker, Signal(v)
    PROVE  Untouched /\ UNCHANGED <<workerOrder, admissionClosed, gate, call, cmd>>
<1>1. PICK gen \in Handles(v) :
         \/ \E b \in BOOLEAN : SetReady(v, gen, b)
         \/ \E b \in BOOLEAN : SetAcceptingWork(v, gen, b)
         \/ ReportFailure(v, gen)
  BY DEF Signal
<1>2. ws[v] \in WorkerState
  BY DEF TypeOK
<1>3. ASSUME NEW s, Commit(v, s), s.generation = ws[v].generation,
             \/ s.lifecycle = ws[v].lifecycle
             \/ ws[v].lifecycle \in {"running", "draining"} /\ s.lifecycle = "failed"
      PROVE  Untouched
  BY <1>3, StoredEffect DEF Untouched
<1>4. ASSUME NEW b \in BOOLEAN, SetReady(v, gen, b) PROVE Untouched
  <2> DEFINE s == [ws[v] EXCEPT !.ready = b,
                       !.readySetDuringStart = @ \/ ws[v].lifecycle = "starting"]
  <2>1. Commit(v, s)
    BY <1>4 DEF SetReady, ReadySet
  <2>2. s.generation = ws[v].generation /\ s.lifecycle = ws[v].lifecycle
    BY <1>2 DEF WorkerState
  <2> HIDE DEF s
  <2> QED
    BY <1>3, <2>1, <2>2
<1>5. ASSUME NEW b \in BOOLEAN, SetAcceptingWork(v, gen, b) PROVE Untouched
  <2> DEFINE s == [ws[v] EXCEPT !.acceptingWork = b,
                       !.acceptingWorkSetDuringStart = @ \/ ws[v].lifecycle = "starting"]
  <2>1. Commit(v, s)
    BY <1>5 DEF SetAcceptingWork, AcceptingWorkSet
  <2>2. s.generation = ws[v].generation /\ s.lifecycle = ws[v].lifecycle
    BY <1>2 DEF WorkerState
  <2> HIDE DEF s
  <2> QED
    BY <1>3, <2>1, <2>2
<1>6. ASSUME ReportFailure(v, gen) PROVE Untouched
  <2>1. Commit(v, Reported(ws[v])) /\ ws[v].lifecycle \in Reportable
    BY <1>6 DEF ReportFailure, HandleMayReport
  <2>2. /\ Reported(ws[v]).generation = ws[v].generation
        /\ \/ Reported(ws[v]).lifecycle = ws[v].lifecycle
           \/ /\ ws[v].lifecycle \in {"running", "draining"}
              /\ Reported(ws[v]).lifecycle = "failed"
    BY <1>2, <2>1 DEF Reported, Failed, WorkerState, Reportable
  <2> QED
    BY <1>3, <2>1, <2>2
<1>7. UNCHANGED <<workerOrder, admissionClosed, gate, call, cmd>>
  BY <1>1 DEF SetReady, ReadySet, SetAcceptingWork, AcceptingWorkSet, ReportFailure, HandleMayReport
<1> QED
  BY <1>1, <1>4, <1>5, <1>6, <1>7

\* So are admission, every outcome of a handler, and the release of a slot.
LEMMA CommandFrame ==
    ASSUME TypeOK, NEW d \in Dispatch, CommandStep(d)
    PROVE  Untouched /\ UNCHANGED <<workerOrder, admissionClosed, gate, call>>
<1> DEFINE v == cmd[d].worker
<1>1. \A w \in Worker : ws[w] \in WorkerState
  BY DEF TypeOK
<1>2. ASSUME NEW w \in Worker, Admit(d, w) PROVE Untouched
  BY <1>1, <1>2 DEF Admit, Untouched, TypeOK, WorkerState
<1>3. ASSUME HandlerReturns(d) PROVE Untouched
  BY <1>3 DEF HandlerReturns, Untouched
<1>a. ASSUME NEW s, Stored(v, s),
             v \in Worker =>
                /\ s.generation = ws[v].generation
                /\ \/ s.lifecycle = ws[v].lifecycle
                   \/ ws[v].lifecycle \in {"running", "draining"} /\ s.lifecycle = "failed"
      PROVE  Untouched
  BY <1>a, StoredEffect DEF Untouched
<1>4. ASSUME HandlerFails(d) PROVE Untouched
  <2>1. Stored(v, CommandFailed(ws[v], cmd[d].gen))
    BY <1>4 DEF HandlerFails, Stored
  <2>2. v \in Worker => /\ CommandFailed(ws[v], cmd[d].gen).generation = ws[v].generation
                        /\ CommandFailed(ws[v], cmd[d].gen).lifecycle = ws[v].lifecycle
    BY <1>1 DEF CommandFailed, WorkerState
  <2> QED
    BY <1>a, <2>1, <2>2
<1>5. ASSUME HandlerPanics(d) PROVE Untouched
  <2> DEFINE s == CommandPanicked(ws[v], cmd[d].gen)
  <2>1. Stored(v, s)
    BY <1>5 DEF HandlerPanics, Commit, Stored
  <2>2. v \in Worker =>
           /\ s.generation = ws[v].generation
           /\ \/ s.lifecycle = ws[v].lifecycle
              \/ ws[v].lifecycle \in {"running", "draining"} /\ s.lifecycle = "failed"
    BY <1>1 DEF CommandPanicked, Failed, WorkerState
  <2> HIDE DEF s
  <2> QED
    BY <1>a, <2>1, <2>2
<1>6. ASSUME ReleaseSlot(d) PROVE Untouched
  BY <1>1, <1>6 DEF ReleaseSlot, Untouched, TypeOK, WorkerState
<1>7. UNCHANGED <<workerOrder, admissionClosed, gate, call>>
  BY DEF CommandStep, Admit, HandlerReturns, HandlerFails, HandlerPanics, ReleaseSlot
<1> QED
  BY <1>2, <1>3, <1>4, <1>5, <1>6, <1>7 DEF CommandStep

-----------------------------------------------------------------------------
(* The gate *)

\* A step of a caller takes the free token, puts its own token back, or leaves
\* the gate alone, and touches no other call (acquireLifecycle).
LEMMA GateFrame ==
    ASSUME TypeOK, NEW c \in Caller, CallerStep(c)
    PROVE  /\ \A k \in Caller : k # c => call'[k] = call[k]
           /\ \/ gate' = gate /\ (HoldsGate(c)' <=> HoldsGate(c))
              \/ gate /\ ~ gate' /\ ~ HoldsGate(c) /\ HoldsGate(c)'
              \/ gate' = TRUE /\ HoldsGate(c) /\ ~ HoldsGate(c)'
           /\ UNCHANGED <<workerOrder, cmd>>
<1> USE DEF TypeOK, HoldsGate, At
<1>1. ASSUME NEW op, NEW by, Enter(c, op, by)
      PROVE  /\ \A k \in Caller : k # c => call'[k] = call[k]
             /\ gate' = gate /\ ~ HoldsGate(c) /\ ~ HoldsGate(c)'
             /\ UNCHANGED <<workerOrder, cmd>>
  <2> DEFINE r(walk, ended) ==
                [IdleCall EXCEPT !.pc = "waiting", !.op = op, !.by = by,
                                 !.phase = PhaseOf(op), !.expired = ended,
                                 !.walk = walk]
  <2>1. PICK walk, ended : call' = [call EXCEPT ![c] = r(walk, ended)]
    BY <1>1 DEF Enter
  <2>2. r(walk, ended).pc = "waiting"
    BY DEF IdleCall
  <2> HIDE DEF r
  <2> QED
    BY <1>1, <2>1, <2>2 DEF Enter
<1>2. CASE Expire(c)
  BY <1>2 DEF Expire, CallState
<1>3. CASE Acquire(c)
  BY <1>3 DEF Acquire, CallState
<1>4. CASE Abandon(c) \/ Release(c)
  BY <1>4 DEF Abandon, Release, IdleCall
<1>5. CASE CloseAdmission(c) \/ Reopen(c) \/ Snapshot(c)
  BY <1>5 DEF CloseAdmission, Reopen, Snapshot, CallState
<1>6. CASE Skip(c) \/ Reject(c) \/ Drain(c)
  BY <1>6 DEF Skip, Reject, Drain, CanBegin, Walking, CallState
<1>7. CASE BeginStart(c) \/ BeginStop(c)
  BY <1>7 DEF BeginStart, BeginStop, CanBegin, Walking, CallUser, CallState
<1>8. CASE WalkDone(c)
  BY <1>8 DEF WalkDone, CallState
<1>9. CASE WaitedIdle(c) \/ WaitExpired(c)
  BY <1>9 DEF WaitedIdle, WaitExpired, CallState
<1>10. CASE UserEnds(c)
  BY <1>10 DEF UserEnds, UserReturns, UserFails, UserCleanupFails, Settling, CallState
<1>11. CASE Retry(c) \/ BackoffElapses(c) \/ BackoffExpires(c)
  BY <1>11 DEF Retry, BackoffElapses, BackoffExpires, Settling, CallState
<1>12. CASE Complete(c) \/ Fail(c)
  BY <1>12 DEF Complete, Fail, Proceed, CallState
<1> QED
  BY <1>1, <1>2, <1>3, <1>4, <1>5, <1>6, <1>7, <1>8, <1>9, <1>10, <1>11, <1>12
  DEF CallerStep, Internal, Invoke, InvokeFromHandler

\* The gate is exclusive and its token is conserved (lifecycleGate).
LEMMA GateStep == TypeOK /\ GateExclusive /\ [Next]_vars => GateExclusive'
<1> SUFFICES ASSUME TypeOK, GateExclusive, [Next]_vars PROVE GateExclusive'
  OBVIOUS
<1>1. CASE UNCHANGED <<gate, call>>
  BY <1>1 DEF GateExclusive, HoldsGate
<1>2. ASSUME NEW c \in Caller, CallerStep(c) PROVE GateExclusive'
  <2>1. \A k \in Caller : k # c => (HoldsGate(k)' <=> HoldsGate(k))
    BY <1>2, GateFrame DEF HoldsGate
  <2> QED
    BY <1>2, <2>1, GateFrame DEF GateExclusive, TypeOK
<1>3. ASSUME NEW w \in Worker, Register(w) PROVE UNCHANGED <<gate, call>>
  BY <1>3 DEF Register
<1>4. ASSUME NEW w \in Worker, Signal(w) PROVE UNCHANGED <<gate, call>>
  BY <1>4, SignalFrame
<1>5. ASSUME NEW d \in Dispatch, CommandStep(d) PROVE UNCHANGED <<gate, call>>
  BY <1>5, CommandFrame
<1> QED
  BY <1>1, <1>2, <1>3, <1>4, <1>5 DEF Next, vars

-----------------------------------------------------------------------------
(* Who owns a worker in transition *)

\* The four ways a step of a caller relates to user code: it stays outside, it
\* stays inside, it enters by beginning an operation on a worker, and it leaves
\* by completing one.
Outside(c) ==
    /\ ~ InUserCode(c) /\ ~ InUserCode(c)'
    /\ \A w \in Worker :
          /\ ws'[w].generation = ws[w].generation
          /\ \/ ws'[w].lifecycle = ws[w].lifecycle
             \/ ws[w].lifecycle \in Drainable /\ ws'[w].lifecycle = "draining"

Inside(c) ==
    /\ InUserCode(c) /\ InUserCode(c)'
    /\ call'[c].worker = call[c].worker
    /\ call'[c].gen = call[c].gen
    /\ call'[c].phase = call[c].phase
    /\ \A w \in Worker : /\ ws'[w].generation = ws[w].generation
                         /\ ws'[w].lifecycle = ws[w].lifecycle

Enters(c) ==
    /\ HoldsGate(c) /\ ~ InUserCode(c) /\ InUserCode(c)'
    /\ call'[c].worker \in Registered
    /\ call'[c].gen = ws'[call'[c].worker].generation
    /\ ws'[call'[c].worker].lifecycle =
          (IF call'[c].phase = "start" THEN "starting" ELSE "stopping")
    /\ \A w \in Worker : w # call'[c].worker => ws'[w] = ws[w]

Leaves(c) ==
    /\ InUserCode(c) /\ ~ InUserCode(c)'
    /\ ws'[call[c].worker].lifecycle \notin {"starting", "stopping"}
    /\ \A w \in Worker : w # call[c].worker => ws'[w] = ws[w]

\* Registered workers are workers.
LEMMA RegisteredWorkers == TypeOK => Registered \subseteq Worker
  BY DEF TypeOK, Registered

\* Completing or failing a transition leaves it (completeWorkerStart,
\* completeWorkerTransition, failWorker, failLoopCleanup).
LEMMA TransitionEnds ==
    ASSUME NEW w, NEW s \in WorkerState
    PROVE  /\ CompletedStart(w, s).lifecycle \in {"running", "failed"}
           /\ CompletedStop(s).lifecycle = "stopped"
           /\ Failed(s).lifecycle = "failed"
           /\ CleanupFailed(s).lifecycle = "failed"
           /\ CompletedStart(w, s).generation = s.generation
           /\ CompletedStop(s).generation = s.generation
           /\ Failed(s).generation = s.generation
           /\ CleanupFailed(s).generation = s.generation
<1>1. Failed(s) \in [generation : {s.generation}, lifecycle : {"failed"},
                     ready : BOOLEAN, acceptingWork : BOOLEAN, inFlight : Nat,
                     readySetDuringStart : BOOLEAN, acceptingWorkSetDuringStart : BOOLEAN,
                     failureReportedDuringStart : BOOLEAN,
                     lastFailure : Failure, lastCommandFailure : BOOLEAN]
  BY DEF Failed, WorkerState, Failure
<1>2. CleanupFailed(s).lifecycle = "failed" /\ CleanupFailed(s).generation = s.generation
  BY <1>1 DEF CleanupFailed
<1>3. CompletedStop(s).lifecycle = "stopped" /\ CompletedStop(s).generation = s.generation
  BY DEF CompletedStop, WorkerState
<1>4. /\ CompletedStart(w, s).lifecycle \in {"running", "failed"}
      /\ CompletedStart(w, s).generation = s.generation
  BY DEF CompletedStart, WorkerState
<1> QED
  BY <1>1, <1>2, <1>3, <1>4

\* Every step of a caller is of one of the four ways.
LEMMA UserFrame ==
    ASSUME TypeOK, TransitionsOwned, NEW c \in Caller, CallerStep(c)
    PROVE  Outside(c) \/ Inside(c) \/ Enters(c) \/ Leaves(c)
<1>a. call[c] \in CallState /\ (\A w \in Worker : ws[w] \in WorkerState)
      /\ (\A w \in Registered : w \in Worker)
  BY RegisteredWorkers DEF TypeOK
<1>1. ASSUME NEW op, NEW by, Enter(c, op, by) PROVE Outside(c)
  <2>1. PICK r : call' = [call EXCEPT ![c] = r] /\ r.pc = "waiting"
    <3> DEFINE r(walk, ended) ==
                  [IdleCall EXCEPT !.pc = "waiting", !.op = op, !.by = by,
                                   !.phase = PhaseOf(op), !.expired = ended,
                                   !.walk = walk]
    <3>1. PICK walk, ended : call' = [call EXCEPT ![c] = r(walk, ended)]
      BY <1>1 DEF Enter
    <3>2. r(walk, ended).pc = "waiting"
      BY DEF IdleCall
    <3> HIDE DEF r
    <3> QED
      BY <3>1, <3>2
  <2> QED
    BY <1>1, <2>1 DEF Enter, Outside, InUserCode, At, TypeOK
<1>2. CASE Expire(c)
  <2>1. /\ \A f \in {"pc", "worker", "gen", "phase"} : call'[c][f] = call[c][f]
        /\ ws' = ws
    BY <1>2, <1>a DEF Expire, TypeOK, CallState
  <2>2. /\ call'[c].pc = call[c].pc /\ call'[c].worker = call[c].worker
        /\ call'[c].gen = call[c].gen /\ call'[c].phase = call[c].phase
    BY <2>1
  <2> QED
    BY <2>1, <2>2 DEF Inside, Outside, InUserCode
<1>3. CASE Acquire(c) \/ Abandon(c) \/ Release(c)
  BY <1>3, <1>a DEF Acquire, Abandon, Release, IdleCall, Outside, InUserCode, At, TypeOK, CallState
<1>4. CASE CloseAdmission(c) \/ Reopen(c) \/ Snapshot(c)
  BY <1>4, <1>a DEF CloseAdmission, Reopen, Snapshot, Outside, InUserCode, At, TypeOK, CallState
<1>5. CASE Skip(c) \/ Reject(c)
  BY <1>5, <1>a DEF Skip, Reject, Walking, Outside, InUserCode, At, TypeOK, CallState
<1>6. CASE WalkDone(c) \/ WaitedIdle(c) \/ WaitExpired(c)
  BY <1>6, <1>a DEF WalkDone, WaitedIdle, WaitExpired, Outside, InUserCode, At, TypeOK, CallState
<1>7. CASE Drain(c)
  <2> DEFINE w == NextEntry(c).worker
  <2>1. w \in Worker /\ ws[w].lifecycle \in Drainable /\ Commit(w, Drained(ws[w]))
    BY <1>7, <1>a DEF Drain, CanBegin, Admissible
  <2>2. /\ Drained(ws[w]).generation = ws[w].generation
        /\ Drained(ws[w]).lifecycle = "draining"
    BY <1>a, <2>1 DEF Drained, WorkerState
  <2>3. ~ InUserCode(c) /\ ~ InUserCode(c)'
    BY <1>7, <1>a DEF Drain, CanBegin, Walking, InUserCode, At, TypeOK, CallState
  <2> HIDE DEF w
  <2> QED
    BY <2>1, <2>2, <2>3, StoredEffect DEF Outside
<1>8. CASE BeginStart(c)
  <2> DEFINE w == NextEntry(c).worker
  <2>1. /\ w \in Registered /\ w \in Worker /\ Commit(w, BegunStart(ws[w]))
        /\ call'[c].pc = "user" /\ call'[c].worker = w
        /\ call'[c].gen = ws[w].generation + 1 /\ call'[c].phase = "start"
    BY <1>8, <1>a DEF BeginStart, CanBegin, CallUser, TypeOK, CallState
  <2>2. /\ BegunStart(ws[w]).generation = ws[w].generation + 1
        /\ BegunStart(ws[w]).lifecycle = "starting"
    BY <1>a, <2>1 DEF BegunStart, WorkerState
  <2>3. HoldsGate(c) /\ ~ InUserCode(c)
    BY <1>8 DEF BeginStart, CanBegin, Walking, HoldsGate, InUserCode, At
  <2> HIDE DEF w
  <2> QED
    BY <2>1, <2>2, <2>3, StoredEffect DEF Enters, InUserCode
<1>9. CASE BeginStop(c)
  <2> DEFINE w == NextEntry(c).worker
  <2>1. /\ w \in Registered /\ w \in Worker /\ Commit(w, BegunStop(ws[w]))
        /\ call'[c].pc = "user" /\ call'[c].worker = w
        /\ call'[c].gen = ws[w].generation /\ call'[c].phase = "stop"
    BY <1>9, <1>a DEF BeginStop, CanBegin, CallUser, TypeOK, CallState
  <2>2. /\ BegunStop(ws[w]).generation = ws[w].generation
        /\ BegunStop(ws[w]).lifecycle = "stopping"
    BY <1>a, <2>1 DEF BegunStop, WorkerState
  <2>3. HoldsGate(c) /\ ~ InUserCode(c)
    BY <1>9 DEF BeginStop, CanBegin, Walking, HoldsGate, InUserCode, At
  <2> HIDE DEF w
  <2> QED
    BY <2>1, <2>2, <2>3, StoredEffect DEF Enters, InUserCode
<1>10. RecordFailure(c) \/ ws' = ws =>
          \A w \in Worker : /\ ws'[w].generation = ws[w].generation
                            /\ ws'[w].lifecycle = ws[w].lifecycle
  <2>1. \A v : ws' = [ws EXCEPT ![v].lastFailure = "primary"] =>
           \A w \in Worker : /\ ws'[w].generation = ws[w].generation
                             /\ ws'[w].lifecycle = ws[w].lifecycle
    BY <1>a DEF TypeOK, WorkerState
  <2> QED
    BY <2>1 DEF RecordFailure
<1>11. CASE UserEnds(c) \/ Retry(c) \/ BackoffElapses(c) \/ BackoffExpires(c)
  <2>1. RecordFailure(c) \/ ws' = ws
    BY <1>11 DEF UserEnds, UserReturns, UserFails, UserCleanupFails, Retry,
                 BackoffElapses, BackoffExpires
  <2>2. /\ InUserCode(c) /\ InUserCode(c)'
        /\ call'[c].worker = call[c].worker
        /\ call'[c].gen = call[c].gen
        /\ call'[c].phase = call[c].phase
    BY <1>11, <1>a DEF UserEnds, UserReturns, UserFails, UserCleanupFails, Retry,
           BackoffElapses, BackoffExpires, Settling, InUserCode, At, TypeOK, CallState
  <2> QED
    BY <1>10, <2>1, <2>2 DEF Inside
<1>12. CASE Complete(c) \/ Fail(c)
  <2> DEFINE w == call[c].worker
  <2>1. InUserCode(c) /\ ~ InUserCode(c)'
    BY <1>12, <1>a DEF Complete, Fail, Proceed, InUserCode, At, TypeOK, CallState
  <2>2. /\ w \in Worker /\ Current(c) /\ ws[w] \in WorkerState
        /\ ws[w].lifecycle = (IF call[c].phase = "start" THEN "starting" ELSE "stopping")
    BY <1>a, <2>1 DEF TransitionsOwned, Current
  <2>3. \/ Commit(w, CompletedStart(w, ws[w])) \/ Commit(w, CompletedStop(ws[w]))
        \/ Commit(w, CleanupFailed(ws[w])) \/ Commit(w, Failed(ws[w]))
    BY <1>12, <2>2 DEF Complete, Fail
  <2> HIDE DEF w
  <2>4. /\ ws'[w].lifecycle \notin {"starting", "stopping"}
        /\ \A v \in Worker : v # w => ws'[v] = ws[v]
    BY <2>2, <2>3, StoredEffect, TransitionEnds
  <2> QED
    BY <2>1, <2>4 DEF Leaves, w
<1> QED
  BY <1>1, <1>2, <1>3, <1>4, <1>5, <1>6, <1>7, <1>8, <1>9, <1>11, <1>12
  DEF CallerStep, Internal, Invoke, InvokeFromHandler

\* A worker is in transition exactly while a call owns it.
LEMMA OwnershipStep ==
    TypeOK /\ GateExclusive /\ TransitionsOwned /\ [Next]_vars => TransitionsOwned'
<1> SUFFICES ASSUME TypeOK, GateExclusive, TransitionsOwned, [Next]_vars
             PROVE  TransitionsOwned'
  OBVIOUS
<1>1. ASSUME Untouched, UNCHANGED <<workerOrder, call>> PROVE TransitionsOwned'
  <2>1. Registered' = Registered /\ Registered \subseteq Worker
    BY <1>1, RegisteredWorkers DEF Registered
  <2> QED
    BY <1>1, <2>1 DEF Untouched, TransitionsOwned, Owns, InUserCode
<1>2. ASSUME NEW w \in Worker, Register(w) PROVE TransitionsOwned'
  <2>1. w \notin Registered /\ call' = call
    BY <1>2 DEF Register
  <2>2. NewWorkerState.lifecycle = "registered"
    BY DEF NewWorkerState
  <2>3. Registered \subseteq Worker
    BY RegisteredWorkers
  <2> QED
    BY <1>2, <2>1, <2>2, <2>3, RegisterFrame DEF TransitionsOwned, Owns, InUserCode
<1>3. ASSUME NEW c \in Caller, CallerStep(c) PROVE TransitionsOwned'
  <2>1. /\ \A k \in Caller : k # c => call'[k] = call[k]
        /\ Registered' = Registered /\ Registered \subseteq Worker
    BY <1>3, GateFrame, RegisteredWorkers DEF Registered
  <2>2. \A k \in Caller : HoldsGate(c) /\ InUserCode(k) => k = c
    BY DEF GateExclusive, HoldsGate, InUserCode
  <2>3. CASE Outside(c)
    BY <2>1, <2>3 DEF Outside, TransitionsOwned, Owns, InUserCode, Drainable
  <2>4. CASE Inside(c)
    BY <2>1, <2>4 DEF Inside, TransitionsOwned, Owns, InUserCode
  <2>5. CASE Enters(c)
    BY <2>1, <2>2, <2>5 DEF Enters, TransitionsOwned, Owns, InUserCode
  <2>6. CASE Leaves(c)
    <3>1. HoldsGate(c)
      BY <2>6 DEF Leaves, InUserCode, HoldsGate
    <3> QED
      BY <2>1, <2>2, <2>6, <3>1 DEF Leaves, TransitionsOwned, Owns, InUserCode
  <2> QED
    BY <1>3, <2>3, <2>4, <2>5, <2>6, UserFrame
<1>4. ASSUME NEW w \in Worker, Signal(w) PROVE TransitionsOwned'
  BY <1>1, <1>4, SignalFrame
<1>5. ASSUME NEW d \in Dispatch, CommandStep(d) PROVE TransitionsOwned'
  BY <1>1, <1>5, CommandFrame
<1>6. CASE UNCHANGED vars
  BY <1>1, <1>6 DEF vars, Untouched
<1> QED
  BY <1>2, <1>3, <1>4, <1>5, <1>6 DEF Next

\* No call is under way initially, and the token is in the gate (New).
LEMMA GateInit == Init => GateExclusive /\ TransitionsOwned
<1> SUFFICES ASSUME Init PROVE GateExclusive /\ TransitionsOwned
  OBVIOUS
<1>1. \A c \in Caller : call[c].pc = "idle"
  BY DEF Init, IdleCall
<1>2. \A w \in Worker : ws[w].lifecycle = "registered"
  BY DEF Init, NewWorkerState
<1> QED
  BY <1>1, <1>2 DEF Init, GateExclusive, TransitionsOwned, HoldsGate, InUserCode

\* The lifecycle gate admits one call at a time, and its token is neither lost
\* nor doubled, for any number of callers (acquireLifecycle).
THEOREM GateIsExclusive == Spec => []GateExclusive
<1>1. TypeOK /\ GateExclusive /\ [Next]_vars => TypeOK' /\ GateExclusive'
  BY TypeStep, GateStep
<1> QED
  BY <1>1, TypeInit, GateInit, PTL DEF Spec

\* A worker is starting or stopping exactly while one call is between begin and
\* completion on it, at its current generation (beginWorkerStart to
\* completeWorkerStart, beginWorkerStop to completeWorkerTransition).
THEOREM TransitionsAreOwned == Spec => []TransitionsOwned
<1>1. TypeOK /\ GateExclusive /\ TransitionsOwned /\ [Next]_vars
         => TypeOK' /\ GateExclusive' /\ TransitionsOwned'
  BY TypeStep, GateStep, OwnershipStep
<1> QED
  BY <1>1, TypeInit, GateInit, PTL DEF Spec

-----------------------------------------------------------------------------
(* How a worker record evolves *)

\* The steps that may take the record s of worker w to t, with the state each
\* of them needs. None of them counts commands.
Evolves(w, s, t) ==
    \/ t = s
    \/ /\ s.lifecycle \in AllowsRuntimeMutation
       /\ \E b, f \in BOOLEAN :
             /\ b => s.lifecycle \in AllowsPositiveSignal
             /\ \/ t = [s EXCEPT !.ready = b, !.readySetDuringStart = f]
                \/ t = [s EXCEPT !.acceptingWork = b, !.acceptingWorkSetDuringStart = f]
    \/ s.lifecycle \in Reportable /\ t = Reported(s)
    \/ s.lifecycle \in Startable /\ t = BegunStart(s)
    \/ s.lifecycle \in Stoppable /\ t = BegunStop(s)
    \/ s.lifecycle \in Drainable /\ t = Drained(s)
    \/ s.lifecycle = "starting" /\ t = CompletedStart(w, s)
    \/ s.lifecycle = "stopping" /\ t = CompletedStop(s)
    \/ /\ s.lifecycle \in {"starting", "stopping"}
       /\ \/ t = [s EXCEPT !.lastFailure = "primary"]
          \/ t = Failed(s)
          \/ t = CleanupFailed(s)
    \/ t = [s EXCEPT !.lastCommandFailure = TRUE]
    \/ /\ s.lifecycle \in {"running", "draining"}
       /\ t = [Failed(s) EXCEPT !.lastCommandFailure = TRUE]

EvolvesAll == \A w \in Worker : Evolves(w, ws[w], ws'[w])

\* A step that writes one record evolves all when it evolves that one.
LEMMA EvolvesOne ==
    ASSUME TypeOK, NEW v, NEW s, Stored(v, s) \/ Commit(v, s),
           v \in Worker => Evolves(v, ws[v], s)
    PROVE  EvolvesAll
<1>1. \A w \in Worker : w # v => ws'[w] = ws[w]
  BY StoredEffect
<1>2. v \in Worker => ws'[v] = s
  BY StoredEffect
<1>3. \A w \in Worker : Evolves(w, ws[w], ws[w])
  BY DEF Evolves
<1> QED
  BY <1>1, <1>2, <1>3 DEF EvolvesAll

\* Signals of a handle.
LEMMA SignalEvolves ==
    ASSUME TypeOK, NEW v \in Worker, Signal(v)
    PROVE  EvolvesAll /\ status'.inFlight = status.inFlight
<1>1. PICK gen \in Handles(v) :
         \/ \E b \in BOOLEAN : SetReady(v, gen, b)
         \/ \E b \in BOOLEAN : SetAcceptingWork(v, gen, b)
         \/ ReportFailure(v, gen)
  BY DEF Signal
<1>2. PICK s : Commit(v, s) /\ Evolves(v, ws[v], s)
  <2>1. ASSUME NEW b \in BOOLEAN, SetReady(v, gen, b)
        PROVE  \E s : Commit(v, s) /\ Evolves(v, ws[v], s)
    <3>1. PICK f \in BOOLEAN :
             f = (ws[v].readySetDuringStart \/ ws[v].lifecycle = "starting")
      OBVIOUS
    <3>2. Commit(v, [ws[v] EXCEPT !.ready = b, !.readySetDuringStart = f])
      BY <2>1, <3>1 DEF SetReady, ReadySet
    <3>3. Evolves(v, ws[v], [ws[v] EXCEPT !.ready = b, !.readySetDuringStart = f])
      BY <2>1 DEF SetReady, ReadySet, HandleMay, Evolves
    <3> QED
      BY <3>2, <3>3
  <2>2. ASSUME NEW b \in BOOLEAN, SetAcceptingWork(v, gen, b)
        PROVE  \E s : Commit(v, s) /\ Evolves(v, ws[v], s)
    <3>1. PICK f \in BOOLEAN :
             f = (ws[v].acceptingWorkSetDuringStart \/ ws[v].lifecycle = "starting")
      OBVIOUS
    <3>2. Commit(v, [ws[v] EXCEPT !.acceptingWork = b, !.acceptingWorkSetDuringStart = f])
      BY <2>2, <3>1 DEF SetAcceptingWork, AcceptingWorkSet
    <3>3. Evolves(v, ws[v],
                  [ws[v] EXCEPT !.acceptingWork = b, !.acceptingWorkSetDuringStart = f])
      BY <2>2 DEF SetAcceptingWork, AcceptingWorkSet, HandleMay, Evolves
    <3> QED
      BY <3>2, <3>3
  <2>3. ASSUME ReportFailure(v, gen)
        PROVE  \E s : Commit(v, s) /\ Evolves(v, ws[v], s)
    BY <2>3 DEF ReportFailure, HandleMayReport, Evolves
  <2> QED
    BY <1>1, <2>1, <2>2, <2>3
<1> QED
  BY <1>2, EvolvesOne, RecomputeType DEF Commit, TypeOK

\* Lifecycle calls; what they complete or fail is in transition because they
\* own it.
LEMMA CallerEvolves ==
    ASSUME TypeOK, TransitionsOwned, NEW c \in Caller, CallerStep(c)
    PROVE  EvolvesAll /\ status'.inFlight = status.inFlight
<1>a. \A w \in Worker : Evolves(w, ws[w], ws[w])
  BY DEF Evolves
<1>b. ASSUME NEW v \in Worker, NEW s, Commit(v, s), Evolves(v, ws[v], s)
      PROVE  EvolvesAll /\ status'.inFlight = status.inFlight
  BY <1>b, EvolvesOne, RecomputeType DEF Commit, TypeOK
<1>1. CASE UNCHANGED <<ws, status>>
  BY <1>1, <1>a DEF EvolvesAll
<1>2. CASE BeginStart(c)
  <2> DEFINE w == NextEntry(c).worker
  <2>1. /\ w \in Worker /\ Commit(w, BegunStart(ws[w]))
        /\ ws[w].lifecycle \in Startable
    BY <1>2, RegisteredWorkers DEF BeginStart, CanBegin, Admissible
  <2>2. Evolves(w, ws[w], BegunStart(ws[w]))
    BY <2>1 DEF Evolves
  <2> HIDE DEF w
  <2> QED
    BY <1>b, <2>1, <2>2
<1>3. CASE BeginStop(c)
  <2> DEFINE w == NextEntry(c).worker
  <2>1. /\ w \in Worker /\ Commit(w, BegunStop(ws[w]))
        /\ ws[w].lifecycle \in Stoppable
    BY <1>3, RegisteredWorkers DEF BeginStop, CanBegin, Admissible
  <2>2. Evolves(w, ws[w], BegunStop(ws[w]))
    BY <2>1 DEF Evolves
  <2> HIDE DEF w
  <2> QED
    BY <1>b, <2>1, <2>2
<1>4. CASE Drain(c)
  <2> DEFINE w == NextEntry(c).worker
  <2>1. /\ w \in Worker /\ Commit(w, Drained(ws[w]))
        /\ ws[w].lifecycle \in Drainable
    BY <1>4, RegisteredWorkers DEF Drain, CanBegin, Admissible
  <2>2. Evolves(w, ws[w], Drained(ws[w]))
    BY <2>1 DEF Evolves
  <2> HIDE DEF w
  <2> QED
    BY <1>b, <2>1, <2>2
<1>5. CASE UserFails(c) \/ Retry(c)
  <2> DEFINE v == call[c].worker
  <2>1. /\ v \in Worker /\ ws[v].lifecycle \in {"starting", "stopping"}
    BY <1>5, RegisteredWorkers
    DEF UserFails, Retry, At, InUserCode, TransitionsOwned
  <2>2. UNCHANGED status
    BY <1>5 DEF UserFails, Retry
  <2>3. UNCHANGED ws \/ Stored(v, [ws[v] EXCEPT !.lastFailure = "primary"])
    BY <1>5 DEF UserFails, Retry, RecordFailure, Stored
  <2>4. Evolves(v, ws[v], [ws[v] EXCEPT !.lastFailure = "primary"])
    BY <2>1 DEF Evolves
  <2> HIDE DEF v
  <2> QED
    BY <1>a, <2>1, <2>2, <2>3, <2>4, EvolvesOne DEF EvolvesAll
<1>6. CASE Complete(c) \/ Fail(c)
  <2> DEFINE v == call[c].worker
  <2>1. /\ v \in Worker /\ Current(c)
        /\ ws[v].lifecycle = (IF call[c].phase = "start" THEN "starting" ELSE "stopping")
    BY <1>6, RegisteredWorkers
    DEF Complete, Fail, At, InUserCode, TransitionsOwned, Current
  <2>2. \/ ws[v].lifecycle = "starting" /\ Commit(v, CompletedStart(v, ws[v]))
        \/ ws[v].lifecycle = "stopping" /\ Commit(v, CompletedStop(ws[v]))
        \/ Commit(v, CleanupFailed(ws[v])) \/ Commit(v, Failed(ws[v]))
    BY <1>6, <2>1 DEF Complete, Fail
  <2>3. /\ ws[v].lifecycle = "starting" => Evolves(v, ws[v], CompletedStart(v, ws[v]))
        /\ ws[v].lifecycle = "stopping" => Evolves(v, ws[v], CompletedStop(ws[v]))
        /\ Evolves(v, ws[v], CleanupFailed(ws[v]))
        /\ Evolves(v, ws[v], Failed(ws[v]))
    BY <2>1 DEF Evolves
  <2> HIDE DEF v
  <2> QED
    BY <1>b, <2>1, <2>2, <2>3
<1>7. ASSUME NEW op, NEW by, Enter(c, op, by) PROVE UNCHANGED <<ws, status>>
  BY <1>7 DEF Enter
<1>8. CASE UserReturns(c) \/ UserCleanupFails(c)
  BY <1>1, <1>8 DEF UserReturns, UserCleanupFails
<1>9. CASE \/ Expire(c) \/ Acquire(c) \/ Abandon(c) \/ CloseAdmission(c) \/ Reopen(c)
           \/ Release(c) \/ Snapshot(c) \/ Skip(c) \/ Reject(c) \/ WalkDone(c)
           \/ WaitedIdle(c) \/ WaitExpired(c) \/ BackoffElapses(c) \/ BackoffExpires(c)
  BY <1>1, <1>9 DEF Expire, Acquire, Abandon, CloseAdmission, Reopen, Release, Snapshot,
       Skip, Reject, WalkDone, WaitedIdle, WaitExpired, BackoffElapses, BackoffExpires
<1> QED
  BY <1>1, <1>2, <1>3, <1>4, <1>5, <1>6, <1>7, <1>8, <1>9
  DEF CallerStep, Internal, UserEnds, Invoke, InvokeFromHandler

\* Outcomes of a handler.
LEMMA HandlerEvolves ==
    ASSUME TypeOK, NEW d \in Dispatch,
           HandlerReturns(d) \/ HandlerFails(d) \/ HandlerPanics(d)
    PROVE  /\ EvolvesAll /\ status'.inFlight = status.inFlight
           /\ UNCHANGED <<workerOrder, admissionClosed, gate, call>>
           /\ cmd[d].pc # "idle" /\ cmd'[d].pc # "idle"
           /\ cmd'[d].worker = cmd[d].worker /\ cmd'[d].gen = cmd[d].gen
           /\ \A e \in Dispatch : e # d => cmd'[e] = cmd[e]
<1> DEFINE v == cmd[d].worker
<1>a. \A w \in Worker : Evolves(w, ws[w], ws[w])
  BY DEF Evolves
<1>1. /\ UNCHANGED <<workerOrder, admissionClosed, gate, call>>
      /\ cmd[d].pc # "idle" /\ cmd'[d].pc # "idle"
      /\ cmd'[d].worker = cmd[d].worker /\ cmd'[d].gen = cmd[d].gen
      /\ \A e \in Dispatch : e # d => cmd'[e] = cmd[e]
  BY DEF HandlerReturns, HandlerFails, HandlerPanics, HandlerReady, TypeOK, CommandState
<1>2. ASSUME HandlerReturns(d)
      PROVE  EvolvesAll /\ status'.inFlight = status.inFlight
  BY <1>2, <1>a DEF HandlerReturns, EvolvesAll
<1>3. ASSUME HandlerFails(d)
      PROVE  EvolvesAll /\ status'.inFlight = status.inFlight
  <2>1. Stored(v, CommandFailed(ws[v], cmd[d].gen)) /\ UNCHANGED status
    BY <1>3 DEF HandlerFails, Stored
  <2>2. Evolves(v, ws[v], CommandFailed(ws[v], cmd[d].gen))
    BY DEF Evolves, CommandFailed
  <2> HIDE DEF v
  <2> QED
    BY <2>1, <2>2, EvolvesOne
<1>4. ASSUME HandlerPanics(d)
      PROVE  EvolvesAll /\ status'.inFlight = status.inFlight
  <2> DEFINE s == CommandPanicked(ws[v], cmd[d].gen)
  <2>1. Commit(v, s) \/ (Stored(v, s) /\ UNCHANGED status)
    BY <1>4 DEF HandlerPanics, Stored
  <2>2. Evolves(v, ws[v], s)
    BY DEF Evolves, CommandPanicked
  <2> HIDE DEF v, s
  <2>3. status'.inFlight = status.inFlight
    BY <2>1, RecomputeType DEF Commit, TypeOK
  <2> QED
    BY <2>1, <2>2, <2>3, EvolvesOne
<1> QED
  BY <1>1, <1>2, <1>3, <1>4

-----------------------------------------------------------------------------
(* Evidence of failures and stale signals *)

\* FailureEvidence and NoStaleSignals, of one record.
Evidenced(s) ==
    /\ s.lifecycle = "failed" => s.lastFailure # "nil"
    /\ s.lifecycle \in {"running", "draining"} => s.lastFailure = "nil"
    /\ s.failureReportedDuringStart =>
          s.lifecycle = "starting" /\ s.lastFailure # "nil"

Silenced(s) == s.ready \/ s.acceptingWork => s.lifecycle \in AllowsPositiveSignal

\* Failing a worker, with or without earlier evidence, leaves evidence.
LEMMA FailedIsEvidenced ==
    ASSUME NEW s \in WorkerState
    PROVE  \A t \in {Failed(s), CleanupFailed(s), [Failed(s) EXCEPT !.lastCommandFailure = TRUE]} :
              Evidenced(t) /\ Silenced(t)
<1>1. /\ Failed(s).lifecycle = "failed" /\ Failed(s).lastFailure = "primary"
      /\ ~ Failed(s).failureReportedDuringStart
      /\ ~ Failed(s).ready /\ ~ Failed(s).acceptingWork
      /\ Failed(s) \in WorkerState
  <2>1. Failed(s) \in WorkerState
    BY DEF Failed, WorkerState, LifecycleState, Failure
  <2> QED
    BY <2>1 DEF Failed, WorkerState
<1>2. Evidenced(Failed(s)) /\ Silenced(Failed(s))
  BY <1>1 DEF Evidenced, Silenced
<1>3. /\ Evidenced([Failed(s) EXCEPT !.lastCommandFailure = TRUE])
      /\ Silenced([Failed(s) EXCEPT !.lastCommandFailure = TRUE])
  <2> HIDE DEF Failed
  <2> QED
    BY <1>1 DEF Evidenced, Silenced, WorkerState
<1>4. Evidenced(CleanupFailed(s)) /\ Silenced(CleanupFailed(s))
  BY <1>1 DEF Evidenced, Silenced, WorkerState, CleanupFailed
<1> QED
  BY <1>2, <1>3, <1>4

\* No step of a record loses evidence or leaves a signal raised.
LEMMA EvidenceEvolves ==
    ASSUME NEW w \in Worker, NEW s \in WorkerState, NEW t, Evolves(w, s, t),
           Evidenced(s), Silenced(s)
    PROVE  Evidenced(t) /\ Silenced(t)
<1> USE DEF Evidenced, Silenced, WorkerState
<1>1. CASE /\ s.lifecycle \in AllowsRuntimeMutation
           /\ \E b, f \in BOOLEAN :
                /\ b => s.lifecycle \in AllowsPositiveSignal
                /\ \/ t = [s EXCEPT !.ready = b, !.readySetDuringStart = f]
                   \/ t = [s EXCEPT !.acceptingWork = b, !.acceptingWorkSetDuringStart = f]
  <2>1. PICK b \in BOOLEAN, f \in BOOLEAN :
           /\ b => s.lifecycle \in AllowsPositiveSignal
           /\ \/ t = [s EXCEPT !.ready = b, !.readySetDuringStart = f]
              \/ t = [s EXCEPT !.acceptingWork = b, !.acceptingWorkSetDuringStart = f]
    BY <1>1
  <2>2. /\ t.lifecycle = s.lifecycle /\ t.lastFailure = s.lastFailure
        /\ t.failureReportedDuringStart = s.failureReportedDuringStart
        /\ (t.ready = b /\ t.acceptingWork = s.acceptingWork)
             \/ (t.ready = s.ready /\ t.acceptingWork = b)
    BY <2>1
  <2> QED
    BY <2>1, <2>2
<1>2. CASE s.lifecycle \in Reportable /\ t = Reported(s)
  <2>1. CASE s.lifecycle \in {"starting", "stopping"}
    BY <1>2, <2>1 DEF Reported
  <2>2. CASE s.lifecycle \notin {"starting", "stopping"}
    BY <1>2, <2>2, FailedIsEvidenced DEF Reported
  <2> QED
    BY <2>1, <2>2
<1>3. CASE s.lifecycle \in Startable /\ t = BegunStart(s)
  BY <1>3 DEF BegunStart
<1>4. CASE s.lifecycle \in Stoppable /\ t = BegunStop(s)
  BY <1>4 DEF BegunStop, Stoppable
<1>5. CASE s.lifecycle \in Drainable /\ t = Drained(s)
  BY <1>5 DEF Drained, Drainable
<1>6. CASE s.lifecycle = "starting" /\ t = CompletedStart(w, s)
  BY <1>6 DEF CompletedStart, AllowsPositiveSignal
<1>7. CASE s.lifecycle = "stopping" /\ t = CompletedStop(s)
  BY <1>7 DEF CompletedStop
<1>8. CASE s.lifecycle \in {"starting", "stopping"} /\ t = [s EXCEPT !.lastFailure = "primary"]
  BY <1>8
<1>9. CASE t \in {Failed(s), CleanupFailed(s), [Failed(s) EXCEPT !.lastCommandFailure = TRUE]}
  <2> HIDE DEF Evidenced, Silenced
  <2> QED
    BY <1>9, FailedIsEvidenced
<1>10. CASE t = s \/ t = [s EXCEPT !.lastCommandFailure = TRUE]
  BY <1>10
<1> QED
  BY <1>1, <1>2, <1>3, <1>4, <1>5, <1>6, <1>7, <1>8, <1>9, <1>10 DEF Evolves

EvidenceInv == \A w \in Worker : Evidenced(ws[w]) /\ Silenced(ws[w])

\* EvidenceInv is inductive, given who owns a worker in transition.
LEMMA EvidenceStep ==
    TypeOK /\ TransitionsOwned /\ EvidenceInv /\ [Next]_vars => EvidenceInv'
<1> SUFFICES ASSUME TypeOK, TransitionsOwned, EvidenceInv, [Next]_vars PROVE EvidenceInv'
  OBVIOUS
<1>1. ASSUME EvolvesAll PROVE EvidenceInv'
  BY <1>1, EvidenceEvolves DEF EvolvesAll, EvidenceInv, TypeOK
<1>2. ASSUME NEW w \in Worker, Register(w) PROVE EvidenceInv'
  <2>1. Evidenced(NewWorkerState) /\ Silenced(NewWorkerState)
    BY DEF Evidenced, Silenced, NewWorkerState
  <2> QED
    BY <1>2, <2>1, RegisterFrame DEF EvidenceInv
<1>3. ASSUME NEW w \in Worker, Signal(w) PROVE EvidenceInv'
  BY <1>1, <1>3, SignalEvolves
<1>4. ASSUME NEW c \in Caller, CallerStep(c) PROVE EvidenceInv'
  BY <1>1, <1>4, CallerEvolves
<1>5. ASSUME NEW d \in Dispatch, CommandStep(d) PROVE EvidenceInv'
  <2>1. CASE HandlerReturns(d) \/ HandlerFails(d) \/ HandlerPanics(d)
    BY <1>1, <2>1, HandlerEvolves
  <2>2. ASSUME \A w \in Worker : \E n \in Nat : ws'[w] = [ws[w] EXCEPT !.inFlight = n]
        PROVE  EvidenceInv'
    <3>1. ASSUME NEW s \in WorkerState, NEW n \in Nat
          PROVE  /\ Evidenced([s EXCEPT !.inFlight = n]) <=> Evidenced(s)
                 /\ Silenced([s EXCEPT !.inFlight = n]) <=> Silenced(s)
      BY DEF Evidenced, Silenced, WorkerState
    <3>2. ASSUME NEW w \in Worker PROVE Evidenced(ws'[w]) /\ Silenced(ws'[w])
      <4>1. PICK n \in Nat : ws'[w] = [ws[w] EXCEPT !.inFlight = n]
        BY <2>2
      <4>2. ws[w] \in WorkerState /\ Evidenced(ws[w]) /\ Silenced(ws[w])
        BY DEF TypeOK, EvidenceInv
      <4> QED
        BY <3>1, <4>1, <4>2
    <3> QED
      BY <3>2 DEF EvidenceInv
  <2>3. ASSUME NEW v, NEW n \in Nat, Stored(v, [ws[v] EXCEPT !.inFlight = n])
        PROVE  \A w \in Worker : \E m \in Nat : ws'[w] = [ws[w] EXCEPT !.inFlight = m]
    <3>1. \A w \in Worker : ws[w] = [ws[w] EXCEPT !.inFlight = ws[w].inFlight]
                            /\ ws[w].inFlight \in Nat
      BY DEF TypeOK, WorkerState
    <3>2. ASSUME NEW w \in Worker
          PROVE  \E m \in Nat : ws'[w] = [ws[w] EXCEPT !.inFlight = m]
      <4>1. CASE w = v
        BY <2>3, <4>1, StoredEffect
      <4>2. CASE w # v
        <5>1. ws'[w] = ws[w]
          BY <2>3, <4>2, StoredEffect
        <5> QED
          BY <3>1, <5>1
      <4> QED
        BY <4>1, <4>2
    <3> QED
      BY <3>2
  <2>4. ASSUME NEW v \in Worker, Admit(d, v) PROVE EvidenceInv'
    <3>1. ws[v].inFlight + 1 \in Nat /\ Stored(v, [ws[v] EXCEPT !.inFlight = ws[v].inFlight + 1])
      BY <2>4 DEF Admit, Stored, TypeOK, WorkerState
    <3> QED
      BY <2>2, <2>3, <3>1
  <2>5. CASE ReleaseSlot(d)
    <3> DEFINE v == cmd[d].worker
    <3>1. Stored(v, [ws[v] EXCEPT !.inFlight = Decrement(ws[v].inFlight)])
      BY <2>5 DEF ReleaseSlot, Stored
    <3>2. CASE v \in Worker
      <4>1. Decrement(ws[v].inFlight) \in Nat
        BY <3>2 DEF Decrement, TypeOK, WorkerState
      <4> HIDE DEF v
      <4> QED
        BY <2>2, <2>3, <3>1, <4>1
    <3>3. CASE v \notin Worker
      BY <3>1, <3>3, StoredEffect DEF EvidenceInv
    <3> QED
      BY <3>2, <3>3
  <2> QED
    BY <1>5, <2>1, <2>4, <2>5 DEF CommandStep
<1>6. CASE UNCHANGED vars
  BY <1>6 DEF vars, EvidenceInv
<1> QED
  BY <1>2, <1>3, <1>4, <1>5, <1>6 DEF Next

-----------------------------------------------------------------------------
(* Counting commands *)

\* A worker that is not registered is untouched, and commands run only on
\* registered workers.
Pristine ==
    /\ \A w \in Worker : w \notin Registered => ws[w] = NewWorkerState
    /\ \A d \in Dispatch : cmd[d].pc # "idle" => cmd[d].worker \in Registered

\* No step of a record counts commands.
LEMMA EvolvesKeepsCount ==
    ASSUME NEW w \in Worker, NEW s \in WorkerState, NEW t, Evolves(w, s, t)
    PROVE  t.inFlight = s.inFlight
<1> USE DEF WorkerState
<1>1. Failed(s).inFlight = s.inFlight /\ CleanupFailed(s).inFlight = s.inFlight
  BY DEF Failed, CleanupFailed
<1>2. [Failed(s) EXCEPT !.lastCommandFailure = TRUE].inFlight = s.inFlight
  BY DEF Failed
<1>3. CASE \E b, f \in BOOLEAN :
              \/ t = [s EXCEPT !.ready = b, !.readySetDuringStart = f]
              \/ t = [s EXCEPT !.acceptingWork = b, !.acceptingWorkSetDuringStart = f]
  BY <1>3
<1>4. CASE t = Reported(s)
  BY <1>1, <1>4 DEF Reported
<1>5. CASE t = BegunStart(s) \/ t = BegunStop(s) \/ t = Drained(s)
  BY <1>5 DEF BegunStart, BegunStop, Drained
<1>6. CASE t = CompletedStart(w, s) \/ t = CompletedStop(s)
  BY <1>6 DEF CompletedStart, CompletedStop
<1>7. CASE \/ t = s \/ t = [s EXCEPT !.lastFailure = "primary"]
           \/ t = [s EXCEPT !.lastCommandFailure = TRUE]
  BY <1>7
<1> QED
  BY <1>1, <1>2, <1>3, <1>4, <1>5, <1>6, <1>7 DEF Evolves

\* The commands that hold a slot are finitely many.
LEMMA HoldingFinite ==
    /\ Holding \subseteq Dispatch /\ IsFiniteSet(Holding)
    /\ \A w : HoldingOn(w) \subseteq Holding /\ IsFiniteSet(HoldingOn(w))
<1>1. Holding \subseteq Dispatch /\ \A w : HoldingOn(w) \subseteq Dispatch
  BY DEF Holding, HoldingOn
<1>2. IsFiniteSet(Holding)
  BY <1>1, RuntimeAssumption, FS_Subset DEF RuntimeAssumption
<1>3. ASSUME NEW w PROVE IsFiniteSet(HoldingOn(w))
  BY <1>1, RuntimeAssumption, FS_Subset DEF RuntimeAssumption
<1> QED
  BY <1>1, <1>2, <1>3 DEF HoldingOn

\* Unregistered workers stay pristine: user code has no handle of theirs, and
\* lifecycle calls and commands look workers up (lookupWorker, admitCommand).
LEMMA PristineStep == TypeOK /\ TransitionsOwned /\ Pristine /\ [Next]_vars => Pristine'
<1> SUFFICES ASSUME TypeOK, TransitionsOwned, Pristine, [Next]_vars PROVE Pristine'
  OBVIOUS
<1>a. Registered \subseteq Worker
  BY RegisteredWorkers
<1>b. ASSUME UNCHANGED workerOrder,
             \A w \in Worker : w \notin Registered => ws'[w] = ws[w],
             \A d \in Dispatch : cmd'[d].pc # "idle" => cmd'[d].worker \in Registered
      PROVE  Pristine'
  BY <1>b DEF Pristine, Registered
<1>c. ASSUME NEW v \in Registered, NEW s, Stored(v, s) \/ Commit(v, s)
      PROVE  \A w \in Worker : w \notin Registered => ws'[w] = ws[w]
  BY <1>c, StoredEffect
<1>1. ASSUME NEW w \in Worker, Register(w) PROVE Pristine'
  <2>1. cmd' = cmd
    BY <1>1 DEF Register
  <2> QED
    BY <1>1, <2>1, RegisterFrame DEF Pristine
<1>2. ASSUME NEW w \in Worker, Signal(w) PROVE Pristine'
  <2>1. w \in Registered
    <3>1. ws[w].generation # 0
      BY <1>2 DEF Signal, Handles, TypeOK, WorkerState
    <3> QED
      BY <3>1 DEF Pristine, NewWorkerState
  <2>2. \E s : Commit(w, s)
    BY <1>2 DEF Signal, SetReady, ReadySet, SetAcceptingWork, AcceptingWorkSet, ReportFailure, HandleMayReport
  <2> QED
    BY <1>2, <1>b, <1>c, <2>1, <2>2, SignalFrame DEF Pristine
<1>3. ASSUME NEW c \in Caller, CallerStep(c) PROVE Pristine'
  <2> DEFINE Rest == \A w \in Worker : w \notin Registered => ws'[w] = ws[w]
  <2>1. ASSUME UNCHANGED ws PROVE Rest
    BY <2>1
  <2>2. ASSUME BeginStart(c) \/ BeginStop(c) \/ Drain(c) PROVE Rest
    <3>1. \E v \in Registered : \E s : Commit(v, s)
      BY <2>2 DEF BeginStart, BeginStop, Drain, CanBegin
    <3> QED
      BY <1>c, <3>1
  <2>3. ASSUME \/ UserFails(c) \/ Retry(c) \/ Complete(c) \/ Fail(c) PROVE Rest
    <3>1. call[c].worker \in Registered
      BY <2>3 DEF UserFails, Retry, Complete, Fail, At, InUserCode, TransitionsOwned
    <3>2. \/ UNCHANGED ws
          \/ \E s : Stored(call[c].worker, s) \/ Commit(call[c].worker, s)
      BY <2>3 DEF UserFails, Retry, Complete, Fail, RecordFailure, Stored
    <3> QED
      BY <1>c, <3>1, <3>2
  <2>4. ASSUME NEW op, NEW by, Enter(c, op, by) PROVE UNCHANGED ws
    BY <2>4 DEF Enter
  <2>5. ASSUME \/ Expire(c) \/ Acquire(c) \/ Abandon(c) \/ CloseAdmission(c) \/ Reopen(c)
               \/ Release(c) \/ Snapshot(c) \/ Skip(c) \/ Reject(c) \/ WalkDone(c)
               \/ WaitedIdle(c) \/ WaitExpired(c) \/ BackoffElapses(c) \/ BackoffExpires(c)
               \/ UserReturns(c) \/ UserCleanupFails(c)
        PROVE  UNCHANGED ws
    BY <2>5 DEF Expire, Acquire, Abandon, CloseAdmission, Reopen, Release, Snapshot,
         Skip, Reject, WalkDone, WaitedIdle, WaitExpired, BackoffElapses, BackoffExpires,
         UserReturns, UserCleanupFails
  <2>6. Rest
    BY <1>3, <2>1, <2>2, <2>3, <2>4, <2>5
    DEF CallerStep, Internal, UserEnds, Invoke, InvokeFromHandler
  <2> QED
    BY <1>3, <1>b, <2>6, GateFrame DEF Pristine
<1>4. ASSUME NEW d \in Dispatch, CommandStep(d) PROVE Pristine'
  <2>1. cmd[d].pc # "idle" => cmd[d].worker \in Registered
    BY DEF Pristine
  <2>2. ASSUME NEW w \in Worker, Admit(d, w) PROVE Pristine'
    <3>1. w \in Registered /\ \E s : Stored(w, s)
      BY <2>2 DEF Admit, Stored
    <3>2. \A e \in Dispatch : cmd'[e].pc # "idle" => cmd'[e].worker \in Registered
      BY <2>2, <3>1 DEF Admit, TypeOK, Pristine
    <3>3. UNCHANGED workerOrder
      BY <2>2 DEF Admit
    <3> QED
      BY <1>b, <1>c, <3>1, <3>2, <3>3
  <2>3. CASE HandlerReturns(d) \/ HandlerFails(d) \/ HandlerPanics(d)
    <3>1. cmd[d].worker \in Registered
      BY <2>1, <2>3, HandlerEvolves
    <3>2. UNCHANGED ws \/ \E s : Stored(cmd[d].worker, s)
      BY <2>3 DEF HandlerReturns, HandlerFails, HandlerPanics, Commit, Stored
    <3>3. \A w \in Worker : w \notin Registered => ws'[w] = ws[w]
      BY <1>c, <3>1, <3>2
    <3>4. \A e \in Dispatch : cmd'[e].pc # "idle" => cmd'[e].worker \in Registered
      BY <2>3, <3>1, HandlerEvolves DEF Pristine
    <3> QED
      BY <1>b, <2>3, <3>3, <3>4, HandlerEvolves
  <2>4. CASE ReleaseSlot(d)
    <3>1. cmd[d].worker \in Registered /\ (\E s : Stored(cmd[d].worker, s))
          /\ UNCHANGED workerOrder
      BY <2>1, <2>4 DEF ReleaseSlot, Stored
    <3>2. \A e \in Dispatch : cmd'[e].pc # "idle" => cmd'[e].worker \in Registered
      BY <2>4 DEF ReleaseSlot, TypeOK, Pristine, IdleCommand
    <3> QED
      BY <1>b, <1>c, <3>1, <3>2
  <2> QED
    BY <1>4, <2>2, <2>3, <2>4 DEF CommandStep
<1>5. CASE UNCHANGED vars
  BY <1>5 DEF vars, Pristine, Registered
<1> QED
  BY <1>1, <1>2, <1>3, <1>4, <1>5 DEF Next

\* The counters of both levels are those of the commands that hold a slot.
LEMMA SlotStep ==
    TypeOK /\ TransitionsOwned /\ Pristine /\ SlotAccounting /\ [Next]_vars
        => SlotAccounting'
<1> SUFFICES ASSUME TypeOK, TransitionsOwned, Pristine, SlotAccounting, [Next]_vars
             PROVE  SlotAccounting'
  OBVIOUS
<1>a. ASSUME status'.inFlight = status.inFlight,
             \A w \in Worker : ws'[w].inFlight = ws[w].inFlight,
             Holding' = Holding, \A w \in Worker : HoldingOn(w)' = HoldingOn(w)
      PROVE  SlotAccounting'
  BY <1>a DEF SlotAccounting
<1>b. ASSUME UNCHANGED cmd
      PROVE  Holding' = Holding /\ \A w \in Worker : HoldingOn(w)' = HoldingOn(w)
  BY <1>b DEF Holding, HoldingOn
<1>c. ASSUME EvolvesAll PROVE \A w \in Worker : ws'[w].inFlight = ws[w].inFlight
  BY <1>c, EvolvesKeepsCount DEF EvolvesAll, TypeOK
<1>1. ASSUME NEW w \in Worker, Register(w) PROVE SlotAccounting'
  <2>1. ws[w] = NewWorkerState
    BY <1>1 DEF Register, Pristine
  <2>2. \A v \in Worker : ws'[v].inFlight = ws[v].inFlight
    BY <1>1, <2>1, RegisterFrame
  <2>3. status'.inFlight = status.inFlight /\ UNCHANGED cmd
    BY <1>1, RecomputeType DEF Register, TypeOK
  <2> QED
    BY <1>a, <1>b, <2>2, <2>3
<1>2. ASSUME NEW w \in Worker, Signal(w) PROVE SlotAccounting'
  BY <1>2, <1>a, <1>b, <1>c, SignalEvolves, SignalFrame
<1>3. ASSUME NEW c \in Caller, CallerStep(c) PROVE SlotAccounting'
  BY <1>3, <1>a, <1>b, <1>c, CallerEvolves, GateFrame
<1>4. ASSUME NEW d \in Dispatch, NEW w \in Worker, Admit(d, w) PROVE SlotAccounting'
  <2>1. /\ d \notin Holding /\ Holding' = Holding \cup {d}
        /\ HoldingOn(w)' = HoldingOn(w) \cup {d}
        /\ \A v \in Worker : v # w => HoldingOn(v)' = HoldingOn(v)
    BY <1>4 DEF Admit, Holding, HoldingOn, TypeOK
  <2>2. /\ Cardinality(Holding') = Cardinality(Holding) + 1
        /\ Cardinality(HoldingOn(w)') = Cardinality(HoldingOn(w)) + 1
    BY <2>1, HoldingFinite, FS_AddElement
  <2>3. /\ status'.inFlight = status.inFlight + 1
        /\ ws'[w].inFlight = ws[w].inFlight + 1
        /\ \A v \in Worker : v # w => ws'[v].inFlight = ws[v].inFlight
    BY <1>4 DEF Admit, TypeOK, WorkerState, RuntimeStatusRec
  <2> QED
    BY <2>1, <2>2, <2>3 DEF SlotAccounting
<1>5. ASSUME NEW d \in Dispatch, HandlerReturns(d) \/ HandlerFails(d) \/ HandlerPanics(d)
      PROVE  SlotAccounting'
  <2>1. Holding' = Holding /\ \A w \in Worker : HoldingOn(w)' = HoldingOn(w)
    BY <1>5, HandlerEvolves DEF Holding, HoldingOn
  <2> QED
    BY <1>5, <1>a, <1>c, <2>1, HandlerEvolves
<1>6. ASSUME NEW d \in Dispatch, ReleaseSlot(d) PROVE SlotAccounting'
  <2>1. PICK w \in Worker : w = cmd[d].worker
    BY <1>6, RegisteredWorkers DEF ReleaseSlot, Pristine
  <2>c. /\ cmd[d].pc # "idle" /\ cmd'[d].pc = "idle"
        /\ \A e \in Dispatch : e # d => cmd'[e] = cmd[e]
    BY <1>6 DEF ReleaseSlot, IdleCommand, TypeOK
  <2>2. /\ d \in Holding /\ Holding' = Holding \ {d}
        /\ d \in HoldingOn(w) /\ HoldingOn(w)' = HoldingOn(w) \ {d}
        /\ \A v \in Worker : v # w => HoldingOn(v)' = HoldingOn(v)
    <3>1. d \in Holding /\ Holding' = Holding \ {d}
      BY <2>c DEF Holding
    <3>2. d \in HoldingOn(w)
      BY <2>1, <3>1 DEF HoldingOn
    <3>3. \A v : HoldingOn(v)' = {e \in Holding \ {d} : cmd'[e].worker = v}
      BY <3>1 DEF HoldingOn
    <3>4. \A e \in Holding \ {d} : cmd'[e] = cmd[e]
      BY <2>c DEF Holding
    <3>5. \A v : HoldingOn(v)' = HoldingOn(v) \ {d}
      BY <3>3, <3>4 DEF HoldingOn
    <3>6. \A v : v # w => d \notin HoldingOn(v)
      BY <2>1 DEF HoldingOn
    <3>7. ASSUME NEW v \in Worker, v # w PROVE HoldingOn(v)' = HoldingOn(v)
      <4>1. HoldingOn(v)' = HoldingOn(v) \ {d} /\ d \notin HoldingOn(v)
        BY <3>5, <3>6, <3>7
      <4> QED
        BY <4>1
    <3> QED
      BY <3>1, <3>2, <3>5, <3>7
  <2>3. /\ Cardinality(Holding') = Cardinality(Holding) - 1
        /\ Cardinality(HoldingOn(w)') = Cardinality(HoldingOn(w)) - 1
    BY <2>2, HoldingFinite, FS_RemoveElement
  <2>4. /\ Cardinality(Holding) \in Nat /\ Cardinality(Holding') \in Nat
        /\ Cardinality(HoldingOn(w)) \in Nat /\ Cardinality(HoldingOn(w)') \in Nat
    <3>1. IsFiniteSet(Holding') /\ IsFiniteSet(HoldingOn(w)')
      BY <2>2, HoldingFinite, FS_RemoveElement
    <3> QED
      BY <3>1, HoldingFinite, FS_CardinalityType
  <2>5. /\ status'.inFlight = Decrement(status.inFlight)
        /\ ws'[w].inFlight = Decrement(ws[w].inFlight)
        /\ \A v \in Worker : v # w => ws'[v].inFlight = ws[v].inFlight
    BY <1>6, <2>1 DEF ReleaseSlot, TypeOK, WorkerState, RuntimeStatusRec
  <2>6. /\ Decrement(Cardinality(Holding)) = Cardinality(Holding')
        /\ Decrement(Cardinality(HoldingOn(w))) = Cardinality(HoldingOn(w)')
    BY <2>3, <2>4 DEF Decrement
  <2>7. /\ status'.inFlight = Cardinality(Holding')
        /\ ws'[w].inFlight = Cardinality(HoldingOn(w)')
    BY <2>1, <2>5, <2>6 DEF SlotAccounting
  <2>8. ASSUME NEW v \in Worker PROVE ws'[v].inFlight = Cardinality(HoldingOn(v)')
    <3>1. CASE v = w
      BY <2>7, <3>1
    <3>2. CASE v # w
      <4>1. HoldingOn(v)' = HoldingOn(v) /\ ws'[v].inFlight = ws[v].inFlight
        BY <2>2, <2>5, <3>2
      <4>2. ws[v].inFlight = Cardinality(HoldingOn(v))
        BY DEF SlotAccounting
      <4> QED
        BY <4>1, <4>2
    <3> QED
      BY <3>1, <3>2
  <2> QED
    BY <2>7, <2>8 DEF SlotAccounting
<1>7. CASE UNCHANGED vars
  BY <1>7, <1>a, <1>b DEF vars
<1> QED
  BY <1>1, <1>2, <1>3, <1>4, <1>5, <1>6, <1>7 DEF Next, CommandStep

\* No step exceeds a limit: only admission takes a slot, and it compares the
\* counters, which are exact.
LEMMA CapacityStep ==
    TypeOK /\ TransitionsOwned /\ Pristine /\ SlotAccounting /\ WithinCapacity /\ [Next]_vars
        => WithinCapacity'
<1> SUFFICES ASSUME TypeOK, TransitionsOwned, Pristine, SlotAccounting, WithinCapacity, [Next]_vars
             PROVE  WithinCapacity'
  OBVIOUS
<1>a. ASSUME \A d \in Dispatch : cmd'[d].pc # "idle" =>
                cmd[d].pc # "idle" /\ cmd'[d].worker = cmd[d].worker
      PROVE  WithinCapacity'
  <2>1. Holding' \subseteq Holding /\ \A w \in Worker : HoldingOn(w)' \subseteq HoldingOn(w)
    BY <1>a DEF Holding, HoldingOn
  <2>2. /\ Cardinality(Holding') <= Cardinality(Holding)
        /\ Cardinality(Holding') \in Nat /\ Cardinality(Holding) \in Nat
    BY <2>1, HoldingFinite, FS_Subset, FS_CardinalityType
  <2>3. ASSUME NEW w \in Worker
        PROVE  /\ Cardinality(HoldingOn(w)') <= Cardinality(HoldingOn(w))
               /\ Cardinality(HoldingOn(w)') \in Nat /\ Cardinality(HoldingOn(w)) \in Nat
    BY <2>1, HoldingFinite, FS_Subset, FS_CardinalityType
  <2>4. RuntimeCap # 0 => Cardinality(Holding') <= RuntimeCap
    BY <2>2, RuntimeAssumption DEF WithinCapacity, RuntimeAssumption
  <2>5. ASSUME NEW w \in Worker, WorkerCap[w] # 0
        PROVE  Cardinality(HoldingOn(w)') <= WorkerCap[w]
    <3>1. Cardinality(HoldingOn(w)) <= WorkerCap[w] /\ WorkerCap[w] \in Nat
      BY <2>5, RuntimeAssumption DEF WithinCapacity, RuntimeAssumption
    <3> QED
      BY <3>1, <2>3
  <2> QED
    BY <2>4, <2>5 DEF WithinCapacity
<1>1. ASSUME NEW d \in Dispatch, NEW w \in Worker, Admit(d, w) PROVE WithinCapacity'
  <2>1. /\ d \notin Holding /\ Holding' = Holding \cup {d}
        /\ HoldingOn(w)' = HoldingOn(w) \cup {d}
        /\ \A v \in Worker : v # w => HoldingOn(v)' = HoldingOn(v)
    BY <1>1 DEF Admit, Holding, HoldingOn, TypeOK
  <2>2. /\ Cardinality(Holding') = Cardinality(Holding) + 1
        /\ Cardinality(HoldingOn(w)') = Cardinality(HoldingOn(w)) + 1
    BY <2>1, HoldingFinite, FS_AddElement
  <2>3. /\ RuntimeCap = 0 \/ Cardinality(Holding) < RuntimeCap
        /\ WorkerCap[w] = 0 \/ Cardinality(HoldingOn(w)) < WorkerCap[w]
    BY <1>1 DEF Admit, Under, SlotAccounting
  <2>4. Cardinality(Holding) \in Nat /\ Cardinality(HoldingOn(w)) \in Nat
    BY HoldingFinite, FS_CardinalityType
  <2>5. RuntimeCap # 0 => Cardinality(Holding') <= RuntimeCap
    BY <2>2, <2>3, <2>4, RuntimeAssumption DEF RuntimeAssumption
  <2>6. ASSUME NEW v \in Worker, WorkerCap[v] # 0
        PROVE  Cardinality(HoldingOn(v)') <= WorkerCap[v]
    <3>1. WorkerCap[v] \in Nat
      BY RuntimeAssumption DEF RuntimeAssumption
    <3>2. CASE v = w
      BY <2>2, <2>3, <2>4, <2>6, <3>1, <3>2
    <3>3. CASE v # w
      <4>1. HoldingOn(v)' = HoldingOn(v)
        BY <2>1, <3>3
      <4> QED
        BY <4>1, <2>6 DEF WithinCapacity
    <3> QED
      BY <3>2, <3>3
  <2> QED
    BY <2>5, <2>6 DEF WithinCapacity
<1>2. ASSUME NEW d \in Dispatch, HandlerReturns(d) \/ HandlerFails(d) \/ HandlerPanics(d)
      PROVE  WithinCapacity'
  BY <1>2, <1>a, HandlerEvolves
<1>3. ASSUME NEW d \in Dispatch, ReleaseSlot(d) PROVE WithinCapacity'
  <2>1. \A e \in Dispatch : cmd'[e].pc # "idle" => cmd'[e] = cmd[e]
    BY <1>3 DEF ReleaseSlot, IdleCommand, TypeOK
  <2> QED
    BY <1>a, <2>1
<1>4. CASE UNCHANGED cmd
  BY <1>4, <1>a
<1>5. ASSUME NEW w \in Worker, Register(w) PROVE UNCHANGED cmd
  BY <1>5 DEF Register
<1>6. ASSUME NEW w \in Worker, Signal(w) PROVE UNCHANGED cmd
  BY <1>6, SignalFrame
<1>7. ASSUME NEW c \in Caller, CallerStep(c) PROVE UNCHANGED cmd
  BY <1>7, GateFrame
<1> QED
  BY <1>1, <1>2, <1>3, <1>4, <1>5, <1>6, <1>7 DEF Next, CommandStep, vars

\* Nothing is registered and nothing runs initially (New).
LEMMA SlotInit == Init => Pristine /\ SlotAccounting /\ WithinCapacity
<1> SUFFICES ASSUME Init PROVE Pristine /\ SlotAccounting /\ WithinCapacity
  OBVIOUS
<1>1. Holding = {} /\ \A w : HoldingOn(w) = {}
  BY DEF Init, Holding, HoldingOn, IdleCommand
<1>2. Cardinality({}) = 0
  BY FS_EmptySet
<1>3. status.inFlight = 0 /\ \A w \in Worker : ws[w] = NewWorkerState
  BY DEF Init
<1>4. \A d \in Dispatch : cmd[d].pc = "idle"
  BY DEF Init, IdleCommand
<1>5. Pristine
  BY <1>3, <1>4 DEF Pristine
<1>6. SlotAccounting
  BY <1>1, <1>2, <1>3 DEF SlotAccounting, NewWorkerState
<1>7. WithinCapacity
  <2>1. 0 <= RuntimeCap
    BY RuntimeAssumption DEF RuntimeAssumption
  <2>2. \A w \in Worker : 0 <= WorkerCap[w]
    BY RuntimeAssumption DEF RuntimeAssumption
  <2> QED
    BY <1>1, <1>2, <2>1, <2>2 DEF WithinCapacity
<1> QED
  BY <1>5, <1>6, <1>7

-----------------------------------------------------------------------------
(* The inductive invariant of the runtime, and what it implies *)

RuntimeInv ==
    /\ TypeOK /\ GateExclusive /\ TransitionsOwned
    /\ EvidenceInv /\ Pristine /\ SlotAccounting /\ WithinCapacity

\* New establishes the invariant, and every step of runtime.go keeps it.
THEOREM RuntimeInvariant == Spec => []RuntimeInv
<1>1. Init => RuntimeInv
  <2>1. Init => EvidenceInv
    BY DEF Init, NewWorkerState, EvidenceInv, Evidenced, Silenced
  <2> QED
    BY <2>1, TypeInit, GateInit, SlotInit DEF RuntimeInv
<1>2. RuntimeInv /\ [Next]_vars => RuntimeInv'
  BY TypeStep, GateStep, OwnershipStep, EvidenceStep, PristineStep, SlotStep, CapacityStep
  DEF RuntimeInv
<1> QED
  BY <1>1, <1>2, PTL DEF Spec

\* A failed worker always carries the evidence of a failure, and one in service
\* carries none (reportWorkerFailure, failWorker, completeWorkerStart).
THEOREM EvidenceIsKept == Spec => []FailureEvidence
<1>1. RuntimeInv => FailureEvidence
  BY DEF RuntimeInv, EvidenceInv, Evidenced, FailureEvidence
<1> QED
  BY <1>1, RuntimeInvariant, PTL

\* No worker outside starting and running is ready or accepts work: signals
\* never outlive the state they were raised in (setWorkerReady,
\* setWorkerAcceptingWork against the transitions of a lifecycle call).
THEOREM SignalsAreNeverStale == Spec => []NoStaleSignals
<1>1. RuntimeInv => NoStaleSignals
  BY DEF RuntimeInv, EvidenceInv, Silenced, NoStaleSignals
<1> QED
  BY <1>1, RuntimeInvariant, PTL

\* The in-flight counters of runtime and workers are exact, through every stop
\* and restart, for any number of dispatches (admitCommand, releaseCommandSlot).
THEOREM SlotsAreExact == Spec => []SlotAccounting
<1>1. RuntimeInv => SlotAccounting
  BY DEF RuntimeInv
<1> QED
  BY <1>1, RuntimeInvariant, PTL

\* No limit is ever exceeded, whatever the limits are (admitCommand).
THEOREM LimitsHold == Spec => []WithinCapacity
<1>1. RuntimeInv => WithinCapacity
  BY DEF RuntimeInv
<1> QED
  BY <1>1, RuntimeInvariant, PTL
=============================================================================
