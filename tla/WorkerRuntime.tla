---------------------------- MODULE WorkerRuntime ----------------------------
(***************************************************************************)
(* The runtime of runtime.go: registration, the lifecycle operations that  *)
(* one non-reentrant gate serialises, command dispatch, and the signals a  *)
(* WorkerRuntime handle sends. Every action is one critical section of     *)
(* r.mu, one use of the lifecycle gate, or one return of user code; what   *)
(* happens between two of them interleaves freely, as it does in Go.       *)
(*                                                                         *)
(* A lifecycle call is a walk over entries <<worker, state seen in the     *)
(* snapshot>>. Start, Stop and Drain walk a single entry, whose state is   *)
(* "direct" because no snapshot was taken.                                 *)
(***************************************************************************)
EXTENDS RuntimeStatus, WorkerRecord, Sequences, FiniteSets

CONSTANTS
    Caller,         \* goroutines that call lifecycle operations
    Dispatch,       \* goroutines that call Runtime.Dispatch
    None,           \* no worker, no dispatch
    Ops,            \* the lifecycle operations callers use
    HandlerOps,     \* those that command handlers call as well
    CrashOnPanic,   \* workers under PanicPolicyCrash
    RuntimeCap,     \* runtime command concurrency, 0 for no limit
    WorkerCap,      \* worker -> command concurrency, 0 for no limit
    Deadlines       \* callers whose context carries a deadline (for fairness)

SingleOps  == {"Start", "Stop", "Drain"}
ClosingOps == {"StopAll", "Shutdown"}
Op == SingleOps \cup ClosingOps \cup {"StartAll", "DrainAll", "DrainAllBestEffort"}

ASSUME RuntimeAssumption ==
    /\ IsFiniteSet(Worker) /\ IsFiniteSet(Dispatch)
    /\ None \notin Worker /\ None \notin Dispatch
    /\ Ops \subseteq Op /\ HandlerOps \subseteq Ops
    /\ ReadyOnStart \subseteq Worker /\ AcceptOnStart \subseteq Worker
    /\ CrashOnPanic \subseteq Worker
    /\ RuntimeCap \in Nat /\ WorkerCap \in [Worker -> Nat]
    /\ Deadlines \subseteq Caller

VARIABLES
    workerOrder,      \* registration order of the registered workers
    ws,               \* worker -> its workerState record
    status,           \* the aggregate RuntimeStatus
    admissionClosed,  \* commandAdmissionClosed
    gate,             \* TRUE while the token is in the lifecycleGate channel
    call,             \* caller -> the lifecycle operation it is in
    cmd               \* dispatch -> the command it is running

vars == <<workerOrder, ws, status, admissionClosed, gate, call, cmd>>

-----------------------------------------------------------------------------
(* State *)

RuntimeStatusRec == [state : LifecycleState, ready : BOOLEAN, inFlight : Nat]

\* Where a lifecycle call stands. From "close" to "release" it holds the gate.
CallPc == {"idle", "waiting", "close", "snapshot", "walk", "user", "backoff",
           "settle", "waitIdle", "reopen", "release"}

Phase == {"start", "drain", "stop"}
Entry == [worker : Worker, state : LifecycleState \cup {"direct"}]

CallState ==
    [pc : CallPc, op : Op, by : Dispatch \cup {None}, phase : Phase,
     walk : Seq(Entry), worker : Worker \cup {None}, gen : 0 .. MaxGeneration,
     outcome : {"ok", "failed", "panic", "cleanup"},
     err : BOOLEAN, expired : BOOLEAN, wasClosed : BOOLEAN]

IdleCall ==
    [pc |-> "idle", op |-> "Start", by |-> None, phase |-> "start",
     walk |-> << >>, worker |-> None, gen |-> 0, outcome |-> "ok",
     err |-> FALSE, expired |-> FALSE, wasClosed |-> FALSE]

CommandState ==
    [pc : {"idle", "running", "finished"}, worker : Worker \cup {None},
     gen : 0 .. MaxGeneration]

IdleCommand == [pc |-> "idle", worker |-> None, gen |-> 0]

Registered == {workerOrder[i] : i \in 1 .. Len(workerOrder)}

Init ==
    /\ workerOrder = << >>
    /\ ws = [w \in Worker |-> NewWorkerState]
    /\ status = [state |-> "registered", ready |-> FALSE, inFlight |-> 0]
    /\ admissionClosed = FALSE
    /\ gate = TRUE
    /\ call = [c \in Caller |-> IdleCall]
    /\ cmd = [d \in Dispatch |-> IdleCommand]

\* commitWorkerStateLocked: store the record and recompute the aggregate.
Commit(w, s) ==
    /\ ws' = [ws EXCEPT ![w] = s]
    /\ status' = Recompute(Registered, ws', status)

-----------------------------------------------------------------------------
(* Registration: it takes the gate and one critical section, then returns. *)

Register(w) ==
    /\ gate
    /\ status.state = "registered"
    /\ w \notin Registered
    /\ workerOrder' = Append(workerOrder, w)
    /\ ws' = [ws EXCEPT ![w] = NewWorkerState]
    /\ status' = Recompute(Registered \cup {w}, ws', status)
    /\ UNCHANGED <<admissionClosed, gate, call, cmd>>

-----------------------------------------------------------------------------
(* Lifecycle calls: entering and leaving the gate *)

At(c, pc) == call[c].pc = pc

\* Starts begun by outstanding calls, so that MaxGeneration is never overrun.
MayStart(w) ==
    ws[w].generation
      + Cardinality({c \in Caller : call[c].pc # "idle" /\ call[c].phase = "start"})
        < MaxGeneration

PhaseOf(op) ==
    IF op \in {"Start", "StartAll"} THEN "start"
    ELSE IF op \in {"Stop", "StopAll"} THEN "stop" ELSE "drain"

\* A call made by application code, or by the handler of command by, which
\* does not return before the call does. Its context may have ended already.
Enter(c, op, by) ==
    \E w \in Worker, ended \in BOOLEAN :
        /\ At(c, "idle")
        /\ PhaseOf(op) = "start" => \A v \in Worker : MayStart(v)
        /\ call' = [call EXCEPT ![c] =
               [IdleCall EXCEPT
                  !.pc = "waiting", !.op = op, !.by = by, !.phase = PhaseOf(op),
                  !.expired = ended,
                  !.walk = IF op \in SingleOps
                           THEN << [worker |-> w, state |-> "direct"] >> ELSE << >>]]
        /\ UNCHANGED <<workerOrder, ws, status, admissionClosed, gate, cmd>>

Blocked(d) == \E c \in Caller : call[c].by = d

Invoke(c) == \E op \in Ops : Enter(c, op, None)

InvokeFromHandler(c) ==
    \E op \in HandlerOps, d \in Dispatch :
        cmd[d].pc = "running" /\ ~ Blocked(d) /\ Enter(c, op, d)

\* The caller's context is cancelled or reaches its deadline.
Expire(c) ==
    /\ ~ At(c, "idle") /\ ~ call[c].expired
    /\ call' = [call EXCEPT ![c].expired = TRUE]
    /\ UNCHANGED <<workerOrder, ws, status, admissionClosed, gate, cmd>>

\* Mutant: a caller that gives up waiting hands back a token it never had.
AbandonReleases(c) ==
    /\ At(c, "waiting") /\ call[c].expired
    /\ gate' = TRUE
    /\ call' = [call EXCEPT ![c] = IdleCall]
    /\ UNCHANGED <<workerOrder, ws, status, admissionClosed, cmd>>

\* acquireLifecycle gives up; a token received with a dead context goes back.
Abandon(c) ==
    /\ At(c, "waiting") /\ call[c].expired
    /\ call' = [call EXCEPT ![c] = IdleCall]
    /\ UNCHANGED <<workerOrder, ws, status, admissionClosed, gate, cmd>>

Acquire(c) ==
    /\ At(c, "waiting") /\ gate /\ ~ call[c].expired
    /\ gate' = FALSE
    /\ call' = [call EXCEPT ![c].pc =
           IF call[c].op \in ClosingOps THEN "close"
           ELSE IF call[c].op \in SingleOps THEN "walk" ELSE "snapshot"]
    /\ UNCHANGED <<workerOrder, ws, status, admissionClosed, cmd>>

CloseAdmission(c) ==
    /\ At(c, "close")
    /\ admissionClosed' = TRUE
    /\ call' = [call EXCEPT ![c].pc = "snapshot", ![c].wasClosed = admissionClosed]
    /\ UNCHANGED <<workerOrder, ws, status, gate, cmd>>

\* The deferred restore of commandAdmissionClosed, on every way out.
Reopen(c) ==
    /\ At(c, "reopen")
    /\ admissionClosed' = call[c].wasClosed
    /\ call' = [call EXCEPT ![c].pc = "release"]
    /\ UNCHANGED <<workerOrder, ws, status, gate, cmd>>

Release(c) ==
    /\ At(c, "release")
    /\ gate' = TRUE
    /\ call' = [call EXCEPT ![c] = IdleCall]
    /\ UNCHANGED <<workerOrder, ws, status, admissionClosed, cmd>>

-----------------------------------------------------------------------------
(* Lifecycle calls: walking the workers *)

\* registeredWorkerLifecycles, reversed for StopAll.
EntryAt(i) == [worker |-> workerOrder[i], state |-> ws[workerOrder[i]].lifecycle]

\* Mutant: StopAll walks in registration order.
SnapshotWalkForward(phase) == [i \in 1 .. Len(workerOrder) |-> EntryAt(i)]

SnapshotWalk(phase) ==
    [i \in 1 .. Len(workerOrder) |->
        EntryAt(IF phase = "stop" THEN Len(workerOrder) + 1 - i ELSE i)]

Snapshot(c) ==
    /\ At(c, "snapshot")
    /\ call' = [call EXCEPT ![c].pc = "walk", ![c].walk = SnapshotWalk(call[c].phase)]
    /\ UNCHANGED <<workerOrder, ws, status, admissionClosed, gate, cmd>>

\* The cases of the bulk operations' switch on the state in the snapshot.
Wanted(phase, st) ==
    \/ st = "direct"
    \/ phase = "start" /\ st \in Startable
    \/ phase = "drain" /\ st = "running"
    \/ phase = "stop"  /\ st \in Stoppable

\* Mutant: StopAll takes a failed worker to be inactive.
SkippedFailed(phase, st) ==
    \/ phase = "start" /\ st = "running"
    \/ phase = "drain" /\ st \in {"draining", "registered", "stopped", "failed"}
    \/ phase = "stop"  /\ st \in {"registered", "stopped", "stopping", "failed"}

Skipped(phase, st) ==
    \/ phase = "start" /\ st = "running"
    \/ phase = "drain" /\ st \in {"draining", "registered", "stopped", "failed"}
    \/ phase = "stop"  /\ st \in {"registered", "stopped", "stopping"}

\* Operations that go on with the next worker after an error.
KeepsGoing(op) == op \in {"DrainAllBestEffort", "StopAll", "Shutdown"}

\* The guard of beginWorkerStart, beginWorkerDrain and beginWorkerStop.
Admissible(phase) ==
    IF phase = "start" THEN Startable
    ELSE IF phase = "drain" THEN Drainable ELSE Stoppable

Walking(c) == At(c, "walk") /\ call[c].walk # << >>

NextEntry(c) == Head(call[c].walk)

CanBegin(c, phase) ==
    /\ Walking(c)
    /\ call[c].phase = phase
    /\ Wanted(phase, NextEntry(c).state)
    /\ NextEntry(c).worker \in Registered
    /\ ws[NextEntry(c).worker].lifecycle \in Admissible(phase)

Skip(c) ==
    /\ Walking(c)
    /\ Skipped(call[c].phase, NextEntry(c).state)
    /\ call' = [call EXCEPT ![c].walk = Tail(@)]
    /\ UNCHANGED <<workerOrder, ws, status, admissionClosed, gate, cmd>>

\* A state the snapshot switch refuses, an unknown worker, or a worker whose
\* state is no longer the one in the snapshot.
Reject(c) ==
    /\ Walking(c)
    /\ ~ Skipped(call[c].phase, NextEntry(c).state)
    /\ ~ CanBegin(c, call[c].phase)
    /\ call' = [call EXCEPT ![c].err = TRUE,
                            ![c].walk = IF KeepsGoing(call[c].op) THEN Tail(@) ELSE << >>]
    /\ UNCHANGED <<workerOrder, ws, status, admissionClosed, gate, cmd>>

\* User code is called with a handle of the worker's generation gen.
CallUser(c, w, gen) ==
    call' = [call EXCEPT ![c].pc = "user", ![c].worker = w, ![c].gen = gen,
                         ![c].walk = Tail(@)]

BeginStart(c) ==
    /\ CanBegin(c, "start")
    /\ LET w == NextEntry(c).worker
       IN  /\ ws[w].generation < MaxGeneration
           /\ Commit(w, BegunStart(ws[w]))
           /\ CallUser(c, w, ws[w].generation + 1)
    /\ UNCHANGED <<workerOrder, admissionClosed, gate, cmd>>

BeginStop(c) ==
    /\ CanBegin(c, "stop")
    /\ LET w == NextEntry(c).worker
       IN  /\ Commit(w, BegunStop(ws[w]))
           /\ CallUser(c, w, ws[w].generation)
    /\ UNCHANGED <<workerOrder, admissionClosed, gate, cmd>>

Drain(c) ==
    /\ CanBegin(c, "drain")
    /\ LET w == NextEntry(c).worker IN Commit(w, Drained(ws[w]))
    /\ call' = [call EXCEPT ![c].walk = Tail(@)]
    /\ UNCHANGED <<workerOrder, admissionClosed, gate, cmd>>

\* The walk is over. Shutdown checks its context before it waits for idle.
WalkDone(c) ==
    /\ At(c, "walk") /\ call[c].walk = << >>
    /\ call' = [call EXCEPT
           ![c].pc = IF call[c].op = "Shutdown" /\ call[c].phase = "drain" /\ ~ call[c].expired
                     THEN "waitIdle"
                     ELSE IF call[c].op \in ClosingOps THEN "reopen" ELSE "release",
           ![c].err = @ \/ (call[c].op = "Shutdown" /\ call[c].phase = "drain"
                            /\ call[c].expired)]
    /\ UNCHANGED <<workerOrder, ws, status, admissionClosed, gate, cmd>>

\* Mutant: Shutdown goes on to stop workers without waiting.
WaitedIdleNot(c) ==
    /\ At(c, "waitIdle") /\ ~ call[c].expired
    /\ call' = [call EXCEPT ![c].pc = "snapshot", ![c].phase = "stop"]
    /\ UNCHANGED <<workerOrder, ws, status, admissionClosed, gate, cmd>>

\* WaitAllIdle saw no command in flight, and the context is still alive.
WaitedIdle(c) ==
    /\ At(c, "waitIdle") /\ ~ call[c].expired
    /\ status.inFlight = 0
    /\ call' = [call EXCEPT ![c].pc = "snapshot", ![c].phase = "stop"]
    /\ UNCHANGED <<workerOrder, ws, status, admissionClosed, gate, cmd>>

\* Mutant: the idle wait does not look at its context.
WaitExpiredNever(c) == FALSE

WaitExpired(c) ==
    /\ At(c, "waitIdle") /\ call[c].expired
    /\ call' = [call EXCEPT ![c].pc = "reopen", ![c].err = TRUE]
    /\ UNCHANGED <<workerOrder, ws, status, admissionClosed, gate, cmd>>

-----------------------------------------------------------------------------
(* Lifecycle calls: Worker.Start and Worker.Stop return *)

Settling(c, outcome) == [call EXCEPT ![c].pc = "settle", ![c].outcome = outcome]

\* Returns nil, or panics: the recovered panic reaches failWorker directly.
UserReturns(c) ==
    /\ At(c, "user")
    /\ \E outcome \in {"ok", "panic"} : call' = Settling(c, outcome)
    /\ UNCHANGED <<workerOrder, ws, status, admissionClosed, gate, cmd>>

\* recordWorkerFailureStatus: no recompute, since no state changes.
RecordFailure(c) ==
    LET w == call[c].worker
    IN  ws' = IF ws[w].generation = call[c].gen
              THEN [ws EXCEPT ![w].lastFailure = "primary"] ELSE ws

\* Returns an error, recorded as it is. An expired context ends Start's
\* retries, and otherwise so does the policy; Stop is not retried.
UserFails(c) ==
    /\ At(c, "user")
    /\ RecordFailure(c)
    /\ call' = Settling(c, "failed")
    /\ UNCHANGED <<workerOrder, status, admissionClosed, gate, cmd>>

\* Returns a loopCleanupError, which is not recorded here. With an expired
\* context Start returns the context's error in its place.
UserCleanupFails(c) ==
    /\ At(c, "user")
    /\ call' = Settling(c, IF call[c].phase = "start" /\ call[c].expired
                           THEN "failed" ELSE "cleanup")
    /\ UNCHANGED <<workerOrder, ws, status, admissionClosed, gate, cmd>>

\* Start failed with either kind of error and the policy grants another attempt.
Retry(c) ==
    /\ At(c, "user") /\ call[c].phase = "start" /\ ~ call[c].expired
    /\ RecordFailure(c) \/ UNCHANGED ws
    /\ call' = [call EXCEPT ![c].pc = "backoff"]
    /\ UNCHANGED <<workerOrder, status, admissionClosed, gate, cmd>>

\* waitBeforeRetry: the delay elapses, or the context ends it.
BackoffElapses(c) ==
    /\ At(c, "backoff")
    /\ call' = [call EXCEPT ![c].pc = "user"]
    /\ UNCHANGED <<workerOrder, ws, status, admissionClosed, gate, cmd>>

BackoffExpires(c) ==
    /\ At(c, "backoff") /\ call[c].expired
    /\ call' = Settling(c, "failed")
    /\ UNCHANGED <<workerOrder, ws, status, admissionClosed, gate, cmd>>

\* Mutant: a crash-policy panic gets past the deferred reopening of admission.
ProceedCrashEscapes(c, erred) ==
    LET crash == call[c].outcome = "panic" /\ call[c].worker \in CrashOnPanic
    IN  call' = [call EXCEPT
            ![c].pc = IF crash THEN "release" ELSE "walk",
            ![c].worker = None, ![c].gen = 0, ![c].outcome = "ok",
            ![c].err = @ \/ erred,
            ![c].walk = IF crash \/ (erred /\ ~ KeepsGoing(call[c].op)) THEN << >> ELSE @]

\* The call goes on to its next worker. An error ends a fail-fast walk, and a
\* panic under PanicPolicyCrash unwinds every walk.
Proceed(c, erred) ==
    call' = [call EXCEPT
        ![c].pc = "walk", ![c].worker = None, ![c].gen = 0, ![c].outcome = "ok",
        ![c].err = @ \/ erred,
        ![c].walk =
            IF \/ erred /\ ~ KeepsGoing(call[c].op)
               \/ call[c].outcome = "panic" /\ call[c].worker \in CrashOnPanic
            THEN << >> ELSE @]

Current(c) == ws[call[c].worker].generation = call[c].gen

\* completeWorkerStart and completeWorkerTransition, with their error path for
\* a worker that is not in the state the operation left it in.
Complete(c) ==
    /\ At(c, "settle") /\ call[c].outcome = "ok"
    /\ LET w == call[c].worker
           starting == call[c].phase = "start"
           from == IF starting THEN "starting" ELSE "stopping"
           ok == Current(c) /\ ws[w].lifecycle = from
       IN  /\ IF ok
              THEN Commit(w, IF starting THEN CompletedStart(w, ws[w]) ELSE CompletedStop(ws[w]))
              ELSE UNCHANGED <<ws, status>>
           /\ Proceed(c, ~ ok)
    /\ UNCHANGED <<workerOrder, admissionClosed, gate, cmd>>

\* failWorker or failLoopCleanup, ignored when the generation is stale.
Fail(c) ==
    /\ At(c, "settle") /\ call[c].outcome # "ok"
    /\ LET w == call[c].worker
       IN  IF Current(c)
           THEN Commit(w, IF call[c].outcome = "cleanup"
                          THEN CleanupFailed(ws[w]) ELSE Failed(ws[w]))
           ELSE UNCHANGED <<ws, status>>
    /\ Proceed(c, TRUE)
    /\ UNCHANGED <<workerOrder, admissionClosed, gate, cmd>>

-----------------------------------------------------------------------------
(* Command dispatch *)

\* Mutant: off by one at the limit.
UnderOrAt(count, cap) == cap = 0 \/ count <= cap

Under(count, cap) == cap = 0 \/ count < cap

\* Mutant: the runtime-wide cutoff is not looked at.
AdmitPastCutoff(d, w) ==
    /\ cmd[d].pc = "idle"
    /\ w \in Registered
    /\ status.state \notin {"failed", "stopped", "registered"}
    /\ ws[w].lifecycle = "running"
    /\ ws[w].acceptingWork
    /\ ws' = [ws EXCEPT ![w].inFlight = @ + 1]
    /\ status' = [status EXCEPT !.inFlight = @ + 1]
    /\ cmd' = [cmd EXCEPT ![d] = [pc |-> "running", worker |-> w,
                                  gen |-> ws[w].generation]]
    /\ UNCHANGED <<workerOrder, admissionClosed, gate, call>>

\* admitCommand. A refused dispatch returns an error and changes nothing.
Admit(d, w) ==
    /\ cmd[d].pc = "idle"
    /\ w \in Registered
    /\ ~ admissionClosed
    /\ status.state \notin {"failed", "stopped", "registered"}
    /\ ws[w].lifecycle = "running"
    /\ ws[w].acceptingWork
    /\ Under(status.inFlight, RuntimeCap)
    /\ Under(ws[w].inFlight, WorkerCap[w])
    /\ ws' = [ws EXCEPT ![w].inFlight = @ + 1]
    /\ status' = [status EXCEPT !.inFlight = @ + 1]
    /\ cmd' = [cmd EXCEPT ![d] = [pc |-> "running", worker |-> w,
                                  gen |-> ws[w].generation]]
    /\ UNCHANGED <<workerOrder, admissionClosed, gate, call>>

HandlerReady(d) == cmd[d].pc = "running" /\ ~ Blocked(d)

HandlerReturns(d) ==
    /\ HandlerReady(d)
    /\ cmd' = [cmd EXCEPT ![d].pc = "finished"]
    /\ UNCHANGED <<workerOrder, ws, status, admissionClosed, gate, call>>

\* The handler returns an error: it is retried, or the dispatch finishes.
HandlerFails(d) ==
    /\ HandlerReady(d)
    /\ LET w == cmd[d].worker
       IN  ws' = [ws EXCEPT ![w] = CommandFailed(@, cmd[d].gen)]
    /\ \E next \in {"running", "finished"} : cmd' = [cmd EXCEPT ![d].pc = next]
    /\ UNCHANGED <<workerOrder, status, admissionClosed, gate, call>>

\* Mutant: the worker fails but the aggregate is not recomputed.
HandlerPanicsUnpublished(d) ==
    /\ HandlerReady(d)
    /\ LET w == cmd[d].worker
       IN  ws' = [ws EXCEPT ![w] = CommandPanicked(@, cmd[d].gen)]
    /\ cmd' = [cmd EXCEPT ![d].pc = "finished"]
    /\ UNCHANGED <<workerOrder, status, admissionClosed, gate, call>>

HandlerPanics(d) ==
    /\ HandlerReady(d)
    /\ LET w == cmd[d].worker
           s == CommandPanicked(ws[w], cmd[d].gen)
       IN  IF s.lifecycle # ws[w].lifecycle
           THEN Commit(w, s)
           ELSE ws' = [ws EXCEPT ![w] = s] /\ UNCHANGED status
    /\ cmd' = [cmd EXCEPT ![d].pc = "finished"]
    /\ UNCHANGED <<workerOrder, admissionClosed, gate, call>>

\* The deferred releaseCommandSlot, whatever generation admitted the command.
Decrement(n) == IF n > 0 THEN n - 1 ELSE n

ReleaseSlot(d) ==
    /\ cmd[d].pc = "finished"
    /\ ws' = [ws EXCEPT ![cmd[d].worker].inFlight = Decrement(@)]
    /\ status' = [status EXCEPT !.inFlight = Decrement(@)]
    /\ cmd' = [cmd EXCEPT ![d] = IdleCommand]
    /\ UNCHANGED <<workerOrder, admissionClosed, gate, call>>

-----------------------------------------------------------------------------
(* Signals of a WorkerRuntime handle. Worker code may keep the handle of any *)
(* generation that was started, so all of them are tried.                    *)

Handles(w) == 1 .. ws[w].generation

SetReady(w, gen, ready) ==
    /\ HandleMay(ws[w], gen, ready)
    /\ Commit(w, ReadySet(ws[w], ready))
    /\ UNCHANGED <<workerOrder, admissionClosed, gate, call, cmd>>

SetAcceptingWork(w, gen, accepting) ==
    /\ HandleMay(ws[w], gen, accepting)
    /\ Commit(w, AcceptingWorkSet(ws[w], accepting))
    /\ UNCHANGED <<workerOrder, admissionClosed, gate, call, cmd>>

ReportFailure(w, gen) ==
    /\ HandleMayReport(ws[w], gen)
    /\ Commit(w, Reported(ws[w]))
    /\ UNCHANGED <<workerOrder, admissionClosed, gate, call, cmd>>

-----------------------------------------------------------------------------
(* The specification *)

Signal(w) ==
    \E gen \in Handles(w) :
        \/ \E b \in BOOLEAN : SetReady(w, gen, b)
        \/ \E b \in BOOLEAN : SetAcceptingWork(w, gen, b)
        \/ ReportFailure(w, gen)

\* Steps the code takes by itself, without user code returning.
Internal(c) ==
    \/ Abandon(c) \/ CloseAdmission(c) \/ Reopen(c) \/ Release(c)
    \/ Snapshot(c) \/ Skip(c) \/ Reject(c)
    \/ BeginStart(c) \/ BeginStop(c) \/ Drain(c) \/ WalkDone(c)
    \/ WaitedIdle(c) \/ WaitExpired(c)
    \/ BackoffElapses(c) \/ BackoffExpires(c)
    \/ Complete(c) \/ Fail(c)

\* Steps by which Worker.Start or Worker.Stop ends for good.
UserEnds(c) == UserReturns(c) \/ UserFails(c) \/ UserCleanupFails(c)

CallerStep(c) ==
    \/ Invoke(c) \/ InvokeFromHandler(c) \/ Expire(c) \/ Acquire(c)
    \/ Internal(c) \/ UserEnds(c) \/ Retry(c)

\* HandlerReturns covers every outcome for fairness: some attempt is the last.
CommandStep(d) ==
    \/ \E w \in Worker : Admit(d, w)
    \/ HandlerReturns(d) \/ HandlerFails(d) \/ HandlerPanics(d) \/ ReleaseSlot(d)

Next ==
    \/ \E w \in Worker : Register(w)
    \/ \E w \in Worker : Signal(w)
    \/ \E c \in Caller : CallerStep(c)
    \/ \E d \in Dispatch : CommandStep(d)

Spec == Init /\ [][Next]_vars

\* What the code and its contract with user code guarantee: goroutines that can
\* run do run; a waiter on the gate channel is eventually served (channels are
\* FIFO); Worker.Start, Worker.Stop and command handlers return, after a finite
\* number of attempts; a context with a deadline expires.
Fairness ==
    /\ \A c \in Caller :
          /\ WF_vars(Internal(c))
          /\ SF_vars(Acquire(c))
          /\ SF_vars(UserEnds(c))
    /\ \A c \in Deadlines : WF_vars(Expire(c))
    /\ \A d \in Dispatch :
          /\ SF_vars(HandlerReturns(d))
          /\ WF_vars(ReleaseSlot(d))

FairSpec == Spec /\ Fairness
====
