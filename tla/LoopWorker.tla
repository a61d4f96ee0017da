----------------------------- MODULE LoopWorker -----------------------------
(***************************************************************************)
(* A LoopWorker (loop.go) under the runtime that manages it. The runtime   *)
(* starts, drains and stops the worker one operation at a time             *)
(* (GateExclusive in WorkerRuntimeProperties); the loop goroutines run     *)
(* beside it and outlive an operation that times out.                      *)
(*                                                                         *)
(* A loop goroutine is named by the generation that launched it: a start   *)
(* that has launched one does not fail any more, since its SetReady is     *)
(* accepted (or OperationsReturn would not hold), so no generation         *)
(* launches two. A panic of the loop function ends the process and is left *)
(* out, as is one of its cleanup under PanicPolicyCrash.                   *)
(***************************************************************************)
EXTENDS WorkerRecord

CONSTANTS
    Self,      \* the worker
    AutoReady  \* WithLoopAutoReady

ASSUME LoopAssumption == AutoReady \in BOOLEAN

VARIABLES
    rec,      \* the runtime's record of the worker
    op,       \* the operation the runtime has under way
    state,    \* the loop state
    current,  \* generation of the cancel, done and runtime fields, 0 when nil
    attempt,  \* the cleanup attempt: "nil", "running", "failed", "complete"
    loop,     \* generation -> its loop goroutine
    uncleaned \* history: a loop was launched that no cleanup succeeded after

vars == <<rec, op, state, current, attempt, loop, uncleaned>>

Generation == 1 .. MaxGeneration

LoopState == {"idle", "starting", "running", "stopping", "stopped"}

OpState ==
    [pc : {"idle", "begin", "startHook", "lower", "launch", "raise", "backoff",
           "cancel", "join", "cleanup", "hook", "settle"},
     phase : {"start", "stop"}, target : 0 .. MaxGeneration,
     outcome : {"ok", "failed", "panic", "cleanup"}, expired : BOOLEAN]

IdleOp == [pc |-> "idle", phase |-> "start", target |-> 0, outcome |-> "ok",
           expired |-> FALSE]

\* A loop goroutine: the loop function, then what runLoop does with its result.
Loop ==
    [pc : {"none", "running", "exited", "report", "cleanup", "hook",
           "finish", "close", "done"},
     cancelled : BOOLEAN, err : {"nil", "cancelled", "other"}]

NoLoop == [pc |-> "none", cancelled |-> FALSE, err |-> "nil"]

Init ==
    /\ rec = NewWorkerState
    /\ op = IdleOp
    /\ state = "idle"
    /\ current = 0
    /\ attempt = "nil"
    /\ loop = [g \in Generation |-> NoLoop]
    /\ uncleaned = FALSE

-----------------------------------------------------------------------------
(* The runtime's side: begin an operation, retry Start, settle the outcome *)

At(pc) == op.pc = pc
GoTo(pc) == op' = [op EXCEPT !.pc = pc]
Settling(outcome) == op' = [op EXCEPT !.pc = "settle", !.outcome = outcome]

RuntimeStart ==
    /\ At("idle") /\ rec.lifecycle \in Startable /\ rec.generation < MaxGeneration
    /\ rec' = BegunStart(rec)
    /\ op' = [IdleOp EXCEPT !.pc = "begin", !.phase = "start"]
    /\ UNCHANGED <<state, current, attempt, loop, uncleaned>>

RuntimeStop ==
    /\ At("idle") /\ rec.lifecycle \in Stoppable
    /\ rec' = BegunStop(rec)
    /\ op' = [IdleOp EXCEPT !.pc = "begin", !.phase = "stop"]
    /\ UNCHANGED <<state, current, attempt, loop, uncleaned>>

RuntimeDrain ==
    /\ At("idle") /\ rec.lifecycle = "running"
    /\ rec' = Drained(rec)
    /\ UNCHANGED <<op, state, current, attempt, loop, uncleaned>>

Expire ==
    /\ ~ At("idle") /\ ~ op.expired
    /\ op' = [op EXCEPT !.expired = TRUE]
    /\ UNCHANGED <<rec, state, current, attempt, loop, uncleaned>>

\* runWithRetry, after an attempt of Start that failed with an error of the
\* given kind: the policy grants another one, or the operation fails. An
\* expired context ends it with the context's own error.
StartEnds(kind) ==
    \/ ~ op.expired /\ GoTo("backoff")
    \/ Settling(IF op.expired THEN "failed" ELSE kind)

\* A plain error is recorded at once; a loopCleanupError is not.
Recorded(s) == [s EXCEPT !.lastFailure = "primary"]

Backoff ==
    /\ At("backoff")
    /\ GoTo("begin") \/ (op.expired /\ Settling("failed"))
    /\ UNCHANGED <<rec, state, current, attempt, loop, uncleaned>>

\* completeWorkerStart, completeWorkerTransition, failWorker, failLoopCleanup.
Settle ==
    /\ At("settle")
    /\ rec' = CASE op.outcome = "ok" /\ op.phase = "start" -> CompletedStart(Self, rec)
                [] op.outcome = "ok" /\ op.phase = "stop"  -> CompletedStop(rec)
                [] op.outcome = "cleanup"                  -> CleanupFailed(rec)
                [] op.outcome \in {"failed", "panic"}      -> Failed(rec)
    /\ op' = IdleOp
    /\ UNCHANGED <<state, current, attempt, loop, uncleaned>>

-----------------------------------------------------------------------------
(* LoopWorker.Start *)

InStart(pc) == At(pc) /\ op.phase = "start"

CleanupPending == attempt \in {"running", "failed"} \/ (attempt = "nil" /\ state = "stopped")
LoopActive == state \in {"starting", "running", "stopping"}

\* Mutant: a loop that has stopped may be restarted whatever became of cleanup.
BeginStartIgnoresCleanup ==
    /\ InStart("begin") /\ ~ LoopActive
    /\ state' = "starting" /\ attempt' = "nil"
    /\ GoTo("startHook")
    /\ UNCHANGED <<rec, current, loop, uncleaned>>

BeginStart ==
    /\ InStart("begin") /\ ~ CleanupPending /\ ~ LoopActive
    /\ state' = "starting" /\ attempt' = "nil"
    /\ GoTo("startHook")
    /\ UNCHANGED <<rec, current, loop, uncleaned>>

BeginStartRefused ==
    /\ InStart("begin") /\ (CleanupPending \/ LoopActive)
    /\ StartEnds(IF CleanupPending THEN "cleanup" ELSE "failed")
    /\ rec' = IF CleanupPending THEN rec ELSE Recorded(rec)
    /\ UNCHANGED <<state, current, attempt, loop, uncleaned>>

StartHookSucceeds ==
    /\ At("startHook")
    /\ GoTo(IF AutoReady THEN "launch" ELSE "lower")
    /\ UNCHANGED <<rec, state, current, attempt, loop, uncleaned>>

\* The deferred finishFailedStart runs, then the error or panic is handled.
StartHookFails ==
    /\ At("startHook")
    /\ state' = "idle"
    /\ \/ StartEnds("failed") /\ rec' = Recorded(rec)
       \/ Settling("panic") /\ UNCHANGED rec
    /\ UNCHANGED <<current, attempt, loop, uncleaned>>

\* SetReady of Start: FALSE before the launch of a loop that signals readiness
\* itself, TRUE after the launch of any other.
SignalReady ==
    /\ At(IF AutoReady THEN "raise" ELSE "lower")
    /\ HandleMay(rec, rec.generation, AutoReady)
    /\ rec' = ReadySet(rec, AutoReady)
    /\ IF AutoReady THEN Settling("ok") ELSE GoTo("launch")
    /\ UNCHANGED <<state, current, attempt, loop, uncleaned>>

\* Mutant: the loop is filed under the generation after the one that launched it.
LaunchNextGeneration ==
    /\ At("launch")
    /\ state' = "running" /\ current' = rec.generation + 1
    /\ loop' = [loop EXCEPT ![rec.generation].pc = "running"]
    /\ uncleaned' = TRUE
    /\ IF AutoReady THEN GoTo("raise") ELSE Settling("ok")
    /\ UNCHANGED <<rec, attempt>>

\* finishStart and the go statement.
Launch ==
    /\ At("launch")
    /\ state' = "running" /\ current' = rec.generation
    /\ loop' = [loop EXCEPT ![rec.generation].pc = "running"]
    /\ uncleaned' = TRUE
    /\ IF AutoReady THEN GoTo("raise") ELSE Settling("ok")
    /\ UNCHANGED <<rec, attempt>>

-----------------------------------------------------------------------------
(* LoopWorker.Stop *)

InStop(pc) == At(pc) /\ op.phase = "stop"

\* Mutant: a loop that is stopping already is not waited for.
BeginStopNoJoin ==
    /\ InStop("begin")
    /\ IF current # 0 /\ state = "running"
       THEN /\ state' = "stopping"
            /\ op' = [op EXCEPT !.pc = "cancel", !.target = current]
       ELSE GoTo("cleanup") /\ UNCHANGED state
    /\ UNCHANGED <<rec, current, attempt, loop, uncleaned>>

\* beginStop: there is a loop to cancel and to wait for, or there is none.
BeginStop ==
    /\ InStop("begin")
    /\ IF current # 0 /\ state \in {"running", "stopping"}
       THEN /\ state' = "stopping"
            /\ op' = [op EXCEPT !.pc = "cancel", !.target = current]
       ELSE GoTo("cleanup") /\ UNCHANGED state
    /\ UNCHANGED <<rec, current, attempt, loop, uncleaned>>

\* After the lock is released; the loop may have ended by itself meanwhile.
Cancel ==
    /\ At("cancel")
    /\ loop' = [loop EXCEPT ![op.target].cancelled = TRUE]
    /\ GoTo("join")
    /\ UNCHANGED <<rec, state, current, attempt, uncleaned>>

Joined ==
    /\ At("join") /\ loop[op.target].pc = "done"
    /\ GoTo("cleanup")
    /\ UNCHANGED <<rec, state, current, attempt, loop, uncleaned>>

\* The context ends the wait for the loop, or for an attempt that is running or
\* complete. Its error is recorded.
WaitExpired ==
    /\ op.expired
    /\ At("join") \/ (At("cleanup") /\ attempt \in {"running", "complete"})
    /\ rec' = Recorded(rec)
    /\ Settling("failed")
    /\ UNCHANGED <<state, current, attempt, loop, uncleaned>>

\* An earlier attempt has succeeded: its result is returned.
CleanupComplete ==
    /\ At("cleanup") /\ attempt = "complete"
    /\ Settling("ok")
    /\ UNCHANGED <<rec, state, current, attempt, loop, uncleaned>>

\* Mutant: Stop does not ask whether an earlier attempt has succeeded.
BeginCleanupAgain ==
    /\ At("cleanup") /\ attempt # "running"
    /\ attempt' = "running"
    /\ GoTo("hook")
    /\ UNCHANGED <<rec, state, current, loop, uncleaned>>

BeginCleanup ==
    /\ At("cleanup") /\ attempt \in {"nil", "failed"}
    /\ attempt' = "running"
    /\ GoTo("hook")
    /\ UNCHANGED <<rec, state, current, loop, uncleaned>>

CleanupSucceeds ==
    /\ At("hook")
    /\ attempt' = "complete"
    /\ uncleaned' = FALSE
    /\ Settling("ok")
    /\ UNCHANGED <<rec, state, current, loop>>

\* Mutant: the hook's error is recorded in the attempt but Stop returns nil.
CleanupFailsUnnoticed ==
    /\ At("hook")
    /\ attempt' = "failed"
    /\ Settling("ok")
    /\ UNCHANGED <<rec, state, current, loop, uncleaned>>

\* The hook returns an error, or panics: either way the attempt is finished.
CleanupFails ==
    /\ At("hook")
    /\ attempt' = "failed"
    /\ \E outcome \in {"cleanup", "panic"} : Settling(outcome)
    /\ UNCHANGED <<rec, state, current, loop, uncleaned>>

-----------------------------------------------------------------------------
(* The loop goroutine (runLoop) *)

LoopGoTo(g, pc) == loop' = [loop EXCEPT ![g].pc = pc]

\* User code keeps the handle of generation g for as long as it likes: hooks,
\* loop functions and command handlers signal at any moment. A command that
\* panics has the effect of a report (CommandPanicked).
UserSignals(g) ==
    /\ \/ \E b \in BOOLEAN : HandleMay(rec, g, b) /\ rec' = ReadySet(rec, b)
       \/ HandleMayReport(rec, g) /\ rec' = Reported(rec)
    /\ UNCHANGED <<op, state, current, attempt, loop, uncleaned>>

\* The loop function returns nil, its context's error, or another error.
LoopReturns(g) ==
    /\ loop[g].pc = "running"
    /\ \E err \in {"nil", "cancelled", "other"} :
          /\ err = "cancelled" => loop[g].cancelled
          /\ loop' = [loop EXCEPT ![g].pc = "exited", ![g].err = err]
    /\ UNCHANGED <<rec, op, state, current, attempt, uncleaned>>

\* Mutant: the state alone decides that a stop was requested, and any exit of a
\* loop that is being stopped counts as intentional.
ClassifyAnyStop(g) ==
    /\ loop[g].pc = "exited"
    /\ LET intentional == state = "stopping"
       IN  /\ state' = IF current = g THEN "stopping" ELSE state
           /\ LoopGoTo(g, IF intentional THEN "finish" ELSE "report")
    /\ UNCHANGED <<rec, op, current, attempt, uncleaned>>

\* Mutant: the check for a requested stop is lost.
ClassifyNeverStop(g) ==
    /\ loop[g].pc = "exited"
    /\ state' = IF current = g THEN "stopping" ELSE state
    /\ LoopGoTo(g, "report")
    /\ UNCHANGED <<rec, op, current, attempt, uncleaned>>

\* The locked section after the loop function returned.
Classify(g) ==
    /\ loop[g].pc = "exited"
    /\ LET stopRequested == state = "stopping" /\ loop[g].cancelled
           intentional == stopRequested /\ loop[g].err \in {"nil", "cancelled"}
       IN  /\ state' = IF current = g /\ ~ stopRequested THEN "stopping" ELSE state
           /\ LoopGoTo(g, IF intentional THEN "finish" ELSE "report")
    /\ UNCHANGED <<rec, op, current, attempt, uncleaned>>

\* ReportFailure; a stale or settled worker refuses it and that is ignored.
Report(g) ==
    /\ loop[g].pc = "report"
    /\ rec' = IF HandleMayReport(rec, g) THEN Reported(rec) ELSE rec
    /\ LoopGoTo(g, "cleanup")
    /\ UNCHANGED <<op, state, current, attempt, uncleaned>>

\* The first cleanup attempt of a loop that failed.
LoopBeginCleanup(g) ==
    /\ loop[g].pc = "cleanup" /\ attempt \in {"nil", "failed"}
    /\ attempt' = "running"
    /\ LoopGoTo(g, "hook")
    /\ UNCHANGED <<rec, op, state, current, uncleaned>>

\* Its error is only observed: the failure of the loop stays the evidence.
LoopCleanup(g) ==
    /\ loop[g].pc = "hook"
    /\ \E success \in BOOLEAN :
          /\ attempt' = IF success THEN "complete" ELSE "failed"
          /\ uncleaned' = (uncleaned /\ ~ success)
    /\ LoopGoTo(g, "finish")
    /\ UNCHANGED <<rec, op, state, current>>

FinishLoop(g) ==
    /\ loop[g].pc = "finish"
    /\ IF current = g
       THEN current' = 0 /\ state' = "stopped" ELSE UNCHANGED <<current, state>>
    /\ LoopGoTo(g, "close")
    /\ UNCHANGED <<rec, op, attempt, uncleaned>>

\* Mutant: done is closed on the path of a requested stop only.
CloseDoneWhenStopped(g) ==
    /\ loop[g].pc = "close" /\ loop[g].err # "other"
    /\ LoopGoTo(g, "done")
    /\ UNCHANGED <<rec, op, state, current, attempt, uncleaned>>

\* close(done), after the lock is released.
CloseDone(g) ==
    /\ loop[g].pc = "close"
    /\ LoopGoTo(g, "done")
    /\ UNCHANGED <<rec, op, state, current, attempt, uncleaned>>

-----------------------------------------------------------------------------
(* The specification *)

Operation ==
    \/ RuntimeStart \/ RuntimeStop \/ RuntimeDrain \/ Expire

Internal ==
    \/ Backoff \/ Settle \/ BeginStart \/ BeginStartRefused \/ StartHookSucceeds
    \/ StartHookFails \/ SignalReady \/ Launch
    \/ BeginStop \/ Cancel \/ Joined \/ WaitExpired \/ CleanupComplete
    \/ BeginCleanup \/ CleanupSucceeds \/ CleanupFails

LoopInternal(g) ==
    \/ Classify(g) \/ Report(g) \/ LoopBeginCleanup(g) \/ LoopCleanup(g)
    \/ FinishLoop(g) \/ CloseDone(g)

Next ==
    \/ Operation
    \/ Internal
    \/ \E g \in Generation : UserSignals(g) \/ LoopReturns(g) \/ LoopInternal(g)

Spec == Init /\ [][Next]_vars

\* The last attempt a retry policy grants.
LastAttempt == (BeginStartRefused \/ StartHookFails) /\ op'.pc = "settle"

\* Goroutines run; hooks return; a loop whose context is cancelled observes it;
\* a retry policy grants finitely many attempts.
Fairness ==
    /\ WF_vars(Internal)
    /\ SF_vars(LastAttempt)
    /\ \A g \in Generation :
          /\ WF_vars(LoopInternal(g))
          /\ WF_vars(loop[g].cancelled /\ LoopReturns(g))

FairSpec == Spec /\ Fairness
=============================================================================
