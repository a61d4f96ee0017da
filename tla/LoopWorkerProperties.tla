------------------------ MODULE LoopWorkerProperties ------------------------
(***************************************************************************)
(* What makes a managed LoopWorker correct.                                *)
(***************************************************************************)
EXTENDS LoopWorker

\* Type correctness of the fields of LoopWorker, of its goroutines and of the
\* operation on it (loop.go).
LoopTypeOK ==
    /\ rec \in WorkerState
    /\ op \in OpState
    /\ state \in LoopState
    /\ current \in 0 .. MaxGeneration
    /\ attempt \in {"nil", "running", "failed", "complete"}
    /\ loop \in [Generation -> Loop]
    /\ uncleaned \in BOOLEAN

LoopBusy(g) == loop[g].pc \in {"running", "hook"}
OpBusy == op.pc \in {"startHook", "hook"}

\* Start hook, loop functions of all generations, and cleanup hooks never run at
\* the same time, though Stop gives up on loops that do not end in time and
\* loops clean up after themselves. So an attempt that Stop finds is never
\* running (beginStart, beginStop, beginStopHook).
UserCodeExclusive ==
    /\ \A g, h \in Generation : LoopBusy(g) /\ LoopBusy(h) => g = h
    /\ OpBusy => \A g \in Generation : ~ LoopBusy(g)
    /\ op.pc = "cleanup" => attempt # "running"

\* No start reaches user code, and no loop is launched, before a cleanup has
\* succeeded after the loop launched last: not after timeouts, failed or panicked
\* hooks, or refused starts in between (beginStart).
CleanedBeforeRestart == op.pc \in {"startHook", "lower", "launch"} => ~ uncleaned

\* A worker in service has its loop running, or about to report that it ended; a
\* worker that is stopped or new has no loop and owes no cleanup. So Start
\* never completes over a dead loop and Stop never returns nil too early.
ServiceMatchesLoop ==
    /\ rec.lifecycle \in {"running", "draining"} =>
          loop[rec.generation].pc \in {"running", "exited", "report"}
    /\ rec.lifecycle \in {"registered", "stopped"} =>
          /\ \A g \in Generation : loop[g].pc \in {"none", "close", "done"}
          /\ ~ uncleaned

\* The loop function ended with an error of its own, or before it was cancelled.
EndedByItself(g) == loop[g].err = "other" \/ (loop[g].err = "nil" /\ ~ loop[g].cancelled)

\* The end of a loop is classified right, however it raced with Start or Stop: the
\* failure of one that ended by itself is evidence in the worker's status by the
\* time its stop can be complete, and a failing cleanup does not replace it; one
\* that ended with the error of a context Stop cancelled is never taken for a
\* failure (runLoop, intentionalLoopStop, ReportFailure).
LoopFailureKept ==
    \A g \in Generation :
        /\ /\ EndedByItself(g) /\ rec.generation = g
           /\ loop[g].pc \in {"cleanup", "hook", "finish", "close", "done"}
           => rec.lastFailure = "primary"
        /\ loop[g].err = "cancelled" => loop[g].pc \notin {"report", "cleanup", "hook"}

-----------------------------------------------------------------------------
(* What LoopWorker implements *)

\* The hook that runs; the one of Start until Start has failed or launched.
Hook ==
    IF op.pc \in {"startHook", "lower", "launch"} THEN "start"
    ELSE IF op.pc = "hook" \/ \E g \in Generation : loop[g].pc = "hook" THEN "cleanup"
    ELSE "none"

\* The loop function, until its end is known not to be a failure or is reported.
LoopServing ==
    IF current # 0 /\ loop[current].pc \in {"running", "exited", "report"}
    THEN current ELSE 0

Contract == INSTANCE LoopContract WITH
    lifecycle <- rec.lifecycle, generation <- rec.generation, hook <- Hook,
    loop <- LoopServing, owed <- uncleaned, cleaned <- attempt = "complete"

\* The loop state, the fields, the attempts and the channels together keep
\* LoopContract: among what the invariants above do not say, a hook that has
\* succeeded is not called again before the next start, by whichever Stop or loop
\* that comes later, and a worker leaves service in the step that reports the end
\* of its loop (beginStart, beginStop, runLoop, beginStopHook, finishStopHook).
ImplementsLoopContract == Contract!Spec

Automaton == INSTANCE LifecycleContract WITH
    Worker <- {Self}, Dispatch <- {}, None <- Self, work <- [d \in {} |-> Self],
    lifecycle <- [w \in {Self} |-> rec.lifecycle],
    generation <- [w \in {Self} |-> rec.generation]

\* A LoopWorker takes its record through the automaton that the runtime promises
\* of every worker (LifecycleContract), whenever its loop reports: during a start or
\* a stop, or too late (completeWorkerStart, reportWorkerFailure).
ImplementsLifecycle == Automaton!Spec

-----------------------------------------------------------------------------
\* Every operation returns, without deadlines, as long as cancelled loops and
\* hooks do: done and the cleanup attempt are settled on every path, and Start's
\* SetReady is not refused, for it would never get past that step: nothing the
\* launched loop reports takes the worker out of starting first.
OperationsReturn == op.pc # "idle" ~> op.pc = "idle"
=============================================================================
