---------------------------- MODULE WorkerRecord ----------------------------
(***************************************************************************)
(* The runtime's record of one worker (workerState in runtime.go) and the  *)
(* transitions it makes of that record while it holds r.mu.                *)
(***************************************************************************)
EXTENDS Lifecycle, Integers

CONSTANTS
    ReadyOnStart,   \* workers whose default is ready once started
    AcceptOnStart,  \* workers whose default is accepting work once started
    MaxGeneration   \* bound on the generations of one worker

ASSUME RecordAssumption == MaxGeneration \in Nat

\* Which kind of evidence LastFailure holds: none, a failure of the worker, or
\* a failure of loop cleanup that found no earlier failure to preserve.
Failure == {"nil", "primary", "cleanup"}

WorkerState ==
    [generation : 0 .. MaxGeneration, lifecycle : LifecycleState,
     ready : BOOLEAN, acceptingWork : BOOLEAN, inFlight : Nat,
     readySetDuringStart : BOOLEAN, acceptingWorkSetDuringStart : BOOLEAN,
     failureReportedDuringStart : BOOLEAN,
     lastFailure : Failure, lastCommandFailure : BOOLEAN]

NewWorkerState ==
    [generation |-> 0, lifecycle |-> "registered",
     ready |-> FALSE, acceptingWork |-> FALSE, inFlight |-> 0,
     readySetDuringStart |-> FALSE, acceptingWorkSetDuringStart |-> FALSE,
     failureReportedDuringStart |-> FALSE,
     lastFailure |-> "nil", lastCommandFailure |-> FALSE]

-----------------------------------------------------------------------------
(* The locked transitions of a worker record *)

\* failWorker: the failure that was passed replaces LastFailure.
Failed(s) ==
    [s EXCEPT !.lifecycle = "failed", !.ready = FALSE, !.acceptingWork = FALSE,
              !.readySetDuringStart = FALSE, !.acceptingWorkSetDuringStart = FALSE,
              !.failureReportedDuringStart = FALSE, !.lastFailure = "primary"]

\* failLoopCleanup: an existing LastFailure is the root cause and is kept.
CleanupFailed(s) ==
    [Failed(s) EXCEPT !.lastFailure =
        IF s.lastFailure = "nil" THEN "cleanup" ELSE s.lastFailure]

\* Mutant: a restart resets the count of commands in flight.
BegunStartResetsSlots(s) ==
    [s EXCEPT !.generation = @ + 1, !.lifecycle = "starting", !.inFlight = 0,
              !.ready = FALSE, !.acceptingWork = FALSE,
              !.readySetDuringStart = FALSE, !.acceptingWorkSetDuringStart = FALSE,
              !.failureReportedDuringStart = FALSE]

BegunStart(s) ==
    [s EXCEPT !.generation = @ + 1, !.lifecycle = "starting",
              !.ready = FALSE, !.acceptingWork = FALSE,
              !.readySetDuringStart = FALSE, !.acceptingWorkSetDuringStart = FALSE,
              !.failureReportedDuringStart = FALSE]

BegunStop(s) ==
    [s EXCEPT !.lifecycle = "stopping", !.ready = FALSE, !.acceptingWork = FALSE,
              !.readySetDuringStart = FALSE, !.acceptingWorkSetDuringStart = FALSE]

\* beginWorkerDrain, also when the worker is draining already.
Drained(s) ==
    [s EXCEPT !.lifecycle = "draining", !.ready = FALSE, !.acceptingWork = FALSE]

\* completeWorkerStart: a failure reported while Start ran decides the outcome;
\* otherwise signals set during Start win over the configured defaults.
CompletedStart(w, s) ==
    IF s.failureReportedDuringStart
    THEN [s EXCEPT !.lifecycle = "failed", !.ready = FALSE, !.acceptingWork = FALSE,
                   !.readySetDuringStart = FALSE, !.acceptingWorkSetDuringStart = FALSE,
                   !.failureReportedDuringStart = FALSE]
    ELSE [s EXCEPT !.lifecycle = "running",
                   !.ready = IF s.readySetDuringStart THEN @ ELSE w \in ReadyOnStart,
                   !.acceptingWork =
                       IF s.acceptingWorkSetDuringStart THEN @ ELSE w \in AcceptOnStart,
                   !.readySetDuringStart = FALSE, !.acceptingWorkSetDuringStart = FALSE,
                   !.lastFailure = "nil"]

\* completeWorkerTransition, used by Stop only.
CompletedStop(s) ==
    [s EXCEPT !.lifecycle = "stopped", !.ready = FALSE, !.acceptingWork = FALSE,
              !.readySetDuringStart = FALSE, !.acceptingWorkSetDuringStart = FALSE]

\* Mutant: a failure reported during Start or Stop is applied at once.
ReportedAtOnce(s) == Failed(s)

\* Mutant: the start-time flag is also raised by a report during Stop.
ReportedFlagsStop(s) ==
    IF s.lifecycle \in {"starting", "stopping"}
    THEN [s EXCEPT !.ready = FALSE, !.acceptingWork = FALSE,
                   !.failureReportedDuringStart = TRUE, !.lastFailure = "primary"]
    ELSE Failed(s)

\* reportWorkerFailure: while an operation on the worker is under way the
\* lifecycle is left for that operation to resolve.
Reported(s) ==
    IF s.lifecycle \in {"starting", "stopping"}
    THEN [s EXCEPT !.ready = FALSE, !.acceptingWork = FALSE,
                   !.readySetDuringStart = FALSE, !.acceptingWorkSetDuringStart = FALSE,
                   !.failureReportedDuringStart = (s.lifecycle = "starting"),
                   !.lastFailure = "primary"]
    ELSE Failed(s)

\* recordCommandFailure: status of a restarted worker is left alone.
CommandFailed(s, gen) ==
    IF s.generation = gen THEN [s EXCEPT !.lastCommandFailure = TRUE] ELSE s

\* Mutant: the panic of a stale command fails the restarted worker.
CommandPanickedAnyGeneration(s, gen) ==
    IF s.lifecycle \in {"running", "draining"}
    THEN [Failed(s) EXCEPT !.lastCommandFailure = TRUE]
    ELSE [s EXCEPT !.lastCommandFailure = TRUE]

\* Mutant: a panic fails the worker in whatever state it is.
CommandPanickedAnyState(s, gen) ==
    IF s.generation # gen THEN s ELSE [Failed(s) EXCEPT !.lastCommandFailure = TRUE]

\* recordCommandPanic
CommandPanicked(s, gen) ==
    IF s.generation # gen THEN s
    ELSE IF s.lifecycle \in {"running", "draining"}
    THEN [Failed(s) EXCEPT !.lastCommandFailure = TRUE]
    ELSE [s EXCEPT !.lastCommandFailure = TRUE]

-----------------------------------------------------------------------------
(* Signals through the WorkerRuntime handle of generation gen *)

\* Mutant: a draining worker may raise its signals again.
HandleMayAlways(s, gen, value) ==
    s.generation = gen /\ s.lifecycle \in AllowsRuntimeMutation

\* setWorkerReady and setWorkerAcceptingWork refuse everything else.
HandleMay(s, gen, value) ==
    /\ s.generation = gen
    /\ s.lifecycle \in AllowsRuntimeMutation
    /\ value => s.lifecycle \in AllowsPositiveSignal

HandleMayReport(s, gen) == s.generation = gen /\ s.lifecycle \in Reportable

ReadySet(s, ready) ==
    [s EXCEPT !.ready = ready,
              !.readySetDuringStart = @ \/ s.lifecycle = "starting"]

AcceptingWorkSet(s, accepting) ==
    [s EXCEPT !.acceptingWork = accepting,
              !.acceptingWorkSetDuringStart = @ \/ s.lifecycle = "starting"]
=============================================================================
