----------------------- MODULE WorkerRuntimeProperties -----------------------
(***************************************************************************)
(* What makes the runtime of WorkerRuntime correct.                        *)
(***************************************************************************)
EXTENDS WorkerRuntime

\* Type correctness of every record runtime.go keeps (workerState,
\* RuntimeStatus, and the locals of lifecycle calls and dispatches).
TypeOK ==
    /\ workerOrder \in Seq(Worker)
    /\ ws \in [Worker -> WorkerState]
    /\ status \in RuntimeStatusRec
    /\ admissionClosed \in BOOLEAN
    /\ gate \in BOOLEAN
    /\ call \in [Caller -> CallState]
    /\ cmd \in [Dispatch -> CommandState]

-----------------------------------------------------------------------------
(* Capacity: admitCommand and releaseCommandSlot *)

Holding == {d \in Dispatch : cmd[d].pc # "idle"}
HoldingOn(w) == {d \in Holding : cmd[d].worker = w}

\* The in-flight counters of the runtime and of each worker are the number of
\* admitted commands whose slot is not released, across Stop and restart: a
\* command of an older generation keeps its slot until its handler exits
\* (releaseCommandSlot ignores the generation, beginWorkerStart keeps the count).
SlotAccounting ==
    /\ status.inFlight = Cardinality(Holding)
    /\ \A w \in Worker : ws[w].inFlight = Cardinality(HoldingOn(w))

\* No interleaving of admissions, releases and restarts lets more commands run
\* than the runtime limit, or than the limit of their worker (admitCommand).
WithinCapacity ==
    /\ RuntimeCap # 0 => Cardinality(Holding) <= RuntimeCap
    /\ \A w \in Worker :
          WorkerCap[w] # 0 => Cardinality(HoldingOn(w)) <= WorkerCap[w]

-----------------------------------------------------------------------------
(* The lifecycle gate *)

HoldsGate(c) == call[c].pc \notin {"idle", "waiting"}
InUserCode(c) == call[c].pc \in {"user", "backoff", "settle"}
Owns(c, w) == InUserCode(c) /\ call[c].worker = w

\* The lifecycle gate admits one call at a time and its token is never lost or
\* doubled, whichever way calls end (acquireLifecycle and its release).
GateExclusive ==
    /\ gate <=> \A c \in Caller : ~ HoldsGate(c)
    /\ \A c1, c2 \in Caller : HoldsGate(c1) /\ HoldsGate(c2) => c1 = c2

\* A worker is starting or stopping exactly while some call is between begin and
\* completion of that operation on it, at the worker's current generation. So a
\* failure report, a command panic or a stale handle never takes the worker out
\* of the state that completeWorkerStart, completeWorkerTransition and failWorker
\* expect, and no worker is left in transition by a call that ended.
TransitionsOwned ==
    /\ \A w \in Worker :
          ws[w].lifecycle \in {"starting", "stopping"} => \E c \in Caller : Owns(c, w)
    /\ \A c \in Caller : InUserCode(c) =>
          /\ call[c].worker \in Registered
          /\ ws[call[c].worker].generation = call[c].gen
          /\ ws[call[c].worker].lifecycle =
                (IF call[c].phase = "start" THEN "starting" ELSE "stopping")

-----------------------------------------------------------------------------
(* Status published to readers *)

\* A worker that is failed, and one whose start will be resolved to failed,
\* always carries the evidence of a failure; one in service carries none
\* (reportWorkerFailure, failWorker, failLoopCleanup, completeWorkerStart).
FailureEvidence ==
    \A w \in Worker :
        /\ ws[w].lifecycle = "failed" => ws[w].lastFailure # "nil"
        /\ ws[w].lifecycle \in {"running", "draining"} => ws[w].lastFailure = "nil"
        /\ ws[w].failureReportedDuringStart =>
              ws[w].lifecycle = "starting" /\ ws[w].lastFailure # "nil"

\* Outside starting and running no worker advertises readiness or accepts work,
\* so no late SetReady or SetAcceptingWork survives a drain, stop or failure.
NoStaleSignals ==
    \A w \in Worker :
        ws[w].ready \/ ws[w].acceptingWork => ws[w].lifecycle \in AllowsPositiveSignal

\* The published aggregate is never stale: after every critical section it is
\* what the worker records say, also after the sections that skip
\* recomputeStatusLocked. Where the derivation has no case of its own (some
\* workers never started, the others stopped) it is still "stopping".
AggregateCurrent ==
    /\ status.ready = DeriveReady(Registered, ws)
    /\ status.state = DeriveState(Registered, ws, "stopping")

\* A runtime that reports ready has every contributing worker running and ready,
\* and no failed worker whose policy is to take readiness down.
ReadyMeansServing ==
    status.ready =>
        /\ RunningReady(Registered \cap Contributes, ws)
        /\ \E w \in Registered : ws[w].lifecycle = "running"
        /\ \A w \in Registered :
              ws[w].lifecycle = "failed" => FailurePolicy[w] = "isolate"

-----------------------------------------------------------------------------
(* Admission cutoff and shutdown *)

\* The part of StopAll and Shutdown that runWithCommandAdmissionClosed encloses.
InCutoff(c) ==
    /\ call[c].op \in ClosingOps
    /\ call[c].pc \notin {"idle", "waiting", "close", "release"}

\* Admission is closed exactly while StopAll or Shutdown is under way: every way
\* out, an expired context and a crash-policy panic included, opens it again.
CutoffScoped == admissionClosed <=> \E c \in Caller : InCutoff(c)

\* Once Shutdown calls Worker.Stop on the first worker, and until it is done, no
\* command is running on any worker (shutdown waits for idle after the cutoff).
ShutdownStopsIdleRuntime ==
    \A c \in Caller :
        InCutoff(c) /\ call[c].op = "Shutdown" /\ call[c].phase = "stop" => Holding = {}

\* While StopAll or Shutdown is between its cutoff and its end, the set of
\* commands in flight only shrinks, on every worker (admitCommand's first check).
NoAdmissionInCutoff ==
    [][(\E c \in Caller : InCutoff(c) /\ InCutoff(c)') => Holding' \subseteq Holding]_vars

\* StopAll and Shutdown stop in reverse registration order: while one worker is
\* stopping, the workers registered after it have been taken out of service.
\* StartAll starts in registration order: while one is starting, those
\* registered before it have been started.
BulkOrder ==
    \A c \in Caller : InUserCode(c) /\ call[c].op \notin SingleOps =>
        \A i, j \in 1 .. Len(workerOrder) :
            i < j =>
              /\ call[c].phase = "stop" /\ call[c].worker = workerOrder[i] =>
                    ws[workerOrder[j]].lifecycle \notin {"starting", "running", "draining"}
              /\ call[c].phase = "start" /\ call[c].worker = workerOrder[j] =>
                    ws[workerOrder[i]].lifecycle \in {"running", "failed"}

Returns(c) == call[c].pc = "release" /\ call'[c].pc = "idle"

\* What a nil error of a runtime-wide operation promises of the workers, in
\* spite of the failures and commands that raced with it: StopAll and Shutdown
\* leave none active or failed, DrainAll none running, StartAll none unstarted.
NilMeansDone ==
    [][\A c \in Caller : Returns(c) /\ ~ call[c].err =>
          \A w \in Registered :
             /\ call[c].op \in ClosingOps => ws[w].lifecycle \in {"registered", "stopped"}
             /\ call[c].op \in {"DrainAll", "DrainAllBestEffort"} =>
                   ws[w].lifecycle # "running"
             /\ call[c].op = "StartAll" => ws[w].lifecycle \in {"running", "failed"}]_vars

-----------------------------------------------------------------------------
(* Generations *)

\* What readers, admission and readiness are told about a worker.
Evidence(s) == [s EXCEPT !.inFlight = 0]

\* A command admitted by an older generation only gives its slot back: its error
\* or panic leaves the status of the restarted worker alone
\* (recordCommandFailure, recordCommandPanic).
StaleCommandsInert ==
    [][\A d \in Dispatch :
          LET w == cmd[d].worker
          IN  cmd[d].pc # "idle" /\ cmd'[d] # cmd[d] /\ cmd[d].gen # ws[w].generation
              => Evidence(ws'[w]) = Evidence(ws[w])]_vars

\* A worker that is stopped or was never started leaves that state only by a
\* start, which is also the only step that opens a generation: no late command,
\* failure report or failing stop revives it or marks it failed.
RestOnlyEndedByStart ==
    [][\A w \in Worker :
          /\ ws[w].lifecycle \in {"registered", "stopped"} /\ ws'[w].lifecycle # ws[w].lifecycle
                => ws'[w].lifecycle = "starting"
          /\ ws'[w].generation # ws[w].generation
                <=> ws'[w].lifecycle = "starting" /\ ws[w].lifecycle # "starting"]_vars

-----------------------------------------------------------------------------
(* Refinement *)

\* The runtime keeps the promise of LifecycleContract: gate, snapshots, retries,
\* late reports and stale commands together never take two workers into
\* transition, leave the automaton, or admit a command to a worker not running.
Contract == INSTANCE LifecycleContract WITH
    lifecycle <- [w \in Worker |-> ws[w].lifecycle],
    generation <- [w \in Worker |-> ws[w].generation],
    work <- [d \in Dispatch |-> cmd[d].worker]

ImplementsContract == Contract!Spec

-----------------------------------------------------------------------------
(* Liveness *)

\* Every lifecycle call returns, and so gives up the gate: Shutdown's wait for
\* idle, the wait for the gate and the retry loop all end (runLifecycle,
\* WaitAllIdle, runWithRetry).
CallsReturn == \A c \in Caller : call[c].pc # "idle" ~> call[c].pc = "idle"

\* Every admitted command gives its slot back (the deferred releaseCommandSlot),
\* even when its handler waits for the gate that a shutdown holds.
SlotsReleased == \A d \in Dispatch : cmd[d].pc # "idle" ~> cmd[d].pc = "idle"

-----------------------------------------------------------------------------
(* Statements of the documentation that the code does not meet *)

\* lifecycle.go: an aggregate "stopping" reports that at least one worker is
\* stopping.
StoppingMeansStopping ==
    status.state = "stopping" => \E w \in Registered : ws[w].lifecycle = "stopping"

\* runtime.go on DrainAll: workers that are not active are skipped, so an error
\* means that it met a worker starting or stopping (nothing else makes a drain
\* fail).
DrainAllSkipsInactive ==
    [][\A c \in Caller :
          call[c].op = "DrainAll" /\ ~ call[c].err /\ call'[c].err =>
             ws[NextEntry(c).worker].lifecycle \in {"starting", "stopping"}]_vars
=============================================================================
