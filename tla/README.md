# A TLA+ model of workerkit

workerkit is a Go library that runs long-lived workers inside a service: it
starts, drains and stops them, dispatches commands to them, and publishes their
status and readiness. This directory models the part of it that runs
concurrently, checks the model with TLC, and proves its safety properties with
TLAPS.

## The system

| Component | Source | State | Operations |
| --- | --- | --- | --- |
| Runtime, lifecycle | `runtime.go` | `workerOrder`, `workerStates`, `commandAdmissionClosed`, `lifecycleGate` | Register, Start, Stop, Drain, StartAll, DrainAll, DrainAllBestEffort, StopAll, Shutdown, WaitIdle |
| Runtime, dispatch | `runtime.go` | `inFlight` per worker and `status.InFlight` | Dispatch: admit, execute with retry, record failure or panic, release |
| Worker handle | `worker.go`, `runtime.go` | worker name and generation | SetReady, SetAcceptingWork, ReportFailure |
| Aggregate status | `runtime_status.go` | `status` | recomputed at every commit of a worker record |
| Lifecycle states | `lifecycle.go` | none | predicates on states |
| LoopWorker | `loop.go` | loop state, `cancel`, `done`, cleanup attempt | Start, Stop, the loop goroutine, cleanup hook |
| Check loops | `check_loop.go` | none | run a check per interval with a timeout, publish readiness |
| Retry | `retry/` | random source | NextDelay, backoff, jitter |
| Servekit service | `servekitservice/` | none | Run: start workers, serve, shut down, fall back to StopAll |
| Opskit adapter | `opskit.go` | none | readiness items and inspection from the status |
| Observers | `observability.go` | none | events for transitions, readiness, failures, commands, checks |
| Telemetry adapters | `otel/`, `slogobserver/` | one span per observed command or check | render the events |
| HTTP | `opshttp/` | none | routes for lifecycle operations and dispatch |
| Failures | `failure.go`, `command.go` | none | public codes of errors, results of Opskit handlers |
| Options, names, commands | `options.go`, `names.go`, `command.go` | configuration | validation, lookup |

How they interact:

- Any goroutine may call a lifecycle operation. One token in the channel
  `lifecycleGate` admits one at a time; it is not reentrant. A caller gives up
  when its context ends.
- The lock `r.mu` protects every record. It is released while user code
  (Worker.Start, Worker.Stop, command handlers, observers) runs.
- Dispatch and the worker handle do not take the gate: they interleave with
  every lifecycle operation between two of its critical sections.
- A handle and an admitted command carry the worker's generation, which every
  start increments; both outlive Stop and restart.
- Bulk operations take a snapshot of the worker states and then operate on one
  worker after another.
- HTTP routes and the servekit service are callers of the lifecycle operations.

What is hard: user code that runs with the gate held and the lock released;
failures reported meanwhile; commands and handles of an older generation;
snapshots that age; contexts that end at any moment; panics, recovered or raised
again; a shutdown that waits for commands which themselves wait for the gate.

What makes each component correct:

- *Lifecycle*: a worker is in transition exactly while one call owns it; the
  gate's token is conserved; bulk operations keep their order and do what their
  nil error promises; calls return.
- *Dispatch*: counters equal the commands that run; limits hold; nothing is
  admitted after a cutoff; slots are given back; stale commands change nothing.
- *Handle*: no stale or late signal survives; failures leave evidence.
- *Aggregate*: never stale, and ready only when the contributing workers serve.
- *LoopWorker*: user code of one worker never overlaps, whatever generation it
  began in; no restart over pending cleanup; every exit of a loop is classified
  once and rightly; the runtime's view of the worker matches its goroutine.
- *Check loops*: readiness is that of the last timely verdict; a worker in
  service is checked again and again; a check loop is a loop worker.
- *Retry*: delays in range for every attempt, saturation instead of overflow, no
  error beyond the roundings of floating point; no retry after the caller has given up, but the one that was due.
- *Servekit service*: commands finish before workers stop while the budget lasts;
  no worker is left active after Run, unless its Stop failed; Run returns.
- *Opskit adapter*: the readiness items explain the aggregate they come with.
- *HTTP dispatch*: the status tells what became of the command.
- *Failures, telemetry*: what is told at the end of a command is its outcome, under
  the code its last failure had, whatever attempts went before.
- *Observers*: no failure goes untold; what is told at the end of a command adds
  up; the order of events is that of the transitions, but for failures.

`PROJECT.json` lists the hazards line by line with the properties that cover
them.

## The modules

| Module | Models | Notes |
| --- | --- | --- |
| `Lifecycle` | `lifecycle.go`, guards of the transitions | sets of states only |
| `RuntimeStatus` | `runtime_status.go` | pure operators on worker records |
| `WorkerRecord` | the transitions of a `workerState` in `runtime.go` | pure operators; used by the runtime and by the loop worker |
| `WorkerRuntime` | `runtime.go`, `worker.go` | the specification |
| `WorkerRuntimeProperties` | | what the runtime must satisfy |
| `LifecycleContract` | | abstract specification: the worker automaton with at most one operation under way |
| `MCWorkerRuntime` | | instances for TLC |
| `LoopWorker` | `loop.go`, under the runtime's start, drain and stop | the specification; generations are its only parameter of size, so the runs use it directly |
| `LoopContract` | | abstract specification: what a loop worker promises, without loop states and cleanup attempts |
| `LoopWorkerProperties` | | what a managed loop worker must satisfy; how it implements `LoopContract` and `LifecycleContract` |
| `CheckLoop` | `check_loop.go` | extends `LoopWorker`: its loop function, step by step |
| `CheckLoopProperties` | | what a check loop must satisfy; the configurations tried |
| `OpskitView` | `opskit.go` | operators on the state of `WorkerRuntime`, and their property |
| `ServekitService` | `servekitservice/service.go` | extends `WorkerRuntime`: the service is one of its callers |
| `ServekitServiceProperties` | | what the service must satisfy; the options tried |
| `Retry` | `retry/` | pure operators; integers of fixed width |
| `Failures` | `failure.go`, Opskit results in `command.go` | pure operators on errors |
| `OtelObserver` | `otel/observer.go`, the events of a dispatch | pure operators on a span |
| `CommandRun` | `Dispatch`, `runWithRetry`, `MultiObserver`, the Opskit handler | one dispatch, step by step; uses `Retry`, `Failures`, `OtelObserver` |
| `DispatchRoute` | `opshttp/commands.go` | extends `CommandRun`: the request before it, the response after it |
| `CommandRunProperties` | | what a dispatch must satisfy; how it takes the steps of `WorkerRuntime`; the policies tried |
| `ObserverEvents` | the observer calls of `runtime.go` | extends `WorkerRuntime` with the delivery of events; its properties |
| `MCObserverEvents` | | instance for TLC |
| `WorkerRecordProofs` | | lemmas about `WorkerRecord` |
| `WorkerRuntimeProofs` | | theorems about `WorkerRuntime`: the central invariant |
| `RuntimeViewProofs` | | about the aggregate, the Opskit view, the automaton of a worker, the contract |
| `RuntimeShutdownProofs` | | about the cutoff, the order and outcome of bulk operations, and `ServekitService` |
| `LoopWorkerProofs`, `CheckLoopProofs` | | about `LoopWorker` and `CheckLoop` |
| `CommandRunProofs` | | about `CommandRun`, `DispatchRoute` and `Retry` |
| `ObserverEventsProofs` | | about `ObserverEvents` |

### Correspondence of `WorkerRuntime` with the code

One action is one critical section of `r.mu`, one use of the gate, or one return
of user code.

- `ws[w]` is the `workerState` record; `LastFailure` is reduced to none, primary
  or cleanup, because only `failLoopCleanup` looks at it. Time stamps, error
  texts and observer events are left out.
- `call[c]` holds the locals of a lifecycle call: where it stands (`pc`), the
  operation, the entries of its snapshot still to be visited (`walk`), the worker
  and generation whose user code it runs, whether it has an error, whether its
  context has ended, and the saved value of `commandAdmissionClosed`.
- `Register` takes and returns the gate in one action: nothing it does in
  between blocks.
- `Expire` ends a caller's context at any moment of the call; `Enter` also takes
  one that ended before.
- `Abandon` is a caller whose context ended before it had the gate. The code may
  receive the token and put it back at once; the action leaves it where it is, since
  nothing happens in between but that others wait a moment longer.
- `UserReturns`, `UserFails`, `UserCleanupFails` are the ends of Worker.Start and
  Worker.Stop (nil or panic; an error; a loopCleanupError). `recordWorkerFailureStatus`
  and the later `failWorker` are two critical sections, hence two actions.
- `Retry`, `BackoffElapses`, `BackoffExpires` are `runWithRetry`; the retry
  policy may grant or refuse any attempt.
- A panic under `PanicPolicyCrash` is raised again after the worker failed; it
  unwinds the walk and runs the deferred restore of admission and release of the
  gate, as in Go when a caller higher up recovers (an HTTP server does).
- `cmd[d]` is one dispatch from admission to release. `HandlerReturns`,
  `HandlerFails`, `HandlerPanics` are the handler's outcomes, `ReleaseSlot` the
  deferred `releaseCommandSlot`.
- `InvokeFromHandler` is a handler that calls a lifecycle operation and does not
  return before that call does.
- `Signal` uses a handle of any generation so far, since user code may keep one.
- A refused dispatch, a refused signal, and `WaitIdle` change nothing and have no
  action.

### Correspondence of `LoopWorker` with the code

One action is one critical section of the worker's `mu`, one call into the
runtime, or one return of user code. The record `rec` and its transitions are
those of `WorkerRuntime`; the gate is represented by there being one operation.

- `op` is the operation the runtime has under way: its position in Start or Stop,
  the loop that Stop waits for (`target`), its outcome and whether its context
  has expired. `Settle` is how the runtime records the outcome.
- `state` is the loop state; `current` stands for the fields `cancel`, `done` and
  `runtime`, which are set and cleared together, and names the generation whose
  loop they belong to. Comparing `w.done == done` is comparing generations.
- `attempt` stands for `stopHookAttempt`, `stopHookRunning` and
  `stopHookComplete`.
- `loop[g]` is the goroutine `runLoop` of generation `g`, step by step; it runs on
  after a Stop that timed out.
- `uncleaned` is a history variable: a loop was launched that no cleanup has
  succeeded after.
- `UserSignals` is SetReady and ReportFailure through a handle of any generation.
  SetAcceptingWork does not interact with the loop and is left out.

`LoopContract` has a hook that runs, a loop that serves, and what cleanup is owed. The
mapping takes the hook from the steps of Stop and of the goroutine that call one, a
loop as serving until its end is reported or known to be no failure, and cleaned from
the attempt. That a hook which succeeded is not called again, by whichever Stop or
goroutine, is said there and by no invariant.

Left out: a Start whose SetReady is refused (`SignalReady` is a step of Start only
when SetReady is accepted; were it ever refused, Start would be stuck there and
violate `OperationsReturn`, so that the branch is unreachable under the runtime), Stop
calls that overlap because
they do not come from a runtime, and panics that end the process.

### Correspondence of `CheckLoop` with the code

`CheckLoop` keeps all of `LoopWorker` but the step `LoopReturns`, in which a loop
function ends, and puts `runCheckLoop` in its place.

- `cfg` is the `checkLoopConfig`, reduced to what the control flow tests; the
  options are operators on it. `check[g]` is the call of `runCheckLoop` of
  generation `g`: waiting, in a check, about to set readiness, about to end the
  observation.
- `DeadlinePasses` may come at any moment of a check. `Judged` asks the loop's
  context before the deadline of the check, as the code does after the check
  returned; the verdict is looked at only if neither has ended.
- `ApplyReady` is SetReady on the worker's record: a refusal is the loop's error.
- A checker may report failures through the handle (`HandlerReports`).
- An observer's context is taken to be derived from the one it was given and to
  end with it.

### Correspondence of `CommandRun` and the modules it uses with the code

`CommandRun` takes apart what `WorkerRuntime` has in four steps: an admission, an
answer that is an error and is retried, the last answer, a release. `Runtime` in
`CommandRunProperties` is that module with one worker in service that nothing else
disturbs, its record made out of the calls and the slot; `TakesRuntimeSteps` says that
every step of a dispatch is one of those or shows nowhere. `StartChild` and
`EndChild` are the fan-out of `MultiObserver`, where any child may drop out;
`AdmitOrRefuse` and `ReleaseCommandSlot` stand for the critical sections that
`WorkerRuntime` has in full; `BeginAttempt` to `WaitCancelled` are
`executeCommand` under `runWithRetry`. The attempt's deadline and the caller's
cancellation may come at any step. When both the timer and the caller's context
are ready, `select` may take either, hence `WaitElapses` with a cancelled caller.
An Opskit handler that answers after the end of its context has failed with the
error of that context (`AttemptErrors`).

An error is the sequence of what `errors.Is` and `errors.As` find in it, outermost
first: sentinels, and the codes of explicit presentations. Codes stand for the
public messages that go with them; presentations with a message and no code are
left out. `HandlerErrors` are the errors tried: one of the handler's own, one of a
dispatch it made itself, one of a deadline, and one with a presentation over the
error of a context.

`span` is what the OpenTelemetry observer has recorded for this dispatch; the rule
that the status "ok" is final is the OpenTelemetry library's, and external. It is
present if the observer's child took part in the start. Attributes are left out,
but for the attempts.

`DispatchRoute` puts the route around the dispatch: `BadRequest` for what the
decoder or the validation refuses, `TargetUnknown` for a name that is not found, and
`MapDispatchError` with the rows of `mapDispatchError` in their order. `Succeeded`
may answer 500, for a result that does not encode. The authorisation and the
middleware before the route are Servekit's.

`Retry` computes in integers of width `2 * (MaxDuration + 1)`; `Wrap` is what
Go's multiplication does out of range. `Float` is the conversion of an integer to
float64 and the rounding of a product: among the multiples of `Unit(n)`, the power of
two for which `n` has as many bits as `Significand`, the nearest to `n`, ties to even.
Multipliers and fractions are given in quarters, so that scaling by a power of four,
which does not touch a significand, keeps all numbers whole; the fraction is dropped
where the code converts back. The initial delay, the power, their product and the
limit are rounded as in the code, and the base and the product of a jitter. Such
roundings show: an initial delay of 2^53 + 1 ns comes back as 2^53, and the float64 of
the longest Duration is 2^63, which is none. Infinities lie above every limit like the
numbers that overflow to them; underflow and not-a-number are left out. `math.Pow` is
taken to return the float64 nearest to the power; Go's multiplies repeatedly and may be
a few units further off, so that the properties bound the error of the code around it.
A random factor is a choice of the whole interval: its product with the base is any
number of quarters in between.

### Correspondence of `ServekitService` with the code

`service` is one call of `Run`: where it stands, the options, the shutdown
context (`budget`) and whether it is going to return an error. A call of the
runtime is a step Enter of the caller `Coordinator` and ends in its step Release or
Abandon, of which the service's steps are conjunctions. When Shutdown has failed and
its budget is spent, the service is at `fallback` until `StopAllWorkers` makes the
next call. The Servekit server is external: it serves, may ask for the shutdown
context once, and returns with or without an error. `BudgetSpent` and `ContextEnds`
end the contexts.

`OtherOps` are the operations of the other callers, a bound that keeps the run
small; the proofs leave it open. A worker under `PanicPolicyCrash` is left out: its
panic unwinds `Run`, and what becomes of it is for whoever recovers.

### Correspondence of `ObserverEvents` with the code

A goroutine whose commit moved a worker has an outstanding `event` and takes no
other step until `Deliver`, as the callback is synchronous and made after the lock
is released. `told` records that `ObserveFailure` was called since the last start
or stop of the worker began; `Suppressed` is `suppressFailureEvent`. Lifecycle
operations called by handlers are left out here; the goroutines they run on are
callers like the others.

## Runs

| Run | Instance | Question |
| --- | --- | --- |
| `command_races` | 1 worker, 2 callers, 2 dispatches, limit 1, 2 generations | are counters, evidence, signals and ownership right in every interleaving of commands and restarts? |
| `bulk_walks` | 2 workers, 1 caller, 1 dispatch, 8 operations, crash policy on one worker | do bulk operations keep their order, cutoff and promise; is the aggregate current? |
| `contract` | 2 workers, 2 callers, 1 dispatch | does the runtime implement `LifecycleContract`? |
| `calls_return` | 1 worker, 2 callers, 1 dispatch whose handler calls Stop or Shutdown | does every call return and every slot come back? |
| `loop_restarts` | 1 loop worker with automatic readiness, 3 generations | do hooks and loops stay apart, is cleanup never skipped, is every exit classified rightly, through timeouts, failures, refused starts and retries; is the whole an instance of `LoopContract`? Does every Start and Stop return without a deadline? |
| `check_loops` | 1 check loop, 2 generations, 5 configurations | is readiness that of the last timely verdict, is a worker in service checked for ever, and is the loop a `LoopWorker`? |
| `service_runs` | 2 workers, the service and another caller, 1 command, 4 configurations | are workers shut down gracefully while there is budget, and is none left when Run returns, as it must? |
| `command_runs` | 1 dispatch behind its HTTP route, 14 policies, 4 handler errors and those of Opskit handlers, 3 observers, at most 5 attempts, Durations up to 15, floats of 3 bits | are delays, attempts, what observers and the span are told, and the response right, wherever a deadline or cancellation falls? Are the steps those of `WorkerRuntime`? |
| `event_order` | 1 worker, 2 callers, 1 dispatch, 1 reporting goroutine, 2 generations | what may an observer believe, when callbacks are delayed at will? |
| `aggregate_stopping` | 2 workers | finding, see below |
| `check_loop_drain` | 1 check loop | finding, see below |
| `drain_all_race` | 2 workers | finding, see below |

Three properties are proved and in no run, since others there say as much:
`ReadyMeansServing` follows from `AggregateCurrent`, `ImplementsLifecycle` of the loop
worker from `ImplementsLoopContract`, and without `GateExclusive` the run `contract`
finds two operations under way.

`contract` runs StartAll and Shutdown only: between them they make every
transition of a worker, and two calls of them compete for the gate.

Bounds: `MaxGeneration` (2 where restarts matter: an old command or handle needs
one restart to be stale, and a second generation to be mistaken for; 1 elsewhere)
and the sizes of the sets. One worker suffices for everything that concerns one
record; two are needed for order, snapshots and the aggregate; two callers for the
gate, and a third could only wait at it. Two dispatches reach a limit of one and
exceed it if it can be exceeded. Callers and dispatches are interchangeable, hence
the symmetry in the safety runs. `calls_return` uses none, since symmetry is not
sound for liveness.

`loop_restarts` has three generations, so that a loop of the first can outlive
the refused starts of the second and third.

`check_loops` has two, for a check that outlives the stop of its generation; its
configurations have every option on and off, and both first waits. `service_runs`
starts every worker once: the service calls StartAll once, and the other caller
competes for the gate with StartAll and Shutdown. The longest Duration in
`command_runs` is 15, so that linear and exponential delays pass it in the third
or fourth attempt. Its floats are exact below 8 and multiples of 2 from there on, so
that 16, the float64 of 15, lies above the longest Duration as 2^63 does in the code,
and delays of 9, 11 and 13 are rounded, up or down. The policies cover every kind of
backoff and jitter, with and without cap, multipliers below 1 and with a fraction,
negative and excessive arguments, and a predicate. `event_order` has
two callers, since one may begin the next operation while the other's event is out,
and one goroutine for each kind of failure that no gate orders.

Deadlock is checked in the runs of the runtime. The loop, service and command runs
do not check it: a stopped worker that nobody starts again, a service that has
returned and a dispatch that is done are legitimate ends, and the bound on
generations makes every path end; `OperationsReturn`, `InServiceIsChecked` and
`RunReturns` cover a blocked operation, loop or service.

### Fairness

`FairSpec` assumes, and the code or its documented contract with user code gives:

- steps of the runtime itself happen (weak fairness of `Internal`): goroutines are
  scheduled;
- a waiter at the gate is served (strong fairness of `Acquire`): receivers of a Go
  channel are served in order;
- Worker.Start, Worker.Stop and handlers end (strong fairness of `UserEnds`,
  `HandlerReturns`): their contexts carry deadlines they must observe, and the
  attempts of a retry policy are finite;
- contexts with a deadline expire (`Deadlines`). Handlers that call lifecycle
  operations need it: a Shutdown that holds the gate waits for the very command
  that waits for the gate, and only a deadline ends that.

`LoopWorker` assumes that goroutines run and hooks return (weak fairness of
`Internal` and `LoopInternal`), that a loop function returns once its context is
cancelled, as `loop.go` requires of it (weak fairness of a cancelled
`LoopReturns`), and that a retry policy grants finitely many attempts (strong
fairness of `LastAttempt`). No deadline is assumed to expire.

`CheckLoop` assumes the same, where a cancelled loop function comes down to a check
that returns once its context is cancelled, and timers that fire; a check that is
not cancelled may take for ever. The run shows that this implies the fairness of
`LoopWorker`.

`ServekitService` assumes that the service and its calls run, that its deadlines
pass, and that Worker.Stop returns (it has a deadline to observe). It assumes
nothing of command handlers, of other callers, which may keep the gate, or of the
server.

### Findings

- `aggregate_stopping`: after the only started worker of two was stopped, the
  aggregate state stays `stopping`, since no case of
  `deriveRuntimeLifecycleState` applies and the previous state is kept
  (`runtime_status.go:131`). `lifecycle.go:31-33` says that `stopping` reports at
  least one stopping worker.
- `check_loop_drain`: a check loop that manages readiness calls SetReady(true) on a
  ready verdict; a draining worker's handle refuses that (`runtime.go:1020`), the
  loop returns the refusal as its error (`check_loop.go:317`), and the worker
  fails. `docs/lifecycle.md:271-272` says that draining does not stop the loop.
- `drain_all_race`: DrainAll decides from a snapshot; a worker that fails before
  its turn makes it return an error and leaves later workers undrained
  (`runtime.go:521`), although its comment (`runtime.go:506-508`) says that
  inactive workers are skipped.

## Proofs

The theorems hold for every value of the constants: any number of workers,
callers, dispatches and generations, any limits, policies, observers and errors.
Eight modules hold them, each the proofs of the modules it extends;
`WorkerRecordProofs` has the lemmas about worker records that runtime and loop
worker share.

| Theorem | Shows |
| --- | --- |
| *`WorkerRuntimeProofs`* | |
| `TypeCorrect` | `TypeOK` |
| `GateIsExclusive` | `GateExclusive`: one call in the gate, the token conserved |
| `TransitionsAreOwned` | `TransitionsOwned`: a worker is starting or stopping exactly while one call owns it |
| `EvidenceIsKept`, `SignalsAreNeverStale` | `FailureEvidence`, `NoStaleSignals` |
| `SlotsAreExact`, `LimitsHold` | `SlotAccounting`, `WithinCapacity` |
| `RuntimeInvariant` | `RuntimeInv`, the inductive invariant behind all of these |
| *`RuntimeViewProofs`* | |
| `AggregateIsCurrent` | `AggregateCurrent`: the published status is the derived one |
| `ReadyRuntimeServes`, `ReadinessIsExplained` | `ReadyMeansServing`, `ItemsExplainReadiness` |
| `RestIsEndedByStart`, `StaleCommandsAreInert` | `RestOnlyEndedByStart`, `StaleCommandsInert` |
| `RuntimeImplementsContract` | `ImplementsContract`: every step is one of `LifecycleContract`, or none |
| *`RuntimeShutdownProofs`* | |
| `CutoffIsScoped`, `CutoffAdmitsNothing` | `CutoffScoped`, `NoAdmissionInCutoff` |
| `ShutdownStopsIdle` | `ShutdownStopsIdleRuntime` |
| `BulkOrderHolds`, `NilMeansWorkersDone` | `BulkOrder`, `NilMeansDone` |
| `CutoffInvariant`, `WalkInvariant` | the invariants behind these |
| `ServiceUsesRuntime` | a run of `ServekitService` is one of `WorkerRuntime` |
| `GracefulWhileBudget`, `NothingIsLeft` | `GracefulUntilBudget`, `NothingLeftServing` |
| *`LoopWorkerProofs`* | |
| `LoopTypeCorrect` | `LoopTypeOK` |
| `LoopUserCodeIsExclusive`, `LoopIsCleanedBeforeRestart` | `UserCodeExclusive`, `CleanedBeforeRestart` |
| `ServiceIsTheLoop`, `LoopFailureIsKept` | `ServiceMatchesLoop`, `LoopFailureKept` |
| `LoopImplementsContract` | `ImplementsLoopContract`: every step is one of `LoopContract`, or none |
| `LoopImplementsLifecycle` | `ImplementsLifecycle`: its record goes through the automaton of `LifecycleContract` |
| *`CheckLoopProofs`* | |
| `CheckLoopIsLoopWorker` | a run of `CheckLoop` is one of `LoopWorker` |
| `ReadinessIsTheVerdict`, `OnlyTimelyRaise` | `ReadinessIsLastVerdict`, `OnlyTimelyResultsRaise` |
| *`CommandRunProofs`* | |
| `EndsAreTrue`, `SpansAreTrue`, `ResponsesAreTrue` | `EndTellsTheRun`, `SpanTellsTheRun`, `ResponseTellsTheRun` |
| `CancelStopsRetries` | `OneAttemptAfterCancel` |
| `CommandInvariant` | the invariant behind these |
| `LinearIsCappedProduct` | `Linear` is the product of attempt and step up to the limit, without overflow |
| `DelaysStayInRange` | every backoff lies between zero and its limit, and every jitter between zero and the longest Duration |
| `ExponentialIsRoundedPower` | `Exponential` is the power of the multiplier times the initial delay up to the limit, but for three roundings below and four above; it never exceeds the limit, and is exact for whole multipliers below the significand |
| `DelaysNeverShrink` | before jitter a later attempt never waits less than an earlier one |
| `DelaysAreDocumented` | `DelaysAsDocumented`: every delay that is waited for is the documented one |
| `DispatchTakesRuntimeSteps` | `TakesRuntimeSteps`: every step of a dispatch is one `WorkerRuntime` has, or none |
| *`ObserverEventsProofs`* | |
| `ObserversOnlyWatch` | a run of `ObserverEvents` is one of `WorkerRuntime` |
| `NoFailureInSilence`, `ObserversKnowTheState` | `NoSilentFailure`, `ObserverKnowsState` |
| `EventInvariant` | the invariant behind these |

### Assumptions

Every assumption is an ASSUME of the module that declares the constants, and TLC
evaluates it in the runs. They say that the configuration is typed and bounds are
numbers, and beyond that:

- `RuntimeAssumption`: workers and dispatches are finitely many, since counters
  are compared with cardinalities; `None` is neither.
- `ServiceAssumption`: there is a worker; the service and the other callers use
  operations of the runtime; no worker is under `PanicPolicyCrash`, whose panic
  unwinds `Run` before it has shut anything down, so that `NothingLeftServing`
  would be false of it.
- `CheckLoopAssumption`: a check loop is constructed without automatic readiness.
- `FloatAssumption`: a significand is even and not zero, as 2^53 is. That `math.Pow`
  returns the float64 nearest to the power is part of the definition of `Exponential`,
  and what is proved of exponential delays rests on it.
- `CommandRunAssumption`: observers have different names. They are told apart by
  name in the model only; the code uses their position.
- `EventAssumption`: "no event" is not an event.

### The runtime

1. `TypeOK` is inductive alone. Its hard steps are those that move a walk along.
2. `GateExclusive` is inductive given `TypeOK`. Every step of a caller is of one
   of four kinds, stated by frame lemmas: outside the gate, inside it, entering,
   leaving.
3. `TransitionsOwned` is not inductive alone: it needs `GateExclusive`, because
   a second call in the gate could end the transition of the first. Steps that
   do not own a worker leave its lifecycle and generation as they are
   (`Untouched`), or change it only where no call owns it.
4. What a step may do to one worker record is a relation, `Evolves`, the same for
   calls, handlers and signals. `FailureEvidence` and `NoStaleSignals`
   (`Evidenced`, `Silenced` record by record) are preserved by that relation, and
   failing a completed transition needs `TransitionsOwned` to know the record is
   starting or stopping.
5. `SlotAccounting` needs `Pristine`: workers not yet registered have the initial
   record, and commands run on registered workers only; otherwise `Register`
   could forget a count. Since the counters are exact, the comparisons in `Admit`
   give `WithinCapacity`.

`RuntimeInv` is the conjunction of these, and the other modules start from it.

### What readers of the runtime see

`Evolves` implies `Moves`, the automaton of lifecycle states and generations, which
gives `RestOnlyEndedByStart` and, with the guard of `CommandPanicked`,
`StaleCommandsInert`.

`AggregateCurrent` says that the state is the one derived from the records *and
from the state published before*. A step that recomputes establishes it, since
deriving twice gives the same (`DerivedFromPrevious`). A step that stores a record
without recomputing keeps it, because it touches none of the fields the derivation
reads (`StepPublishes`): this is where an unpublished change would show. A Register
needs the aggregate to be `registered`.

For the refinement, every step that moves a record is a step of the contract on
that worker (`MoveIsContractStep`): that one operation at most is under way comes
from `TransitionsOwned` with `GateExclusive`.

### Cutoff, walks, and the service

`CutoffInv` is inductive given `RuntimeInv`. Besides `CutoffScoped` and
`ShutdownStopsIdleRuntime` it needs that the flag a call restores is an open one
(`CutoffFromOpen`), which holds because the gate admits one such call, and that the
phase fits the operation (`WellShaped`). With admission closed no step enlarges the
set of commands in flight, so that the idle runtime `WaitAllIdle` saw stays idle.

`WalkInv` says what a walk has done. The entries that are left are the end of the
snapshot, by position, and the state of a worker still to come is the one in the
snapshot or `failed`: with the gate held, nothing but a failure intervenes
(`Drifted`). The workers passed are `Settled`: running or failed after a start, at
rest after a stop, and so on, unless a fail-fast operation or a crash cut the walk
short. `BulkOrder` and `NilMeansDone` are read off it. An operation that keeps going
settles every worker with an error too (`Done`), which the service relies on.

The service's steps are steps of the runtime, or change the service only
(`ServiceStepFits`); `ServiceInv` says which call `Run` is in where, that the
context of Shutdown is the one the budget bounds, and that the fallback comes after
its end. `GracefulUntilBudget` then follows from `ShutdownStopsIdleRuntime` and
`SlotAccounting`; `NothingLeftServing` from `Done`, because neither a Shutdown
within its budget nor a StopAll inside the gate leaves out a worker.

### Loop workers and check loops

`UserCodeExclusive` and `CleanedBeforeRestart` follow from `LoopInv`, inductive
with `LoopTypeOK`:

- `CurrentIsLive`: a loop that has not finished is the one the fields name, so
  there is one at most, and the loop state tells whether there is one;
- `StopWaits`: Stop reaches its hook only when none is left;
- `AttemptMatches`: an attempt is open exactly while one hook runs, and none was
  made before the failure of the loop was reported;
- `Owed`: a loop without cleanup shows in the state and the attempt, so that
  `beginStart` refuses;
- `StartHasGeneration`, `PhaseMatches`: a start under way has its generation, and
  an operation is at a step of its own.

`ServiceMatchesLoop` and `LoopFailureKept` relate the goroutine to the record the
runtime keeps, and neither is inductive. The `ServiceInv` of that module adds what
Start and Stop know at each step (`StartKnows`, `StopKnows`), that only a stop
cancels a loop (`CancelKnown`, `ErrorKnown`), and that a loop which ends by itself
during a start has left its report in the record, where `completeWorkerStart` finds
it (`FailureKnown`).

For the refinement of `LoopContract` the steps fall into those that change neither the
record nor what is mapped (`HiddenStep`), those of the record alone
(`RecordStepFits`), and those of Start, Stop and the goroutines. The contract's guards
are what `LoopInv` and the `ServiceInv` of that module know at these steps, with one
addition, `Indebted`, inductive beside them: a loop that has not begun its cleanup
owes one. A step of `LoopContract` is a step of the automaton on
the worker's state (`ContractMovesAutomaton`), so that `LoopImplementsLifecycle` needs
nothing more.

A check loop's steps are steps of `LoopWorker`: the six steps of a check are one
return of the loop function or none. `CheckInv` is inductive beside the invariants of
the loop worker: what a call of `runCheckLoop` knows at each step, that Start lowered
readiness before the launch (`Lowered`), and that readiness is what the last verdict
called for while the worker can serve (`VerdictKept`). A verdict that arrives
after a stop is refused by the record's guard.

### A dispatch

`CommandInv` is inductive with the types: `RunInv` says, for every point of
Dispatch, how many calls were answered, counted, told and kept; `GoneInv` that only
the last call was made after the caller gave up; `OrderInv` that the open
observations followed by the ended ones, reversed, are in the order of their start;
`SpanInv` that an open span has seen every failure and never the status "ok", and an
ended one the outcome; `RouteInv` that the response was the outcome's. The proof
of `ResponseTellsTheRun` goes by what `errors.Is` can find: a refusal is mapped to its
status before anything else is looked for (`RefusalsAreMapped`).

The lemma behind linear delays is that comparing the attempt with the quotient of limit
and step decides whether the product exceeds the limit, which is why `Linear` may
multiply afterwards. For exponential ones and jitter, the units of floating point are
powers of two, so that `Float` is monotone, leaves float64s alone and commutes with
doubling. Since it is monotone, a delay below the float64 of the limit is below the limit,
and a later attempt, whose exact delay is no shorter, waits no less; that the powers
were divided by different powers of four does not matter, as it commutes with them. A
rounding moves a number by at most one part in `Significand`, and a chain of them adds
up as in `AtMostRounded`. The induction theorems of the library take an operator as parameter and cannot be used, so
`SetInduction` derives induction over the members of a set from the well-foundedness of
the numbers (`WFMin`, `NatLessThanWellFounded`), and powers are recursive functions
whose defining equations are proved by it (`PowersUpTo`, `PowersAgree`). Between
judging and the end of a wait the delay is one that policy gave (`AskedOfPolicy`), and
`DelaysAreDocumented` joins these.

For `DispatchTakesRuntimeSteps`, `CommandInv` tells when the slot is held, and
`PanicEnds`, inductive beside it, that no call follows a panic. A step of a dispatch
then changes one field of the worker's record, all that a panic changes, or
nothing (`CountSeen`, `ToldSeen`, `FailureSeen`, `NothingSeen`), and `AdmitIs` to
`ReleaseIs` say which of the runtime's steps that is; a panic derives the aggregate
again in the same step. The theorem is about one worker in service: beside other
workers, callers and dispatches, and after a restart, a step is what the theorems
about `WorkerRuntime` say of it.

### Events

`EventInv` is inductive beside `RuntimeInv`: a failure is told in the step that
records it or one already told (`FailureTold`); a transition to a state other than
failed is reported by the call that holds the gate, and by nobody else
(`EventsHoldGate`); hence, unless a failure came between, the state of a worker was
reported last or is being reported (`StateReported`).

### Model-checked only

- The liveness properties `CallsReturn`, `SlotsReleased`, `OperationsReturn`,
  `InServiceIsChecked` and `RunReturns`, and that the fairness of `CheckLoop` implies
  that of `LoopWorker` (the other half of `ImplementsLoopWorker`): fairness and
  ENABLED are beyond the proof system.
- The three findings, which are counterexamples.

## Not modelled

- Options, names and command lookup: configuration that does not change after New
  and Register, or pure checks of one value, which a unit test settles as well. Of
  the lookup, `DispatchRoute` has the outcomes.
- Telemetry adapters: the spans of checks, the counters of transitions and
  readiness, attributes, and all of `slogobserver/`, which writes one line per
  event and keeps nothing.
- HTTP: the routes of lifecycle operations, which are callers like others, with
  the mapping of their errors; reading, mounting and encoding.
- The failure codes of lifecycle operations and checks, which no state depends on.
- Inspection: a copy of statuses, read one after another, with no promise of a
  common instant.
- Readiness events and the aggregate's own transition events: the same code sends
  them as the worker events of `ObserverEvents`, in the same callback order.
- Time: how long delays and budgets are, except in `Retry`; only that they end.
- Examples and the release tool.

## Plan

Done: the runtime, its contract, the Opskit view and the order of events; the loop
worker, its contract and check loops; retry policies; the service; one dispatch in
full, with its failure codes, its span and its HTTP route, as a refinement of the
runtime's steps. Every safety property that a run checks is proved. Left, in order of
importance:

1. Stop calls on a LoopWorker that overlap because they do not come from a runtime.
2. The refinement of a dispatch beside other workers and lifecycle calls, where its
   steps are composed with those of `WorkerRuntime`.
3. The routes of lifecycle operations, with the mapping of their errors.
