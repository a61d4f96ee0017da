--------------------------- MODULE ServekitService ---------------------------
(***************************************************************************)
(* servekitservice.Service: one call of Run around a Servekit server. The  *)
(* service is the caller Coordinator of the runtime of WorkerRuntime; the  *)
(* other callers, the handlers and the worker code act beside it.          *)
(*                                                                         *)
(* A call of the runtime returns in its step Release or Abandon, which is  *)
(* where the service goes on. The server is external: it serves until it   *)
(* fails or its context is cancelled, and in the second case it asks for   *)
(* the shutdown context before it shuts down HTTP.                         *)
(***************************************************************************)
EXTENDS WorkerRuntime

CONSTANTS
    Coordinator,    \* the caller that is the service
    OtherOps,       \* the lifecycle operations of the other callers
    ServiceConfigs  \* the configurations a run tries

VARIABLE service    \* the call of Run

serviceVars == <<workerOrder, ws, status, admissionClosed, gate, call, cmd, service>>

ServiceConfig ==
    [startWorkers : BOOLEAN, gracefulWorkerShutdown : BOOLEAN, bounded : BOOLEAN]

\* Workers recover from panics: one under PanicPolicyCrash unwinds Run, which then
\* shuts nothing down.
ASSUME ServiceAssumption ==
    /\ Coordinator \in Caller /\ Worker # {}
    /\ ServiceConfigs \subseteq ServiceConfig
    /\ {"StartAll", "StopAll", "Shutdown"} \cup OtherOps \subseteq Ops
    /\ CrashOnPanic = {}

\* budget: the deadline of shutdownCtx, "none" before that context exists.
Service ==
    [pc : {"run", "starting", "serving", "closing", "shutdown", "fallback", "stopAll",
           "returned"},
     config : ServiceConfig, budget : {"none", "live", "spent"}, err : BOOLEAN]

\* defaultConfig and the options. A zero timeout keeps the default, a negative
\* one disables it.
DefaultServiceConfig ==
    [startWorkers |-> TRUE, gracefulWorkerShutdown |-> TRUE, bounded |-> TRUE]

WithStartWorkers(c, enabled) == [c EXCEPT !.startWorkers = enabled]
WithGracefulWorkerShutdown(c, enabled) == [c EXCEPT !.gracefulWorkerShutdown = enabled]
WithShutdownTimeout(c, timeout) ==
    [c EXCEPT !.bounded = IF timeout = 0 THEN @ ELSE timeout > 0]

ServiceInit ==
    /\ Init
    /\ \E c \in ServiceConfigs :
          service = [pc |-> "run", config |-> c, budget |-> "none", err |-> FALSE]

-----------------------------------------------------------------------------
(* Steps of Run *)

InRun(pc) == service.pc = pc

\* The service calls op as any caller does, under a context that has ended if
\* expired holds.
Calls(op, expired) ==
    Enter(Coordinator, op, None) /\ call'[Coordinator].expired = expired

RunService ==
    /\ InRun("run")
    /\ IF service.config.startWorkers
       THEN service' = [service EXCEPT !.pc = "starting"] /\ Calls("StartAll", FALSE)
       ELSE service' = [service EXCEPT !.pc = "serving"] /\ UNCHANGED vars

\* A call of the service returns: with the error of its walk, or with that of
\* its context when it never got the gate.
CallFails == call[Coordinator].err \/ At(Coordinator, "waiting")

CallReturns(pc) ==
    InRun(pc) /\ (Release(Coordinator) \/ Abandon(Coordinator))

\* Mutant: a failed start is returned as it is.
StartFailedLeft ==
    /\ CallReturns("starting") /\ CallFails
    /\ service' = [service EXCEPT !.err = TRUE, !.pc = "returned"]

\* StartAll fails: there is no rollback, so that the workers that did start are
\* shut down, or are left running without graceful shutdown.
StartFailed ==
    /\ CallReturns("starting") /\ CallFails
    /\ service' = [service EXCEPT !.err = TRUE,
           !.pc = IF service.config.gracefulWorkerShutdown THEN "closing" ELSE "returned"]

StartSucceeded ==
    /\ CallReturns("starting") /\ ~ CallFails
    /\ service' = [service EXCEPT !.pc = "serving"]

\* RunWithShutdownContext: Servekit begins to shut down and asks for the context.
ServerShutsDown ==
    /\ InRun("serving")
    /\ service.config.gracefulWorkerShutdown /\ service.budget = "none"
    /\ service' = [service EXCEPT !.budget = "live"]
    /\ UNCHANGED vars

\* The server returns, whether or not it has asked for the context.
ServerReturns ==
    /\ InRun("serving")
    /\ \E failed \in BOOLEAN :
          service' = [service EXCEPT !.err = failed,
              !.pc = IF service.config.gracefulWorkerShutdown THEN "closing" ELSE "returned"]
    /\ UNCHANGED vars

\* Mutant: workers are stopped at once instead of being shut down.
ShutdownWorkersAbruptly ==
    /\ InRun("closing")
    /\ service' = [service EXCEPT !.pc = "shutdown",
                                  !.budget = IF @ = "none" THEN "live" ELSE @]
    /\ Calls("StopAll", service.budget = "spent")

\* shutdownWorkersWithContext, under the context Servekit asked for or, when it
\* did not or did not run, under a fresh one detached from the context of Run.
ShutdownWorkers ==
    /\ InRun("closing")
    /\ service' = [service EXCEPT !.pc = "shutdown",
                                  !.budget = IF @ = "none" THEN "live" ELSE @]
    /\ Calls("Shutdown", service.budget = "spent")

\* The deadline of the shutdown context passes, wherever its user is.
BudgetSpent ==
    /\ service.config.bounded /\ service.budget = "live"
    /\ service' = [service EXCEPT !.budget = "spent"]
    /\ IF InRun("shutdown") THEN Expire(Coordinator) ELSE UNCHANGED vars

ShutdownReturned ==
    /\ CallReturns("shutdown")
    /\ ~ CallFails \/ service.budget # "spent"
    /\ service' = [service EXCEPT !.pc = "returned", !.err = @ \/ CallFails]

\* Shutdown fails and its budget is spent.
ShutdownRanOut ==
    /\ CallReturns("shutdown")
    /\ CallFails /\ service.budget = "spent"
    /\ service' = [service EXCEPT !.pc = "fallback", !.err = TRUE]

\* StopAll gets five seconds of its own, whatever Shutdown had left to do.
StopAllWorkers ==
    /\ InRun("fallback")
    /\ service' = [service EXCEPT !.pc = "stopAll"]
    /\ Calls("StopAll", FALSE)

StopAllReturned ==
    /\ CallReturns("stopAll")
    /\ service' = [service EXCEPT !.pc = "returned"]

ServiceStep ==
    \/ StartFailed \/ StartSucceeded \/ ShutdownWorkers
    \/ ShutdownReturned \/ ShutdownRanOut \/ StopAllWorkers \/ StopAllReturned

\* Mutant: StopAll runs under the detached context itself, without a deadline.
ContextEndsStartOnly ==
    /\ InRun("starting")
    /\ Expire(Coordinator)
    /\ UNCHANGED service

\* The context of Run is cancelled while StartAll uses it, or the five seconds
\* of the fallback pass.
ContextEnds ==
    /\ InRun("starting") \/ InRun("stopAll")
    /\ Expire(Coordinator)
    /\ UNCHANGED service

-----------------------------------------------------------------------------
(* The runtime's steps of the service's calls, all but their return *)

CoordinatorStep ==
    \/ Acquire(Coordinator) \/ Retry(Coordinator) \/ UserEnds(Coordinator)
    \/ ~ At(Coordinator, "release") /\ ~ At(Coordinator, "waiting") /\ Internal(Coordinator)

\* Worker code reports failures and handlers return or panic. Readiness and
\* accepting-work signals and errors of handlers are left out: they change
\* nothing the service, or a lifecycle operation, looks at.
Others ==
    \/ \E w \in Worker :
          Register(w) \/ \E gen \in Handles(w) : ReportFailure(w, gen)
    \/ \E c \in Caller \ {Coordinator} :
          CallerStep(c) /\ (At(c, "idle") => call'[c].op \in OtherOps)
    \/ \E d \in Dispatch :
          \/ \E w \in Worker : Admit(d, w)
          \/ HandlerReturns(d) \/ HandlerPanics(d) \/ ReleaseSlot(d)

ServiceNext ==
    \/ RunService \/ ServerShutsDown \/ ServerReturns \/ BudgetSpent \/ ContextEnds
    \/ ServiceStep
    \/ CoordinatorStep /\ UNCHANGED service
    \/ Others /\ UNCHANGED service

ServiceSpec == ServiceInit /\ [][ServiceNext]_serviceVars

\* Goroutines run, timers fire, and Worker.Stop returns. Nothing is assumed of
\* command handlers and of other callers: they may keep the gate, and a command
\* may stay in flight, for ever.
ServiceFairness ==
    /\ WF_serviceVars(ServiceStep)
    /\ WF_serviceVars(BudgetSpent \/ (InRun("stopAll") /\ ContextEnds))
    /\ WF_serviceVars(UserEnds(Coordinator) /\ UNCHANGED service)
    /\ WF_serviceVars(/\ ~ At(Coordinator, "release") /\ ~ At(Coordinator, "waiting")
                      /\ Internal(Coordinator) /\ UNCHANGED service)

FairServiceSpec == ServiceSpec /\ ServiceFairness
=============================================================================
