---------------------- MODULE ServekitServiceProperties ----------------------
(***************************************************************************)
(* What the coordination of workers and server must guarantee.             *)
(***************************************************************************)
EXTENDS ServekitService

\* The default service, one that leaves the start to the application, one whose
\* budget is disabled, and one without graceful shutdown.
ManyServices ==
    {WithShutdownTimeout(DefaultServiceConfig, 0),
     WithStartWorkers(DefaultServiceConfig, FALSE),
     WithShutdownTimeout(DefaultServiceConfig, -1),
     WithGracefulWorkerShutdown(DefaultServiceConfig, FALSE)}

Isolated == [w \in Worker |-> "isolate"]
NoLimit == [w \in Worker |-> 0]

\* Worker.Stop is called by the service with commands in flight only once the
\* shutdown budget is spent: also when StartAll failed, when Servekit failed
\* before it began to shut down, and when other callers restart workers between
\* Shutdown and the fallback StopAll (shutdownWorkersWithContext).
GracefulUntilBudget ==
    [][ At(Coordinator, "walk") /\ call'[Coordinator].pc = "user"
          /\ call[Coordinator].phase = "stop" =>
        status.inFlight = 0 \/ service.budget = "spent" ]_serviceVars

\* When a graceful Run returns no worker is left in service, whatever failed on
\* the way: StartAll half way, the server, a worker's stop, or the budget. The
\* one way out is a fallback StopAll whose own five seconds pass before it gets
\* the gate (Service.Run compensates for StartAll, which does not roll back).
NothingLeftServing ==
    [][ service.pc # "returned" /\ service'.pc = "returned"
          /\ service.config.gracefulWorkerShutdown =>
        \/ InRun("stopAll") /\ At(Coordinator, "waiting")
        \/ \A w \in Registered : ws'[w].lifecycle \in {"registered", "stopped", "failed"}
      ]_serviceVars

\* Once the service closes down, Run returns, though handlers and other callers
\* of the runtime may never do: every wait is under a deadline (newShutdownContext,
\* stopFallbackTimeout), unless the application has disabled it.
RunReturns ==
    (service.config.bounded
     /\ service.pc \in {"closing", "shutdown", "fallback", "stopAll"})
        ~> service.pc = "returned"
=============================================================================
