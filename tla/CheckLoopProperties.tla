------------------------- MODULE CheckLoopProperties -------------------------
(***************************************************************************)
(* What makes a managed check loop correct.                                *)
(***************************************************************************)
EXTENDS CheckLoop

\* The configurations the runs try: a plain loop without a deadline, loops whose
\* checks have one, under both failure policies and with each kind of first
\* wait, a loop that does not manage readiness, and a nil checker.
ManyConfigs ==
    LET timed     == WithCheckTimeout(DefaultConfig, 1)
        strict(c) == WithCheckReportFailureOnNotReady(WithCheckRunImmediately(c, FALSE), TRUE)
    IN  {DefaultConfig,
         WithCheckInitialDelay(timed, 1),
         WithCheckInitialDelay(strict(WithCheckInitialDelay(timed, 1)), 0),
         WithCheckReadyOnSuccess(strict(timed), FALSE),
         NilChecker(WithCheckTimeout(timed, 0))}

\* While the worker is in service and no check is being concluded, its readiness
\* is what the last end event said: raised by a ready result only, taken down by
\* a not-ready one and by a deadline, never left over from the defaults, the
\* start or an earlier generation (runCheckLoopOnce, completeWorkerStart).
ReadinessIsLastVerdict ==
    \A g \in Generation :
        /\ rec.generation = g /\ rec.lifecycle = "running"
        /\ loop[g].pc = "running" /\ check[g].pc \in {"idle", "delay", "wait", "check"}
        => rec.ready = (cfg.readyOnSuccess /\ check[g].last = "ready")

\* Readiness rises only by a check of the current generation that answered ready
\* before its deadline, through a restart and a late check of an earlier loop
\* (WithCheckTimeout: a late result is not applied to readiness).
OnlyTimelyResultsRaise ==
    [][ ~ rec.ready /\ rec'.ready =>
          /\ check[rec.generation].pc = "apply"
          /\ check[rec.generation].outcome = "ready"
          /\ ~ check[rec.generation].late ]_checkVars

\* A check loop is a loop worker: whatever LoopWorker and its properties say of
\* loop functions holds of this one, which ends when it is cancelled in a delay,
\* in a check, or between the two (runCheckLoop, runCheckLoopOnce).
ImplementsLoopWorker == FairSpec

\* A worker in service is checked, and checked again: no delay, verdict, deadline
\* or refused signal leaves it running with a loop that does not check
\* (runCheckLoop). A checker that does not return may hold up the next check.
InServiceIsChecked ==
    rec.lifecycle = "running" ~>
        rec.lifecycle # "running" \/ check[rec.generation].pc = "check"

\* Draining closes command admission but does not stop the loop: a draining
\* worker's loop has not returned unless its checker panicked or its policy
\* reports the last verdict as a failure.
DrainKeepsChecking ==
    LET g == rec.generation
    IN  rec.lifecycle = "draining" /\ loop[g].pc = "exited" =>
            \/ loop[g].cancelled
            \/ check[g].last = "panic"
            \/ cfg.reportFailureOnNotReady /\ check[g].last \in {"not_ready", "timeout"}
=============================================================================
