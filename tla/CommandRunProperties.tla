------------------------ MODULE CommandRunProperties ------------------------
(***************************************************************************)
(* What a dispatch promises its caller, its observers and the worker.      *)
(***************************************************************************)
EXTENDS DispatchRoute, SequencesExt

\* The retry policies the runs try. MaxDuration is 15, so that the third step of
\* the first policy and the fourth delay of the third leave the range. Significand
\* is 8, so that a float64 is up to 2 away from a Duration: the fourth policy, whose
\* multiplier is 1.5, and the fifth wait for delays that were rounded.
RetryPolicy(max, retryable, backoff, jitter) ==
    [maxAttempts |-> max, retryable |-> retryable, backoff |-> backoff, jitter |-> jitter]

Backoff(kind, s, factor, max) ==
    [kind |-> kind, step |-> s, factor |-> factor, max |-> max]

Jitter(kind, fraction) == [kind |-> kind, fraction |-> fraction]

ManyPolicies ==
    {RetryPolicy(5, FALSE, Backoff("linear", 6, 0, 0), Jitter("none", 0)),
     RetryPolicy(4, TRUE, Backoff("linear", 3, 0, 7), Jitter("full", 0)),
     RetryPolicy(5, FALSE, Backoff("exponential", 3, 8, -1), Jitter("none", 0)),
     RetryPolicy(4, TRUE, Backoff("exponential", 5, 6, 13), Jitter("none", 0)),
     RetryPolicy(3, FALSE, Backoff("exponential", 9, 4, 0), Jitter("full", 0)),
     RetryPolicy(3, FALSE, Backoff("exponential", 5, -1, 12), Jitter("symmetric", 9)),
     RetryPolicy(3, FALSE, Backoff("constant", 12, 0, 0), Jitter("symmetric", 2)),
     RetryPolicy(3, TRUE, Backoff("func", -4, 0, 0), Jitter("none", 0)),
     RetryPolicy(2, FALSE, Backoff("linear", -3, 0, 0), Jitter("full", 0)),
     RetryPolicy(2, FALSE, Backoff("exponential", -2, 12, 9), Jitter("symmetric", 1)),
     RetryPolicy(2, FALSE, Backoff("constant", 8, 0, 0), Jitter("symmetric", -1)),
     RetryPolicy(3, FALSE, Backoff("none", 0, 0, 0), Jitter("full", 0)),
     RetryPolicy(1, FALSE, Backoff("constant", 2, 0, 0), Jitter("none", 0)),
     RetryPolicy(-1, FALSE, Backoff("none", 0, 0, 0), Jitter("none", 0))}

ThreeObservers == <<"logs", "otel", "metrics">>

\* Errors a handler may return: of its own, of a dispatch it made to another
\* worker, of a context, and with a presentation or the lack of one.
ManyErrors ==
    {WithOperationalFailure(<<"plain">>, ""), <<"worker_saturated">>, <<"deadline">>,
     WithOperationalFailure(<<"canceled">>, "explicit")}

\* What the documentation of a backoff says of the delay after attempt n, in
\* integers that do not overflow.
AtMost(n, max) == IF n < max THEN n ELSE max

AtLeast(n, min) == IF n < min THEN min ELSE n

Cap(max) == IF max > 0 THEN AtMost(max, MaxDuration) ELSE MaxDuration

\* x is at most y, but for n roundings of floating point: each moves a number by
\* one part in Significand.
AtMostRounded(n, x, y) == Power(Significand - 1)[n] * x <= Power(Significand)[n] * y

\* An exponential delay is the capped power, the float64s of the initial delay, of
\* the power and of their product being rounded, and that of the cap it is compared
\* with. It is exact while the product with a whole multiplier is below Significand.
IsExponential(s, quarters, cap, n, waited) ==
    LET scale == Power(4)[n - 1]
        exact == s * Power(quarters)[n - 1]
    IN  /\ waited \in 0 .. cap
        /\ AtMostRounded(3, AtMost(exact, cap * scale), waited * scale + scale - 1)
        /\ AtMostRounded(4, waited * scale, exact)
        /\ quarters % 4 = 0 /\ exact \div scale < Significand =>
              waited = AtMost(exact \div scale, cap)

IsDocumented(b, n, waited) ==
    LET s == AtLeast(b.step, 0)
    IN  CASE b.kind = "none"        -> waited = 0
          [] b.kind = "linear"      -> waited = AtMost(n * s, Cap(b.max))
          [] b.kind = "exponential" ->
                 IsExponential(s, AtLeast(b.factor, 4), Cap(b.max), n, waited)
          [] OTHER                  -> waited = s

\* Between low and high quarters of base, but for the float64s of base, of the
\* product, and of the longest Duration it is compared with.
IsBetween(base, low, high, waited) ==
    /\ waited \in 0 .. MaxDuration
    /\ AtMostRounded(2, AtMost(base * low, 4 * MaxDuration), 4 * waited + 3)
    /\ AtMostRounded(3, 4 * waited, base * high)

IsJittered(jitter, base, waited) ==
    LET part == AtLeast(AtMost(jitter.fraction, 4), 0)
    IN  CASE jitter.kind = "none" -> waited = base
          [] jitter.kind = "full" ->
                 IsBetween(base, 0, 4, waited) /\ (base < Significand => waited <= base)
          [] jitter.kind = "symmetric" -> IsBetween(base, 4 - part, 4 + part, waited)

\* Dispatch waits for the delay its policy documents: the product of attempt and
\* step, the exponential and the jitter above it stop at the cap or at the longest
\* Duration, never come out short or negative, and are off by no more than the
\* roundings of floating point (Linear, Exponential, durationFromBackoffFloat,
\* durationFromFloat, configPolicy.NextDelay).
DelaysAsDocumented ==
    pc = "wait" =>
        \E base \in 0 .. MaxDuration :
            /\ IsDocumented(policy.backoff, attempt, base)
            /\ IsJittered(policy.jitter, base, delay)

StrictlyIncreasing(s) == \A i \in 1 .. Len(s), j \in 1 .. Len(s) : i < j => s[i] < s[j]

IndexOf(o) == CHOOSE i \in 1 .. Len(Observers) : Observers[i] = o

\* What observers are told adds up when a dispatch ends, whichever way it ends: the
\* slot is free, the reported attempts are the calls of the handler, within the
\* policy, there was one failure event for each call that did not succeed, in
\* order, the last under the code the end event has unless the caller gave up, an
\* error is reported unless the last call succeeded, and observations end once,
\* inside out, whichever children dropped out at the start (Dispatch,
\* executeCommand, recordCommandPanic, multiObserver).
EndTellsTheRun ==
    pc \in {"end", "done"} =>
        /\ ~ slot
        /\ attempts = Len(handled)
        /\ Len(handled) <= IF policy.maxAttempts < 1 THEN 1 ELSE policy.maxAttempts
        /\ err = Nil <=> handled # << >> /\ Last(handled).answer = "ok"
        /\ failures = [i \in 1 .. Len(handled) - (IF err = Nil THEN 1 ELSE 0) |-> i]
        /\ err # Nil /\ handled # << >> => EndCode = lastCode \/ err = <<gone>>
        /\ LET order == observing \o Reverse(ended)
           IN  StrictlyIncreasing([i \in 1 .. Len(order) |-> IndexOf(order[i])])

\* The span of a dispatch tells its outcome, not that of an attempt before: failed
\* attempts mark it as an error while the dispatch goes on, and still it ends "ok"
\* once a later one succeeds, and with the final error's code otherwise. No failure is
\* lost and no dispatch is counted twice: each failure is recorded on the span where it
\* is told, and the error the dispatch ends with, often the last of them, once more at
\* the end (ObserveFailure and commandObservation.End of the OpenTelemetry observer).
SpanTellsTheRun ==
    pc = "done" /\ span.state # "none" =>
        /\ span.state = "ended" /\ span.dispatches = 1
        /\ span.status = (IF err = Nil THEN "ok" ELSE "error") /\ span.code = EndCode
        /\ span.failures = Len(failures)
        /\ span.recorded = Len(failures) + (IF err = Nil THEN 0 ELSE 1)
        /\ span.attempts = Len(handled)

\* A client can tell from the status what became of its command. 200 means that
\* the handler succeeded; a refusal, that it was not called, or that the error it
\* returned last says so, and never that it panicked or had succeeded; and 500,
\* which is not sent for a command that was refused, that it was called: the
\* command may have taken effect (mapDispatchError, encodeCommandResult).
ResponseTellsTheRun ==
    response # 0 =>
        /\ ~ slot
        /\ response = 200 => handled # << >> /\ Last(handled).answer = "ok"
        /\ response \in {400, 404, 409, 429, 503} =>
              handled = << >> \/ Last(handled).answer = "error"
        /\ response = 500 => handled # << >>

\* Once the caller has given up at most one more attempt is issued: the one that
\* follows a wait that was over, or needed no timer (runWithRetry,
\* waitBeforeRetry).
OneAttemptAfterCancel ==
    Cardinality({i \in 1 .. Len(handled) : handled[i].gone}) <= 1

-----------------------------------------------------------------------------
(* What WorkerRuntime takes for a step *)

TheWorker == "worker"
TheDispatch == "dispatch"

Panicked == handled # << >> /\ Last(handled).answer = "panic"

\* The record of a worker in service that nothing but this dispatch disturbs.
WorkerSeen ==
    [generation |-> 1, lifecycle |-> IF Panicked THEN "failed" ELSE "running",
     ready |-> ~ Panicked, acceptingWork |-> ~ Panicked, inFlight |-> IF slot THEN 1 ELSE 0,
     readySetDuringStart |-> FALSE, acceptingWorkSetDuringStart |-> FALSE,
     failureReportedDuringStart |-> FALSE,
     lastFailure |-> IF Panicked THEN "primary" ELSE "nil",
     lastCommandFailure |-> failures # << >>]

CommandSeen ==
    [pc |-> CASE pc \in {"attempt", "handling", "judge", "wait"} -> "running"
              [] pc = "release" -> "finished"
              [] OTHER -> "idle",
     worker |-> IF slot THEN TheWorker ELSE "none", gen |-> IF slot THEN 1 ELSE 0]

Runtime == INSTANCE WorkerRuntime WITH
    Worker <- {TheWorker}, FailurePolicy <- [w \in {TheWorker} |-> "isolate"],
    Contributes <- {TheWorker}, ReadinessPolicy <- "contributing_workers",
    ReadyOnStart <- {TheWorker}, AcceptOnStart <- {TheWorker}, MaxGeneration <- 1,
    Caller <- {}, Dispatch <- {TheDispatch}, None <- "none", Ops <- {}, HandlerOps <- {},
    CrashOnPanic <- {}, RuntimeCap <- 1, WorkerCap <- [w \in {TheWorker} |-> 1],
    Deadlines <- {},
    workerOrder <- <<TheWorker>>,
    ws <- [w \in {TheWorker} |-> WorkerSeen],
    status <- [state |-> WorkerSeen.lifecycle, ready |-> WorkerSeen.ready,
               inFlight |-> WorkerSeen.inFlight],
    admissionClosed <- FALSE, gate <- TRUE, call <- << >>,
    cmd <- [d \in {TheDispatch} |-> CommandSeen]

\* What is taken apart here is what WorkerRuntime takes for a step: on a worker in
\* service a dispatch is admitted, records each failure in the status while it
\* holds its slot, fails the worker in the step that tells the panic, and releases
\* the slot once, when no call of the handler follows, whatever deadlines,
\* cancellations and the policy do meanwhile (admitCommand, executeCommand,
\* recordCommandPanic, releaseCommandSlot).
TakesRuntimeSteps == [][Runtime!CommandStep(TheDispatch)]_(Runtime!vars)
=============================================================================
