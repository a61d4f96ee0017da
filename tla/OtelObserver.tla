---------------------------- MODULE OtelObserver ----------------------------
(***************************************************************************)
(* What the OpenTelemetry observer makes of the events of one dispatch     *)
(* (otel/observer.go): a span, and the points it adds to the counters of   *)
(* dispatches and failures. The span is external: its status "ok" is       *)
(* final, and nothing changes the span once it has ended.                  *)
(***************************************************************************)
EXTENDS Integers

NoSpan ==
    [state |-> "none", status |-> "unset", code |-> "", recorded |-> 0,
     attempts |-> 0, dispatches |-> 0, failures |-> 0]

Rank == [unset |-> 0, error |-> 1, ok |-> 2]

\* code is the description the status carries, if it is an error.
SetStatus(span, status, code) ==
    IF span.state # "open" \/ Rank[span.status] > Rank[status] THEN span
    ELSE [span EXCEPT !.status = status, !.code = IF status = "error" THEN code ELSE ""]

RecordError(span) ==
    IF span.state = "open" THEN [span EXCEPT !.recorded = @ + 1] ELSE span

StartCommand == [NoSpan EXCEPT !.state = "open"]

\* ObserveFailure writes to the span of the context it is given, if there is one.
ObserveFailure(span, code) ==
    [SetStatus(RecordError(span), "error", code) EXCEPT !.failures = @ + 1]

\* Mutant: the status of a dispatch that succeeds is left as it is.
EndCommandFailuresOnly(span, success, code, attempts) ==
    LET told == IF success THEN span ELSE SetStatus(RecordError(span), "error", code)
    IN  [told EXCEPT !.attempts = attempts, !.state = "ended", !.dispatches = @ + 1]

\* End of the observation StartCommand returned.
EndCommand(span, success, code, attempts) ==
    LET told == IF success THEN SetStatus(span, "ok", "")
                ELSE SetStatus(RecordError(span), "error", code)
    IN  [told EXCEPT !.attempts = attempts, !.state = "ended", !.dispatches = @ + 1]
=============================================================================
