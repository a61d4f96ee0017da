----------------------------- MODULE CommandRun -----------------------------
(***************************************************************************)
(* One call of Runtime.Dispatch for a command that was found: it is        *)
(* observed, admitted, executed with retries, released and observed again. *)
(* WorkerRuntime has the admission and what failures do to the status, and *)
(* takes a whole execution for one step; here that execution is taken      *)
(* apart. A panic under PanicPolicyCrash takes the same steps and then     *)
(* goes on to the caller.                                                  *)
(*                                                                         *)
(* The observer is a MultiObserver, wrapped in a SafeObserver as every     *)
(* observer of a runtime is: whatever its children do, they cannot panic   *)
(* their way out. One child, "otel", is the OpenTelemetry observer, and    *)
(* the contexts the others return are derived from the one it returns.     *)
(***************************************************************************)
EXTENDS Retry, Failures, OtelObserver

CONSTANTS
    Observers,  \* the children of the MultiObserver, in order
    Policies,   \* the command retry policies a run tries
    MaxAttempt, \* bound on the attempts a policy grants
    HandlerErrors  \* the errors a handler of the application returns

\* retryable is FALSE for a policy without a predicate, which retries any error.
Policy ==
    [maxAttempts : -1 .. MaxAttempt, retryable : BOOLEAN,
     backoff : [kind : {"none", "func", "constant", "linear", "exponential"},
                step : Duration, factor : Int, max : Duration],
     jitter : [kind : {"none", "full", "symmetric"}, fraction : Int]]

ASSUME CommandRunAssumption ==
    /\ Observers \in Seq(STRING)
    /\ \A i, j \in 1 .. Len(Observers) : Observers[i] = Observers[j] => i = j
    /\ MaxAttempt \in Nat
    /\ Policies \subseteq Policy
    /\ HandlerErrors \subseteq Seq(STRING) \ {Nil}

VARIABLES
    policy,     \* the worker's command retry policy
    opskit,     \* the handler is an adapted Opskit handler
    pc,         \* where Dispatch stands
    attempt,    \* the loop variable of runWithRetry
    attempts,   \* the count Dispatch reports at the end
    delay,      \* the delay that is waited for
    slot,       \* the command holds its slot
    err,        \* the error Dispatch is going to return
    late,       \* the deadline of the attempt has passed
    gone,       \* how the caller's context has ended, or ""
    next,       \* StartCommand: the next child
    observing,  \* the observations that are open, in the order they started
    ended,      \* the observations that were ended, in that order
    span,       \* what the OpenTelemetry observer has recorded
    failures,   \* history: the attempts failure events were emitted for
    lastCode,   \* the code of the last of them: that of LastCommandFailure
    handled     \* history: the answers of the handler, one per call, and
                \* whether the caller had given up before the call

runVars == <<policy, opskit, pc, attempt, attempts, delay, slot, err, late,
             gone, next, observing, ended, span, failures, lastCode, handled>>

RunInit ==
    /\ policy \in Policies /\ opskit \in BOOLEAN
    /\ pc = "start" /\ attempt = 1 /\ attempts = 0 /\ delay = 0
    /\ slot = FALSE /\ err = Nil /\ late = FALSE /\ gone = ""
    /\ next = 1 /\ observing = << >> /\ ended = << >> /\ span = NoSpan
    /\ failures = << >> /\ lastCode = "" /\ handled = << >>

-----------------------------------------------------------------------------
(* Observation *)

\* A child's StartCommand returns an observation; or it returns none, or panics.
StartChild ==
    /\ pc = "start" /\ next <= Len(Observers)
    /\ \/ /\ observing' = Append(observing, Observers[next])
          /\ span' = IF Observers[next] = "otel" THEN StartCommand ELSE span
       \/ UNCHANGED <<observing, span>>
    /\ next' = next + 1
    /\ UNCHANGED <<policy, opskit, pc, attempt, attempts, delay, slot, err, late,
                   gone, ended, failures, lastCode, handled>>

\* The event of endCommandObservation; it is empty for a nil error.
EndCode == PublicCode(err, "command_failed")

\* An observation ends, or panics on it.
EndChild ==
    /\ pc = "end" /\ observing # << >>
    /\ ended' = Append(ended, observing[Len(observing)])
    /\ observing' = SubSeq(observing, 1, Len(observing) - 1)
    /\ span' = IF observing[Len(observing)] = "otel"
               THEN EndCommand(span, err = Nil, EndCode, attempts) ELSE span
    /\ UNCHANGED <<policy, opskit, pc, attempt, attempts, delay, slot, err, late,
                   gone, next, failures, lastCode, handled>>

Returned ==
    /\ pc = "end" /\ observing = << >>
    /\ pc' = "done"
    /\ UNCHANGED <<policy, opskit, attempt, attempts, delay, slot, err, late,
                   gone, next, observing, ended, span, failures, lastCode, handled>>

-----------------------------------------------------------------------------
(* Admission *)

\* The checks of admitCommand, which WorkerRuntime has in full.
Refusals ==
    {<<"runtime_not_accepting">>, <<"invalid_state">>, <<"worker_not_accepting">>,
     <<"runtime_saturated">>, <<"worker_saturated">>}

AdmitOrRefuse ==
    /\ pc = "start" /\ next > Len(Observers)
    /\ \/ pc' = "attempt" /\ slot' = TRUE /\ UNCHANGED err
       \/ pc' = "end" /\ err' \in Refusals /\ UNCHANGED slot
    /\ UNCHANGED <<policy, opskit, attempt, attempts, delay, late, gone, next,
                   observing, ended, span, failures, lastCode, handled>>

\* The deferred releaseCommandSlot, before the observation ends.
ReleaseCommandSlot ==
    /\ pc = "release"
    /\ pc' = "end" /\ slot' = FALSE
    /\ UNCHANGED <<policy, opskit, attempt, attempts, delay, err, late, gone,
                   next, observing, ended, span, failures, lastCode, handled>>

-----------------------------------------------------------------------------
(* executeCommand and runWithRetry *)

\* Mutant: an attempt is counted when it has failed.
BeginAttemptUncounted ==
    /\ pc = "attempt"
    /\ pc' = "handling" /\ late' = FALSE /\ attempts' = Len(failures)
    /\ handled' = Append(handled, [answer |-> "none", gone |-> gone # ""])
    /\ UNCHANGED <<policy, opskit, attempt, delay, slot, err, gone, next,
                   observing, ended, span, failures, lastCode>>

\* The handler is called under a context of this attempt.
BeginAttempt ==
    /\ pc = "attempt"
    /\ pc' = "handling" /\ late' = FALSE /\ attempts' = attempt
    /\ handled' = Append(handled, [answer |-> "none", gone |-> gone # ""])
    /\ UNCHANGED <<policy, opskit, attempt, delay, slot, err, gone, next,
                   observing, ended, span, failures, lastCode>>

AttemptTimesOut ==
    /\ pc = "handling" /\ ~ late
    /\ late' = TRUE
    /\ UNCHANGED <<policy, opskit, pc, attempt, attempts, delay, slot, err, gone,
                   next, observing, ended, span, failures, lastCode, handled>>

\* The caller's context is cancelled, or its deadline passes.
CallerGivesUp ==
    /\ pc # "done" /\ gone = ""
    /\ gone' \in {"canceled", "deadline"}
    /\ UNCHANGED <<policy, opskit, pc, attempt, attempts, delay, slot, err, late,
                   next, observing, ended, span, failures, lastCode, handled>>

Answered(answer) == handled' = [handled EXCEPT ![Len(handled)].answer = answer]

\* The error of the attempt's context: its own deadline, or the caller's end.
ContextErrors ==
    (IF late THEN {<<"deadline">>} ELSE {}) \cup (IF gone # "" THEN {<<gone>>} ELSE {})

\* What an attempt that does not succeed returns. The adapter of an Opskit handler
\* drops any result that comes after the end of its context.
AttemptErrors ==
    IF ~ opskit THEN HandlerErrors
    ELSE IF ContextErrors # {} THEN ContextErrors
    ELSE OpskitErrors

HandlerSucceeds ==
    /\ pc = "handling" /\ (opskit => ContextErrors = {})
    /\ Answered("ok")
    /\ pc' = "release"
    /\ UNCHANGED <<policy, opskit, attempt, attempts, delay, slot, err, late,
                   gone, next, observing, ended, span, failures, lastCode>>

\* recordCommandFailure and recordCommandPanic, as far as observers see them.
FailureTold(n, e) ==
    LET code == PublicCode(e, "command_failed")
    IN  /\ failures' = Append(failures, n) /\ lastCode' = code
        /\ span' = ObserveFailure(span, code)

HandlerErrs ==
    /\ pc = "handling"
    /\ Answered("error")
    /\ err' \in AttemptErrors
    /\ FailureTold(attempt, err')
    /\ pc' = "judge"
    /\ UNCHANGED <<policy, opskit, attempt, attempts, delay, slot, late, gone, next,
                   observing, ended>>

\* Mutant: a recovered panic goes to the retry policy like any other error.
HandlerPanickedRetried ==
    /\ pc = "handling"
    /\ Answered("panic")
    /\ FailureTold(attempts, RecoveredPanic)
    /\ pc' = "judge" /\ err' = RecoveredPanic
    /\ UNCHANGED <<policy, opskit, attempt, attempts, delay, slot, late, gone,
                   next, observing, ended>>

\* recoverCommandPanic: a panic is not retried.
HandlerPanicked ==
    /\ pc = "handling"
    /\ Answered("panic")
    /\ FailureTold(attempts, RecoveredPanic)
    /\ pc' = "release" /\ err' = RecoveredPanic
    /\ UNCHANGED <<policy, opskit, attempt, attempts, delay, slot, late, gone,
                   next, observing, ended>>

\* Mutant: the policy is asked whether or not the caller is still there.
CallerGoneNever == FALSE

CallerGone == gone # ""

\* The parent's error wins over the policy; the policy refuses, or the error is
\* not retryable; or the policy grants another attempt after a delay.
Judge ==
    /\ pc = "judge"
    /\ \/ /\ CallerGone
          /\ pc' = "release" /\ err' = <<gone>> /\ UNCHANGED delay
       \/ /\ ~ CallerGone
          /\ Grants(policy, attempt) => policy.retryable
          /\ pc' = "release" /\ UNCHANGED <<err, delay>>
       \/ /\ ~ CallerGone /\ Grants(policy, attempt)
          /\ delay' \in NextDelays(policy, attempt)
          /\ pc' = "wait" /\ err' = Nil
    /\ UNCHANGED <<policy, opskit, attempt, attempts, slot, late, gone, next,
                   observing, ended, span, failures, lastCode, handled>>

\* waitBeforeRetry: the timer fires or there is none; the caller may be gone.
WaitElapses ==
    /\ pc = "wait"
    /\ pc' = "attempt" /\ attempt' = attempt + 1
    /\ UNCHANGED <<policy, opskit, attempts, delay, slot, err, late, gone, next,
                   observing, ended, span, failures, lastCode, handled>>

WaitCancelled ==
    /\ pc = "wait" /\ delay > 0 /\ CallerGone
    /\ pc' = "release" /\ err' = <<gone>>
    /\ UNCHANGED <<policy, opskit, attempt, attempts, delay, slot, late, gone,
                   next, observing, ended, span, failures, lastCode, handled>>

-----------------------------------------------------------------------------
RunNext ==
    \/ StartChild \/ EndChild \/ Returned \/ AdmitOrRefuse \/ ReleaseCommandSlot
    \/ BeginAttempt \/ AttemptTimesOut \/ CallerGivesUp
    \/ HandlerSucceeds \/ HandlerErrs \/ HandlerPanicked
    \/ Judge \/ WaitElapses \/ WaitCancelled

RunSpec == RunInit /\ [][RunNext]_runVars
=============================================================================
