------------------------------ MODULE CheckLoop ------------------------------
(***************************************************************************)
(* The workers NewCheckLoop and NewCheckGroupLoop construct                *)
(* (check_loop.go): a LoopWorker that signals readiness itself and whose   *)
(* loop function runs one check after another. LoopReturns, the single     *)
(* step in which any loop function of LoopWorker ends, is replaced by the  *)
(* steps of runCheckLoop and runCheckLoopOnce.                             *)
(*                                                                         *)
(* Checkers and command handlers may report failures through the worker's  *)
(* handle; setting readiness is left to the loop. A context returned by an *)
(* observer is cancelled with the one it is derived from and not before.   *)
(***************************************************************************)
EXTENDS LoopWorker, Integers

CONSTANT Configs  \* the configurations a run tries

\* checkLoopConfig, reduced to what the control flow tests; checker is FALSE
\* for a nil checker or check group.
CheckLoopConfig ==
    [checker : BOOLEAN, initialDelay : BOOLEAN, runImmediately : BOOLEAN,
     timeout : BOOLEAN, readyOnSuccess : BOOLEAN,
     reportFailureOnNotReady : BOOLEAN]

\* defaultCheckLoopConfig, and the options that change it. Intervals and jitter
\* only decide how long a wait is, never that there is none.
DefaultConfig ==
    [checker |-> TRUE, initialDelay |-> FALSE, runImmediately |-> TRUE,
     timeout |-> FALSE, readyOnSuccess |-> TRUE, reportFailureOnNotReady |-> FALSE]

NilChecker(c) == [c EXCEPT !.checker = FALSE]
WithCheckInitialDelay(c, delay) == [c EXCEPT !.initialDelay = @ \/ delay > 0]
WithCheckRunImmediately(c, enabled) == [c EXCEPT !.runImmediately = enabled]
WithCheckTimeout(c, timeout) == [c EXCEPT !.timeout = timeout > 0]
WithCheckReadyOnSuccess(c, enabled) == [c EXCEPT !.readyOnSuccess = enabled]
WithCheckReportFailureOnNotReady(c, enabled) ==
    [c EXCEPT !.reportFailureOnNotReady = enabled]

ASSUME CheckLoopAssumption == Configs \subseteq CheckLoopConfig /\ ~ AutoReady

VARIABLES
    cfg,    \* the configuration, which the constructor fixes
    check   \* generation -> where its call of runCheckLoop stands

checkVars == <<rec, op, state, current, attempt, loop, uncleaned, cfg, check>>

CheckOutcome ==
    {"ready", "not_ready", "timeout", "canceled", "panic", "error"}

\* late: the deadline of the check under way has passed. outcome: of the check
\* that is being concluded. last: history, what the last End reported.
Check ==
    [pc : {"idle", "delay", "wait", "check", "apply", "end"},
     late : BOOLEAN, outcome : CheckOutcome, last : CheckOutcome \cup {"none"}]

NoCheck == [pc |-> "idle", late |-> FALSE, outcome |-> "error", last |-> "none"]

CheckInit ==
    /\ Init
    /\ cfg \in Configs
    /\ check = [g \in Generation |-> NoCheck]

-----------------------------------------------------------------------------
(* runCheckLoop: the delays between checks *)

InCheck(g, pc) == loop[g].pc = "running" /\ check[g].pc = pc

CheckGoTo(g, pc) == check' = [check EXCEPT ![g].pc = pc, ![g].late = FALSE]

EnterLoop(g) ==
    /\ InCheck(g, "idle")
    /\ CheckGoTo(g, IF cfg.initialDelay THEN "delay"
                    ELSE IF cfg.runImmediately THEN "check" ELSE "wait")
    /\ UNCHANGED <<vars, cfg>>

\* Mutant: the timer of the first wait is reused without being reset.
TimerFiresOnce(g) ==
    /\ InCheck(g, "delay") \/ (InCheck(g, "wait") /\ check[g].last = "none")
    /\ CheckGoTo(g, IF check[g].pc = "delay" /\ ~ cfg.runImmediately
                    THEN "wait" ELSE "check")
    /\ UNCHANGED <<vars, cfg>>

\* waitCheckLoopDelay returns nil, also when the context was cancelled as well.
TimerFires(g) ==
    /\ InCheck(g, "delay") \/ InCheck(g, "wait")
    /\ CheckGoTo(g, IF check[g].pc = "delay" /\ ~ cfg.runImmediately
                    THEN "wait" ELSE "check")
    /\ UNCHANGED <<vars, cfg>>

\* The loop function returns; that is the step LoopReturns of LoopWorker.
Returns(g, err) ==
    /\ loop' = [loop EXCEPT ![g].pc = "exited", ![g].err = err]
    /\ UNCHANGED <<rec, op, state, current, attempt, uncleaned, cfg>>

\* The wait is cancelled: the loop function returns nil.
WaitCancelled(g) ==
    /\ InCheck(g, "delay") \/ InCheck(g, "wait")
    /\ loop[g].cancelled
    /\ check' = [check EXCEPT ![g].pc = "idle"]
    /\ Returns(g, "nil")

-----------------------------------------------------------------------------
(* runCheckLoopOnce *)

DeadlinePasses(g) ==
    /\ InCheck(g, "check") /\ cfg.timeout /\ ~ check[g].late
    /\ check' = [check EXCEPT ![g].late = TRUE]
    /\ UNCHANGED <<vars, cfg>>

\* Mutant: the result of a check decides, whenever it arrives.
JudgedLate(g, verdict) == IF loop[g].cancelled THEN "canceled" ELSE verdict

\* What a check that answers verdict comes to: the loop's own context is asked
\* before the deadline of the check, and a late answer is not looked at.
Judged(g, verdict) ==
    IF loop[g].cancelled THEN "canceled"
    ELSE IF check[g].late THEN "timeout"
    ELSE verdict

\* Mutant: a check that timed out leaves readiness as it is.
SetsReadyOnAnswer(outcome) == cfg.readyOnSuccess /\ outcome \in {"ready", "not_ready"}

SetsReady(outcome) ==
    cfg.readyOnSuccess /\ outcome \in {"ready", "not_ready", "timeout"}

\* The check returns, and its result observer with it.
CheckReturns(g) ==
    /\ InCheck(g, "check")
    /\ \E verdict \in {"ready", "not_ready"} :
          LET outcome == Judged(g, verdict)
          IN  check' = [check EXCEPT
                  ![g].outcome = outcome,
                  ![g].pc = IF SetsReady(outcome) THEN "apply" ELSE "end"]
    /\ UNCHANGED <<vars, cfg>>

\* Check or its result observer panics, which is recovered.
CheckPanics(g) ==
    /\ InCheck(g, "check")
    /\ check' = [check EXCEPT ![g].outcome = "panic", ![g].pc = "end"]
    /\ UNCHANGED <<vars, cfg>>

\* SetReady; a refusal is the error the loop returns.
ApplyReady(g) ==
    /\ InCheck(g, "apply")
    /\ LET ready == check[g].outcome = "ready"
           may == HandleMay(rec, g, ready)
       IN  /\ rec' = IF may THEN ReadySet(rec, ready) ELSE rec
           /\ check' = [check EXCEPT ![g].pc = "end",
                                     ![g].outcome = IF may THEN @ ELSE "error"]
    /\ UNCHANGED <<op, state, current, attempt, loop, uncleaned, cfg>>

\* Mutant: the error of a cancelled check is dropped and the loop goes on.
LoopContinuesCancelled(outcome) ==
    \/ outcome \in {"ready", "canceled"}
    \/ outcome \in {"not_ready", "timeout"} /\ ~ cfg.reportFailureOnNotReady

LoopContinues(outcome) ==
    \/ outcome = "ready"
    \/ outcome \in {"not_ready", "timeout"} /\ ~ cfg.reportFailureOnNotReady

\* The deferred End of the observation; then the loop goes on or returns.
EndCheck(g) ==
    /\ InCheck(g, "end")
    /\ LET outcome == check[g].outcome
           continues == LoopContinues(outcome)
       IN  /\ check' = [check EXCEPT ![g].last = outcome, ![g].late = FALSE,
                                     ![g].pc = IF continues THEN "wait" ELSE "idle"]
           /\ IF continues
              THEN UNCHANGED <<vars, cfg>>
              ELSE Returns(g, IF outcome = "canceled" THEN "cancelled" ELSE "other")

-----------------------------------------------------------------------------
(* The LoopWorker around it *)

\* WithLoopStart: the hook fails for a nil checker and does nothing else.
CheckStartHook ==
    IF cfg.checker THEN StartHookSucceeds
    ELSE StartHookFails /\ op'.outcome # "panic"

\* There is no WithLoopStop hook, so that cleanup always succeeds.
CleansUp(g) == LoopCleanup(g) /\ attempt' = "complete"

\* A checker or a command handler reports a failure, or a command panics.
HandlerReports(g) ==
    /\ HandleMayReport(rec, g)
    /\ rec' = Reported(rec)
    /\ UNCHANGED <<op, state, current, attempt, loop, uncleaned>>

WorkerStep ==
    \/ Backoff \/ Settle \/ BeginStart \/ BeginStartRefused \/ CheckStartHook
    \/ SignalReady \/ Launch
    \/ BeginStop \/ Cancel \/ Joined \/ WaitExpired \/ CleanupComplete
    \/ BeginCleanup \/ CleanupSucceeds

GoroutineStep(g) ==
    \/ Classify(g) \/ Report(g) \/ LoopBeginCleanup(g) \/ CleansUp(g)
    \/ FinishLoop(g) \/ CloseDone(g)

-----------------------------------------------------------------------------
(* The specification *)

CheckInternal(g) ==
    \/ EnterLoop(g) \/ TimerFires(g) \/ ApplyReady(g) \/ EndCheck(g)

CheckEnds(g) == CheckReturns(g) \/ CheckPanics(g)

CheckNext ==
    \/ (Operation \/ WorkerStep) /\ UNCHANGED <<cfg, check>>
    \/ \E g \in Generation :
          \/ (HandlerReports(g) \/ GoroutineStep(g)) /\ UNCHANGED <<cfg, check>>
          \/ CheckInternal(g) \/ CheckEnds(g) \/ WaitCancelled(g) \/ DeadlinePasses(g)

CheckSpec == CheckInit /\ [][CheckNext]_checkVars

\* That of LoopWorker, where "a cancelled loop observes it" comes down to the
\* check: it returns once its context is cancelled. Timers fire.
CheckFairness ==
    /\ WF_checkVars(WorkerStep /\ UNCHANGED <<cfg, check>>)
    /\ SF_checkVars(LastAttempt /\ UNCHANGED <<cfg, check>>)
    /\ \A g \in Generation :
          /\ WF_checkVars(GoroutineStep(g) /\ UNCHANGED <<cfg, check>>)
          /\ WF_checkVars(CheckInternal(g))
          /\ WF_checkVars(loop[g].cancelled /\ CheckEnds(g))

FairCheckSpec == CheckSpec /\ CheckFairness
=============================================================================
