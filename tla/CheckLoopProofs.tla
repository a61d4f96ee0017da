--------------------------- MODULE CheckLoopProofs ---------------------------
(***************************************************************************)
(* Theorems about managed check loops, for any number of generations and   *)
(* any configuration. That a check loop takes the steps of a LoopWorker    *)
(* hands it what LoopWorkerProofs has of every loop; readiness is proved   *)
(* on top of it.                                                           *)
(***************************************************************************)
EXTENDS CheckLoopProperties, LoopWorkerProofs

-----------------------------------------------------------------------------
(* The inductive invariant *)

CheckTypeOK == cfg \in CheckLoopConfig /\ check \in [Generation -> Check]

\* The outcomes of a check that was judged, and not cut short.
Verdicts == {"ready", "not_ready", "timeout"}

\* The readiness an outcome calls for.
CallsFor(outcome) == cfg.readyOnSuccess /\ outcome = "ready"

\* What a call of runCheckLoop knows at each of its steps.
CheckKnows(g) ==
    /\ loop[g].pc = "none" => check[g] = NoCheck
    /\ InCheck(g, "idle") => check[g].last = "none"
    /\ check[g].pc = "apply" =>
          /\ cfg.readyOnSuccess = TRUE /\ check[g].outcome \in Verdicts
          /\ check[g].outcome = "ready" => check[g].late = FALSE
    /\ check[g].pc = "end" /\ check[g].outcome = "canceled" => loop[g].cancelled = TRUE

ChecksKnow == \A g \in Generation : CheckKnows(g)

\* Start lowers readiness before it launches the loop, and that it did so is what
\* keeps completeWorkerStart from applying the default.
Lowered ==
    /\ op.pc = "launch" => rec.ready = FALSE
    /\ op.phase = "start" /\ (op.pc = "launch" \/ (op.pc = "settle" /\ op.outcome = "ok"))
          => rec.failureReportedDuringStart = TRUE \/ rec.readySetDuringStart = TRUE

\* A start that nothing has failed yet leads into service.
Serviceable ==
    \/ rec.lifecycle = "running"
    \/ rec.lifecycle = "starting" /\ rec.failureReportedDuringStart = FALSE

\* Readiness is what the last check called for, between checks and while its
\* result is being reported.
VerdictKept ==
    LET g == rec.generation
    IN  g \in Generation /\ loop[g].pc = "running" /\ Serviceable =>
            /\ check[g].pc \in {"idle", "delay", "wait", "check"} =>
                  (rec.ready = TRUE <=> CallsFor(check[g].last))
            /\ check[g].pc = "end" /\ check[g].outcome \in Verdicts =>
                  (rec.ready = TRUE <=> CallsFor(check[g].outcome))

CheckInv == ChecksKnow /\ Lowered /\ VerdictKept

-----------------------------------------------------------------------------
(* Type correctness, and that only one check takes a step at a time *)

\* The checks of the other generations stay where they are.
Others(g) == \A h \in Generation : h # g => check'[h] = check[h]

\* A call of runCheckLoop that takes a step has the types, and no other moves.
LEMMA CheckUpdate ==
    ASSUME CheckTypeOK, NEW g \in Generation, NEW r \in Check,
           check' = [check EXCEPT ![g] = r], cfg' = cfg
    PROVE  CheckTypeOK' /\ check'[g] = r /\ Others(g)
  BY DEF CheckTypeOK, Others

\* They have their types when the constructor returns (NewCheckLoop), and no
\* check is under way.
LEMMA CheckInitInv == CheckInit => CheckTypeOK /\ CheckInv
<1> SUFFICES ASSUME CheckInit PROVE CheckTypeOK /\ CheckInv
  OBVIOUS
<1>1. NoCheck \in Check
  BY DEF NoCheck, Check, CheckOutcome
<1>2. CheckTypeOK
  BY <1>1, CheckLoopAssumption DEF CheckLoopAssumption, CheckInit, CheckTypeOK
<1>3. \A g \in Generation : loop[g].pc = "none" /\ check[g] = NoCheck /\ check[g].pc = "idle"
  BY DEF CheckInit, Init, NoLoop, NoCheck
<1>4. op.pc = "idle"
  BY DEF CheckInit, Init, IdleOp
<1>5. ChecksKnow
  BY <1>3 DEF ChecksKnow, CheckKnows, InCheck
<1> QED
  BY <1>2, <1>3, <1>4, <1>5 DEF CheckInv, Lowered, VerdictKept

\* What the steps of runCheckLoop and runCheckLoopOnce make of the check.
LEMMA CheckMoves ==
    ASSUME CheckTypeOK, NEW g \in Generation,
           CheckInternal(g) \/ CheckEnds(g) \/ WaitCancelled(g) \/ DeadlinePasses(g)
    PROVE  CheckTypeOK' /\ Others(g)
<1>0. /\ check[g] \in Check /\ cfg \in CheckLoopConfig
      /\ check[g].pc \in {"idle", "delay", "wait", "check", "apply", "end"}
  BY DEF CheckTypeOK, Check
<1>1. ASSUME NEW pc \in {"idle", "delay", "wait", "check", "apply", "end"},
             CheckGoTo(g, pc), cfg' = cfg
      PROVE  CheckTypeOK' /\ Others(g)
  <2>1. [check[g] EXCEPT !.pc = pc, !.late = FALSE] \in Check
    BY <1>0 DEF Check
  <2>2. check' = [check EXCEPT ![g] = [check[g] EXCEPT !.pc = pc, !.late = FALSE]]
    BY <1>1 DEF CheckGoTo, CheckTypeOK
  <2> QED
    BY <1>1, <2>1, <2>2, CheckUpdate
<1>2. CASE EnterLoop(g)
  BY <1>1, <1>2 DEF EnterLoop
<1>3. CASE TimerFires(g)
  BY <1>1, <1>3 DEF TimerFires
<1>4. CASE ApplyReady(g)
  <2>1. PICK o \in CheckOutcome :
            check' = [check EXCEPT ![g].pc = "end", ![g].outcome = o]
    BY <1>0, <1>4 DEF ApplyReady, Check, CheckOutcome, CheckTypeOK
  <2>2. [check[g] EXCEPT !.pc = "end", !.outcome = o] \in Check
    BY <1>0 DEF Check
  <2>3. check' = [check EXCEPT ![g] = [check[g] EXCEPT !.pc = "end", !.outcome = o]]
    BY <2>1 DEF CheckTypeOK
  <2> QED
    BY <1>4, <2>2, <2>3, CheckUpdate DEF ApplyReady
<1>5. CASE EndCheck(g)
  <2>1. PICK pc \in {"wait", "idle"} : check' =
            [check EXCEPT ![g].last = check[g].outcome, ![g].late = FALSE, ![g].pc = pc]
    BY <1>5 DEF EndCheck
  <2>2. [check[g] EXCEPT !.last = check[g].outcome, !.late = FALSE, !.pc = pc] \in Check
    BY <1>0 DEF Check
  <2>3. check' = [check EXCEPT ![g] =
            [check[g] EXCEPT !.last = check[g].outcome, !.late = FALSE, !.pc = pc]]
    BY <2>1 DEF CheckTypeOK
  <2> QED
    BY <1>5, <2>2, <2>3, CheckUpdate DEF EndCheck, Returns
<1>6. CASE CheckReturns(g)
  <2>1. PICK o \in CheckOutcome, pc \in {"apply", "end"} :
            check' = [check EXCEPT ![g].outcome = o, ![g].pc = pc]
    BY <1>6 DEF CheckReturns, Judged, CheckOutcome
  <2>2. [check[g] EXCEPT !.outcome = o, !.pc = pc] \in Check
    BY <1>0 DEF Check
  <2>3. check' = [check EXCEPT ![g] = [check[g] EXCEPT !.outcome = o, !.pc = pc]]
    BY <2>1 DEF CheckTypeOK
  <2> QED
    BY <1>6, <2>2, <2>3, CheckUpdate DEF CheckReturns
<1>7. CASE CheckPanics(g)
  <2>1. [check[g] EXCEPT !.outcome = "panic", !.pc = "end"] \in Check
    BY <1>0 DEF Check, CheckOutcome
  <2>2. check' = [check EXCEPT ![g] = [check[g] EXCEPT !.outcome = "panic", !.pc = "end"]]
    BY <1>7 DEF CheckPanics, CheckTypeOK
  <2> QED
    BY <1>7, <2>1, <2>2, CheckUpdate DEF CheckPanics
<1>8. CASE WaitCancelled(g)
  <2>1. [check[g] EXCEPT !.pc = "idle"] \in Check
    BY <1>0 DEF Check
  <2> QED
    BY <1>8, <2>1, CheckUpdate DEF WaitCancelled, Returns, CheckTypeOK
<1>9. CASE DeadlinePasses(g)
  <2>1. [check[g] EXCEPT !.late = TRUE] \in Check
    BY <1>0 DEF Check
  <2> QED
    BY <1>9, <2>1, CheckUpdate DEF DeadlinePasses, CheckTypeOK
<1> QED
  BY <1>2, <1>3, <1>4, <1>5, <1>6, <1>7, <1>8, <1>9 DEF CheckInternal, CheckEnds

\* Every step keeps the types (check_loop.go).
LEMMA CheckStepType == CheckTypeOK /\ [CheckNext]_checkVars => CheckTypeOK'
<1> SUFFICES ASSUME CheckTypeOK, [CheckNext]_checkVars PROVE CheckTypeOK'
  OBVIOUS
<1>1. CASE UNCHANGED <<cfg, check>>
  BY <1>1 DEF CheckTypeOK
<1>2. ASSUME NEW g \in Generation,
             CheckInternal(g) \/ CheckEnds(g) \/ WaitCancelled(g) \/ DeadlinePasses(g)
      PROVE  CheckTypeOK'
  BY <1>2, CheckMoves
<1> QED
  BY <1>1, <1>2 DEF CheckNext, checkVars

-----------------------------------------------------------------------------
(* A check loop takes the steps of a loop worker *)

\* Every step of a check loop is one of LoopWorker or leaves the loop worker as
\* it is: the loop function returns in a delay, between two checks or when a
\* check is concluded, and claims its context's error only when it was cancelled
\* (runCheckLoop, runCheckLoopOnce).
LEMMA CheckSimulates ==
    CheckTypeOK /\ ChecksKnow /\ [CheckNext]_checkVars => [Next]_vars
<1> SUFFICES ASSUME CheckTypeOK, ChecksKnow, [CheckNext]_checkVars PROVE [Next]_vars
  OBVIOUS
<1>1. CASE UNCHANGED checkVars
  BY <1>1 DEF checkVars, vars
<1>2. CASE Operation
  BY <1>2 DEF Next
<1>3. CASE WorkerStep
  <2>1. CheckStartHook => StartHookSucceeds \/ StartHookFails
    BY DEF CheckStartHook
  <2> QED
    BY <1>3, <2>1 DEF WorkerStep, Next, Internal
<1>4. ASSUME NEW g \in Generation PROVE HandlerReports(g) => UserSignals(g)
  BY DEF HandlerReports, UserSignals
<1>5. ASSUME NEW g \in Generation PROVE GoroutineStep(g) => LoopInternal(g)
  BY DEF GoroutineStep, CleansUp, LoopInternal
<1>6. ASSUME NEW g \in Generation,
             EnterLoop(g) \/ TimerFires(g) \/ CheckEnds(g) \/ DeadlinePasses(g)
      PROVE  UNCHANGED vars
  BY <1>6 DEF EnterLoop, TimerFires, CheckEnds, CheckReturns, CheckPanics, DeadlinePasses
<1>7. ASSUME NEW g \in Generation, ApplyReady(g) PROVE UserSignals(g) \/ UNCHANGED vars
  <2>1. CASE HandleMay(rec, g, check[g].outcome = "ready")
    <3>1. (check[g].outcome = "ready") \in BOOLEAN
      OBVIOUS
    <3> QED
      BY <1>7, <2>1, <3>1 DEF ApplyReady, UserSignals
  <2>2. CASE ~ HandleMay(rec, g, check[g].outcome = "ready")
    BY <1>7, <2>2 DEF ApplyReady, vars
  <2> QED
    BY <2>1, <2>2
<1>8. ASSUME NEW g \in Generation, WaitCancelled(g) PROVE LoopReturns(g)
  BY <1>8 DEF WaitCancelled, InCheck, Returns, LoopReturns
<1>9. ASSUME NEW g \in Generation, EndCheck(g) PROVE LoopReturns(g) \/ UNCHANGED vars
  <2>1. check[g].outcome = "canceled" => loop[g].cancelled = TRUE
    BY <1>9 DEF EndCheck, InCheck, ChecksKnow, CheckKnows
  <2> QED
    BY <1>9, <2>1 DEF EndCheck, InCheck, Returns, LoopReturns
<1> QED
  BY <1>1, <1>2, <1>3, <1>4, <1>5, <1>6, <1>7, <1>8, <1>9
     DEF CheckNext, CheckInternal, Next

-----------------------------------------------------------------------------
(* What the operation, the goroutines and the handlers do to the invariant *)

\* Recording the error of an attempt touches the failure of a record only
\* (recordWorkerFailure).
LEMMA RecordingEffects ==
    ASSUME NEW s \in WorkerState
    PROVE  /\ Recorded(s).generation = s.generation
           /\ Recorded(s).lifecycle = s.lifecycle
           /\ Recorded(s).ready = s.ready
           /\ Recorded(s).readySetDuringStart = s.readySetDuringStart
           /\ Recorded(s).failureReportedDuringStart = s.failureReportedDuringStart
  BY DEF Recorded, WorkerState

\* What a signal and a report do to the readiness of a record (setWorkerReady,
\* reportWorkerFailure).
LEMMA SignalEffects ==
    ASSUME NEW s \in WorkerState, NEW b \in BOOLEAN
    PROVE  /\ Reported(s).ready = FALSE
           /\ ReadySet(s, b).ready = b
           /\ ReadySet(s, b).generation = s.generation
           /\ ReadySet(s, b).lifecycle = s.lifecycle
           /\ ReadySet(s, b).failureReportedDuringStart = s.failureReportedDuringStart
           /\ s.lifecycle = "starting" \/ s.readySetDuringStart = TRUE =>
                 ReadySet(s, b).readySetDuringStart = TRUE
<1> USE DEF WorkerState
<1>1. Reported(s).ready = FALSE
  BY DEF Reported, Failed
<1>2. /\ ReadySet(s, b).ready = b
      /\ ReadySet(s, b).generation = s.generation
      /\ ReadySet(s, b).lifecycle = s.lifecycle
      /\ ReadySet(s, b).failureReportedDuringStart = s.failureReportedDuringStart
      /\ s.lifecycle = "starting" \/ s.readySetDuringStart = TRUE =>
            ReadySet(s, b).readySetDuringStart = TRUE
  BY DEF ReadySet
<1> QED
  BY <1>1, <1>2

\* A start that completes keeps the readiness that was set while it ran, unless a
\* failure was reported (completeWorkerStart).
LEMMA StartReadiness ==
    ASSUME NEW w, NEW s \in WorkerState
    PROVE  /\ s.failureReportedDuringStart = FALSE /\ s.readySetDuringStart = TRUE =>
                 CompletedStart(w, s).ready = s.ready
           /\ s.failureReportedDuringStart = TRUE => CompletedStart(w, s).ready = FALSE
  BY DEF CompletedStart, WorkerState

\* The invariant of the loop worker and that of its checks.
CheckedInv == LoopTypeOK /\ LoopInv /\ ServiceInv /\ CheckTypeOK /\ CheckInv

\* A start that has not launched its loop, or is about to, has none.
LEMMA NothingLaunched ==
    ASSUME CheckedInv, op.pc \in {"lower", "launch"}
    PROVE  /\ rec.generation \in Generation /\ rec.lifecycle = "starting"
           /\ op.phase = "start" /\ loop[rec.generation] = NoLoop
           /\ check[rec.generation] = NoCheck
<1>1. op.phase = "start"
  BY DEF CheckedInv, LoopInv, PhaseMatches
<1>2. rec.generation \in Generation
  BY <1>1 DEF CheckedInv, LoopInv, StartHasGeneration
<1>3. rec.lifecycle = "starting"
  BY <1>1 DEF CheckedInv, ServiceInv, OpMatches
<1>4. loop[rec.generation] = NoLoop
  BY <1>1 DEF CheckedInv, ServiceInv, StartKnows, Launched
<1> QED
  BY <1>1, <1>2, <1>3, <1>4 DEF CheckedInv, CheckInv, ChecksKnow, CheckKnows, NoLoop

\* A step that runs no check and neither launches a loop nor moves the lifecycle
\* but by a report keeps the invariant: the readiness of a worker in service is
\* touched by nothing else.
LEMMA BesideKeepsChecks ==
    ASSUME CheckedInv, cfg' = cfg, check' = check,
           \A h \in Generation :
               /\ loop'[h].pc = loop[h].pc \/ loop'[h].pc \notin {"none", "running"}
               /\ loop[h].cancelled = TRUE => loop'[h].cancelled = TRUE,
           \/ rec' \in {rec, Recorded(rec)}
           \/ rec' = Reported(rec) /\ rec.lifecycle \in Reportable,
           op'.pc = "launch" => op.pc = "launch",
           op'.phase = "start" /\ (op'.pc = "launch" \/ (op'.pc = "settle" /\ op'.outcome = "ok"))
               => op.phase = "start"
                    /\ (op.pc = "launch" \/ (op.pc = "settle" /\ op.outcome = "ok"))
    PROVE  CheckInv'
<1>0. rec \in WorkerState /\ LoopTypeOK /\ CheckInv
  BY DEF CheckedInv, LoopTypeOK
<1>1. ChecksKnow'
  BY <1>0 DEF CheckInv, ChecksKnow, CheckKnows, InCheck
<1>2. CASE rec' \in {rec, Recorded(rec)}
  <2>1. /\ rec'.generation = rec.generation /\ rec'.lifecycle = rec.lifecycle
        /\ rec'.failureReportedDuringStart = rec.failureReportedDuringStart
        /\ rec'.ready = rec.ready /\ rec'.readySetDuringStart = rec.readySetDuringStart
    BY <1>0, <1>2, RecordingEffects
  <2>2. Lowered'
    BY <1>0, <2>1 DEF CheckInv, Lowered
  <2>3. VerdictKept'
    BY <1>0, <2>1 DEF CheckInv, VerdictKept, Serviceable, CallsFor
  <2> QED
    BY <1>1, <2>2, <2>3 DEF CheckInv
<1>3. CASE rec' = Reported(rec) /\ rec.lifecycle \in Reportable
  <2>1. rec'.ready = FALSE
    BY <1>0, <1>3, SignalEffects
  <2>2. /\ rec.lifecycle = "starting" => rec'.failureReportedDuringStart = TRUE
        /\ rec'.lifecycle \in {"starting", "stopping", "failed"}
        /\ rec'.lifecycle = "starting" => rec.lifecycle = "starting"
    BY <1>0, <1>3, ReportEffects
  <2>3. op.phase = "start" /\ op.pc \in {"launch", "settle"} => rec.lifecycle = "starting"
    BY DEF CheckedInv, ServiceInv, OpMatches
  <2>4. Lowered'
    BY <2>1, <2>2, <2>3 DEF Lowered
  <2>5. VerdictKept'
    BY <2>2 DEF VerdictKept, Serviceable
  <2> QED
    BY <1>1, <2>4, <2>5 DEF CheckInv
<1> QED
  BY <1>2, <1>3

\* The operations of the runtime on the worker keep it (Start and Stop in loop.go
\* with the locked transitions of runtime.go).
LEMMA OperationKeepsChecks ==
    ASSUME CheckedInv, Operation \/ WorkerStep, cfg' = cfg, check' = check
    PROVE  CheckInv'
<1>0. rec \in WorkerState /\ op \in OpState /\ loop \in [Generation -> Loop] /\ CheckInv
  BY DEF CheckedInv, LoopTypeOK
<1>a. AutoReady = FALSE
  BY CheckLoopAssumption, LoopAssumption DEF CheckLoopAssumption, LoopAssumption
<1>p. /\ op.pc \in {"startHook", "lower", "launch", "raise", "backoff"} => op.phase = "start"
      /\ op.pc \in {"cancel", "join", "cleanup", "hook"} => op.phase = "stop"
  BY DEF CheckedInv, LoopInv, PhaseMatches
<1>1. CASE RuntimeStart
  <2>1. rec'.generation = rec.generation + 1
    BY <1>0, <1>1, GenerationKept DEF RuntimeStart
  <2>2. rec'.generation \in Generation => loop[rec'.generation] = NoLoop
    BY <1>0, <2>1 DEF CheckedInv, ServiceInv, Opened, WorkerState, Generation
  <2>3. loop' = loop /\ op'.pc = "begin"
    BY <1>1 DEF RuntimeStart, IdleOp
  <2>4. ChecksKnow'
    BY <1>0, <2>3 DEF CheckInv, ChecksKnow, CheckKnows, InCheck
  <2>5. Lowered'
    BY <2>3 DEF Lowered
  <2>6. VerdictKept'
    BY <2>2, <2>3 DEF VerdictKept, NoLoop
  <2> QED
    BY <2>4, <2>5, <2>6 DEF CheckInv
<1>2. CASE RuntimeStop \/ RuntimeDrain
  <2>1. rec'.lifecycle \in {"stopping", "draining"}
    BY <1>0, <1>2 DEF RuntimeStop, RuntimeDrain, BegunStop, Drained, WorkerState
  <2>2. loop' = loop /\ op'.pc \in {"begin", "idle"}
    BY <1>2 DEF RuntimeStop, RuntimeDrain, IdleOp, At
  <2>3. ChecksKnow'
    BY <1>0, <2>2 DEF CheckInv, ChecksKnow, CheckKnows, InCheck
  <2>4. Lowered' /\ VerdictKept'
    BY <2>1, <2>2 DEF Lowered, VerdictKept, Serviceable
  <2> QED
    BY <2>3, <2>4 DEF CheckInv
<1>3. CASE Settle
  <2>1. loop' = loop /\ op'.pc = "idle"
    BY <1>3 DEF Settle, IdleOp
  <2>2. ChecksKnow'
    BY <1>0, <2>1 DEF CheckInv, ChecksKnow, CheckKnows, InCheck
  <2>3. Lowered'
    BY <2>1 DEF Lowered
  <2>4. VerdictKept'
    <3>1. CASE op.outcome = "ok" /\ op.phase = "start"
      <4>1. rec' = CompletedStart(Self, rec)
        BY <1>3, <3>1 DEF Settle
      <4>2. rec'.generation = rec.generation
        BY <1>0, <4>1, GenerationKept
      <4>3. rec.lifecycle = "starting"
        BY <1>3, <3>1 DEF Settle, At, CheckedInv, ServiceInv, OpMatches
      <4>4. CASE rec.failureReportedDuringStart = TRUE
        <5>1. rec'.lifecycle = "failed"
          BY <1>0, <4>1, <4>4, StartEffects
        <5> QED
          BY <5>1 DEF VerdictKept, Serviceable
      <4>5. CASE rec.failureReportedDuringStart = FALSE
        <5>1. rec.readySetDuringStart = TRUE
          <6>1. op.pc = "settle"
            BY <1>3 DEF Settle, At
          <6> QED
            BY <1>0, <3>1, <4>5, <6>1 DEF CheckInv, Lowered
        <5>2. rec'.ready = rec.ready
          BY <1>0, <4>1, <4>5, <5>1, StartReadiness
        <5> QED
          BY <1>0, <2>1, <4>2, <4>3, <4>5, <5>2
             DEF CheckInv, VerdictKept, Serviceable, CallsFor
      <4>6. rec.failureReportedDuringStart \in BOOLEAN
        BY <1>0 DEF WorkerState
      <4> QED
        BY <4>4, <4>5, <4>6
    <3>2. CASE ~ (op.outcome = "ok" /\ op.phase = "start")
      <4>1. op.phase \in {"start", "stop"} /\ op.outcome \in {"ok", "failed", "panic", "cleanup"}
        BY <1>0 DEF OpState
      <4>2. rec' \in {CompletedStop(rec), CleanupFailed(rec), Failed(rec)}
        BY <1>3, <3>2, <4>1 DEF Settle
      <4>3. rec'.lifecycle \in {"stopped", "failed"}
        BY <1>0, <4>2, OutcomeEffects, ZenonT(60)
      <4> QED
        BY <4>3 DEF VerdictKept, Serviceable
    <3> QED
      BY <3>1, <3>2
  <2> QED
    BY <2>2, <2>3, <2>4 DEF CheckInv
<1>4. CASE SignalReady
  <2>1. op.pc = "lower" /\ rec' = ReadySet(rec, FALSE) /\ loop' = loop /\ GoTo("launch")
    BY <1>4, <1>a DEF SignalReady, At
  <2>2. rec.lifecycle = "starting" /\ loop[rec.generation] = NoLoop
    BY <2>1, NothingLaunched
  <2>3. /\ rec'.ready = FALSE /\ rec'.readySetDuringStart = TRUE
        /\ rec'.generation = rec.generation
    BY <1>0, <2>1, <2>2, SignalEffects
  <2>4. ChecksKnow'
    BY <1>0, <2>1 DEF CheckInv, ChecksKnow, CheckKnows, InCheck
  <2>5. Lowered'
    BY <2>3 DEF Lowered
  <2>6. loop'[rec'.generation].pc = "none"
    <3>1. loop' = loop
      BY <2>1
    <3>2. loop'[rec'.generation] = NoLoop
      BY <2>2, <2>3, <3>1
    <3> QED
      BY <3>2 DEF NoLoop
  <2>7. VerdictKept'
    BY <2>6 DEF VerdictKept
  <2> QED
    BY <2>4, <2>5, <2>7 DEF CheckInv
<1>5. CASE Launch
  <2>1. op.pc = "launch" /\ rec' = rec /\ op'.pc = "settle" /\ op'.phase = op.phase
    BY <1>0, <1>5, <1>a DEF Launch, At, Settling, OpState
  <2>2. /\ rec.generation \in Generation /\ op.phase = "start"
        /\ loop[rec.generation] = NoLoop /\ check[rec.generation] = NoCheck
    BY <2>1, NothingLaunched
  <2>3. /\ \A h \in Generation : loop'[h].cancelled = loop[h].cancelled
        /\ \A h \in Generation : h # rec.generation => loop'[h] = loop[h]
        /\ loop'[rec.generation].pc = "running"
    BY <1>0, <1>5, <2>2 DEF Launch, Loop
  <2>4. ChecksKnow'
    BY <1>0, <2>2, <2>3 DEF CheckInv, ChecksKnow, CheckKnows, InCheck, NoCheck
  <2>5. Lowered'
    BY <1>0, <2>1, <2>2 DEF CheckInv, Lowered
  <2>6. VerdictKept'
    <3>1. rec.ready = FALSE
      BY <1>0, <2>1 DEF CheckInv, Lowered
    <3> QED
      BY <2>1, <2>2, <3>1 DEF VerdictKept, CallsFor, NoCheck
  <2> QED
    BY <2>4, <2>5, <2>6 DEF CheckInv
<1>6. ASSUME rec' \in {rec, Recorded(rec)},
             \A h \in Generation : loop'[h].pc = loop[h].pc
                 /\ (loop[h].cancelled = TRUE => loop'[h].cancelled = TRUE),
             op'.pc = "launch" => op.pc = "launch",
             op'.phase = "start" /\
                 (op'.pc = "launch" \/ (op'.pc = "settle" /\ op'.outcome = "ok"))
               => op.phase = "start"
                    /\ (op.pc = "launch" \/ (op.pc = "settle" /\ op.outcome = "ok"))
      PROVE  CheckInv'
  BY <1>6, BesideKeepsChecks
<1>7. CASE Expire
  <2>1. op'.pc = op.pc /\ op'.phase = op.phase /\ op'.outcome = op.outcome
    BY <1>0, <1>7 DEF Expire, OpState
  <2>2. rec' = rec /\ loop' = loop
    BY <1>7 DEF Expire
  <2> QED
    BY <1>6, <2>1, <2>2
<1>8. ASSUME NEW pc, pc # "launch", pc # "settle", GoTo(pc)
      PROVE  op'.pc = pc
  BY <1>0, <1>8 DEF GoTo, OpState
<1>9. ASSUME NEW o, Settling(o)
      PROVE  op'.pc = "settle" /\ op'.outcome = o /\ op'.phase = op.phase
  BY <1>0, <1>9 DEF Settling, OpState
<1>10. CASE Backoff \/ BeginStart \/ BeginStartRefused \/ CheckStartHook
  <2>1. rec' \in {rec, Recorded(rec)} /\ loop' = loop
    BY <1>10 DEF Backoff, BeginStart, BeginStartRefused, CheckStartHook,
       StartHookSucceeds, StartHookFails
  <2>2. \/ op'.pc \in {"begin", "startHook", "backoff", "lower"}
        \/ op'.pc = "settle" /\ op'.outcome # "ok"
    BY <1>10, <1>8, <1>9, <1>a DEF Backoff, BeginStart, BeginStartRefused,
       CheckStartHook, StartHookSucceeds, StartHookFails, StartEnds
  <2> QED
    BY <1>6, <2>1, <2>2
<1>11. CASE Joined \/ WaitExpired \/ CleanupComplete \/ BeginCleanup \/ CleanupSucceeds
  <2>1. rec' \in {rec, Recorded(rec)} /\ loop' = loop
    BY <1>11 DEF Joined, WaitExpired, CleanupComplete, BeginCleanup, CleanupSucceeds
  <2>2. op.phase = "stop"
    BY <1>11, <1>p DEF Joined, WaitExpired, CleanupComplete, BeginCleanup,
       CleanupSucceeds, At
  <2>3. op'.pc \in {"cleanup", "hook"} \/ (op'.pc = "settle" /\ op'.phase = "stop")
    BY <1>11, <1>8, <1>9, <2>2 DEF Joined, WaitExpired, CleanupComplete,
       BeginCleanup, CleanupSucceeds
  <2> QED
    BY <1>6, <2>1, <2>3
<1>12. CASE BeginStop
  <2>1. rec' = rec /\ loop' = loop
    BY <1>12 DEF BeginStop
  <2>2. op'.pc \in {"cancel", "cleanup"}
    BY <1>0, <1>12, <1>8 DEF BeginStop, OpState
  <2> QED
    BY <1>6, <2>1, <2>2
<1>13. CASE Cancel
  <2>1. rec' = rec /\ op'.pc = "join"
    BY <1>13, <1>8 DEF Cancel
  <2>2. \A h \in Generation : loop'[h].pc = loop[h].pc
            /\ (loop[h].cancelled = TRUE => loop'[h].cancelled = TRUE)
    BY <1>0, <1>13 DEF Cancel, Loop
  <2> QED
    BY <1>6, <2>1, <2>2
<1> QED
  BY <1>1, <1>2, <1>3, <1>4, <1>5, <1>7, <1>10, <1>11, <1>12, <1>13
     DEF Operation, WorkerStep

\* Reports of handlers and the end of the loop goroutine keep it: they lower
\* readiness only with the worker leaving service (ReportFailure, runLoop).
LEMMA GoroutineKeepsChecks ==
    ASSUME CheckedInv, NEW g \in Generation, HandlerReports(g) \/ GoroutineStep(g),
           cfg' = cfg, check' = check
    PROVE  CheckInv'
<1>0. loop \in [Generation -> Loop]
  BY DEF CheckedInv, LoopTypeOK
<1>1. ASSUME NEW pc \in {"report", "cleanup", "hook", "finish", "close", "done"},
             LoopGoTo(g, pc)
      PROVE  \A h \in Generation :
                 /\ loop'[h].pc = loop[h].pc \/ loop'[h].pc \notin {"none", "running"}
                 /\ loop[h].cancelled = TRUE => loop'[h].cancelled = TRUE
  <2>1. loop'[g].pc = pc /\ loop'[g].cancelled = loop[g].cancelled
    BY <1>0, <1>1 DEF LoopGoTo, Loop
  <2>2. \A h \in Generation : h # g => loop'[h] = loop[h]
    BY <1>0, <1>1 DEF LoopGoTo
  <2> QED
    BY <2>1, <2>2
<1>2. CASE HandlerReports(g)
  <2>1. op' = op /\ loop' = loop
    BY <1>2 DEF HandlerReports
  <2>2. rec' = Reported(rec) /\ rec.lifecycle \in Reportable
    BY <1>2 DEF HandlerReports, HandleMayReport
  <2> QED
    BY <2>1, <2>2, BesideKeepsChecks
<1>3. CASE Report(g)
  <2>1. op' = op
    BY <1>3 DEF Report
  <2>2. rec' = rec \/ (rec' = Reported(rec) /\ rec.lifecycle \in Reportable)
    BY <1>3 DEF Report, HandleMayReport
  <2>3. LoopGoTo(g, "cleanup")
    BY <1>3 DEF Report
  <2> QED
    BY <1>1, <2>1, <2>2, <2>3, BesideKeepsChecks
<1>4. CASE Classify(g) \/ LoopBeginCleanup(g) \/ CleansUp(g) \/ FinishLoop(g) \/ CloseDone(g)
  <2>1. op' = op /\ rec' = rec
    BY <1>4 DEF Classify, LoopBeginCleanup, CleansUp, LoopCleanup, FinishLoop, CloseDone
  <2>2. PICK pc \in {"report", "hook", "finish", "close", "done"} : LoopGoTo(g, pc)
    BY <1>4 DEF Classify, LoopBeginCleanup, CleansUp, LoopCleanup, FinishLoop, CloseDone
  <2> QED
    BY <1>1, <2>1, <2>2, BesideKeepsChecks
<1> QED
  BY <1>2, <1>3, <1>4 DEF GoroutineStep

-----------------------------------------------------------------------------
(* What a check does to the invariant *)

\* A step of one check keeps the invariant when it keeps its own part of it: the
\* other checks and, for a loop that has been replaced, the record are left alone.
LEMMA OneCheckKeeps ==
    ASSUME CheckedInv, NEW g \in Generation, Others(g), cfg' = cfg,
           \A h \in Generation : h # g => loop'[h] = loop[h],
           CheckKnows(g)', Lowered', rec'.generation = rec.generation,
           rec.generation # g => rec' = rec,
           rec.generation = g => VerdictKept'
    PROVE  CheckInv'
<1>0. CheckInv
  BY DEF CheckedInv
<1>1. ASSUME NEW h \in Generation, h # g PROVE CheckKnows(h)'
  <2>1. CheckKnows(h) /\ check'[h] = check[h] /\ loop'[h] = loop[h]
    BY <1>0, <1>1 DEF CheckInv, ChecksKnow, Others
  <2> QED
    BY <2>1 DEF CheckKnows, InCheck
<1>2. ChecksKnow'
  BY <1>1 DEF ChecksKnow
<1>3. CASE rec.generation # g
  <2>1. rec' = rec
    BY <1>3
  <2>2. rec.generation \in Generation =>
            /\ check'[rec.generation] = check[rec.generation]
            /\ loop'[rec.generation] = loop[rec.generation]
    BY <1>3 DEF Others
  <2>3. VerdictKept'
    BY <1>0, <2>1, <2>2 DEF CheckInv, VerdictKept, Serviceable, CallsFor
  <2> QED
    BY <1>2, <2>3 DEF CheckInv
<1> QED
  BY <1>2, <1>3 DEF CheckInv

\* Delays, deadlines and the judgement of an answer keep it: readiness is what
\* the last check called for until the next one is applied (runCheckLoop,
\* runCheckLoopOnce).
LEMMA QuietCheckKeeps ==
    ASSUME CheckedInv, NEW g \in Generation,
           EnterLoop(g) \/ TimerFires(g) \/ CheckEnds(g) \/ DeadlinePasses(g)
    PROVE  CheckInv'
<1>0. /\ CheckInv /\ check[g] \in Check /\ check \in [Generation -> Check]
      /\ cfg.readyOnSuccess \in BOOLEAN /\ rec.ready \in BOOLEAN
      /\ loop[g].cancelled \in BOOLEAN
  BY DEF CheckedInv, CheckTypeOK, CheckLoopConfig, LoopTypeOK, WorkerState, Loop
<1>1. UNCHANGED vars /\ cfg' = cfg /\ loop[g].pc = "running"
  BY DEF EnterLoop, TimerFires, CheckEnds, CheckReturns, CheckPanics, DeadlinePasses, InCheck
<1>2. Others(g)
  BY CheckMoves DEF CheckedInv, CheckInternal
<1>3. rec' = rec /\ op' = op /\ loop' = loop
  BY <1>1 DEF vars
<1>4. Lowered'
  BY <1>0, <1>3 DEF CheckInv, Lowered
<1>5. ASSUME CheckKnows(g)', rec.generation = g => VerdictKept' PROVE CheckInv'
  BY <1>1, <1>2, <1>3, <1>4, <1>5, OneCheckKeeps
<1>6. CASE EnterLoop(g) \/ TimerFires(g) \/ DeadlinePasses(g)
  <2>1. /\ check[g].pc \in {"idle", "delay", "wait", "check"}
        /\ check'[g].pc \in {"delay", "wait", "check"} /\ check'[g].last = check[g].last
    BY <1>0, <1>6 DEF EnterLoop, TimerFires, DeadlinePasses, InCheck, CheckGoTo, Check
  <2>2. CheckKnows(g)'
    BY <1>1, <1>3, <2>1 DEF CheckKnows, InCheck
  <2>3. rec.generation = g => VerdictKept'
    BY <1>0, <1>1, <1>3, <2>1 DEF CheckInv, VerdictKept, Serviceable, CallsFor
  <2> QED
    BY <1>5, <2>2, <2>3
<1>7. CASE CheckReturns(g)
  <2>1. PICK verdict \in {"ready", "not_ready"} :
            /\ check'[g].outcome = Judged(g, verdict)
            /\ check'[g].pc = IF SetsReady(Judged(g, verdict)) THEN "apply" ELSE "end"
            /\ check'[g].late = check[g].late
    BY <1>0, <1>7 DEF CheckReturns, Check
  <2>2. check[g].pc = "check" /\ check[g].late \in BOOLEAN
    BY <1>0, <1>7 DEF CheckReturns, InCheck, Check
  <2>3. /\ check'[g].outcome = "canceled" => loop[g].cancelled = TRUE
        /\ check'[g].outcome = "ready" => check[g].late = FALSE
    BY <1>0, <2>1, <2>2 DEF Judged
  <2>4. check'[g].pc = "apply" =>
            cfg.readyOnSuccess = TRUE /\ check'[g].outcome \in Verdicts
    BY <1>0, <2>1 DEF SetsReady, Verdicts
  <2>5. /\ check'[g].pc \in {"apply", "end"}
        /\ check'[g].pc = "end" /\ check'[g].outcome \in Verdicts => ~ cfg.readyOnSuccess
    BY <2>1 DEF SetsReady, Verdicts
  <2>6. CheckKnows(g)'
    BY <1>1, <1>3, <2>1, <2>3, <2>4, <2>5 DEF CheckKnows, InCheck
  <2>7. rec.generation = g => VerdictKept'
    BY <1>0, <1>1, <1>3, <2>2, <2>5 DEF CheckInv, VerdictKept, Serviceable, CallsFor
  <2> QED
    BY <1>5, <2>6, <2>7
<1>8. CASE CheckPanics(g)
  <2>1. check'[g].pc = "end" /\ check'[g].outcome = "panic"
    BY <1>0, <1>8 DEF CheckPanics, Check
  <2>2. CheckKnows(g)'
    BY <1>1, <1>3, <2>1 DEF CheckKnows, InCheck
  <2>3. rec.generation = g => VerdictKept'
    BY <1>3, <2>1 DEF VerdictKept, Verdicts
  <2> QED
    BY <1>5, <2>2, <2>3
<1> QED
  BY <1>6, <1>7, <1>8 DEF CheckEnds

\* The worker is not in a start that has launched nothing while a loop of its
\* generation runs, so a check never raises what Start has just lowered.
LEMMA RunsAfterLaunch ==
    ASSUME CheckedInv, NEW g \in Generation, loop[g].pc = "running", rec.generation = g
    PROVE  op.pc # "launch"
  BY NothingLaunched DEF NoLoop

\* Applying a verdict keeps it: a signal that is accepted makes readiness what
\* the outcome calls for, and one that is refused makes the check an error
\* (runCheckLoopOnce, SetReady).
LEMMA ApplyKeepsChecks ==
    ASSUME CheckedInv, NEW g \in Generation, ApplyReady(g)
    PROVE  CheckInv'
<1>0. /\ CheckInv /\ check[g] \in Check /\ check \in [Generation -> Check]
      /\ rec \in WorkerState
  BY DEF CheckedInv, CheckTypeOK, LoopTypeOK
<1>1. /\ loop' = loop /\ op' = op /\ cfg' = cfg
      /\ check[g].pc = "apply" /\ loop[g].pc = "running"
  BY DEF ApplyReady, InCheck
<1>2. Others(g)
  BY CheckMoves DEF CheckedInv, CheckInternal
<1>3. cfg.readyOnSuccess = TRUE /\ check[g].outcome \in Verdicts
  BY <1>0, <1>1 DEF CheckInv, ChecksKnow, CheckKnows
<1>4. check'[g].pc = "end"
  BY <1>0 DEF ApplyReady, Check
<1>5. PICK b \in BOOLEAN : b = (check[g].outcome = "ready")
  OBVIOUS
<1>6. CASE HandleMay(rec, g, b)
  <2>1. rec' = ReadySet(rec, b) /\ rec.generation = g
    BY <1>5, <1>6, Zenon DEF ApplyReady, HandleMay
  <2>2. check'[g].outcome = check[g].outcome
    BY <1>0, <1>5, <1>6 DEF ApplyReady, Check
  <2>3. /\ rec'.ready = b /\ rec'.generation = rec.generation
        /\ rec'.lifecycle = rec.lifecycle
        /\ rec'.failureReportedDuringStart = rec.failureReportedDuringStart
        /\ rec.readySetDuringStart = TRUE => rec'.readySetDuringStart = TRUE
    BY <1>0, <2>1, SignalEffects
  <2>4. CheckKnows(g)'
    BY <1>1, <1>3, <1>4, <2>2 DEF CheckKnows, InCheck, Verdicts
  <2>5. Lowered'
    BY <1>0, <1>1, <2>1, <2>3, RunsAfterLaunch DEF CheckInv, Lowered
  <2>6. rec'.ready = TRUE <=> CallsFor(check'[g].outcome)
    BY <1>3, <1>5, <2>2, <2>3 DEF CallsFor
  <2>7. VerdictKept'
    BY <1>1, <1>4, <2>1, <2>3, <2>6 DEF VerdictKept, CallsFor
  <2> QED
    BY <1>1, <1>2, <2>1, <2>3, <2>4, <2>5, <2>7, OneCheckKeeps
<1>7. CASE ~ HandleMay(rec, g, b)
  <2>1. rec' = rec /\ check'[g].outcome = "error"
    BY <1>0, <1>5, <1>7 DEF ApplyReady, Check
  <2>2. CheckKnows(g)'
    BY <1>1, <1>4, <2>1 DEF CheckKnows, InCheck
  <2>3. Lowered'
    BY <1>0, <1>1, <2>1 DEF CheckInv, Lowered
  <2>4. rec.generation = g => VerdictKept'
    BY <1>4, <2>1 DEF VerdictKept, Verdicts
  <2> QED
    BY <1>1, <1>2, <2>1, <2>2, <2>3, <2>4, OneCheckKeeps
<1> QED
  BY <1>6, <1>7

\* The end of a check keeps it: its outcome is the last one when the loop goes on,
\* and the loop function has returned when it does not (runCheckLoopOnce).
LEMMA EndKeepsChecks ==
    ASSUME CheckedInv, NEW g \in Generation, EndCheck(g) \/ WaitCancelled(g)
    PROVE  CheckInv'
<1>0. /\ CheckInv /\ check[g] \in Check /\ check \in [Generation -> Check]
      /\ loop \in [Generation -> Loop] /\ loop[g] \in Loop
  BY DEF CheckedInv, CheckTypeOK, LoopTypeOK
<1>1. /\ rec' = rec /\ op' = op /\ cfg' = cfg /\ loop[g].pc = "running"
      /\ \A h \in Generation : h # g => loop'[h] = loop[h]
  BY <1>0 DEF EndCheck, WaitCancelled, Returns, InCheck, vars
<1>2. Others(g)
  BY CheckMoves DEF CheckedInv, CheckInternal
<1>3. Lowered'
  BY <1>0, <1>1 DEF CheckInv, Lowered
<1>4. ASSUME CheckKnows(g)', rec.generation = g => VerdictKept' PROVE CheckInv'
  BY <1>1, <1>2, <1>3, <1>4, OneCheckKeeps
<1>5. ASSUME NEW e, Returns(g, e), check'[g].pc = "idle" PROVE CheckInv'
  <2>1. loop'[g].pc = "exited"
    BY <1>0, <1>5 DEF Returns, Loop
  <2>2. CheckKnows(g)'
    BY <1>5, <2>1 DEF CheckKnows, InCheck
  <2>3. rec.generation = g => VerdictKept'
    BY <1>1, <2>1 DEF VerdictKept
  <2> QED
    BY <1>4, <2>2, <2>3
<1>6. CASE WaitCancelled(g)
  <2>1. Returns(g, "nil") /\ check'[g].pc = "idle"
    BY <1>0, <1>6 DEF WaitCancelled, Check
  <2> QED
    BY <1>5, <2>1
<1>7. CASE EndCheck(g) /\ ~ LoopContinues(check[g].outcome)
  <2>1. check'[g].pc = "idle"
    BY <1>0, <1>7 DEF EndCheck, Check
  <2>2. PICK e \in {"cancelled", "other"} : Returns(g, e)
    BY <1>7 DEF EndCheck
  <2> QED
    BY <1>5, <2>1, <2>2
<1>8. CASE EndCheck(g) /\ LoopContinues(check[g].outcome)
  <2>1. /\ check[g].pc = "end" /\ check[g].outcome \in Verdicts
        /\ check'[g].pc = "wait" /\ check'[g].last = check[g].outcome
    BY <1>0, <1>8 DEF EndCheck, InCheck, LoopContinues, Verdicts, Check
  <2>2. loop' = loop
    BY <1>8 DEF EndCheck, vars
  <2>3. CheckKnows(g)'
    BY <1>1, <2>1, <2>2 DEF CheckKnows, InCheck
  <2>4. rec.generation = g => VerdictKept'
    BY <1>0, <1>1, <2>1, <2>2 DEF CheckInv, VerdictKept, Serviceable, CallsFor
  <2> QED
    BY <1>4, <2>3, <2>4
<1> QED
  BY <1>6, <1>7, <1>8


-----------------------------------------------------------------------------
(* The theorems *)

\* The invariant holds from the construction on and through every step.
LEMMA CheckedInit == CheckInit => CheckedInv
<1>1. CheckInit => Init
  BY DEF CheckInit
<1> QED
  BY <1>1, CheckInitInv, LoopInitType, LoopInitInv, ServiceInit DEF CheckedInv

\* Every step keeps it: that the loop worker's part is kept follows from the
\* simulation (check_loop.go).
LEMMA CheckedStep == CheckedInv /\ [CheckNext]_checkVars => CheckedInv' /\ [Next]_vars
<1> SUFFICES ASSUME CheckedInv, [CheckNext]_checkVars PROVE CheckedInv' /\ [Next]_vars
  OBVIOUS
<1>1. [Next]_vars
  BY CheckSimulates DEF CheckedInv, CheckInv
<1>2. LoopTypeOK' /\ LoopInv' /\ ServiceInv' /\ CheckTypeOK'
  BY <1>1, LoopStepType, LoopStepInv, ServiceStep, CheckStepType DEF CheckedInv
<1>3. CheckInv'
  <2>1. CASE UNCHANGED checkVars
    BY <2>1 DEF checkVars, CheckedInv, CheckInv, ChecksKnow, CheckKnows, InCheck,
       Lowered, VerdictKept, Serviceable, CallsFor
  <2>2. CASE (Operation \/ WorkerStep) /\ UNCHANGED <<cfg, check>>
    BY <2>2, OperationKeepsChecks
  <2>3. ASSUME NEW g \in Generation, HandlerReports(g) \/ GoroutineStep(g),
               UNCHANGED <<cfg, check>>
        PROVE  CheckInv'
    BY <2>3, GoroutineKeepsChecks
  <2>4. ASSUME NEW g \in Generation,
               CheckInternal(g) \/ CheckEnds(g) \/ WaitCancelled(g) \/ DeadlinePasses(g)
        PROVE  CheckInv'
    BY <2>4, QuietCheckKeeps, ApplyKeepsChecks, EndKeepsChecks DEF CheckInternal
  <2> QED
    BY <2>1, <2>2, <2>3, <2>4 DEF CheckNext
<1> QED
  BY <1>1, <1>2, <1>3 DEF CheckedInv

\* The checks and the worker around them agree in every state, for any number of
\* restarts and any configuration.
LEMMA CheckInvariant == CheckSpec => []CheckedInv
<1>1. CheckedInv /\ [CheckNext]_checkVars => CheckedInv'
  BY CheckedStep
<1> QED
  BY <1>1, CheckedInit, PTL DEF CheckSpec

\* A check loop is a loop worker: every behaviour of runCheckLoop under the runtime
\* is one of LoopWorker, so what is proved of loop functions holds of this one.
THEOREM CheckLoopIsLoopWorker == CheckSpec => Spec
<1>1. CheckInit => Init
  BY DEF CheckInit
<1>2. CheckedInv /\ [CheckNext]_checkVars => [Next]_vars
  BY CheckedStep
<1> QED
  BY <1>1, <1>2, CheckInvariant, PTL DEF CheckSpec, Spec

\* While the worker is in service its readiness is what the last check said, never
\* a leftover of the defaults, the start or an earlier generation
\* (runCheckLoopOnce, completeWorkerStart).
THEOREM ReadinessIsTheVerdict == CheckSpec => []ReadinessIsLastVerdict
<1>1. CheckedInv => ReadinessIsLastVerdict
  <2> SUFFICES ASSUME CheckedInv, NEW g \in Generation,
                      rec.generation = g, rec.lifecycle = "running",
                      loop[g].pc = "running",
                      check[g].pc \in {"idle", "delay", "wait", "check"}
               PROVE  rec.ready = (cfg.readyOnSuccess /\ check[g].last = "ready")
    BY DEF ReadinessIsLastVerdict
  <2>1. rec.ready = TRUE <=> CallsFor(check[g].last)
    BY DEF CheckedInv, CheckInv, VerdictKept, Serviceable
  <2>2. rec.ready \in BOOLEAN
    BY DEF CheckedInv, LoopTypeOK, WorkerState
  <2> QED
    BY <2>1, <2>2 DEF CallsFor
<1> QED
  BY <1>1, CheckInvariant, PTL

\* Readiness rises only by a check of the current generation that answered ready
\* before its deadline; no start, restart or late answer raises it
\* (WithCheckTimeout, runCheckLoopOnce).
THEOREM OnlyTimelyRaise == CheckSpec => OnlyTimelyResultsRaise
<1>1. CheckedInv /\ [CheckNext]_checkVars =>
          [ ~ rec.ready /\ rec'.ready =>
              /\ check[rec.generation].pc = "apply"
              /\ check[rec.generation].outcome = "ready"
              /\ ~ check[rec.generation].late ]_checkVars
  <2> SUFFICES ASSUME CheckedInv, CheckNext, ~ rec.ready, rec'.ready
               PROVE  /\ check[rec.generation].pc = "apply"
                      /\ check[rec.generation].outcome = "ready"
                      /\ ~ check[rec.generation].late
    OBVIOUS
  <2>0. rec \in WorkerState /\ CheckInv /\ rec.ready \in BOOLEAN
    BY DEF CheckedInv, LoopTypeOK, WorkerState
  <2>1. ~ (Operation \/ WorkerStep)
    <3>1. CASE RuntimeStart \/ RuntimeStop \/ RuntimeDrain
      BY <2>0, <3>1 DEF RuntimeStart, RuntimeStop, RuntimeDrain, BegunStart, BegunStop,
         Drained, WorkerState
    <3>2. CASE SignalReady
      <4>1. AutoReady = FALSE
        BY CheckLoopAssumption, LoopAssumption DEF CheckLoopAssumption, LoopAssumption
      <4>2. rec' = ReadySet(rec, FALSE)
        BY <3>2, <4>1 DEF SignalReady
      <4> QED
        BY <2>0, <4>2, SignalEffects
    <3>3. CASE Settle
      <4>1. CASE op.outcome = "ok" /\ op.phase = "start"
        <5>1. rec' = CompletedStart(Self, rec)
          BY <3>3, <4>1 DEF Settle
        <5>2. rec.failureReportedDuringStart = TRUE \/ rec.readySetDuringStart = TRUE
          BY <2>0, <3>3, <4>1 DEF Settle, At, CheckInv, Lowered
        <5>3. rec.failureReportedDuringStart \in BOOLEAN
          BY <2>0 DEF WorkerState
        <5> QED
          BY <2>0, <5>1, <5>2, <5>3, StartReadiness
      <4>2. CASE ~ (op.outcome = "ok" /\ op.phase = "start")
        <5>1. op.phase \in {"start", "stop"} /\ op.outcome \in {"ok", "failed", "panic", "cleanup"}
          BY DEF CheckedInv, LoopTypeOK, OpState
        <5>2. rec' \in {CompletedStop(rec), CleanupFailed(rec), Failed(rec)}
          BY <3>3, <4>2, <5>1 DEF Settle
        <5> QED
          BY <2>0, <5>2 DEF CompletedStop, CleanupFailed, Failed, WorkerState
      <4> QED
        BY <4>1, <4>2
    <3>4. ASSUME rec' \in {rec, Recorded(rec)} PROVE FALSE
      BY <2>0, <3>4, RecordingEffects
    <3>5. CASE Expire \/ Backoff \/ BeginStart \/ BeginStartRefused \/ CheckStartHook
      BY <3>4, <3>5 DEF Expire, Backoff, BeginStart, BeginStartRefused, CheckStartHook,
         StartHookSucceeds, StartHookFails
    <3>6. CASE \/ Launch \/ BeginStop \/ Cancel \/ Joined \/ WaitExpired
               \/ CleanupComplete \/ BeginCleanup \/ CleanupSucceeds
      BY <3>4, <3>6 DEF Launch, BeginStop, Cancel, Joined, WaitExpired, CleanupComplete,
         BeginCleanup, CleanupSucceeds
    <3> QED
      BY <3>1, <3>2, <3>3, <3>5, <3>6 DEF Operation, WorkerStep
  <2>2. ASSUME NEW g \in Generation, HandlerReports(g) \/ GoroutineStep(g) PROVE FALSE
    <3>1. rec' = rec \/ rec' = Reported(rec)
      BY <2>2 DEF HandlerReports, GoroutineStep, Classify, Report, LoopBeginCleanup,
         CleansUp, LoopCleanup, FinishLoop, CloseDone
    <3> QED
      BY <2>0, <3>1, SignalEffects
  <2>3. ASSUME NEW g \in Generation, CheckInternal(g) \/ CheckEnds(g) \/ WaitCancelled(g)
                  \/ DeadlinePasses(g), ~ ApplyReady(g)
        PROVE  FALSE
    BY <2>3 DEF CheckInternal, EnterLoop, TimerFires, EndCheck, CheckEnds, CheckReturns,
       CheckPanics, WaitCancelled, DeadlinePasses, Returns, vars
  <2>4. PICK g \in Generation : ApplyReady(g)
    BY <2>1, <2>2, <2>3 DEF CheckNext
  <2>5. PICK b \in BOOLEAN : b = (check[g].outcome = "ready")
    OBVIOUS
  <2>6. HandleMay(rec, g, b) /\ rec' = ReadySet(rec, b)
    BY <2>4, <2>5, Zenon DEF ApplyReady
  <2>7. b = TRUE /\ rec.generation = g
    BY <2>0, <2>6, SignalEffects DEF HandleMay
  <2>8. check[g].pc = "apply" /\ check[g].outcome = "ready"
    BY <2>4, <2>5, <2>7 DEF ApplyReady, InCheck
  <2> QED
    BY <2>0, <2>7, <2>8 DEF CheckInv, ChecksKnow, CheckKnows
<1> QED
  BY <1>1, CheckInvariant, PTL DEF CheckSpec, OnlyTimelyResultsRaise
=============================================================================
